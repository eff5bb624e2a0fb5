------------------------- MODULE JobRequestsProofs --------------------------
(***************************************************************************)
(* What a request for a job may rely on, proved for any number of clients, *)
(* keys, variants and jobs.  All of it rests on the numbers of the jobs:   *)
(* the one that is inserted is new, so that a request whose job has been   *)
(* deleted never takes the next job of the key for its own.                *)
(***************************************************************************)
EXTENDS JobRequests, TLAPS

(* The program counters of a request that has inserted, or found, its job *)
Working == {"resolve", "fail", "complete"}
Holding == Working \cup {"read", "answered"}

Holds(c) == request[c].pc \in Holding

(* Jobs are numbered up to made, and no number is used twice *)
Numbered ==
  /\ \A k \in Keys : Has(k) => table[k].job <= made /\ table[k].job \notin gone
  /\ \A k, l \in Keys : k # l /\ Has(k) => table[k].job # table[l].job
  /\ \A j \in gone : j <= made

(* The job of a request still has its key, or has been deleted *)
Traced == \A c \in Clients : Holds(c) =>
  /\ request[c].job # NoJob /\ request[c].job <= made
  /\ RowOf(c).job = request[c].job \/ request[c].job \in gone

(* ... and has been asked for in the same way, but for one race *)
Fits == \A c \in Clients :
  /\ Holds(c) /\ RowOf(c).job = request[c].job
  /\ ~request[c].raced \/ request[c].params.action = "info"
  => RowOf(c).params = request[c].params

(* A job that is resolved by a request is resolved by no other *)
Alone == \A c, d \in Clients :
  c # d /\ request[c].pc \in Working /\ request[d].pc \in Working => request[c].job # request[d].job

Inv ==
  /\ TypeOK
  /\ Numbered
  /\ Traced
  /\ Fits
  /\ ResolvingIsUndisturbed
  /\ Alone

-----------------------------------------------------------------------------
(* Types *)

LEMMA RequestTypes ==
  ASSUME TypeOK, NEW c \in Clients, request[c].pc # "idle"
  PROVE  request[c] \in Request
BY DEF TypeOK, Idle

LEMMA RowTypes ==
  ASSUME TypeOK, NEW k \in Keys, Has(k)
  PROVE  table[k] \in Row
BY DEF TypeOK, Has, NoRow

(* A request that is not idle goes on, with a program counter of its own *)
LEMMA GotoTypes ==
  ASSUME TypeOK, NEW c \in Clients, request[c].pc # "idle",
         NEW pc \in {"find", "insert", "again", "resolve", "fail", "complete", "read", "answered"},
         Goto(c, pc)
  PROVE  request' \in [Clients -> Request \cup {Idle}]
<1>1. request[c] \in Request  BY RequestTypes
<1>2. [request[c] EXCEPT !.pc = pc] \in Request  BY <1>1 DEF Request
<1> QED  BY <1>2 DEF Goto, TypeOK

LEMMA RefuseTypes ==
  ASSUME TypeOK, NEW c \in Clients, Refuse(c)
  PROVE  request' \in [Clients -> Request \cup {Idle}]
BY DEF TypeOK, Refuse

LEMMA TakeTypes ==
  ASSUME TypeOK, NEW c \in Clients, request[c].pc # "idle", NEW raced \in BOOLEAN,
         Has(request[c].key), Take(c, raced)
  PROVE  request' \in [Clients -> Request \cup {Idle}]
<1>1. request[c] \in Request  BY RequestTypes
<1>2. RowOf(c) \in Row  BY <1>1, RowTypes DEF RowOf, Request
<1> DEFINE new == [request[c] EXCEPT !.pc = IF RowOf(c).status = "completed" THEN "read" ELSE "answered",
                                     !.job = RowOf(c).job, !.raced = raced]
<1>3. new \in Request  BY <1>1, <1>2 DEF Request, Row
<1>4. request' = [request EXCEPT ![c] = new]  BY DEF Take
<1> QED  BY <1>3, <1>4 DEF TypeOK

LEMMA SetTypes ==
  ASSUME TypeOK, NEW k \in Keys, Has(k), NEW status \in Statuses, NEW leased \in BOOLEAN, Set(k, status, leased)
  PROVE  table' \in [Keys -> Row \cup {NoRow}]
<1>1. table[k] \in Row  BY RowTypes
<1>2. [table[k] EXCEPT !.status = status, !.leased = leased] \in Row  BY <1>1 DEF Row
<1> QED  BY <1>2 DEF Set, TypeOK

LEMMA SetStatusTypes ==
  ASSUME TypeOK, NEW c \in Clients, request[c].pc # "idle", IsMine(c), NEW status \in Statuses, SetStatus(c, status)
  PROVE  table' \in [Keys -> Row \cup {NoRow}]
<1>1. request[c].key \in Keys  BY RequestTypes DEF Request
<1>2. table[request[c].key] \in Row  BY <1>1, RowTypes DEF IsMine
<1>3. [table[request[c].key] EXCEPT !.status = status] \in Row  BY <1>2 DEF Row
<1> QED  BY <1>1, <1>3 DEF SetStatus, TypeOK

(* The row that is inserted *)
NewRow(c, left) ==
  [job |-> made + 1, params |-> request[c].params, leased |-> FALSE, left |-> left,
   status |-> IF request[c].params.action = "info" THEN "resolving" ELSE "queued"]

LEMMA InsertedTypes ==
  ASSUME TypeOK, NEW c \in Clients, request[c].pc # "idle", made < MaxJobs, NEW left \in {"no", "cut"}
  PROVE  /\ NewRow(c, left) \in Row
         /\ made + 1 \in JobNumbers
         /\ Inserted(c, left) = [table EXCEPT ![request[c].key] = NewRow(c, left)]
<1>1. request[c] \in Request  BY RequestTypes
<1>2. made + 1 \in JobNumbers \ {NoJob}  BY BoundAssumption DEF TypeOK, JobNumbers, NoJob
<1> QED  BY <1>1, <1>2 DEF NewRow, Row, Request, Params, Actions, Statuses, Inserted

LEMMA TypesAreKept == TypeOK /\ [Next]_vars => TypeOK'
<1> SUFFICES ASSUME TypeOK, [Next]_vars PROVE TypeOK'
  OBVIOUS
<1>1. ASSUME NEW c \in Clients, Send(c) PROVE TypeOK'
  <2>1. PICK k \in Keys, params \in Params :
          request' = [request EXCEPT ![c] = [pc |-> "find", key |-> k, params |-> params, job |-> NoJob, raced |-> FALSE]]
    BY <1>1 DEF Send
  <2>2. [pc |-> "find", key |-> k, params |-> params, job |-> NoJob, raced |-> FALSE] \in Request
    BY BoundAssumption DEF Request, JobNumbers, NoJob
  <2> QED  BY <1>1, <2>1, <2>2 DEF Send, TypeOK
<1>2. ASSUME NEW c \in Clients, Find(c) PROVE TypeOK'
  <2>1. request[c].pc # "idle"  BY <1>2 DEF Find, At
  <2> QED  BY <1>2, <2>1, GotoTypes, TakeTypes, RefuseTypes DEF Find, Reuse, TypeOK
<1>3. ASSUME NEW c \in Clients, Create(c) PROVE TypeOK'
  <2>1. request[c].pc # "idle" /\ request[c] \in Request  BY <1>3, RequestTypes DEF Create, At
  <2>2. table' \in [Keys -> Row \cup {NoRow}] /\ made' \in JobNumbers
    BY <1>3, <2>1, InsertedTypes DEF Create, Insert, TypeOK
  <2> DEFINE new == [request[c] EXCEPT !.pc = IF request[c].params.action = "info" THEN "resolve" ELSE "read",
                                       !.job = made + 1]
  <2>3. new \in Request  BY <1>3, <2>1, InsertedTypes DEF Create, Request
  <2>4. request' = [request EXCEPT ![c] = new]  BY <1>3 DEF Create, Insert
  <2> QED  BY <1>3, <2>2, <2>3, <2>4 DEF Create, Insert, TypeOK
<1>4. ASSUME NEW c \in Clients, CreateFails(c) PROVE TypeOK'
  <2>1. request[c].pc # "idle"  BY <1>4 DEF CreateFails, At
  <2> QED  BY <1>4, <2>1, GotoTypes DEF CreateFails, TypeOK
<1>5. ASSUME NEW c \in Clients, FindAgain(c) PROVE TypeOK'
  <2>1. request[c].pc # "idle"  BY <1>5 DEF FindAgain, At
  <2> QED  BY <1>5, <2>1, TakeTypes, RefuseTypes DEF FindAgain, Reuse, TypeOK
<1>6. ASSUME NEW c \in Clients, Resolve(c) PROVE TypeOK'
  <2>1. request[c].pc # "idle"  BY <1>6 DEF Resolve, At
  <2> QED  BY <1>6, <2>1, GotoTypes DEF Resolve, TypeOK
<1>7. ASSUME NEW c \in Clients, Fail(c) PROVE TypeOK'
  <2>1. request[c].pc # "idle"  BY <1>7 DEF Fail, At
  <2>2. table' \in [Keys -> Row \cup {NoRow}]
    BY <1>7, <2>1, SetStatusTypes DEF Fail, TypeOK, Statuses
  <2> QED  BY <1>7, <2>1, <2>2, GotoTypes, RefuseTypes DEF Fail, TypeOK
<1>8. ASSUME NEW c \in Clients, CompleteInfo(c) PROVE TypeOK'
  <2>1. request[c].pc # "idle"  BY <1>8 DEF CompleteInfo, At
  <2>2. table' \in [Keys -> Row \cup {NoRow}]
    BY <1>8, <2>1, SetStatusTypes DEF CompleteInfo, TypeOK, Statuses
  <2> QED  BY <1>8, <2>1, <2>2, GotoTypes, RefuseTypes DEF CompleteInfo, TypeOK
<1>9. ASSUME NEW c \in Clients, Read(c) PROVE TypeOK'
  <2>1. request[c].pc # "idle"  BY <1>9 DEF Read, At
  <2> QED  BY <1>9, <2>1, GotoTypes, RefuseTypes DEF Read, TypeOK
<1>10. ASSUME NEW c \in Clients, Leave(c) PROVE TypeOK'
  BY <1>10, RefuseTypes DEF Leave, TypeOK
<1>11. ASSUME NEW c \in Clients, Cut(c) \/ CompleteShell(c) PROVE TypeOK'
  <2>1. request[c].pc # "idle" /\ request[c] \in Request
    BY <1>11, RequestTypes DEF Cut, CompleteShell, At
  <2>2. \A left \in {"cut", "shell"} : IsMine(c) => [table[request[c].key] EXCEPT !.left = left] \in Row
    BY <2>1, RowTypes DEF IsMine, Request, Row
  <2>3. table' \in [Keys -> Row \cup {NoRow}]
    BY <1>11, <2>2 DEF Cut, CompleteShell, Strand, TypeOK
  <2> QED  BY <1>11, <2>3, RefuseTypes DEF Cut, CompleteShell, TypeOK
<1>12. ASSUME NEW c \in Clients, CutInsert(c) PROVE TypeOK'
  <2>1. request[c].pc # "idle" /\ request[c] \in Request  BY <1>12, RequestTypes DEF CutInsert, At
  <2> DEFINE new == NewRow(c, IF request[c].params.action = "info" THEN "cut" ELSE "no")
  <2>2. new \in Row /\ made + 1 \in JobNumbers
    BY <1>12, <2>1, InsertedTypes DEF CutInsert
  <2>3. table' = [table EXCEPT ![request[c].key] = new]
    BY <1>12 DEF CutInsert, Inserted, NewRow
  <2> QED  BY <1>12, <2>2, <2>3, RefuseTypes DEF CutInsert, TypeOK
<1>13. ASSUME Crash PROVE TypeOK'
  <2>1. ASSUME NEW k \in Keys, Has(k) PROVE [table[k] EXCEPT !.left = "cut"] \in Row
    BY <2>1, RowTypes DEF Row
  <2> QED  BY <1>13, <2>1 DEF Crash, TypeOK
<1>14. ASSUME NEW k \in Keys, Claim(k) \/ Done(k) \/ Cancel(k) \/ Retry(k) PROVE TypeOK'
  BY <1>14, SetTypes DEF Claim, Done, Cancel, Retry, TypeOK, Statuses
<1>15. ASSUME NEW k \in Keys, Delete(k) PROVE TypeOK'
  <2>1. table[k].job \in JobNumbers  BY <1>15, RowTypes DEF Delete, Row
  <2> QED  BY <1>15, <2>1 DEF Delete, TypeOK
<1>16. CASE UNCHANGED vars
  BY <1>16 DEF vars, TypeOK
<1> QED
  BY <1>1, <1>2, <1>3, <1>4, <1>5, <1>6, <1>7, <1>8, <1>9, <1>10, <1>11, <1>12, <1>13, <1>14, <1>15, <1>16
  DEF Next, Serving

-----------------------------------------------------------------------------
(* Steps *)

(* What a step may make of a request: it holds no job, or holds what it    *)
(* held, or has found the job of its key and compared it (FindAgain of a   *)
(* job that is not info does not, but then it has raced).                  *)
Onward(c) ==
  \/ ~Holds(c)'
  \/ /\ Holds(c)
     /\ request'[c].key = request[c].key /\ request'[c].job = request[c].job
     /\ request'[c].params = request[c].params /\ request'[c].raced = request[c].raced
     /\ request'[c].pc \in Working => request[c].pc \in Working
  \/ /\ request'[c].pc \in Holding \ Working
     /\ Has(request'[c].key) /\ request'[c].job = table[request'[c].key].job
     /\ ~request'[c].raced \/ request'[c].params.action = "info"
          => table[request'[c].key].params = request'[c].params

(* What a step that neither inserts nor deletes makes of a row *)
RowKept(k) ==
  /\ table'[k].job = table[k].job
  /\ Has(k) => table'[k].params = table[k].params

Undisturbed(c) ==
  request'[c].pc \in Working =>
    /\ table'[request[c].key].status = table[request[c].key].status
    /\ table'[request[c].key].leased = table[request[c].key].leased

Quiet ==
  /\ made' = made /\ gone' = gone
  /\ \A c \in Clients : Onward(c) /\ Undisturbed(c)
  /\ \A k \in Keys : RowKept(k)

(* A request that holds a job has a key *)
LEMMA Held ==
  ASSUME TypeOK, NEW c \in Clients, Holds(c)
  PROVE  request[c] \in Request /\ request[c].key \in Keys /\ request[c].job \in JobNumbers
<1>1. request[c].pc # "idle"  BY DEF Holds, Holding, Working
<1> QED  BY <1>1, RequestTypes DEF Request

LEMMA QuietSteps ==
  ASSUME Inv, TypeOK', Quiet
  PROVE  Inv'
<1>1. \A k \in Keys : table'[k].job = table[k].job /\ (Has(k)' <=> Has(k))
  BY DEF Quiet, RowKept, Has
<1>2. Numbered'
  BY <1>1 DEF Inv, Numbered, Quiet
<1>3. ASSUME NEW c \in Clients, Holds(c)'
      PROVE  /\ request'[c].job # NoJob /\ request'[c].job <= made
             /\ table'[request'[c].key].job = request'[c].job \/ request'[c].job \in gone
             /\ /\ table'[request'[c].key].job = request'[c].job
                /\ ~request'[c].raced \/ request'[c].params.action = "info"
                => table'[request'[c].key].params = request'[c].params
             /\ request'[c].pc \in Working =>
                  /\ request[c].pc \in Working
                  /\ request'[c].key = request[c].key /\ request'[c].job = request[c].job
  <2>1. request'[c].key \in Keys  BY <1>3 DEF TypeOK, Request, Idle, Holds, Holding, Working
  <2>2. CASE Holds(c) /\ request'[c].key = request[c].key /\ request'[c].job = request[c].job
             /\ request'[c].params = request[c].params /\ request'[c].raced = request[c].raced
             /\ (request'[c].pc \in Working => request[c].pc \in Working)
    <3>1. table'[request[c].key].job = request[c].job => Has(request[c].key)
      BY <1>1, <2>1, <2>2 DEF Inv, Traced, Has
    <3> QED  BY <1>1, <2>1, <2>2, <3>1 DEF Inv, Traced, Fits, Quiet, RowKept, RowOf
  <2>3. CASE /\ request'[c].pc \in Holding \ Working
             /\ Has(request'[c].key) /\ request'[c].job = table[request'[c].key].job
             /\ ~request'[c].raced \/ request'[c].params.action = "info"
                  => table[request'[c].key].params = request'[c].params
    BY <1>1, <2>1, <2>3 DEF Inv, Numbered, Quiet, RowKept, Has
  <2> QED  BY <1>3, <2>2, <2>3 DEF Quiet, Onward
<1>4. Traced' /\ Fits'
  BY <1>3 DEF Traced, Fits, Quiet, RowOf, Holds
<1>5. Alone'
  BY <1>3 DEF Inv, Alone, Holds, Holding
<1>6. ResolvingIsUndisturbed'
  <2> SUFFICES ASSUME NEW c \in Clients, request'[c].pc \in Working
               PROVE  IsMine(c)' /\ table'[request'[c].key].status = "resolving" /\ ~table'[request'[c].key].leased
    BY DEF ResolvingIsUndisturbed, Working, RowOf
  <2>1. Holds(c)'  BY DEF Holds, Holding
  <2>2. request[c].pc \in Working /\ request'[c].key = request[c].key /\ request'[c].job = request[c].job
    BY <1>3, <2>1
  <2>3. request[c].key \in Keys  BY <2>2, Held DEF Inv, Holds, Holding
  <2>4. IsMine(c) /\ RowOf(c).status = "resolving" /\ ~RowOf(c).leased
    BY <2>2 DEF Inv, ResolvingIsUndisturbed, Working
  <2>5. Undisturbed(c)  BY DEF Quiet
  <2> QED  BY <1>1, <2>2, <2>3, <2>4, <2>5 DEF Undisturbed, IsMine, RowOf, Has
<1> QED  BY <1>2, <1>4, <1>5, <1>6 DEF Inv

(* A job that is inserted is new: no request holds it, and it is not gone *)
LEMMA InsertSteps ==
  ASSUME Inv, TypeOK', NEW c \in Clients, At(c, "insert"), ~Has(request[c].key), NEW left \in {"no", "cut"},
         table' = Inserted(c, left), made' = made + 1, gone' = gone,
         \A d \in Clients \ {c} : request'[d] = request[d],
         \/ ~Holds(c)'
         \/ /\ request'[c].key = request[c].key /\ request'[c].params = request[c].params
            /\ request'[c].job = made + 1
            /\ request'[c].pc \in Working => request[c].params.action = "info"
  PROVE  Inv'
<1> DEFINE key == request[c].key
<1>1. key \in Keys /\ made \in Nat /\ gone \subseteq Nat /\ table \in [Keys -> Row \cup {NoRow}]
  BY BoundAssumption, RequestTypes DEF Inv, TypeOK, At, Request, JobNumbers
<1>2. /\ \A k \in Keys \ {key} : table'[k] = table[k]
      /\ table'[key].job = made + 1 /\ table'[key].params = request[c].params /\ ~table'[key].leased
      /\ request[c].params.action = "info" => table'[key].status = "resolving"
  BY <1>1 DEF Inserted
<1>3. table[key].job = NoJob
  BY DEF Has
<1>4. Numbered'
  <2>1. \A k \in Keys \ {key} : (Has(k)' <=> Has(k)) /\ (Has(k) => table[k].job <= made /\ table[k].job \notin gone)
    BY <1>2 DEF Inv, Numbered, Has
  <2>2. \A j \in gone : j <= made
    BY DEF Inv, Numbered
  <2>3. \A k \in Keys : Has(k)' => table'[k].job <= made' /\ table'[k].job \notin gone'
    <3>1. ASSUME NEW k \in Keys \ {key}, Has(k) PROVE table[k].job \in Nat /\ table[k].job <= made'
      BY <1>1, <2>1, <3>1, RowTypes, BoundAssumption DEF Inv, Row, JobNumbers
    <3> QED  BY <1>1, <1>2, <2>1, <2>2, <3>1
  <2>4. \A k, l \in Keys : k # l /\ Has(k)' => table'[k].job # table'[l].job
    <3>1. \A k \in Keys \ {key} : table[k].job # made + 1
      BY <1>1, <2>1 DEF Has, NoJob
    <3>2. \A k, l \in Keys : k # l /\ Has(k) => table[k].job # table[l].job
      BY DEF Inv, Numbered
    <3> QED  BY <1>1, <1>2, <2>1, <3>1, <3>2
  <2>5. \A j \in gone' : j <= made'
    <3>1. \A j \in gone : j \in Nat  BY <1>1
    <3> QED  BY <1>1, <2>2, <3>1
  <2> QED  BY <2>3, <2>4, <2>5 DEF Numbered
<1>5. ASSUME NEW d \in Clients \ {c}, Holds(d)
      PROVE  /\ request[d].key \in Keys /\ request[d].job \in Nat /\ request[d].job <= made
             /\ table'[request[d].key].job = request[d].job \/ request[d].job \in gone
             /\ table'[request[d].key].job = request[d].job => request[d].key # key
             /\ request[d].pc \in Working => request[d].key # key
  <2>1. request[d].key \in Keys /\ request[d].job \in Nat
    BY <1>5, Held, BoundAssumption DEF Inv, JobNumbers
  <2>2. request[d].job # NoJob /\ request[d].job <= made /\ (RowOf(d).job = request[d].job \/ request[d].job \in gone)
    BY <1>5 DEF Inv, Traced
  <2>3. request[d].pc \in Working => IsMine(d)
    BY DEF Inv, ResolvingIsUndisturbed, Working
  <2> QED  BY <1>1, <1>2, <1>3, <2>1, <2>2, <2>3 DEF RowOf, IsMine, Has
<1>6. Traced'
  BY <1>1, <1>2, <1>5 DEF Inv, Traced, RowOf, Holds, NoJob
<1>7. Fits'
  <2> SUFFICES ASSUME NEW d \in Clients, Holds(d)', table'[request'[d].key].job = request'[d].job,
                      ~request'[d].raced \/ request'[d].params.action = "info"
               PROVE  table'[request'[d].key].params = request'[d].params
    BY DEF Fits, RowOf
  <2>1. CASE d = c
    BY <1>2, <2>1
  <2>2. CASE d # c
    <3>1. request'[d] = request[d] /\ Holds(d)  BY <2>2 DEF Holds
    <3> QED  BY <1>2, <1>5, <2>2, <3>1 DEF Inv, Fits, RowOf
  <2> QED  BY <2>1, <2>2
<1>8. ResolvingIsUndisturbed'
  <2> SUFFICES ASSUME NEW d \in Clients, request'[d].pc \in Working
               PROVE  /\ table'[request'[d].key].job # NoJob /\ table'[request'[d].key].job = request'[d].job
                      /\ table'[request'[d].key].status = "resolving" /\ ~table'[request'[d].key].leased
    BY DEF ResolvingIsUndisturbed, Working, RowOf, IsMine, Has
  <2>1. CASE d = c
    BY <1>1, <1>2, <2>1 DEF NoJob, Holds, Holding
  <2>2. CASE d # c
    <3>1. request'[d] = request[d] /\ request[d].pc \in Working  BY <2>2
    <3>2. IsMine(d) /\ RowOf(d).status = "resolving" /\ ~RowOf(d).leased
      BY <3>1 DEF Inv, ResolvingIsUndisturbed, Working
    <3> QED  BY <1>2, <1>5, <2>2, <3>1, <3>2 DEF IsMine, RowOf, Has, Holds, Holding
  <2> QED  BY <2>1, <2>2
<1>9. Alone'
  BY <1>1, <1>5 DEF Inv, Alone, Holds, Holding
<1> QED  BY <1>4, <1>6, <1>7, <1>8, <1>9 DEF Inv

(* A job that is deleted is gone, and no request was resolving it *)
LEMMA DeleteSteps ==
  ASSUME Inv, TypeOK', NEW k \in Keys, Delete(k)
  PROVE  Inv'
<1>1. /\ table' = [table EXCEPT ![k] = NoRow] /\ gone' = gone \cup {table[k].job}
      /\ made' = made /\ request' = request /\ Has(k) /\ table[k].status \in {"completed", "failed"}
  BY DEF Delete
<1>2. table[k].job \in Nat /\ table[k].job # NoJob /\ table \in [Keys -> Row \cup {NoRow}]
  BY <1>1, RowTypes, BoundAssumption DEF Inv, Row, TypeOK, JobNumbers
<1>3. \A c \in Clients : Holds(c) => request[c].key \in Keys
  BY Held DEF Inv
<1>4. Numbered'
  <2> SUFFICES ASSUME NEW l \in Keys, Has(l)' PROVE l # k /\ table[l].job <= made /\ table[l].job \notin gone /\ table[l].job # table[k].job
    BY <1>1, <1>2 DEF Inv, Numbered, Has, NoRow
  <2> QED  BY <1>1, <1>2 DEF Inv, Numbered, Has, NoRow
<1>5. Traced'
  BY <1>1, <1>2, <1>3 DEF Inv, Traced, RowOf, Holds
<1>6. Fits'
  BY <1>1, <1>2, <1>3 DEF Inv, Fits, Traced, RowOf, Holds, NoRow
<1>7. ResolvingIsUndisturbed'
  BY <1>1, <1>2, <1>3 DEF Inv, ResolvingIsUndisturbed, IsMine, RowOf, Has, Holds, Holding, Working
<1>8. Alone'
  BY <1>1 DEF Inv, Alone
<1> QED  BY <1>4, <1>5, <1>6, <1>7, <1>8 DEF Inv

-----------------------------------------------------------------------------
(* The invariant *)

(* A request that only moves, or is refused *)
LEMMA Moves ==
  ASSUME Inv, TypeOK', NEW c \in Clients, request[c].pc # "idle", UNCHANGED <<table, made, gone>>,
         \/ Refuse(c)
         \/ \E pc \in {"insert", "again"} : Goto(c, pc)
         \/ Holds(c) /\ \E pc \in Holding \ Working : Goto(c, pc)
         \/ request[c].pc \in Working /\ \E pc \in Working : Goto(c, pc)
  PROVE  Quiet
<1>1. request[c] \in Request  BY RequestTypes DEF Inv
<1>2. \A d \in Clients \ {c} : request'[d] = request[d]
  BY DEF Inv, TypeOK, Goto, Refuse
<1>3. Onward(c)
  <2>1. CASE Refuse(c)
    BY <2>1 DEF Inv, TypeOK, Refuse, Onward, Holds, Holding, Working, Idle
  <2>2. ASSUME NEW pc, Goto(c, pc)
        PROVE  request'[c].pc = pc /\ request'[c].key = request[c].key /\ request'[c].job = request[c].job
               /\ request'[c].params = request[c].params /\ request'[c].raced = request[c].raced
    BY <1>1, <2>2 DEF Inv, TypeOK, Goto, Request
  <2>3. CASE \E pc \in {"insert", "again"} : Goto(c, pc)
    BY <2>2, <2>3 DEF Onward, Holds, Holding, Working
  <2>4. CASE Holds(c) /\ \E pc \in Holding \ Working : Goto(c, pc)
    BY <2>2, <2>4 DEF Onward
  <2>5. CASE request[c].pc \in Working /\ \E pc \in Working : Goto(c, pc)
    BY <2>2, <2>5 DEF Onward, Holds, Holding
  <2> QED  BY <2>1, <2>3, <2>4, <2>5
<1> QED  BY <1>2, <1>3 DEF Quiet, Onward, Undisturbed, RowKept, Holds

(* A request that finds the job of its key *)
LEMMA Takes ==
  ASSUME Inv, TypeOK', NEW c \in Clients, request[c].pc # "idle", UNCHANGED <<table, made, gone>>,
         NEW raced \in BOOLEAN, Has(request[c].key), Take(c, raced),
         ~raced \/ request[c].params.action = "info" => RowOf(c).params = request[c].params
  PROVE  Quiet
<1>1. request[c] \in Request  BY RequestTypes DEF Inv
<1>2. \A d \in Clients \ {c} : request'[d] = request[d]
  BY DEF Inv, TypeOK, Take
<1>3. Onward(c) /\ Undisturbed(c)
  BY <1>1 DEF Inv, TypeOK, Take, RowOf, Onward, Undisturbed, Holds, Holding, Working, Request
<1> QED  BY <1>2, <1>3 DEF Quiet, Onward, Undisturbed, RowKept, Holds

(* A request ends or goes on while it writes its own row, which is nobody  *)
(* else's to resolve                                                       *)
LEMMA Writes ==
  ASSUME Inv, TypeOK', NEW c \in Clients, request[c].pc \in Working, UNCHANGED <<made, gone>>,
         IsMine(c), NEW status \in Statuses, SetStatus(c, status), Goto(c, "read")
  PROVE  Quiet
<1>1. request[c] \in Request /\ request[c].key \in Keys
  BY Held DEF Inv, Holds, Holding
<1>2. \A d \in Clients \ {c} : request'[d] = request[d]
  BY DEF Inv, TypeOK, Goto
<1>3. table[request[c].key] \in Row  BY <1>1, RowTypes DEF Inv, IsMine
<1>4. \A k \in Keys \ {request[c].key} : table'[k] = table[k]
  BY DEF Inv, TypeOK, SetStatus
<1>5. RowKept(request[c].key)
  BY <1>1, <1>3 DEF Inv, TypeOK, SetStatus, RowKept, Row
<1>6. \A k \in Keys : RowKept(k)
  BY <1>4, <1>5 DEF RowKept
<1>7. Onward(c) /\ Undisturbed(c)
  BY <1>1 DEF Inv, TypeOK, Goto, Onward, Undisturbed, Holds, Holding, Working
<1>8. ASSUME NEW d \in Clients \ {c} PROVE Onward(d) /\ Undisturbed(d)
  <2>1. ASSUME request[d].pc \in Working PROVE request[d].key \in Keys /\ request[d].key # request[c].key
    <3>1. IsMine(d)  BY <2>1 DEF Inv, ResolvingIsUndisturbed, Working
    <3>2. request[d].key \in Keys  BY <2>1, Held DEF Inv, Holds, Holding
    <3> QED  BY <2>1, <3>1, <3>2 DEF Inv, Alone, IsMine, RowOf
  <2> QED  BY <1>2, <1>4, <1>8, <2>1 DEF Onward, Undisturbed, Holds
<1> QED  BY <1>6, <1>7, <1>8 DEF Quiet

(* The queue changes a row that no request resolves *)
LEMMA Sets ==
  ASSUME Inv, TypeOK', NEW k \in Keys, Has(k), UNCHANGED <<request, made, gone>>,
         NEW status \in Statuses, NEW leased \in BOOLEAN, Set(k, status, leased),
         table[k].status # "resolving" \/ table[k].leased
  PROVE  Quiet
<1>1. table[k] \in Row  BY RowTypes DEF Inv
<1>2. \A l \in Keys : RowKept(l)
  BY <1>1 DEF Inv, TypeOK, Set, RowKept, Row
<1>3. ASSUME NEW c \in Clients PROVE Onward(c) /\ Undisturbed(c)
  <2>1. request[c].pc \in Working => request[c].key # k /\ request[c].key \in Keys
    BY Held DEF Inv, ResolvingIsUndisturbed, Working, RowOf, Holds, Holding
  <2> QED  BY <2>1 DEF Inv, TypeOK, Set, Onward, Undisturbed, Holds
<1> QED  BY <1>2, <1>3 DEF Quiet

LEMMA InvIsKept == Inv /\ [Next]_vars => Inv'
<1> SUFFICES ASSUME Inv, [Next]_vars PROVE Inv'
  OBVIOUS
<1> USE DEF At
<1>0. TypeOK /\ TypeOK'
  BY TypesAreKept DEF Inv
<1>1. ASSUME NEW c \in Clients, Send(c) PROVE Quiet
  <2>1. ~Holds(c)' /\ \A d \in Clients \ {c} : request'[d] = request[d]
    BY <1>0, <1>1 DEF Send, TypeOK, Holds, Holding, Working
  <2> QED  BY <1>1, <2>1 DEF Send, Quiet, Onward, Undisturbed, RowKept, Holds, Holding
<1>2. ASSUME NEW c \in Clients, Find(c) PROVE Quiet
  <2>1. request[c].pc # "idle" /\ UNCHANGED <<table, made, gone>>  BY <1>2 DEF Find
  <2>2. CASE Has(request[c].key) /\ RowOf(c).params = request[c].params
    BY <1>0, <1>2, <2>1, <2>2, Takes DEF Find, Reuse
  <2>3. CASE ~(Has(request[c].key) /\ RowOf(c).params = request[c].params)
    BY <1>0, <1>2, <2>1, <2>3, Moves DEF Find, Reuse
  <2> QED  BY <2>2, <2>3
<1>3. ASSUME NEW c \in Clients, Create(c) PROVE Inv'
  <2>1. request[c] \in Request  BY <1>0, <1>3, RequestTypes DEF Create
  <2>2. /\ \A d \in Clients \ {c} : request'[d] = request[d]
        /\ request'[c].key = request[c].key /\ request'[c].params = request[c].params
        /\ request'[c].job = made + 1
        /\ request'[c].pc \in Working => request[c].params.action = "info"
    BY <1>0, <1>3, <2>1 DEF Create, Insert, TypeOK, Request, Working
  <2> QED  BY <1>0, <1>3, <2>2, InsertSteps DEF Create, Insert
<1>4. ASSUME NEW c \in Clients, CreateFails(c) PROVE Quiet
  BY <1>0, <1>4, Moves DEF CreateFails
<1>5. ASSUME NEW c \in Clients, FindAgain(c) PROVE Quiet
  <2>1. request[c].pc # "idle" /\ UNCHANGED <<table, made, gone>>  BY <1>5 DEF FindAgain
  <2>2. CASE Refuse(c)
    BY <1>0, <2>1, <2>2, Moves
  <2>3. CASE ~Refuse(c)
    BY <1>0, <1>5, <2>1, <2>3, Takes DEF FindAgain, Reuse
  <2> QED  BY <2>2, <2>3
<1>6. ASSUME NEW c \in Clients, Resolve(c) PROVE Quiet
  BY <1>0, <1>6, Moves DEF Resolve, Working
<1>7. ASSUME NEW c \in Clients, Fail(c) PROVE Quiet
  BY <1>0, <1>7, Moves, Writes DEF Fail, Working, Statuses
<1>8. ASSUME NEW c \in Clients, CompleteInfo(c) PROVE Quiet
  BY <1>0, <1>8, Moves, Writes DEF CompleteInfo, Working, Statuses
<1>9. ASSUME NEW c \in Clients, Read(c) PROVE Quiet
  BY <1>0, <1>9, Moves DEF Read, Holds, Holding, Working
<1>10. ASSUME NEW c \in Clients, Leave(c) PROVE Quiet
  BY <1>0, <1>10, Moves DEF Leave
<1>11. ASSUME NEW c \in Clients, Cut(c) \/ CompleteShell(c) PROVE Quiet
  <2>1. request[c] \in Request /\ request[c].key \in Keys
    BY <1>0, <1>11, RequestTypes DEF Cut, CompleteShell, Request
  <2>2. IsMine(c) => table[request[c].key] \in Row  BY <1>0, <2>1, RowTypes DEF IsMine
  <2>3. ASSUME NEW k \in Keys
        PROVE  RowKept(k) /\ table'[k].status = table[k].status /\ table'[k].leased = table[k].leased
    BY <1>0, <1>11, <2>2 DEF Cut, CompleteShell, Strand, RowKept, TypeOK, Row
  <2>4. ~Holds(c)' /\ \A d \in Clients \ {c} : request'[d] = request[d]
    BY <1>0, <1>11 DEF Cut, CompleteShell, Refuse, TypeOK, Idle, Holds, Holding, Working
  <2>5. \A d \in Clients : request[d].pc \in Working => request[d].key \in Keys
    BY <1>0, Held DEF Holds, Holding
  <2> QED  BY <1>11, <2>3, <2>4, <2>5 DEF Cut, CompleteShell, Quiet, Onward, Undisturbed, Holds, Holding
<1>12. ASSUME NEW c \in Clients, CutInsert(c) PROVE Inv'
  <2>1. ~Holds(c)' /\ \A d \in Clients \ {c} : request'[d] = request[d]
    BY <1>0, <1>12 DEF CutInsert, Refuse, TypeOK, Idle, Holds, Holding, Working
  <2> QED  BY <1>0, <1>12, <2>1, InsertSteps DEF CutInsert
<1>13. ASSUME Crash PROVE Quiet
  <2>1. \A k \in Keys : Has(k) => table[k] \in Row  BY <1>0, RowTypes
  <2>2. \A k \in Keys : RowKept(k)
    BY <1>0, <1>13, <2>1 DEF Crash, RowKept, TypeOK, Row
  <2>3. \A c \in Clients : request'[c].pc = "idle"
    BY <1>13 DEF Crash, Idle
  <2> QED  BY <1>13, <2>2, <2>3 DEF Crash, Quiet, Onward, Undisturbed, Holds, Holding, Working
<1>14. ASSUME NEW k \in Keys, Claim(k) \/ Done(k) \/ Cancel(k) \/ Retry(k) PROVE Quiet
  BY <1>0, <1>14, Sets DEF Claim, Done, Cancel, Retry, Statuses
<1>15. ASSUME NEW k \in Keys, Delete(k) PROVE Inv'
  BY <1>0, <1>15, DeleteSteps
<1>16. CASE UNCHANGED vars
  <2>1. table' = table /\ request' = request /\ made' = made /\ gone' = gone
    BY <1>16 DEF vars
  <2>2. \A c \in Clients : Onward(c) /\ Undisturbed(c)
    BY <2>1 DEF Onward, Undisturbed, Holds
  <2>3. \A k \in Keys : RowKept(k)
    BY <2>1 DEF RowKept
  <2> QED  BY <1>0, <2>1, <2>2, <2>3, QuietSteps DEF Quiet
<1> QED
  BY <1>0, <1>1, <1>2, <1>3, <1>4, <1>5, <1>6, <1>7, <1>8, <1>9, <1>10, <1>11, <1>12, <1>13, <1>14, <1>15, <1>16, QuietSteps
  DEF Next, Serving

LEMMA InvAtFirst == Init => Inv
<1> SUFFICES ASSUME Init PROVE Inv
  OBVIOUS
<1>1. TypeOK
  BY BoundAssumption DEF Init, TypeOK, JobNumbers
<1> QED
  BY <1>1 DEF Init, Inv, Numbered, Traced, Fits, ResolvingIsUndisturbed, Alone, Holds, Holding, Working, Idle, Has, NoRow

LEMMA Invariance == Spec => []Inv
BY InvAtFirst, InvIsKept, PTL DEF Spec

(* The rows and the requests are what the code can store and hold.         *)
THEOREM TypeCorrect == Spec => []TypeOK
<1>1. Inv => TypeOK  BY DEF Inv
<1> QED  BY <1>1, Invariance, PTL

(* However many requests race for a key, whatever of them is cut off, and  *)
(* however often the job of the key is deleted and made again, a request   *)
(* is answered with the job that has the key, or that had it.              *)
THEOREM AKeyMakesOneJob == Spec => []OneJobForAKey
<1>1. Inv => OneJobForAKey
  BY DEF Inv, Traced, OneJobForAKey, At, Holds, Holding
<1> QED  BY <1>1, Invariance, PTL

(* Only a request that has lost the race for its key, and is not of action *)
(* info, is ever answered with a job that was asked for otherwise.         *)
THEOREM AnswersFit == Spec => []AnswersFitTheRequest
<1>1. Inv => AnswersFitTheRequest
  BY DEF Inv, Fits, AnswersFitTheRequest, At, Holds, Holding
<1> QED  BY <1>1, Invariance, PTL

(* Fail and CompleteInfo, which ask neither for an owner nor for more than *)
(* a status, never write a row that is not their request's to resolve.     *)
THEOREM NobodyDisturbsResolving == Spec => []ResolvingIsUndisturbed
<1>1. Inv => ResolvingIsUndisturbed  BY DEF Inv
<1> QED  BY <1>1, Invariance, PTL

=============================================================================
