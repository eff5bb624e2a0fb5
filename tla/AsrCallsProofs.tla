--------------------------- MODULE AsrCallsProofs ---------------------------
(***************************************************************************)
(* Proofs about the calls of speech recognition, for any sets of workers   *)
(* and jobs, any audio, budget and bounds: only one worker is in the       *)
(* service at a time, a job that waits has no open task that nobody        *)
(* answers for, what is spent stays within the budget, what a transcript   *)
(* holds is all that was said, and no run goes on for ever.  That a run    *)
(* does not stand still is left to the model checker.                      *)
(***************************************************************************)
EXTENDS AsrCalls, Sums, TLAPS

USE JobAssumption, BoundAssumption

(* A worker in one of these has a call, which is not settled yet *)
Calling == {"submit", "report", "work", "settle"}

(* budgetMu: there are no two workers in the service *)
Serial == \A v, w \in Workers :
  v # w => ~(worker[v].pc \in InService /\ worker[w].pc \in InService)

(* A worker that is not idle runs a job of its own *)
Busy(w) == worker[w].pc # "idle"
Owned ==
  /\ \A w \in Workers : IF Busy(w) THEN worker[w].job \in Jobs /\ jobs[worker[w].job] = "transcribing"
                                   ELSE worker[w].job = NoJob
  /\ \A v, w \in Workers : v # w /\ Busy(v) => worker[v].job # worker[w].job

(* The call of a worker is a row of its job *)
Called == \A w \in Workers : worker[w].pc \in Calling =>
  /\ worker[w].call \in CallIds
  /\ calls[worker[w].call].job = worker[w].job /\ calls[worker[w].call].status # "none"

(* Somebody answers for the open task: its row could not be ended, or its  *)
(* owner wants the job to be run again                                     *)
Answered(row) == row.task /\ row.status \in {"submitted", "running"} => row.excused

(* Of the calls of a job that waits, or that a worker runs, only the one   *)
(* under way may be open *)
Settled ==
  /\ NoBlindReplay
  /\ \A w \in Workers, c \in CallIds :
       Busy(w) /\ calls[c].job = worker[w].job =>
         Answered(calls[c]) \/ (worker[w].pc \in Calling /\ c = worker[w].call)

Inv == TypeOK /\ Serial /\ Owned /\ Called /\ Settled

-----------------------------------------------------------------------------
(* Types *)

LEMMA NewCallIsUnused ==
  ASSUME Unused # {}
  PROVE  NewCall \in CallIds /\ calls[NewCall].status = "none"
BY DEF Unused, NewCall

LEMMA IdleTypes == Idle \in Worker
BY DEF Idle, Worker

LEMMA AbsentTypes == Absent \in CallRow
BY DEF Absent, CallRow, Days

LEMMA KeyTypes ==
  ASSUME NEW keys \in SUBSET Providers
  PROVE  Preferred(keys) \in Providers \cup {"none"} /\ Second(keys) \in Providers \cup {"none"}
<1>1. CASE "silicon" \in keys  BY <1>1 DEF Preferred, Second, Providers
<1>2. CASE "silicon" \notin keys /\ "aliyun" \in keys
  <2>1. keys = {"aliyun"}  BY <1>2 DEF Providers
  <2> QED  BY <2>1 DEF Preferred, Second, Providers
<1>3. CASE "silicon" \notin keys /\ "aliyun" \notin keys
  <2>1. keys = {}  BY <1>3 DEF Providers
  <2> QED  BY <2>1 DEF Preferred, Second, Providers
<1> QED  BY <1>1, <1>2, <1>3

LEMMA EndsTypes ==
  ASSUME TypeOK, NEW w \in Workers, NEW error, Ends(w, error)
  PROVE  worker' \in [Workers -> Worker] /\ jobs' \in [Jobs -> Job]
BY IdleTypes DEF TypeOK, Ends, AfterError, Job

LEMMA FailedTypes ==
  ASSUME TypeOK, NEW w \in Workers, worker[w].call \in CallIds, Failed(w)
  PROVE  calls' \in [CallIds -> CallRow]
<1>1. MyCall(w) \in CallRow  BY DEF TypeOK, MyCall
<1>2. [MyCall(w) EXCEPT !.status = "failed"] \in CallRow  BY <1>1 DEF CallRow
<1>3. [MyCall(w) EXCEPT !.excused = MyCall(w).task] \in CallRow  BY <1>1 DEF CallRow
<1>4. \/ calls' = [calls EXCEPT ![worker[w].call] = [MyCall(w) EXCEPT !.status = "failed"]]
      \/ calls' = [calls EXCEPT ![worker[w].call] = [MyCall(w) EXCEPT !.excused = MyCall(w).task]]
  BY DEF Failed, MyCall
<1> QED  BY <1>2, <1>3, <1>4 DEF TypeOK

LEMMA WorkersKeepTypes ==
  ASSUME Inv, NEW w \in Workers, Take(w) \/ Lock(w) \/ Transcribing(w) \/ Transcribed(w)
  PROVE  TypeOK'
<1> USE DEF At
<1>0. TypeOK /\ worker[w] \in Worker /\ (worker[w].pc \in Calling => worker[w].call \in CallIds /\ MyCall(w) \in CallRow)
  BY DEF Inv, TypeOK, Called, MyCall
<1>1. CASE Take(w)
  <2>1. \A j \in Jobs : [Idle EXCEPT !.pc = "wait", !.job = j, !.segment = 1] \in Worker
    BY IdleTypes DEF Worker, InService
  <2> QED  BY <1>0, <1>1, <2>1 DEF Take, TypeOK, Job
<1>2. ASSUME NEW pc \in {"idle", "wait", "next"} \cup InService, Goto(w, pc)
      PROVE  worker' \in [Workers -> Worker]
  <2>1. [worker[w] EXCEPT !.pc = pc] \in Worker  BY <1>0, <1>2 DEF Worker
  <2> QED  BY <1>0, <1>2, <2>1 DEF Goto, TypeOK
<1>3. CASE Lock(w)
  BY <1>0, <1>2, <1>3 DEF Lock, TypeOK, InService
<1>4. CASE NextSegment(w)
  <2>1. ASSUME worker' = [worker EXCEPT ![w] = [Idle EXCEPT !.pc = "wait", !.job = worker[w].job, !.segment = worker[w].segment + 1]]
        PROVE  worker' \in [Workers -> Worker]
    <3>1. [Idle EXCEPT !.pc = "wait", !.job = worker[w].job, !.segment = worker[w].segment + 1] \in Worker
      <4>1. worker[w].job \in Jobs \cup {NoJob} /\ worker[w].segment + 1 \in Nat  BY <1>0 DEF Worker
      <4> QED  BY <4>1, IdleTypes DEF Worker, InService
    <3> QED  BY <1>0, <2>1, <3>1 DEF TypeOK
  <2>2. worker' = [worker EXCEPT ![w] = Idle] => worker' \in [Workers -> Worker]
    BY <1>0, IdleTypes DEF TypeOK
  <2>3. worker' \in [Workers -> Worker]
    BY <1>4, <2>1, <2>2 DEF NextSegment
  <2> QED  BY <1>0, <1>4, <2>3 DEF NextSegment, TypeOK, Job
<1>5. CASE CheckBudget(w)
  <2>1. ASSUME NEW keys \in SUBSET Providers
        PROVE  [worker[w] EXCEPT !.pc = "create", !.provider = Preferred(keys), !.left = Second(keys)] \in Worker
    BY <1>0, KeyTypes DEF Worker, InService
  <2>2. [worker[w] EXCEPT !.pc = "create", !.provider = worker[w].left, !.left = "none", !.call = NoCall] \in Worker
    <3>1. worker[w].left \in Providers \cup {"none"}  BY <1>0 DEF Worker
    <3>2. [worker[w] EXCEPT !.pc = "create"] \in Worker  BY <1>0 DEF Worker, InService
    <3> QED  BY <3>1, <3>2 DEF Worker
  <2>3. ASSUME NEW keys \in (SUBSET Providers) \ {{}},
               worker' = [worker EXCEPT ![w].pc = "create", ![w].provider = Preferred(keys), ![w].left = Second(keys)]
        PROVE  worker' \in [Workers -> Worker]
    BY <1>0, <2>1, <2>3 DEF TypeOK
  <2>4. ASSUME worker' = [worker EXCEPT ![w].pc = "create", ![w].provider = worker[w].left, ![w].left = "none",
                                        ![w].call = NoCall]
        PROVE  worker' \in [Workers -> Worker]
    <3>1. worker' = [worker EXCEPT ![w] = [worker[w] EXCEPT !.pc = "create", !.provider = worker[w].left,
                                                            !.left = "none", !.call = NoCall]]
      BY <2>4
    <3> QED  BY <1>0, <2>2, <3>1 DEF TypeOK
  <2>5. worker' \in [Workers -> Worker]
    BY <1>5, <2>3, <2>4 DEF CheckBudget
  <2> QED  BY <1>0, <1>5, <2>5 DEF CheckBudget, TypeOK
<1>6. CASE Refuse(w) \/ GiveUp(w)
  BY <1>0, <1>6, EndsTypes DEF Refuse, GiveUp, TypeOK
<1>7. CASE Create(w)
  <2>1. NewCall \in CallIds  BY <1>7, NewCallIsUnused DEF Create
  <2>2. [Absent EXCEPT !.job = worker[w].job, !.segment = worker[w].segment, !.status = "submitted",
                       !.cost = 1, !.day = day] \in CallRow
    BY <1>0, AbsentTypes DEF CallRow, Worker, TypeOK
  <2>3. [worker[w] EXCEPT !.pc = "submit", !.call = NewCall] \in Worker
    BY <1>0, <2>1 DEF Worker, InService
  <2> QED  BY <1>0, <1>7, <2>1, <2>2, <2>3 DEF Create, TypeOK
<1>8. CASE Submit(w)
  BY <1>0, <1>2, <1>8 DEF Submit, TypeOK, InService
<1>9. CASE Report(w)
  <2>1. [MyCall(w) EXCEPT !.status = "running", !.task = TRUE] \in CallRow  BY <1>0, <1>9 DEF Report, Calling, CallRow
  <2>2. calls' = [calls EXCEPT ![worker[w].call] = [MyCall(w) EXCEPT !.status = "running", !.task = TRUE]]
    BY <1>9 DEF Report, MyCall
  <2> QED  BY <1>0, <1>2, <1>9, <2>1, <2>2 DEF Report, TypeOK, InService, Calling
<1>10. CASE CallFails(w)
  <2>1. ASSUME NEW error \in {"failed", "refused"} PROVE [worker[w] EXCEPT !.pc = "settle", !.error = error] \in Worker
    BY <1>0 DEF Worker, InService
  <2> QED  BY <1>0, <1>10, <2>1 DEF CallFails, TypeOK
<1>11. CASE FallBack(w)
  <2>1. [worker[w] EXCEPT !.pc = "check", !.error = "none"] \in Worker
    BY <1>0 DEF Worker, InService
  <2> QED  BY <1>0, <1>11, <2>1, FailedTypes DEF FallBack, TypeOK, Calling
<1>12. CASE Settle(w)
  BY <1>0, <1>12, FailedTypes, EndsTypes DEF Settle, TypeOK, Calling
<1>13. CASE Complete(w)
  <2>1. PICK cost \in Billed(w) :
          calls' = [calls EXCEPT ![worker[w].call] = [MyCall(w) EXCEPT !.status = "completed",
                      !.task = (worker[w].provider = "aliyun"), !.cost = IF cost = 0 THEN 1 ELSE cost]]
    BY <1>13 DEF Complete, MyCall
  <2>2. cost \in Nat  BY BudgetAssumption DEF Billed
  <2>3. (worker[w].provider = "aliyun") \in BOOLEAN  OBVIOUS
  <2>4. [MyCall(w) EXCEPT !.status = "completed", !.task = (worker[w].provider = "aliyun"),
                          !.cost = IF cost = 0 THEN 1 ELSE cost] \in CallRow
    BY <1>0, <1>13, <2>2, <2>3 DEF Complete, Calling, CallRow
  <2> QED  BY <1>0, <1>2, <1>13, <2>1, <2>4 DEF Complete, TypeOK, Calling
<1>14. CASE CompleteFails(w)
  <2>1. [MyCall(w) EXCEPT !.excused = MyCall(w).task] \in CallRow
    BY <1>0, <1>14 DEF CompleteFails, Calling, CallRow
  <2>2. calls' = [calls EXCEPT ![worker[w].call] = [MyCall(w) EXCEPT !.excused = MyCall(w).task]]
    BY <1>14 DEF CompleteFails, MyCall
  <2> QED  BY <1>0, <1>14, <2>1, <2>2, EndsTypes DEF CompleteFails, TypeOK
<1> QED
  BY <1>1, <1>3, <1>4, <1>5, <1>6, <1>7, <1>8, <1>9, <1>10, <1>11, <1>12, <1>13, <1>14 DEF Transcribing, Transcribed

LEMMA TypesAreKept == Inv /\ [Next]_vars => TypeOK'
<1> SUFFICES ASSUME Inv, [Next]_vars PROVE TypeOK'
  OBVIOUS
<1>0. TypeOK  BY DEF Inv
<1>1. CASE Crash  BY <1>0, <1>1, IdleTypes DEF Crash, TypeOK
<1>2. CASE Recover  BY <1>0, <1>2 DEF Recover, AfterError, TypeOK, Job
<1>3. CASE Retry
  <2>1. ASSUME NEW j, NEW c \in CallIds
        PROVE  [calls[c] EXCEPT !.excused = @ \/ (calls[c].job = j /\ OpenTask(c))] \in CallRow
    <3>1. calls[c] \in CallRow  BY <1>0 DEF TypeOK
    <3>2. (calls[c].excused \/ (calls[c].job = j /\ OpenTask(c))) \in BOOLEAN  BY <3>1 DEF CallRow
    <3> QED  BY <3>1, <3>2 DEF CallRow
  <2>2. PICK j \in Jobs :
          /\ jobs' = [jobs EXCEPT ![j] = "waiting"]
          /\ calls' = [c \in CallIds |-> [calls[c] EXCEPT !.excused = @ \/ (calls[c].job = j /\ OpenTask(c))]]
    BY <1>3 DEF Retry
  <2>3. calls' \in [CallIds -> CallRow]
    BY <2>1, <2>2
  <2> QED  BY <1>0, <1>3, <2>2, <2>3 DEF Retry, TypeOK, Job
<1>4. CASE Delete  BY <1>0, <1>4, AbsentTypes DEF Delete, TypeOK, Job
<1>5. CASE Midnight  BY <1>0, <1>5 DEF Midnight, TypeOK, Days
<1>6. CASE UNCHANGED vars  BY <1>0, <1>6 DEF vars, TypeOK
<1> QED  BY <1>1, <1>2, <1>3, <1>4, <1>5, <1>6, WorkersKeepTypes DEF Next

-----------------------------------------------------------------------------
(* Steps *)

(* What a step of w makes of the rows: at most its own call is changed,    *)
(* or a new one inserted, which is not open                                *)
RowStep(w, c) ==
  \/ calls'[c] = calls[c]
  \/ /\ worker[w].pc \in Calling /\ c = worker[w].call
     /\ calls'[c].job = calls[c].job /\ calls'[c].status # "none"
  \/ /\ calls[c].status = "none"
     /\ calls'[c].job = worker[w].job /\ calls'[c].status # "none" /\ ~OpenTask(c)'

(* The call of w is closed, or somebody answers for it *)
Closed(w) == worker[w].pc \in Calling => Answered(calls'[worker[w].call])

Enters(w) == worker'[w].pc \in InService => worker[w].pc \in InService \/ Unlocked

(* w goes on with its job *)
Proceeds(w) ==
  /\ Busy(w) /\ Busy(w)' /\ worker'[w].job = worker[w].job /\ jobs' = jobs
  /\ Enters(w)
  /\ \A c \in CallIds : RowStep(w, c)
  /\ IF worker'[w].pc \in Calling
     THEN /\ worker'[w].call \in CallIds
          /\ calls'[worker'[w].call].job = worker[w].job /\ calls'[worker'[w].call].status # "none"
          /\ worker[w].pc \in Calling => worker'[w].call = worker[w].call
     ELSE Closed(w)

(* w is done with its job, whatever becomes of it *)
Leaves(w) ==
  /\ Busy(w) /\ worker'[w] = Idle
  /\ \A j \in Jobs \ {worker[w].job} : jobs'[j] = jobs[j]
  /\ \A c \in CallIds : RowStep(w, c)
  /\ Closed(w)

(* w takes a job that waits *)
Starts(w) ==
  /\ ~Busy(w) /\ calls' = calls
  /\ \E j \in Jobs : /\ jobs[j] = "waiting" /\ jobs' = [jobs EXCEPT ![j] = "transcribing"]
                      /\ worker'[w].job = j /\ worker'[w].pc = "wait"

WorkerStep(w) ==
  /\ \A v \in Workers \ {w} : worker'[v] = worker[v]
  /\ Proceeds(w) \/ Leaves(w) \/ Starts(w)

(* A call that is put to rest has no open task that nobody answers for *)
LEMMA FailedCloses ==
  ASSUME TypeOK, NEW w \in Workers, worker[w].call \in CallIds, Failed(w)
  PROVE  /\ \A c \in CallIds \ {worker[w].call} : calls'[c] = calls[c]
         /\ calls'[worker[w].call].job = calls[worker[w].call].job
         /\ calls[worker[w].call].status # "none" => calls'[worker[w].call].status # "none"
         /\ Answered(calls'[worker[w].call])
<1>1. calls[worker[w].call] \in CallRow  BY DEF TypeOK
<1>2. CASE calls' = [calls EXCEPT ![worker[w].call].status = "failed"]
  <2>1. /\ calls'[worker[w].call].status = "failed" /\ calls'[worker[w].call].job = calls[worker[w].call].job
        /\ \A c \in CallIds \ {worker[w].call} : calls'[c] = calls[c]
    BY <1>1, <1>2 DEF TypeOK, CallRow
  <2> QED  BY <2>1 DEF Answered
<1>3. CASE calls' = [calls EXCEPT ![worker[w].call].excused = MyCall(w).task]
  <2>1. /\ calls'[worker[w].call].status = calls[worker[w].call].status
        /\ calls'[worker[w].call].job = calls[worker[w].call].job
        /\ calls'[worker[w].call].task = calls[worker[w].call].task
        /\ calls'[worker[w].call].excused = calls[worker[w].call].task
        /\ \A c \in CallIds \ {worker[w].call} : calls'[c] = calls[c]
    BY <1>1, <1>3 DEF TypeOK, CallRow, MyCall
  <2> QED  BY <2>1 DEF Answered
<1> QED  BY <1>2, <1>3 DEF Failed

LEMMA WorkersTakeSteps ==
  ASSUME Inv, NEW w \in Workers, Take(w) \/ Lock(w) \/ Transcribing(w) \/ Transcribed(w)
  PROVE  WorkerStep(w)
<1> USE DEF At, InService, Calling
<1>0. TypeOK /\ worker[w] \in Worker
      /\ (worker[w].pc \in Calling => /\ worker[w].call \in CallIds /\ MyCall(w) \in CallRow
                                      /\ MyCall(w).job = worker[w].job /\ MyCall(w).status # "none")
  BY DEF Inv, TypeOK, Called, MyCall
<1>1. CASE Take(w)
  BY <1>0, <1>1 DEF Take, TypeOK, Idle, WorkerStep, Starts, Busy
<1>2. ASSUME NEW pc, Goto(w, pc)
      PROVE  /\ worker'[w].pc = pc /\ worker'[w].job = worker[w].job /\ worker'[w].call = worker[w].call
             /\ \A v \in Workers \ {w} : worker'[v] = worker[v]
  BY <1>0, <1>2 DEF Goto, TypeOK, Worker
<1>3. CASE Lock(w)
  BY <1>0, <1>2, <1>3 DEF Lock, WorkerStep, Proceeds, Busy, Enters, RowStep, Closed
<1>4. CASE NextSegment(w)
  <2>1. \A v \in Workers \ {w} : worker'[v] = worker[v]
    BY <1>0, <1>4 DEF NextSegment, TypeOK
  <2>2. CASE worker[w].segment < Segments(worker[w].job)
    <3>1. worker'[w].job = worker[w].job /\ worker'[w].pc = "wait" /\ jobs' = jobs /\ calls' = calls
      BY <1>0, <1>4, <2>2 DEF NextSegment, TypeOK, Idle
    <3> QED  BY <1>4, <2>1, <3>1 DEF NextSegment, WorkerStep, Proceeds, Busy, Enters, RowStep, Closed
  <2>3. CASE ~(worker[w].segment < Segments(worker[w].job))
    <3>1. worker'[w] = Idle /\ jobs' = [jobs EXCEPT ![worker[w].job] = "completed"] /\ calls' = calls
      BY <1>0, <1>4, <2>3 DEF NextSegment, TypeOK
    <3> QED  BY <1>0, <1>4, <2>1, <3>1 DEF NextSegment, TypeOK, WorkerStep, Leaves, Busy, RowStep, Closed
  <2> QED  BY <2>2, <2>3
<1>5. CASE CheckBudget(w)
  <2>1. /\ worker'[w].pc = "create" /\ worker'[w].job = worker[w].job
        /\ \A v \in Workers \ {w} : worker'[v] = worker[v]
    <3>1. CASE worker[w].provider = "none"
      <4>1. PICK keys \in (SUBSET Providers) \ {{}} :
              worker' = [worker EXCEPT ![w].pc = "create", ![w].provider = Preferred(keys), ![w].left = Second(keys)]
        BY <1>5, <3>1 DEF CheckBudget
      <4> QED  BY <1>0, <4>1 DEF TypeOK, Worker
    <3>2. CASE worker[w].provider # "none"
      <4>1. worker' = [worker EXCEPT ![w].pc = "create", ![w].provider = worker[w].left, ![w].left = "none",
                                     ![w].call = NoCall]
        BY <1>5, <3>2 DEF CheckBudget
      <4> QED  BY <1>0, <4>1 DEF TypeOK, Worker
    <3> QED  BY <3>1, <3>2
  <2> QED  BY <1>5, <2>1 DEF CheckBudget, WorkerStep, Proceeds, Busy, Enters, RowStep, Closed
<1>6. ASSUME NEW error, Ends(w, error)
      PROVE  /\ worker'[w] = Idle /\ \A v \in Workers \ {w} : worker'[v] = worker[v]
             /\ \A j \in Jobs \ {worker[w].job} : jobs'[j] = jobs[j]
  BY <1>0, <1>6 DEF Ends, AfterError, TypeOK
<1>7. CASE Refuse(w) \/ GiveUp(w)
  BY <1>6, <1>7 DEF Refuse, GiveUp, WorkerStep, Leaves, Busy, RowStep, Closed
<1>8. CASE Create(w)
  <2>1. NewCall \in CallIds /\ calls[NewCall].status = "none"  BY <1>8, NewCallIsUnused DEF Create
  <2>2. /\ worker'[w].pc = "submit" /\ worker'[w].job = worker[w].job /\ worker'[w].call = NewCall
        /\ \A v \in Workers \ {w} : worker'[v] = worker[v]
    BY <1>0, <1>8 DEF Create, TypeOK, Worker
  <2>3. /\ \A c \in CallIds \ {NewCall} : calls'[c] = calls[c]
        /\ calls'[NewCall].job = worker[w].job /\ calls'[NewCall].status = "submitted" /\ ~calls'[NewCall].task
    BY <1>0, <1>8, <2>1 DEF Create, TypeOK, Absent
  <2> QED  BY <1>8, <2>1, <2>2, <2>3 DEF Create, WorkerStep, Proceeds, Busy, Enters, RowStep, OpenTask
<1>9. CASE Submit(w)
  BY <1>0, <1>2, <1>9 DEF Submit, WorkerStep, Proceeds, Busy, Enters, RowStep, MyCall
<1>10. CASE Report(w)
  <2>1. /\ \A c \in CallIds \ {worker[w].call} : calls'[c] = calls[c]
        /\ calls'[worker[w].call].job = worker[w].job /\ calls'[worker[w].call].status = "running"
    BY <1>0, <1>10 DEF Report, TypeOK, MyCall, CallRow
  <2>2. \A c \in CallIds : RowStep(w, c)  BY <1>0, <1>10, <2>1 DEF Report, RowStep, MyCall
  <2>3. Goto(w, "work") /\ worker[w].pc = "report" /\ jobs' = jobs  BY <1>10 DEF Report
  <2> QED  BY <1>0, <1>2, <2>1, <2>2, <2>3 DEF WorkerStep, Proceeds, Busy, Enters
<1>11. CASE CallFails(w)
  <2>1. /\ worker'[w].pc = "settle" /\ worker'[w].job = worker[w].job /\ worker'[w].call = worker[w].call
        /\ \A v \in Workers \ {w} : worker'[v] = worker[v]
    BY <1>0, <1>11 DEF CallFails, TypeOK, Worker
  <2> QED  BY <1>0, <1>11, <2>1 DEF CallFails, WorkerStep, Proceeds, Busy, Enters, RowStep, MyCall
<1>12. CASE FallBack(w)
  <2>1. /\ worker'[w].pc = "check" /\ worker'[w].job = worker[w].job
        /\ \A v \in Workers \ {w} : worker'[v] = worker[v]
    BY <1>0, <1>12 DEF FallBack, TypeOK, Worker
  <2>2. worker[w].call \in CallIds /\ Failed(w)  BY <1>0, <1>12 DEF FallBack
  <2> QED  BY <1>0, <1>12, <2>1, <2>2, FailedCloses DEF FallBack, WorkerStep, Proceeds, Busy, Enters, RowStep, Closed, MyCall
<1>13. CASE Settle(w)
  <2>1. worker[w].call \in CallIds /\ Failed(w) /\ Ends(w, worker[w].error)  BY <1>0, <1>13 DEF Settle
  <2> QED  BY <1>0, <1>6, <1>13, <2>1, FailedCloses DEF Settle, WorkerStep, Leaves, Busy, RowStep, Closed, MyCall
<1>14. CASE Complete(w)
  <2>1. /\ \A c \in CallIds \ {worker[w].call} : calls'[c] = calls[c]
        /\ calls'[worker[w].call].job = worker[w].job /\ calls'[worker[w].call].status = "completed"
    BY <1>0, <1>14 DEF Complete, TypeOK, MyCall, CallRow
  <2>2. \A c \in CallIds : RowStep(w, c)
    <3>1. worker[w].pc = "work"  BY <1>14 DEF Complete
    <3> QED  BY <1>0, <2>1, <3>1 DEF RowStep, MyCall
  <2>3. Closed(w)  BY <2>1 DEF Closed, Answered
  <2>4. Goto(w, "next") /\ worker[w].pc = "work" /\ jobs' = jobs  BY <1>14 DEF Complete
  <2> QED  BY <1>2, <2>2, <2>3, <2>4 DEF WorkerStep, Proceeds, Busy, Enters
<1>15. CASE CompleteFails(w)
  <2>1. /\ \A c \in CallIds \ {worker[w].call} : calls'[c] = calls[c]
        /\ calls'[worker[w].call].job = worker[w].job /\ calls'[worker[w].call].status # "none"
        /\ calls'[worker[w].call].task = calls'[worker[w].call].excused
    BY <1>0, <1>15 DEF CompleteFails, TypeOK, MyCall, CallRow
  <2>2. \A c \in CallIds : RowStep(w, c)
    <3>1. worker[w].pc = "work"  BY <1>15 DEF CompleteFails
    <3> QED  BY <1>0, <2>1, <3>1 DEF RowStep, MyCall
  <2>3. Closed(w)  BY <2>1 DEF Closed, Answered
  <2>4. Ends(w, "failed") /\ worker[w].pc = "work"  BY <1>15 DEF CompleteFails
  <2> QED  BY <1>6, <2>2, <2>3, <2>4 DEF WorkerStep, Leaves, Busy
<1> QED
  BY <1>1, <1>3, <1>4, <1>5, <1>7, <1>8, <1>9, <1>10, <1>11, <1>12, <1>13, <1>14, <1>15 DEF Transcribing, Transcribed

-----------------------------------------------------------------------------
(* The invariant *)

LEMMA WorkersKeepInv ==
  ASSUME Inv, TypeOK', NEW w \in Workers, WorkerStep(w)
  PROVE  Inv'
<1> DEFINE job == worker[w].job
<1>1. \A v \in Workers \ {w} : worker'[v] = worker[v]
  BY DEF WorkerStep
<1>2. Serial'
  BY <1>1 DEF Inv, Serial, WorkerStep, Proceeds, Leaves, Starts, Enters, Unlocked, InService, Idle
<1>3. Owned'
  <2>1. CASE Proceeds(w)
    BY <1>1, <2>1 DEF Inv, Owned, Proceeds, Busy
  <2>2. CASE Leaves(w)
    <3>1. worker'[w].pc = "idle" /\ worker'[w].job = NoJob  BY <2>2 DEF Leaves, Idle
    <3>2. \A v \in Workers \ {w} : Busy(v) => worker[v].job # job /\ jobs'[worker[v].job] = jobs[worker[v].job]
      BY <2>2 DEF Inv, Owned, Leaves
    <3> QED  BY <1>1, <3>1, <3>2 DEF Inv, Owned, Busy
  <2>3. CASE Starts(w)
    <3>1. PICK j \in Jobs : /\ jobs[j] = "waiting" /\ jobs' = [jobs EXCEPT ![j] = "transcribing"]
                            /\ worker'[w].job = j /\ worker'[w].pc = "wait"
      BY <2>3 DEF Starts
    <3>2. jobs'[j] = "transcribing" /\ \A k \in Jobs \ {j} : jobs'[k] = jobs[k]
      BY <3>1 DEF Inv, TypeOK
    <3>3. \A v \in Workers \ {w} : worker[v].job # j
      BY <3>1 DEF Inv, Owned
    <3> QED  BY <1>1, <3>1, <3>2, <3>3 DEF Inv, Owned, Busy
  <2> QED  BY <2>1, <2>2, <2>3 DEF WorkerStep
<1>4. \A c \in CallIds : RowStep(w, c)
  BY DEF WorkerStep, Proceeds, Leaves, Starts, RowStep
<1>5. ASSUME NEW v \in Workers \ {w}, Busy(v), NEW c \in CallIds, calls[c].job = worker[v].job, calls[c].status # "none"
      PROVE  calls'[c] = calls[c]
  <2>1. ASSUME worker[w].pc \in Calling, c = worker[w].call PROVE FALSE
    <3>1. Busy(w) /\ calls[c].job = worker[w].job  BY <2>1 DEF Inv, Called, Busy, Calling
    <3> QED  BY <1>5, <3>1 DEF Inv, Owned
  <2> QED  BY <1>4, <1>5, <2>1 DEF RowStep
<1>6. Called'
  <2> SUFFICES ASSUME NEW v \in Workers, worker'[v].pc \in Calling
               PROVE  /\ worker'[v].call \in CallIds
                      /\ calls'[worker'[v].call].job = worker'[v].job /\ calls'[worker'[v].call].status # "none"
    BY DEF Called
  <2>1. CASE v = w
    BY <2>1 DEF WorkerStep, Proceeds, Leaves, Starts, Idle, Calling
  <2>2. CASE v # w
    BY <1>1, <1>5, <2>2 DEF Inv, Called, Busy, Calling
  <2> QED  BY <2>1, <2>2
<1>7. ASSUME NEW c \in CallIds, NEW v \in Workers, Busy(v)', calls'[c].job = worker'[v].job
      PROVE  Answered(calls'[c]) \/ (worker'[v].pc \in Calling /\ c = worker'[v].call)
  <2>1. CASE v # w
    <3>1. worker'[v] = worker[v] /\ Busy(v)  BY <1>1, <1>7, <2>1 DEF Busy
    <3>2. Busy(w) => worker[w].job # worker[v].job  BY <2>1, <3>1 DEF Inv, Owned
    <3>3. CASE calls'[c] = calls[c]  BY <1>7, <3>1, <3>3 DEF Inv, Settled
    <3>4. CASE worker[w].pc \in Calling /\ c = worker[w].call /\ calls'[c].job = calls[c].job
      BY <1>7, <3>1, <3>2, <3>4 DEF Inv, Called, Busy, Calling
    <3>5. CASE calls'[c].job = worker[w].job /\ ~OpenTask(c)'
      BY <3>5 DEF OpenTask, Answered
    <3> QED  BY <1>4, <3>3, <3>4, <3>5 DEF RowStep
  <2>2. CASE v = w /\ Proceeds(w)
    <3>1. CASE calls'[c] = calls[c]
      <4>1. Answered(calls[c]) \/ (worker[w].pc \in Calling /\ c = worker[w].call)
        BY <1>7, <2>2, <3>1 DEF Inv, Settled, Proceeds
      <4> QED  BY <2>2, <3>1, <4>1 DEF Proceeds, Closed
    <3>2. CASE worker[w].pc \in Calling /\ c = worker[w].call
      BY <2>2, <3>2 DEF Proceeds, Closed
    <3>3. CASE ~OpenTask(c)'
      BY <3>3 DEF OpenTask, Answered
    <3> QED  BY <1>4, <3>1, <3>2, <3>3 DEF RowStep
  <2>3. CASE v = w /\ Leaves(w)
    BY <1>7, <2>3 DEF Leaves, Idle, Busy
  <2>4. CASE v = w /\ Starts(w)
    BY <1>7, <2>4 DEF Starts, Inv, Settled, NoBlindReplay, OpenTask, Answered
  <2> QED  BY <2>1, <2>2, <2>3, <2>4 DEF WorkerStep
<1>8. ASSUME NEW j \in Jobs, jobs'[j] = "waiting", NEW c \in CallIds, calls'[c].job = j
      PROVE  Answered(calls'[c])
  <2>1. CASE jobs[j] = "waiting"
    <3>1. \A v \in Workers : Busy(v) => worker[v].job # j  BY <2>1 DEF Inv, Owned
    <3>2. calls[c].job = j => Answered(calls[c])
      BY <2>1 DEF Inv, Settled, NoBlindReplay, OpenTask, Answered
    <3>3. CASE worker[w].pc \in Calling /\ c = worker[w].call /\ calls'[c].job = calls[c].job
      BY <1>8, <3>1, <3>3 DEF Inv, Called, Busy, Calling
    <3> QED  BY <1>4, <1>8, <3>2, <3>3 DEF RowStep, OpenTask, Answered
  <2>2. CASE jobs[j] # "waiting"
    <3>1. Leaves(w) /\ j = worker[w].job
      BY <1>8, <2>2 DEF WorkerStep, Proceeds, Leaves, Starts, Inv, TypeOK
    <3>2. CASE calls'[c] = calls[c]
      <4>1. Answered(calls[c]) \/ (worker[w].pc \in Calling /\ c = worker[w].call)
        BY <1>8, <3>1, <3>2 DEF Inv, Settled, Leaves
      <4> QED  BY <3>1, <3>2, <4>1 DEF Leaves, Closed
    <3>3. CASE worker[w].pc \in Calling /\ c = worker[w].call
      BY <3>1, <3>3 DEF Leaves, Closed
    <3>4. CASE ~OpenTask(c)'
      BY <3>4 DEF OpenTask, Answered
    <3> QED  BY <1>4, <3>2, <3>3, <3>4 DEF RowStep
  <2> QED  BY <2>1, <2>2
<1>9. Settled'
  BY <1>7, <1>8 DEF Settled, NoBlindReplay, OpenTask, Answered
<1> QED  BY <1>2, <1>3, <1>6, <1>9 DEF Inv

LEMMA InvIsKept == Inv /\ [Next]_vars => Inv'
<1> SUFFICES ASSUME Inv, [Next]_vars PROVE Inv'
  OBVIOUS
<1>0. TypeOK /\ TypeOK'
  BY TypesAreKept DEF Inv
<1>1. ASSUME NEW w \in Workers, Take(w) \/ Lock(w) \/ Transcribing(w) \/ Transcribed(w) PROVE Inv'
  BY <1>0, <1>1, WorkersTakeSteps, WorkersKeepInv
<1>2. CASE Crash
  <2>1. \A w \in Workers : worker'[w].pc = "idle" /\ worker'[w].job = NoJob
    BY <1>2 DEF Crash, Idle
  <2>2. Serial' /\ Owned' /\ Called'
    BY <2>1 DEF Serial, Owned, Called, Busy, InService, Calling
  <2>3. Settled'
    BY <1>2, <2>1 DEF Inv, Settled, Busy, NoBlindReplay, OpenTask, Crash
  <2> QED  BY <1>0, <2>2, <2>3 DEF Inv
<1>3. CASE Recover
  <2>1. PICK j \in Jobs :
          /\ Orphaned(j) /\ \A k \in Jobs \ {j} : jobs'[k] = jobs[k]
          /\ jobs'[j] = "waiting" => \A c \in CallIds : ~(calls[c].job = j /\ OpenTask(c))
    BY <1>0, <1>3 DEF Recover, AfterError, TypeOK
  <2>2. worker' = worker /\ calls' = calls  BY <1>3 DEF Recover
  <2>3. Serial' /\ Called'  BY <2>2 DEF Inv, Serial, Called
  <2>4. Owned'
    BY <2>1, <2>2 DEF Inv, Owned, Busy, Orphaned
  <2>5. Settled'
    BY <2>1, <2>2 DEF Inv, Settled, NoBlindReplay, OpenTask, Busy
  <2> QED  BY <1>0, <2>3, <2>4, <2>5 DEF Inv
<1>4. CASE Retry
  <2>1. PICK j \in Jobs :
          /\ jobs[j] = "failed" /\ jobs' = [jobs EXCEPT ![j] = "waiting"]
          /\ calls' = [c \in CallIds |-> [calls[c] EXCEPT !.excused = @ \/ (calls[c].job = j /\ OpenTask(c))]]
    BY <1>4 DEF Retry
  <2>2. worker' = worker /\ jobs'[j] = "waiting" /\ \A k \in Jobs \ {j} : jobs'[k] = jobs[k]
    BY <1>0, <1>4, <2>1 DEF Retry, TypeOK
  <2>3. ASSUME NEW c \in CallIds
        PROVE  /\ calls'[c].job = calls[c].job /\ calls'[c].status = calls[c].status /\ calls'[c].task = calls[c].task
               /\ calls[c].excused => calls'[c].excused
               /\ calls[c].job = j /\ OpenTask(c) => calls'[c].excused
    <3>1. calls[c] \in CallRow  BY <1>0 DEF TypeOK
    <3>2. calls'[c] = [calls[c] EXCEPT !.excused = calls[c].excused \/ (calls[c].job = j /\ OpenTask(c))]
      BY <2>1
    <3> QED  BY <3>1, <3>2 DEF CallRow
  <2>4. Serial' /\ Called'  BY <2>2, <2>3 DEF Inv, Serial, Called
  <2>5. Owned'
    BY <2>1, <2>2 DEF Inv, Owned, Busy
  <2>6. Settled'
    <3>1. \A c \in CallIds : Answered(calls[c]) => Answered(calls'[c])
      BY <2>3 DEF Answered
    <3>2. \A c \in CallIds : calls[c].job = j => Answered(calls'[c])
      BY <2>3 DEF Answered, OpenTask
    <3>3. \A k \in Jobs, c \in CallIds : jobs[k] = "waiting" /\ calls[c].job = k => Answered(calls[c])
      BY DEF Inv, Settled, NoBlindReplay, OpenTask, Answered
    <3>4. NoBlindReplay'
      BY <2>2, <2>3, <3>1, <3>2, <3>3 DEF NoBlindReplay, OpenTask, Answered
    <3>5. \A w \in Workers, c \in CallIds : Busy(w) /\ calls'[c].job = worker[w].job
            => Answered(calls'[c]) \/ (worker[w].pc \in Calling /\ c = worker[w].call)
      BY <2>3, <3>1 DEF Inv, Settled
    <3> QED  BY <2>2, <3>4, <3>5 DEF Settled, Busy
  <2> QED  BY <1>0, <2>4, <2>5, <2>6 DEF Inv
<1>5. CASE Delete
  <2>1. PICK j \in Jobs :
          /\ jobs[j] \in {"completed", "failed"} /\ jobs' = [jobs EXCEPT ![j] = "gone"]
          /\ calls' = [c \in CallIds |-> IF calls[c].job = j THEN Absent ELSE calls[c]]
    BY <1>5 DEF Delete
  <2>2. worker' = worker /\ jobs'[j] = "gone" /\ \A k \in Jobs \ {j} : jobs'[k] = jobs[k]
    BY <1>0, <1>5, <2>1 DEF Delete, TypeOK
  <2>3. \A w \in Workers : Busy(w) => worker[w].job \in Jobs \ {j}
    BY <2>1 DEF Inv, Owned
  <2>4. \A c \in CallIds : IF calls[c].job = j THEN calls'[c].job = NoJob /\ ~calls'[c].task ELSE calls'[c] = calls[c]
    BY <2>1 DEF Absent
  <2>5. Serial' /\ Owned' /\ Called'
    BY <2>2, <2>3, <2>4 DEF Inv, Serial, Owned, Called, Busy, Calling
  <2>6. Settled'
    <3>1. \A c \in CallIds : calls'[c].task /\ calls'[c].job \in Jobs => calls'[c] = calls[c] /\ calls[c].job # j
      BY <2>4
    <3>2. \A k \in Jobs : jobs'[k] = "waiting" => jobs[k] = "waiting"
      BY <2>2
    <3>3. NoBlindReplay'
      BY <3>1, <3>2 DEF Inv, Settled, NoBlindReplay, OpenTask
    <3>4. ASSUME NEW w \in Workers, NEW c \in CallIds, Busy(w), calls'[c].job = worker[w].job
          PROVE  Answered(calls'[c]) \/ (worker[w].pc \in Calling /\ c = worker[w].call)
      BY <2>3, <2>4, <3>4 DEF Inv, Settled, Answered
    <3> QED  BY <2>2, <3>3, <3>4 DEF Settled, Busy
  <2> QED  BY <1>0, <2>5, <2>6 DEF Inv
<1>6. CASE worker' = worker /\ jobs' = jobs /\ calls' = calls
  BY <1>0, <1>6 DEF Inv, Serial, Owned, Called, Settled, NoBlindReplay, OpenTask, Busy
<1>7. Midnight \/ UNCHANGED vars => worker' = worker /\ jobs' = jobs /\ calls' = calls
  BY DEF Midnight, vars
<1> QED  BY <1>1, <1>2, <1>3, <1>4, <1>5, <1>6, <1>7 DEF Next

LEMMA InvAtFirst == Init => Inv
<1> SUFFICES ASSUME Init PROVE Inv
  OBVIOUS
<1>1. TypeOK
  BY IdleTypes, AbsentTypes DEF Init, TypeOK, Job, Days
<1>2. \A w \in Workers : worker[w].pc = "idle" /\ worker[w].job = NoJob
  BY DEF Init, Idle
<1>3. \A c \in CallIds : ~calls[c].task
  BY DEF Init, Absent
<1> QED
  BY <1>1, <1>2, <1>3 DEF Inv, Serial, Owned, Called, Settled, NoBlindReplay, OpenTask, Busy, InService, Calling

LEMMA Invariance == Spec => []Inv
BY InvAtFirst, InvIsKept, PTL DEF Spec

(* The rows, the jobs and the workers are what the code can store and hold *)
THEOREM TypeCorrect == Spec => []TypeOK
<1>1. Inv => TypeOK  BY DEF Inv
<1> QED  BY <1>1, Invariance, PTL

(* budgetMu: however many workers there are, one at a time is between the  *)
(* check of the budget and the end of its call.                            *)
THEOREM OneCallAtATime == Spec => []Serial
<1>1. Inv => Serial  BY DEF Inv
<1> QED  BY <1>1, Invariance, PTL

(* Whatever fails and whenever the process dies, recovery gives no job     *)
(* back to the workers that has an open task at the provider.              *)
THEOREM NothingIsReplayedBlindly == Spec => []NoBlindReplay
<1>1. Inv => NoBlindReplay  BY DEF Inv, Settled
<1> QED  BY <1>1, Invariance, PTL

-----------------------------------------------------------------------------
(* The budget *)

Rows == {c \in CallIds : calls[c].status # "none"}
RowsOf(d) == {c \in CallIds : calls[c].status # "none" /\ calls[c].day = d}

(* No row is of a day to come, and the call that is to be made, or that is *)
(* under way, was within the budget                                        *)
Budgeted ==
  /\ \A c \in Rows : calls[c].day <= day
  /\ BudgetIsKept
  /\ \A w \in Workers : worker[w].pc = "create" => WithinBudget
  /\ \A w \in Workers : worker[w].pc \in Calling =>
       /\ MyCall(w).cost = 1
       /\ Monthly > 0 => MonthlyEstimatedCost <= Monthly
       /\ Daily > 0 => DailyEstimatedCost(MyCall(w).day) <= Daily

(* The row is as before, or it goes *)
CostsAsBefore(c) ==
  calls'[c].status # "none" =>
    calls[c].status # "none" /\ calls'[c].cost = calls[c].cost /\ calls'[c].day = calls[c].day

LEMMA CostsCount ==
  ASSUME TypeOK, NEW S \in SUBSET CallIds
  PROVE  Counts(Costs, S)
<1>1. IsFiniteSet(CallIds)  BY FS_Interval DEF CallIds
<1>2. \A c \in CallIds : Costs[c] \in Nat  BY DEF TypeOK, CallRow, Costs
<1> QED  BY <1>1, <1>2, FS_Subset DEF Counts

SumsAreNat == MonthlyEstimatedCost \in Nat /\ \A d \in Days : DailyEstimatedCost(d) \in Nat

LEMMA CostsAreNat == TypeOK => SumsAreNat
<1> SUFFICES ASSUME TypeOK PROVE SumsAreNat
  OBVIOUS
<1>1. Counts(Costs, Rows) /\ \A d \in Days : Counts(Costs, RowsOf(d))
  BY CostsCount DEF Rows, RowsOf
<1> QED  BY <1>1, SumIsNat DEF SumsAreNat, MonthlyEstimatedCost, DailyEstimatedCost, Rows, RowsOf

LEMMA CostsStayNat == (TypeOK => SumsAreNat)'
BY CostsAreNat, PTL

(* With one row more, or dearer, the sums rise by what it costs more *)
LEMMA CostsRise ==
  ASSUME TypeOK, TypeOK', NEW c \in CallIds,
         \A b \in CallIds \ {c} : CostsAsBefore(b),
         calls[c].status # "none" => calls'[c].day = calls[c].day
  PROVE  LET before == IF calls[c].status # "none" THEN calls[c].cost ELSE 0
         IN  /\ MonthlyEstimatedCost' + before <= MonthlyEstimatedCost + calls'[c].cost
             /\ \A d \in Days : IF d = calls'[c].day
                               THEN DailyEstimatedCost(d)' + before <= DailyEstimatedCost(d) + calls'[c].cost
                               ELSE DailyEstimatedCost(d)' <= DailyEstimatedCost(d)
<1>1. /\ \A b \in CallIds : Costs[b] = calls[b].cost
      /\ \A b \in CallIds : Costs'[b] = calls'[b].cost /\ Costs'[b] \in Nat
  BY DEF Costs, TypeOK, CallRow
<1>2. SumFunctionOnSet(Costs', Rows') + (IF c \in Rows THEN Costs[c] ELSE 0) <= SumFunctionOnSet(Costs, Rows) + Costs'[c]
  <2>1. Rows' \in SUBSET (Rows \cup {c})  BY DEF Rows, CostsAsBefore
  <2>2. \A b \in Rows' \ {c} : Costs'[b] \in Nat /\ Costs'[b] <= Costs[b]
    BY <1>1 DEF Rows, CostsAsBefore
  <2>3. Counts(Costs, Rows)  BY CostsCount DEF Rows
  <2> QED  BY <1>1, <2>1, <2>2, <2>3, SumOfMoreButOne
<1>3. ASSUME NEW d, d = calls'[c].day
      PROVE  SumFunctionOnSet(Costs', RowsOf(d)') + (IF c \in RowsOf(d) THEN Costs[c] ELSE 0)
               <= SumFunctionOnSet(Costs, RowsOf(d)) + Costs'[c]
  <2>1. RowsOf(d)' \in SUBSET (RowsOf(d) \cup {c})  BY DEF RowsOf, CostsAsBefore
  <2>2. \A b \in RowsOf(d)' \ {c} : Costs'[b] \in Nat /\ Costs'[b] <= Costs[b]
    BY <1>1 DEF RowsOf, CostsAsBefore
  <2>3. Counts(Costs, RowsOf(d))  BY CostsCount DEF RowsOf
  <2> QED  BY <1>1, <2>1, <2>2, <2>3, SumOfMoreButOne
<1>4. ASSUME NEW d \in Days, d # calls'[c].day
      PROVE  SumFunctionOnSet(Costs', RowsOf(d)') <= SumFunctionOnSet(Costs, RowsOf(d))
  <2>1. RowsOf(d)' \in SUBSET RowsOf(d)  BY <1>4 DEF RowsOf, CostsAsBefore
  <2>2. \A b \in RowsOf(d)' : Costs'[b] \in Nat /\ Costs'[b] <= Costs[b]
    BY <1>1, <1>4 DEF RowsOf, CostsAsBefore
  <2>3. Counts(Costs, RowsOf(d))  BY CostsCount DEF RowsOf
  <2> QED  BY <2>1, <2>2, <2>3, SumOfMore
<1> DEFINE before == IF calls[c].status # "none" THEN calls[c].cost ELSE 0
<1>5. /\ before = IF c \in Rows THEN Costs[c] ELSE 0
      /\ \A d \in Days : d = calls'[c].day => before = IF c \in RowsOf(d) THEN Costs[c] ELSE 0
  BY <1>1 DEF Rows, RowsOf
<1>6. MonthlyEstimatedCost' + before <= MonthlyEstimatedCost + calls'[c].cost
  BY <1>1, <1>2, <1>5 DEF MonthlyEstimatedCost, Rows
<1>7. ASSUME NEW d \in Days, d = calls'[c].day
      PROVE  DailyEstimatedCost(d)' + before <= DailyEstimatedCost(d) + calls'[c].cost
  BY <1>1, <1>3, <1>5, <1>7 DEF DailyEstimatedCost, RowsOf
<1>8. ASSUME NEW d \in Days, d # calls'[c].day
      PROVE  DailyEstimatedCost(d)' <= DailyEstimatedCost(d)
  BY <1>4, <1>8 DEF DailyEstimatedCost, RowsOf
<1> HIDE DEF before
<1>9. \A d \in Days : IF d = calls'[c].day
                       THEN DailyEstimatedCost(d)' + before <= DailyEstimatedCost(d) + calls'[c].cost
                       ELSE DailyEstimatedCost(d)' <= DailyEstimatedCost(d)
  BY <1>7, <1>8
<1> QED  BY <1>6, <1>9 DEF before

LEMMA CostsDoNotRise ==
  ASSUME TypeOK, TypeOK', \A c \in CallIds : CostsAsBefore(c)
  PROVE  /\ MonthlyEstimatedCost' <= MonthlyEstimatedCost
         /\ \A d \in Days : DailyEstimatedCost(d)' <= DailyEstimatedCost(d)
<1>1. \A b \in CallIds : Costs[b] = calls[b].cost /\ Costs'[b] = calls'[b].cost /\ Costs'[b] \in Nat
  BY DEF Costs, TypeOK, CallRow
<1>2. SumFunctionOnSet(Costs', Rows') <= SumFunctionOnSet(Costs, Rows)
  <2>1. /\ Rows' \in SUBSET Rows
        /\ \A b \in Rows' : Costs'[b] \in Nat /\ Costs'[b] <= Costs[b]
    BY <1>1 DEF Rows, CostsAsBefore
  <2>2. Counts(Costs, Rows)  BY CostsCount DEF Rows
  <2> QED  BY <2>1, <2>2, SumOfMore
<1>3. ASSUME NEW d \in Days
      PROVE  SumFunctionOnSet(Costs', RowsOf(d)') <= SumFunctionOnSet(Costs, RowsOf(d))
  <2>1. /\ RowsOf(d)' \in SUBSET RowsOf(d)
        /\ \A b \in RowsOf(d)' : Costs'[b] \in Nat /\ Costs'[b] <= Costs[b]
    BY <1>1 DEF RowsOf, CostsAsBefore
  <2>2. Counts(Costs, RowsOf(d))  BY CostsCount DEF RowsOf
  <2> QED  BY <2>1, <2>2, SumOfMore
<1> QED  BY <1>2, <1>3 DEF MonthlyEstimatedCost, DailyEstimatedCost, Rows, RowsOf

(* Where no row is new or dearer, and no call is begun without a check *)
LEMMA QuietStepsKeepBudgeted ==
  ASSUME Inv, Inv', Budgeted, day' = day, \A c \in CallIds : CostsAsBefore(c),
         \A w \in Workers : worker'[w].pc = "create" => worker[w].pc = "create" \/ WithinBudget,
         \A w \in Workers : worker'[w].pc \in Calling => worker[w].pc \in Calling /\ worker'[w].call = worker[w].call
  PROVE  Budgeted'
<1>0. TypeOK /\ TypeOK' /\ day \in Days  BY DEF Inv, TypeOK
<1>1. /\ MonthlyEstimatedCost' <= MonthlyEstimatedCost
      /\ \A d \in Days : DailyEstimatedCost(d)' <= DailyEstimatedCost(d)
  BY <1>0, CostsDoNotRise
<1>2. /\ MonthlyEstimatedCost \in Nat /\ MonthlyEstimatedCost' \in Nat
      /\ \A d \in Days : DailyEstimatedCost(d) \in Nat /\ DailyEstimatedCost(d)' \in Nat
  BY <1>0, CostsAreNat, CostsStayNat DEF SumsAreNat
<1>3. \A c \in Rows' : calls'[c].day <= day'
  BY DEF Rows, CostsAsBefore, Budgeted
<1>4. BudgetIsKept'
  BY <1>1, <1>2, BudgetAssumption DEF Budgeted, BudgetIsKept
<1>5. ASSUME WithinBudget PROVE WithinBudget'
  <2>1. \A a, b, m \in Nat : a <= b /\ b + 1 <= m => a + 1 <= m  OBVIOUS
  <2>2. Monthly \in Nat /\ Daily \in Nat  BY BudgetAssumption
  <2>3. Monthly > 0 => MonthlyEstimatedCost' + 1 <= Monthly
    <3>1. Monthly > 0 => MonthlyEstimatedCost + 1 <= Monthly  BY <1>5 DEF WithinBudget
    <3> QED  BY ONLY <1>1, <1>2, <2>1, <2>2, <3>1, Zenon
  <2>4. PICK d \in Days : d = day /\ d = day'  BY <1>0
  <2>5. Daily > 0 => DailyEstimatedCost(d)' + 1 <= Daily
    <3>1. Daily > 0 => DailyEstimatedCost(d) + 1 <= Daily  BY <1>5, <2>4 DEF WithinBudget
    <3>2. /\ DailyEstimatedCost(d)' <= DailyEstimatedCost(d)
          /\ DailyEstimatedCost(d) \in Nat /\ DailyEstimatedCost(d)' \in Nat
      BY <1>1, <1>2
    <3> QED  BY ONLY <2>1, <2>2, <3>1, <3>2, Zenon
  <2>6. DailyEstimatedCost(day)' = DailyEstimatedCost(d)'  BY <2>4 DEF DailyEstimatedCost
  <2> QED  BY <2>3, <2>5, <2>6 DEF WithinBudget
<1>6. ASSUME NEW w \in Workers, worker'[w].pc \in Calling
      PROVE  /\ MyCall(w)'.cost = 1
             /\ Monthly > 0 => MonthlyEstimatedCost' <= Monthly
             /\ Daily > 0 => DailyEstimatedCost(MyCall(w).day)' <= Daily
  <2>1. worker[w].pc \in Calling /\ worker'[w].call = worker[w].call /\ worker[w].call \in CallIds
    BY <1>6 DEF Inv, Called
  <2>2. calls'[worker[w].call].status # "none"
    BY <1>6, <2>1 DEF Inv, Called
  <2>3. MyCall(w)'.cost = MyCall(w).cost /\ MyCall(w)'.day = MyCall(w).day /\ MyCall(w).day \in Days
    BY <1>0, <2>1, <2>2 DEF CostsAsBefore, MyCall, TypeOK, CallRow
  <2>4. DailyEstimatedCost(MyCall(w).day)' <= DailyEstimatedCost(MyCall(w).day)
    <3>1. PICK d \in Days : d = MyCall(w).day /\ d = MyCall(w)'.day  BY <2>3
    <3>2. DailyEstimatedCost(d)' <= DailyEstimatedCost(d)  BY <1>1
    <3>3. DailyEstimatedCost(MyCall(w).day)' = DailyEstimatedCost(d)'  BY <3>1 DEF DailyEstimatedCost
    <3> QED  BY <3>1, <3>2, <3>3
  <2> QED  BY <1>1, <1>2, <2>1, <2>3, <2>4, BudgetAssumption DEF Budgeted
<1> QED  BY <1>3, <1>4, <1>5, <1>6 DEF Budgeted

LEMMA MidnightKeepsBudgeted ==
  ASSUME Inv, Inv', Budgeted, Midnight
  PROVE  Budgeted'
<1>0. TypeOK /\ TypeOK' /\ day \in Nat /\ day' = day + 1 /\ day' \in Days /\ worker' = worker /\ calls' = calls
  BY DEF Inv, TypeOK, Midnight, Days
<1>1. /\ MonthlyEstimatedCost' = MonthlyEstimatedCost /\ MonthlyEstimatedCost \in Nat
      /\ \A d : DailyEstimatedCost(d)' = DailyEstimatedCost(d)
      /\ \A c \in CallIds : MyCall(c)' = MyCall(c)
  BY <1>0, CostsAreNat DEF SumsAreNat, MonthlyEstimatedCost, DailyEstimatedCost, Costs, MyCall
<1>2. \A c \in Rows' : calls'[c].day <= day'
  <2>1. \A c \in Rows : calls[c].day \in Nat /\ calls[c].day <= day  BY <1>0 DEF Budgeted, Rows, TypeOK, CallRow, Days
  <2> QED  BY <1>0, <2>1 DEF Rows
<1>3. DailyEstimatedCost(day)' = 0
  <2>1. \A c \in Rows : calls[c].day # day'
    <3>1. \A c \in Rows : calls[c].day \in Nat /\ calls[c].day <= day  BY <1>0 DEF Budgeted, Rows, TypeOK, CallRow, Days
    <3> QED  BY <1>0, <3>1
  <2>2. RowsOf(day)' = {}  BY <1>0, <2>1 DEF Rows, RowsOf
  <2> QED  BY <2>2, SumOfNothing DEF DailyEstimatedCost, RowsOf
<1>4. WithinBudget => WithinBudget'
  BY <1>1, <1>3, BudgetAssumption DEF WithinBudget
<1>5. BudgetIsKept'
  BY <1>1 DEF Budgeted, BudgetIsKept
<1>6. ASSUME NEW w \in Workers, worker'[w].pc \in Calling
      PROVE  /\ MyCall(w)'.cost = 1
             /\ Monthly > 0 => MonthlyEstimatedCost' <= Monthly
             /\ Daily > 0 => DailyEstimatedCost(MyCall(w).day)' <= Daily
  <2>1. worker[w].pc \in Calling /\ MyCall(w)' = MyCall(w)  BY <1>0, <1>6 DEF MyCall
  <2>2. DailyEstimatedCost(MyCall(w).day)' = DailyEstimatedCost(MyCall(w).day)
    BY <1>0, <2>1 DEF DailyEstimatedCost, Costs
  <2> QED  BY <1>1, <2>1, <2>2 DEF Budgeted
<1> QED  BY <1>0, <1>2, <1>4, <1>5, <1>6 DEF Budgeted

(* Who is in the service when w is there *)
LEMMA NobodyElseCalls ==
  ASSUME Inv, NEW w \in Workers, worker[w].pc \in InService
  PROVE  \A v \in Workers \ {w} : worker[v].pc \notin Calling \cup {"create"}
BY DEF Inv, Serial, InService, Calling

LEMMA CreateKeepsBudgeted ==
  ASSUME Inv, Inv', Budgeted, NEW w \in Workers, Create(w)
  PROVE  Budgeted'
<1> DEFINE c == NewCall
<1>0. TypeOK /\ TypeOK' /\ day \in Days /\ day' = day  BY DEF Inv, TypeOK, Create
<1>1. c \in CallIds /\ calls[c].status = "none"  BY NewCallIsUnused DEF Create
<1> HIDE DEF c
<1>2. /\ \A b \in CallIds \ {c} : calls'[b] = calls[b]
      /\ calls'[c].status = "submitted" /\ calls'[c].cost = 1 /\ calls'[c].day = day
  BY <1>0, <1>1 DEF Create, TypeOK, Absent, c
<1>3. /\ worker'[w].call = c /\ worker'[w].pc = "submit"
      /\ \A v \in Workers \ {w} : worker'[v] = worker[v] /\ worker[v].pc \notin Calling \cup {"create"}
  BY <1>0, NobodyElseCalls DEF Create, At, TypeOK, Worker, InService, c
<1>4. WithinBudget  BY DEF Create, At, Budgeted
<1>5. /\ MonthlyEstimatedCost' <= MonthlyEstimatedCost + 1
      /\ \A d \in Days : DailyEstimatedCost(d)' <= DailyEstimatedCost(d) + (IF d = day THEN 1 ELSE 0)
  <2>1. \A b \in CallIds \ {c} : CostsAsBefore(b)  BY <1>2 DEF CostsAsBefore
  <2>2. /\ MonthlyEstimatedCost' + 0 <= MonthlyEstimatedCost + 1
        /\ \A d \in Days : IF d = day
                            THEN DailyEstimatedCost(d)' + 0 <= DailyEstimatedCost(d) + 1
                            ELSE DailyEstimatedCost(d)' <= DailyEstimatedCost(d)
    BY <1>0, <1>1, <1>2, <2>1, CostsRise
  <2> QED  BY <1>0, <2>2, CostsAreNat, CostsStayNat DEF SumsAreNat
<1>6. /\ MonthlyEstimatedCost \in Nat /\ MonthlyEstimatedCost' \in Nat
      /\ \A d \in Days : DailyEstimatedCost(d) \in Nat /\ DailyEstimatedCost(d)' \in Nat
  BY <1>0, CostsAreNat, CostsStayNat DEF SumsAreNat
<1>7. /\ Monthly > 0 => MonthlyEstimatedCost' <= Monthly
      /\ Daily > 0 => DailyEstimatedCost(day)' <= Daily
  <2>1. DailyEstimatedCost(day)' <= DailyEstimatedCost(day) + 1 /\ DailyEstimatedCost(day)' \in Nat
    <3>1. PICK d \in Days : d = day /\ d = day'  BY <1>0
    <3>2. DailyEstimatedCost(d)' <= DailyEstimatedCost(d) + 1 /\ DailyEstimatedCost(d)' \in Nat  BY <1>5, <1>6, <3>1
    <3>3. DailyEstimatedCost(day)' = DailyEstimatedCost(d)'  BY <3>1 DEF DailyEstimatedCost
    <3> QED  BY <3>1, <3>2, <3>3
  <2>2. DailyEstimatedCost(day) \in Nat  BY <1>0, <1>6
  <2> QED  BY <1>4, <1>5, <1>6, <2>1, <2>2, BudgetAssumption DEF WithinBudget
<1>8. BudgetIsKept'
  <2>1. ASSUME Daily > 0, NEW d \in Days PROVE DailyEstimatedCost(d)' <= Daily + (MostBilled - 1)
    <3>1. CASE d = day
      <4>1. DailyEstimatedCost(d)' = DailyEstimatedCost(day)'  BY <1>0, <3>1 DEF DailyEstimatedCost
      <4> QED  BY <1>6, <1>7, <2>1, <4>1, BudgetAssumption
    <3>2. CASE d # day
      <4>1. DailyEstimatedCost(d)' <= DailyEstimatedCost(d) + 0  BY <1>5, <3>2
      <4> QED  BY <1>6, <2>1, <4>1, BudgetAssumption DEF Budgeted, BudgetIsKept
    <3> QED  BY <3>1, <3>2
  <2> QED  BY <1>6, <1>7, <2>1, BudgetAssumption DEF BudgetIsKept
<1>9. \A b \in Rows' : calls'[b].day <= day'
  <2>1. day <= day  BY <1>0 DEF Days
  <2> QED  BY <1>0, <1>2, <2>1 DEF Rows, Budgeted
<1>10. ASSUME NEW v \in Workers, worker'[v].pc \in Calling
       PROVE  /\ MyCall(v)'.cost = 1
              /\ Monthly > 0 => MonthlyEstimatedCost' <= Monthly
              /\ Daily > 0 => DailyEstimatedCost(MyCall(v).day)' <= Daily
  <2>1. v = w  BY <1>3, <1>10
  <2>2. MyCall(v)'.cost = 1 /\ MyCall(v)'.day = day'  BY <1>0, <1>2, <1>3, <2>1 DEF MyCall
  <2>3. DailyEstimatedCost(MyCall(v).day)' = DailyEstimatedCost(day)'  BY <2>2 DEF DailyEstimatedCost
  <2> QED  BY <1>7, <2>2, <2>3
<1>11. \A v \in Workers : worker'[v].pc # "create"  BY <1>3
<1> QED  BY <1>8, <1>9, <1>10, <1>11 DEF Budgeted

LEMMA CompleteKeepsBudgeted ==
  ASSUME Inv, Inv', Budgeted, NEW w \in Workers, Complete(w)
  PROVE  Budgeted'
<1> DEFINE c == worker[w].call
<1>0. TypeOK /\ TypeOK' /\ day \in Days /\ day' = day  BY DEF Inv, TypeOK, Complete
<1>1. /\ c \in CallIds /\ calls[c].status # "none" /\ MyCall(w) = calls[c] /\ calls[c].day \in Days
      /\ worker[w].pc = "work"
  <2>1. worker[w].pc = "work"  BY DEF Complete, At
  <2>2. c \in CallIds /\ calls[c].status # "none"  BY <2>1 DEF Inv, Called, Calling
  <2>3. calls[c].day \in Days  BY <1>0, <2>2 DEF TypeOK, CallRow
  <2> QED  BY <2>1, <2>2, <2>3 DEF MyCall
<1> HIDE DEF c
<1>2. /\ calls[c].cost = 1
      /\ Monthly > 0 => MonthlyEstimatedCost <= Monthly
      /\ Daily > 0 => DailyEstimatedCost(calls[c].day) <= Daily
  BY <1>1 DEF Budgeted, Calling
<1>3. PICK n \in 1..MostBilled :
        /\ \A b \in CallIds \ {c} : calls'[b] = calls[b]
        /\ calls'[c].status = "completed" /\ calls'[c].cost = n /\ calls'[c].day = calls[c].day
  <2>1. PICK cost \in Billed(w) :
          calls' = [calls EXCEPT ![c].status = "completed", ![c].task = (worker[w].provider = "aliyun"),
                                 ![c].cost = IF cost = 0 THEN 1 ELSE cost]
    BY DEF Complete, c
  <2>2. (IF cost = 0 THEN 1 ELSE cost) \in 1..MostBilled  BY BudgetAssumption DEF Billed
  <2> QED  BY <1>0, <1>1, <2>1, <2>2 DEF TypeOK, CallRow
<1>4. /\ worker'[w].pc = "next"
      /\ \A v \in Workers \ {w} : worker'[v] = worker[v] /\ worker[v].pc \notin Calling \cup {"create"}
  BY <1>0, <1>1, NobodyElseCalls DEF Complete, Goto, TypeOK, Worker, InService
<1>5. /\ MonthlyEstimatedCost \in Nat /\ MonthlyEstimatedCost' \in Nat
      /\ \A d \in Days : DailyEstimatedCost(d) \in Nat /\ DailyEstimatedCost(d)' \in Nat
  BY <1>0, CostsAreNat, CostsStayNat DEF SumsAreNat
<1>6. /\ MonthlyEstimatedCost' + 1 <= MonthlyEstimatedCost + n
      /\ \A d \in Days : IF d = calls[c].day
                          THEN DailyEstimatedCost(d)' + 1 <= DailyEstimatedCost(d) + n
                          ELSE DailyEstimatedCost(d)' <= DailyEstimatedCost(d)
  <2>1. \A b \in CallIds \ {c} : CostsAsBefore(b)  BY <1>3 DEF CostsAsBefore
  <2> QED  BY <1>0, <1>1, <1>2, <1>3, <2>1, CostsRise
<1>7. BudgetIsKept'
  <2>1. ASSUME Daily > 0, NEW d \in Days PROVE DailyEstimatedCost(d)' <= Daily + (MostBilled - 1)
    <3>1. CASE d = calls[c].day
      BY <1>2, <1>5, <1>6, <2>1, <3>1, BudgetAssumption
    <3>2. CASE d # calls[c].day
      BY <1>5, <1>6, <2>1, <3>2, BudgetAssumption DEF Budgeted, BudgetIsKept
    <3> QED  BY <3>1, <3>2
  <2>2. ASSUME Monthly > 0 PROVE MonthlyEstimatedCost' <= Monthly + (MostBilled - 1)
    <3>1. MonthlyEstimatedCost' + 1 <= MonthlyEstimatedCost + n /\ MonthlyEstimatedCost <= Monthly
      BY <1>2, <1>6, <2>2
    <3>2. MonthlyEstimatedCost \in Nat /\ MonthlyEstimatedCost' \in Nat  BY <1>5
    <3>3. n \in Nat /\ n <= MostBilled /\ Monthly \in Nat /\ MostBilled \in Nat  BY BudgetAssumption
    <3> DEFINE m == MonthlyEstimatedCost
               p == MonthlyEstimatedCost'
    <3> HIDE DEF m, p
    <3>4. p + 1 <= m + n /\ m <= Monthly /\ m \in Nat /\ p \in Nat  BY <3>1, <3>2 DEF m, p
    <3>5. p <= Monthly + (MostBilled - 1)  BY <3>3, <3>4
    <3> QED  BY <3>5 DEF p
  <2> QED  BY <2>1, <2>2 DEF BudgetIsKept
<1>8. \A b \in Rows' : calls'[b].day <= day'
  BY <1>0, <1>1, <1>3 DEF Rows, Budgeted
<1>9. \A v \in Workers : worker'[v].pc \notin Calling \cup {"create"}
  BY <1>4 DEF Calling
<1> QED  BY <1>7, <1>8, <1>9 DEF Budgeted

(* Every other step of a worker is quiet *)
LEMMA WorkersKeepBudgeted ==
  ASSUME Inv, Inv', Budgeted, NEW w \in Workers, Take(w) \/ Lock(w) \/ Transcribing(w) \/ Transcribed(w)
  PROVE  Budgeted'
<1>0. /\ TypeOK /\ worker[w] \in Worker
      /\ worker[w].pc \in Calling => worker[w].call \in CallIds /\ MyCall(w).status # "none"
  BY DEF Inv, TypeOK, Called, MyCall
<1>1. ASSUME day' = day, \A c \in CallIds : CostsAsBefore(c),
             \A v \in Workers \ {w} : worker'[v] = worker[v],
             worker'[w].pc = "create" => worker[w].pc = "create" \/ WithinBudget,
             worker'[w].pc \in Calling => worker[w].pc \in Calling /\ worker'[w].call = worker[w].call
      PROVE  Budgeted'
  <2>1. \A v \in Workers : worker'[v].pc = "create" => worker[v].pc = "create" \/ WithinBudget
    BY <1>1
  <2>2. \A v \in Workers : worker'[v].pc \in Calling => worker[v].pc \in Calling /\ worker'[v].call = worker[v].call
    BY <1>1
  <2> QED  BY <1>1, <2>1, <2>2, QuietStepsKeepBudgeted
<1>2. calls' = calls => \A c \in CallIds : CostsAsBefore(c)
  BY DEF CostsAsBefore
<1>3. worker[w].pc \in Calling /\ Failed(w) => \A c \in CallIds : CostsAsBefore(c)
  <2>1. ASSUME NEW c \in CallIds PROVE calls[c] \in CallRow  BY <1>0 DEF TypeOK
  <2> QED  BY <1>0, <2>1 DEF Failed, CostsAsBefore, MyCall, CallRow, TypeOK
<1>4. ASSUME NEW error, Ends(w, error) PROVE worker'[w].pc = "idle" /\ \A v \in Workers \ {w} : worker'[v] = worker[v]
  BY <1>0, <1>4 DEF Ends, Idle, TypeOK
<1>5. ASSUME NEW pc, Goto(w, pc)
      PROVE  worker'[w].pc = pc /\ worker'[w].call = worker[w].call /\ \A v \in Workers \ {w} : worker'[v] = worker[v]
  BY <1>0, <1>5 DEF Goto, TypeOK, Worker
<1>6. CASE Take(w)
  <2>1. worker'[w].pc = "wait" /\ \A v \in Workers \ {w} : worker'[v] = worker[v]
    <3>1. PICK j \in Jobs :
            worker' = [worker EXCEPT ![w] = [Idle EXCEPT !.pc = "wait", !.job = j, !.segment = 1]]
      BY <1>6 DEF Take
    <3>2. [Idle EXCEPT !.pc = "wait", !.job = j, !.segment = 1].pc = "wait"  BY DEF Idle
    <3> QED  BY <1>0, <3>1, <3>2 DEF TypeOK
  <2>2. calls' = calls /\ day' = day  BY <1>6 DEF Take
  <2> QED  BY <1>1, <1>2, <2>1, <2>2 DEF Calling
<1>7. CASE Lock(w)
  BY <1>1, <1>2, <1>5, <1>7 DEF Lock, At, Calling
<1>8. CASE NextSegment(w)
  <2>1. worker'[w].pc \in {"wait", "idle"} /\ \A v \in Workers \ {w} : worker'[v] = worker[v]
    <3>1. CASE worker[w].segment < Segments(worker[w].job)
      BY <1>0, <1>8, <3>1 DEF NextSegment, TypeOK, Idle
    <3>2. CASE ~(worker[w].segment < Segments(worker[w].job))
      BY <1>0, <1>8, <3>2 DEF NextSegment, TypeOK, Idle
    <3> QED  BY <3>1, <3>2
  <2> QED  BY <1>1, <1>2, <1>8, <2>1 DEF NextSegment, Calling
<1>9. CASE CheckBudget(w)
  <2>1. worker'[w].pc = "create" /\ \A v \in Workers \ {w} : worker'[v] = worker[v]
    <3>1. CASE worker[w].provider = "none"
      <4>1. PICK keys \in (SUBSET Providers) \ {{}} :
              worker' = [worker EXCEPT ![w].pc = "create", ![w].provider = Preferred(keys), ![w].left = Second(keys)]
        BY <1>9, <3>1 DEF CheckBudget
      <4> QED  BY <1>0, <4>1 DEF TypeOK, Worker
    <3>2. CASE worker[w].provider # "none"
      <4>1. worker' = [worker EXCEPT ![w].pc = "create", ![w].provider = worker[w].left, ![w].left = "none",
                                     ![w].call = NoCall]
        BY <1>9, <3>2 DEF CheckBudget
      <4> QED  BY <1>0, <4>1 DEF TypeOK, Worker
    <3> QED  BY <3>1, <3>2
  <2>2. calls' = calls /\ day' = day /\ WithinBudget  BY <1>9 DEF CheckBudget
  <2> QED  BY <1>1, <1>2, <2>1, <2>2 DEF Calling
<1>10. CASE Refuse(w) \/ GiveUp(w)
  BY <1>1, <1>2, <1>4, <1>10 DEF Refuse, GiveUp, At, Calling
<1>11. CASE Create(w)
  BY <1>11, CreateKeepsBudgeted
<1>12. CASE Submit(w)
  BY <1>1, <1>2, <1>5, <1>12 DEF Submit, At, Calling
<1>13. CASE Report(w)
  <2>1. \A c \in CallIds : CostsAsBefore(c)
    <3>1. ASSUME NEW c \in CallIds PROVE calls[c] \in CallRow  BY <1>0 DEF TypeOK
    <3> QED  BY <1>0, <1>13, <3>1 DEF Report, At, CostsAsBefore, MyCall, CallRow, TypeOK, Calling
  <2> QED  BY <1>1, <1>5, <1>13, <2>1 DEF Report, At, Calling
<1>14. CASE CallFails(w)
  <2>1. /\ worker'[w].pc = "settle" /\ worker'[w].call = worker[w].call
        /\ \A v \in Workers \ {w} : worker'[v] = worker[v]
    BY <1>0, <1>14 DEF CallFails, TypeOK, Worker
  <2> QED  BY <1>1, <1>2, <1>14, <2>1 DEF CallFails, Calling
<1>15. CASE FallBack(w)
  <2>1. worker'[w].pc = "check" /\ \A v \in Workers \ {w} : worker'[v] = worker[v]
    BY <1>0, <1>15 DEF FallBack, TypeOK, Worker
  <2> QED  BY <1>1, <1>3, <1>15, <2>1 DEF FallBack, At, Calling
<1>16. CASE Settle(w)
  BY <1>1, <1>3, <1>4, <1>16 DEF Settle, At, Calling
<1>17. CASE Complete(w)
  BY <1>17, CompleteKeepsBudgeted
<1>18. CASE CompleteFails(w)
  <2>1. \A c \in CallIds : CostsAsBefore(c)
    <3>1. ASSUME NEW c \in CallIds PROVE calls[c] \in CallRow  BY <1>0 DEF TypeOK
    <3> QED  BY <1>0, <1>18, <3>1 DEF CompleteFails, At, CostsAsBefore, MyCall, CallRow, TypeOK, Calling
  <2> QED  BY <1>1, <1>4, <1>18, <2>1 DEF CompleteFails, At, Calling
<1> QED
  BY <1>6, <1>7, <1>8, <1>9, <1>10, <1>11, <1>12, <1>13, <1>14, <1>15, <1>16, <1>17, <1>18 DEF Transcribing, Transcribed

LEMMA BudgetedIsKept == Inv /\ Budgeted /\ [Next]_vars => Budgeted'
<1> SUFFICES ASSUME Inv, Budgeted, [Next]_vars PROVE Budgeted'
  OBVIOUS
<1>0. Inv' /\ TypeOK  BY InvIsKept DEF Inv
<1>1. ASSUME NEW w \in Workers, Take(w) \/ Lock(w) \/ Transcribing(w) \/ Transcribed(w) PROVE Budgeted'
  BY <1>0, <1>1, WorkersKeepBudgeted
<1>2. CASE Crash
  BY <1>0, <1>2, QuietStepsKeepBudgeted DEF Crash, CostsAsBefore, Idle, Calling
<1>3. CASE Recover
  BY <1>0, <1>3, QuietStepsKeepBudgeted DEF Recover, CostsAsBefore
<1>4. CASE Retry
  <2>1. \A c \in CallIds : CostsAsBefore(c)
    <3>1. PICK j \in Jobs :
            calls' = [c \in CallIds |-> [calls[c] EXCEPT !.excused = @ \/ (calls[c].job = j /\ OpenTask(c))]]
      BY <1>4 DEF Retry
    <3>2. ASSUME NEW c \in CallIds PROVE calls[c] \in CallRow  BY <1>0 DEF TypeOK
    <3> QED  BY <3>1, <3>2 DEF CostsAsBefore, CallRow
  <2> QED  BY <1>0, <1>4, <2>1, QuietStepsKeepBudgeted DEF Retry
<1>5. CASE Delete
  <2>1. \A c \in CallIds : CostsAsBefore(c)
    BY <1>5 DEF Delete, CostsAsBefore, Absent
  <2> QED  BY <1>0, <1>5, <2>1, QuietStepsKeepBudgeted DEF Delete
<1>6. CASE Midnight
  BY <1>0, <1>6, MidnightKeepsBudgeted
<1>7. CASE UNCHANGED vars
  BY <1>0, <1>7, QuietStepsKeepBudgeted DEF vars, CostsAsBefore
<1> QED  BY <1>1, <1>2, <1>3, <1>4, <1>5, <1>6, <1>7 DEF Next

LEMMA BudgetedAtFirst == Init => Budgeted
<1> SUFFICES ASSUME Init PROVE Budgeted
  OBVIOUS
<1>1. Rows = {} /\ \A d : RowsOf(d) = {}  BY DEF Init, Absent, Rows, RowsOf
<1>2. MonthlyEstimatedCost = 0 /\ \A d : DailyEstimatedCost(d) = 0
  BY <1>1, SumOfNothing DEF MonthlyEstimatedCost, DailyEstimatedCost, Rows, RowsOf
<1>3. \A w \in Workers : worker[w].pc = "idle"  BY DEF Init, Idle
<1>4. BudgetIsKept  BY <1>2, BudgetAssumption DEF BudgetIsKept
<1> QED  BY <1>1, <1>3, <1>4 DEF Budgeted, Calling

(* Whatever number of workers transcribe, whatever fails, also over        *)
(* midnight: the stored calls of a month, and of each of its days, exceed  *)
(* the budget by no more than one call can cost above its estimate.        *)
THEOREM TheBudgetIsKept == Spec => []BudgetIsKept
<1>1. Init => Inv /\ Budgeted  BY InvAtFirst, BudgetedAtFirst
<1>2. Inv /\ Budgeted /\ [Next]_vars => (Inv /\ Budgeted)'  BY InvIsKept, BudgetedIsKept
<1>3. Inv /\ Budgeted => BudgetIsKept  BY DEF Budgeted
<1> QED  BY <1>1, <1>2, <1>3, PTL DEF Spec

-----------------------------------------------------------------------------
(* What is heard *)

Has(j, s) == \E c \in CallIds : calls[c].job = j /\ calls[c].status = "completed" /\ calls[c].segment = s

(* The call of w is for the segment that w is at, and is not over *)
OwnCall(w) == worker[w].pc \in Calling =>
  MyCall(w).segment = worker[w].segment /\ MyCall(w).status \in {"submitted", "running"}

(* w has all the segments that it has left behind *)
Behind(w) == Busy(w) =>
  \A s \in 1..worker[w].segment : s < worker[w].segment \/ worker[w].pc = "next" => Has(worker[w].job, s)

Whole(j) == \A s \in 1..Segments(j) : Has(j, s)

Heard ==
  /\ \A w \in Workers : OwnCall(w) /\ Behind(w)
  /\ \A j \in Jobs : jobs[j] = "completed" => Whole(j)

(* The length of the audio in whole steps: there is a last one that begins within it *)
LEMMA SegmentAt ==
  ASSUME NEW j \in Jobs, Audio[j] > Length, NEW u \in 0..(Audio[j] - 1)
  PROVE  \E s \in 1..Segments(j) : Start(s) <= u /\ u < Start(s) + Step
<1> USE AudioAssumption
<1>1. Step \in Nat \ {0} /\ Audio[j] \in Nat  BY DEF Step
<1> DEFINE q == u \div Step
           s == q + 1
<1>2. q \in Nat /\ q * Step <= u /\ u < q * Step + Step
  BY <1>1
<1>3. q <= q * Step
  BY <1>1, <1>2
<1> HIDE DEF q
<1>4. s \in 1..Audio[j] /\ Start(s) = q * Step
  BY <1>1, <1>2, <1>3 DEF Start
<1>5. \A r \in 1..s : r \in 1..Audio[j] /\ Start(r) < Audio[j]
  <2> SUFFICES ASSUME NEW r \in 1..s PROVE r \in 1..Audio[j] /\ Start(r) < Audio[j]
    OBVIOUS
  <2>1. r - 1 \in Nat /\ r - 1 <= q  BY <1>2
  <2>2. (r - 1) * Step <= q * Step  BY <1>1, <1>2, <2>1
  <2>3. (r - 1) * Step \in Nat /\ q * Step \in Nat  BY <1>1, <1>2, <2>1
  <2> QED  BY <1>1, <1>2, <1>4, <2>2, <2>3 DEF Start
<1>6. s <= Segments(j)
  <2> DEFINE all == {r \in 1..Audio[j] : Start(r) < Audio[j]}
  <2>1. IsFiniteSet(1..Audio[j])  BY <1>1, FS_Interval
  <2>2. IsFiniteSet(all)  BY <2>1, FS_Subset
  <2>3. (1..s) \in SUBSET all  BY <1>5
  <2>4. Cardinality(1..s) <= Cardinality(all)  BY <2>2, <2>3, FS_Subset
  <2>5. Cardinality(1..s) = s
    <3>1. s \in Int /\ 1 \in Int /\ ~(1 > s)  BY <1>2
    <3>2. Cardinality(1..s) = IF 1 > s THEN 0 ELSE s - 1 + 1  BY <3>1, FS_Interval
    <3> QED  BY <3>1, <3>2
  <2>6. Segments(j) = Cardinality(all)  BY <1>1 DEF Segments
  <2> QED  BY <2>4, <2>5, <2>6
<1>7. Segments(j) \in Int
  <2>1. IsFiniteSet(1..Audio[j])  BY <1>1, FS_Interval
  <2>2. IsFiniteSet({r \in 1..Audio[j] : Start(r) < Audio[j]})  BY <2>1, FS_Subset
  <2> QED  BY <1>1, <2>2, FS_CardinalityType DEF Segments
<1>8. s \in 1..Segments(j)  BY <1>2, <1>6, <1>7
<1> QED  BY <1>2, <1>4, <1>8

(* Nothing that is said falls between two segments *)
LEMMA SegmentsCover ==
  ASSUME NEW j \in Jobs, NEW t \in 0..(Audio[j] - Overlap)
  PROVE  \E s \in 1..Segments(j) : Start(s) <= t /\ t + Overlap <= End(j, s)
<1> USE AudioAssumption
<1>1. Audio[j] \in Nat \ {0} /\ Length \in Nat /\ Overlap \in Nat /\ Overlap < Length /\ t \in Nat /\ t + Overlap <= Audio[j]
  OBVIOUS
<1>2. CASE Audio[j] <= Length
  <2>1. Segments(j) = 1 /\ Start(1) = 0 /\ End(j, 1) = Audio[j]
    BY <1>1, <1>2 DEF Segments, Start, Step, End
  <2> QED  BY <1>1, <2>1
<1>3. CASE Audio[j] > Length
  <2> DEFINE u == IF t < Audio[j] THEN t ELSE t - 1
  <2>1. u \in 0..(Audio[j] - 1) /\ u <= t /\ (u = t \/ (u = t - 1 /\ Overlap = 0))
    BY <1>1
  <2> HIDE DEF u
  <2>2. PICK s \in 1..Segments(j) : Start(s) <= u /\ u < Start(s) + Step
    BY <1>3, <2>1, SegmentAt
  <2>3. Start(s) \in Int
    BY <1>1 DEF Start, Step
  <2>4. t + Overlap <= End(j, s)
    BY <1>1, <2>1, <2>2, <2>3 DEF Step, End
  <2> QED  BY <1>1, <2>1, <2>2, <2>3, <2>4
<1> QED  BY <1>1, <1>2, <1>3

LEMMA WholeIsHeard ==
  ASSUME Heard PROVE NothingSaidIsLost
<1> SUFFICES ASSUME NEW j \in Jobs, jobs[j] = "completed", NEW t \in 0..(Audio[j] - Overlap)
             PROVE  \E c \in CallIds :
                      /\ calls[c].job = j /\ calls[c].status = "completed"
                      /\ Start(calls[c].segment) <= t /\ t + Overlap <= End(j, calls[c].segment)
  BY DEF NothingSaidIsLost
<1>1. PICK s \in 1..Segments(j) : Start(s) <= t /\ t + Overlap <= End(j, s)
  BY SegmentsCover
<1>2. Has(j, s)  BY DEF Heard, Whole
<1> QED  BY <1>1, <1>2 DEF Has

(* A step of w takes nothing from what is heard, nor from the others *)
LEMMA NothingIsUnheard ==
  ASSUME Inv, Heard, NEW w \in Workers, WorkerStep(w)
  PROVE  /\ \A j, s : Has(j, s) => Has(j, s)'
         /\ \A v \in Workers \ {w} : OwnCall(v)' /\ Behind(v)'
<1>1. \A c \in CallIds : RowStep(w, c)
  BY DEF WorkerStep, Proceeds, Leaves, Starts, RowStep
<1>2. \A c \in CallIds : calls[c].status = "completed" => calls'[c] = calls[c]
  BY <1>1 DEF RowStep, Heard, OwnCall, MyCall
<1>3. ASSUME NEW j, NEW s, Has(j, s) PROVE Has(j, s)'
  BY <1>2, <1>3 DEF Has
<1>4. ASSUME NEW v \in Workers \ {w} PROVE OwnCall(v)' /\ Behind(v)'
  <2>1. worker'[v] = worker[v]  BY DEF WorkerStep
  <2>2. Behind(v)'  BY <1>3, <2>1 DEF Heard, Behind, Busy
  <2>3. ASSUME worker[v].pc \in Calling PROVE calls'[worker[v].call] = calls[worker[v].call]
    <3>1. Busy(v) /\ worker[v].call \in CallIds  BY <2>3 DEF Inv, Called, Busy, Calling
    <3>2. calls[worker[v].call].job = worker[v].job /\ calls[worker[v].call].status # "none"
      BY <2>3 DEF Inv, Called
    <3>3. worker[w].pc \in Calling => calls[worker[w].call].job = worker[w].job /\ worker[w].job # worker[v].job
      BY <3>1 DEF Inv, Called, Owned
    <3> QED  BY <1>1, <3>1, <3>2, <3>3 DEF RowStep
  <2> QED  BY <2>1, <2>2, <2>3 DEF Heard, OwnCall, MyCall
<1> QED  BY <1>3, <1>4

LEMMA WorkersKeepHeard ==
  ASSUME Inv, Heard, NEW w \in Workers, Take(w) \/ Lock(w) \/ Transcribing(w) \/ Transcribed(w)
  PROVE  Heard'
<1>0. /\ TypeOK /\ worker[w] \in Worker
      /\ worker[w].pc \in Calling => /\ worker[w].call \in CallIds /\ MyCall(w) = calls[worker[w].call]
                                     /\ calls[worker[w].call] \in CallRow /\ MyCall(w).job = worker[w].job
                                     /\ MyCall(w).segment = worker[w].segment
                                     /\ MyCall(w).status \in {"submitted", "running"}
  BY DEF Inv, TypeOK, Called, MyCall, Heard, OwnCall
<1>1. /\ \A j, s : Has(j, s) => Has(j, s)'
      /\ \A v \in Workers \ {w} : OwnCall(v)' /\ Behind(v)'
  BY NothingIsUnheard, WorkersTakeSteps
<1>2. ASSUME OwnCall(w)', Behind(w)',
             \A j \in Jobs : jobs'[j] = "completed" => jobs[j] = "completed" \/ Whole(j)'
      PROVE  Heard'
  BY <1>1, <1>2 DEF Heard, Whole, Segments, Start
<1>3. ASSUME NEW error, Ends(w, error) PROVE Heard'
  <2>1. worker'[w].pc = "idle"  BY <1>0, <1>3 DEF Ends, Idle, TypeOK
  <2>2. OwnCall(w)' /\ Behind(w)'  BY <2>1 DEF OwnCall, Behind, Busy, Calling
  <2>3. \A j \in Jobs : jobs'[j] = "completed" => jobs[j] = "completed"
    BY <1>0, <1>3 DEF Ends, AfterError, TypeOK
  <2> QED  BY <1>2, <2>2, <2>3
<1>4. ASSUME Busy(w), jobs' = jobs, worker'[w].pc \notin {"idle", "next"},
             worker'[w].job = worker[w].job, worker'[w].segment = worker[w].segment, OwnCall(w)'
      PROVE  Heard'
  <2>1. Behind(w)'  BY <1>1, <1>4 DEF Heard, Behind
  <2> QED  BY <1>2, <1>4, <2>1
<1>5. ASSUME NEW pc, Goto(w, pc)
      PROVE  /\ worker'[w].pc = pc /\ worker'[w].job = worker[w].job
             /\ worker'[w].segment = worker[w].segment /\ worker'[w].call = worker[w].call
  BY <1>0, <1>5 DEF Goto, TypeOK, Worker
<1>6. CASE Take(w)
  <2>1. PICK j \in Jobs :
          /\ jobs' = [jobs EXCEPT ![j] = "transcribing"]
          /\ worker' = [worker EXCEPT ![w] = [Idle EXCEPT !.pc = "wait", !.job = j, !.segment = 1]]
    BY <1>6 DEF Take
  <2>2. worker'[w].pc = "wait" /\ worker'[w].segment = 1
    BY <1>0, <2>1 DEF TypeOK, Idle
  <2>3. OwnCall(w)' /\ Behind(w)'  BY <2>2 DEF OwnCall, Behind, Calling
  <2>4. \A k \in Jobs : jobs'[k] = "completed" => jobs[k] = "completed"
    BY <1>0, <2>1 DEF TypeOK
  <2> QED  BY <1>2, <2>3, <2>4
<1>7. CASE Lock(w)
  <2>1. worker[w].pc = "wait" /\ Goto(w, "check") /\ jobs' = jobs  BY <1>7 DEF Lock, At
  <2> QED  BY <1>4, <1>5, <2>1 DEF OwnCall, Calling, Busy
<1>8. CASE NextSegment(w)
  <2>1. worker[w].pc = "next"  BY <1>8 DEF NextSegment, At
  <2>2. PICK j \in Jobs : j = worker[w].job  BY <2>1 DEF Inv, Owned, Busy
  <2>3. worker[w].segment \in Nat /\ \A s \in 1..worker[w].segment : Has(j, s)'
    <3>1. \A s \in 1..worker[w].segment : Has(j, s)  BY <2>1, <2>2 DEF Heard, Behind, Busy
    <3> QED  BY <1>0, <1>1, <3>1 DEF Worker
  <2>4. CASE worker[w].segment < Segments(j)
    <3>1. /\ worker'[w].pc = "wait" /\ worker'[w].job = j /\ worker'[w].segment = worker[w].segment + 1
          /\ jobs' = jobs
      BY <1>0, <1>8, <2>2, <2>4 DEF NextSegment, TypeOK, Idle
    <3>2. Behind(w)'
      <4>1. \A s \in 1..(worker[w].segment + 1) : s < worker[w].segment + 1 => s \in 1..worker[w].segment
        BY <2>3
      <4> QED  BY <2>3, <3>1, <4>1 DEF Behind
    <3>3. OwnCall(w)'  BY <3>1 DEF OwnCall, Calling
    <3> QED  BY <1>2, <3>1, <3>2, <3>3
  <2>5. CASE ~(worker[w].segment < Segments(j))
    <3>1. worker'[w].pc = "idle" /\ jobs' = [jobs EXCEPT ![j] = "completed"]
      BY <1>0, <1>8, <2>2, <2>5 DEF NextSegment, TypeOK, Idle
    <3>2. OwnCall(w)' /\ Behind(w)'  BY <3>1 DEF OwnCall, Behind, Busy, Calling
    <3>3. Segments(j) \in Int
      <4>1. Audio[j] \in Nat  BY <2>3, AudioAssumption
      <4>2. IsFiniteSet(1..Audio[j])  BY <4>1, FS_Interval
      <4>3. IsFiniteSet({r \in 1..Audio[j] : Start(r) < Audio[j]})  BY <4>2, FS_Subset
      <4> QED  BY <4>3, FS_CardinalityType DEF Segments
    <3>4. Whole(j)'
      <4>1. \A s \in 1..Segments(j) : s \in 1..worker[w].segment  BY <2>3, <2>5, <3>3
      <4> QED  BY <2>3, <4>1 DEF Whole, Segments, Start
    <3>5. \A k \in Jobs : jobs'[k] = "completed" => jobs[k] = "completed" \/ Whole(k)'
      BY <1>0, <3>1, <3>4 DEF TypeOK
    <3> QED  BY <1>2, <3>2, <3>5
  <2> QED  BY <2>4, <2>5
<1>9. CASE CheckBudget(w)
  <2>1. worker'[w].pc = "create" /\ worker'[w].job = worker[w].job /\ worker'[w].segment = worker[w].segment
    <3>1. CASE worker[w].provider = "none"
      <4>1. PICK keys \in (SUBSET Providers) \ {{}} :
              worker' = [worker EXCEPT ![w].pc = "create", ![w].provider = Preferred(keys), ![w].left = Second(keys)]
        BY <1>9, <3>1 DEF CheckBudget
      <4> QED  BY <1>0, <4>1 DEF TypeOK, Worker
    <3>2. CASE worker[w].provider # "none"
      <4>1. worker' = [worker EXCEPT ![w].pc = "create", ![w].provider = worker[w].left, ![w].left = "none",
                                     ![w].call = NoCall]
        BY <1>9, <3>2 DEF CheckBudget
      <4> QED  BY <1>0, <4>1 DEF TypeOK, Worker
    <3> QED  BY <3>1, <3>2
  <2>2. worker[w].pc = "check" /\ jobs' = jobs  BY <1>9 DEF CheckBudget, At
  <2> QED  BY <1>4, <2>1, <2>2 DEF OwnCall, Calling, Busy
<1>10. CASE Refuse(w) \/ GiveUp(w)
  BY <1>3, <1>10 DEF Refuse, GiveUp
<1>11. CASE Create(w)
  <2>1. NewCall \in CallIds  BY <1>11, NewCallIsUnused DEF Create
  <2>2. /\ worker'[w].pc = "submit" /\ worker'[w].job = worker[w].job
        /\ worker'[w].segment = worker[w].segment /\ worker'[w].call = NewCall
    BY <1>0, <1>11 DEF Create, TypeOK, Worker
  <2>3. calls'[NewCall].segment = worker[w].segment /\ calls'[NewCall].status = "submitted"
    BY <1>0, <1>11, <2>1 DEF Create, TypeOK, Absent
  <2>4. OwnCall(w)'
    <3>1. MyCall(w)' = calls'[NewCall]  BY <2>2 DEF MyCall
    <3> QED  BY <2>2, <2>3, <3>1 DEF OwnCall
  <2>5. worker[w].pc = "create" /\ jobs' = jobs  BY <1>11 DEF Create, At
  <2> QED  BY <1>4, <2>2, <2>4, <2>5 DEF Busy
<1>12. CASE Submit(w)
  <2>1. PICK pc \in {"report", "work"} : Goto(w, pc)  BY <1>12 DEF Submit
  <2>2. worker[w].pc = "submit" /\ jobs' = jobs /\ calls' = calls  BY <1>12 DEF Submit, At
  <2>3. OwnCall(w)'  BY <1>0, <1>5, <2>1, <2>2 DEF OwnCall, MyCall, Calling
  <2> QED  BY <1>4, <1>5, <2>1, <2>2, <2>3 DEF Busy
<1>13. CASE Report(w)
  <2>1. worker[w].pc = "report" /\ jobs' = jobs /\ Goto(w, "work")  BY <1>13 DEF Report, At
  <2>2. calls'[worker[w].call].segment = worker[w].segment /\ calls'[worker[w].call].status = "running"
    <3>1. worker[w].pc \in Calling  BY <2>1 DEF Calling
    <3> QED  BY <1>0, <1>13, <3>1 DEF Report, TypeOK, CallRow
  <2>3. OwnCall(w)'
    <3>1. MyCall(w)' = calls'[worker[w].call]  BY <1>5, <2>1 DEF MyCall
    <3> QED  BY <1>5, <2>1, <2>2, <3>1 DEF OwnCall
  <2> QED  BY <1>4, <1>5, <2>1, <2>3 DEF Busy
<1>14. CASE CallFails(w)
  <2>1. /\ worker'[w].pc = "settle" /\ worker'[w].job = worker[w].job
        /\ worker'[w].segment = worker[w].segment /\ worker'[w].call = worker[w].call
    BY <1>0, <1>14 DEF CallFails, TypeOK, Worker
  <2>2. worker[w].pc \in Calling /\ jobs' = jobs /\ calls' = calls  BY <1>14 DEF CallFails, Calling
  <2>3. OwnCall(w)'  BY <1>0, <2>1, <2>2 DEF OwnCall, MyCall
  <2> QED  BY <1>4, <2>1, <2>2, <2>3 DEF Busy, Calling
<1>15. CASE FallBack(w)
  <2>1. worker'[w].pc = "check" /\ worker'[w].job = worker[w].job /\ worker'[w].segment = worker[w].segment
    BY <1>0, <1>15 DEF FallBack, TypeOK, Worker
  <2>2. worker[w].pc = "settle" /\ jobs' = jobs  BY <1>15 DEF FallBack, At
  <2> QED  BY <1>4, <2>1, <2>2 DEF OwnCall, Calling, Busy
<1>16. CASE Settle(w)
  BY <1>3, <1>16 DEF Settle
<1>17. CASE Complete(w)
  <2>1. worker[w].pc = "work" /\ jobs' = jobs /\ Goto(w, "next")  BY <1>17 DEF Complete, At
  <2>2. PICK j \in Jobs, n \in Nat : j = worker[w].job /\ n = worker[w].segment
    BY <1>0, <2>1 DEF Worker, Inv, Owned, Busy
  <2>3. /\ worker[w].call \in CallIds /\ calls'[worker[w].call].job = j
        /\ calls'[worker[w].call].segment = n /\ calls'[worker[w].call].status = "completed"
    <3>1. worker[w].pc \in Calling  BY <2>1 DEF Calling
    <3>2. PICK cost \in Billed(w) :
            calls' = [calls EXCEPT ![worker[w].call].status = "completed", ![worker[w].call].task = (worker[w].provider = "aliyun"),
                                   ![worker[w].call].cost = IF cost = 0 THEN 1 ELSE cost]
      BY <1>17 DEF Complete
    <3> QED  BY <1>0, <2>2, <3>1, <3>2 DEF TypeOK, CallRow
  <2>4. Has(j, n)'
    BY <2>3 DEF Has
  <2>5. OwnCall(w)'  BY <1>5, <2>1 DEF OwnCall, Calling
  <2>6. Behind(w)'
    <3>1. \A s \in 1..n : s < n \/ s = n
      OBVIOUS
    <3>2. \A s \in 1..n : s < n => Has(j, s)
      BY <2>1, <2>2 DEF Heard, Behind, Busy
    <3>3. \A s \in 1..n : Has(j, s)'
      BY <1>1, <2>4, <3>1, <3>2
    <3>4. worker'[w].job = j /\ worker'[w].segment = n  BY <1>5, <2>1, <2>2
    <3> QED  BY <3>3, <3>4 DEF Behind
  <2> QED  BY <1>2, <2>1, <2>5, <2>6
<1>18. CASE CompleteFails(w)
  BY <1>3, <1>18 DEF CompleteFails
<1> QED
  BY <1>6, <1>7, <1>8, <1>9, <1>10, <1>11, <1>12, <1>13, <1>14, <1>15, <1>16, <1>17, <1>18 DEF Transcribing, Transcribed

LEMMA HeardIsKept == Inv /\ Heard /\ [Next]_vars => Heard'
<1> SUFFICES ASSUME Inv, Heard, [Next]_vars PROVE Heard'
  OBVIOUS
<1>0. TypeOK  BY DEF Inv
<1>1. ASSUME NEW w \in Workers, Take(w) \/ Lock(w) \/ Transcribing(w) \/ Transcribed(w) PROVE Heard'
  BY <1>1, WorkersKeepHeard
<1>2. ASSUME \A w \in Workers : OwnCall(w)' /\ Behind(w)',
             \A j \in Jobs : jobs'[j] = "completed" => jobs[j] = "completed" /\ \A s : Has(j, s) => Has(j, s)'
      PROVE  Heard'
  BY <1>2 DEF Heard, Whole, Segments, Start
<1>3. CASE Crash
  <2>1. \A w \in Workers : worker'[w].pc = "idle"  BY <1>3 DEF Crash, Idle
  <2>2. \A w \in Workers : OwnCall(w)' /\ Behind(w)'  BY <2>1 DEF OwnCall, Behind, Busy, Calling
  <2> QED  BY <1>2, <1>3, <2>2 DEF Crash, Has
<1>4. CASE Recover
  <2>1. worker' = worker /\ calls' = calls  BY <1>4 DEF Recover
  <2>2. \A w \in Workers : OwnCall(w)' /\ Behind(w)'
    BY <2>1 DEF Heard, OwnCall, Behind, Busy, MyCall, Has
  <2>3. \A j \in Jobs : jobs'[j] = "completed" => jobs[j] = "completed"
    BY <1>0, <1>4 DEF Recover, AfterError, TypeOK
  <2> QED  BY <1>2, <2>1, <2>2, <2>3 DEF Has
<1>5. CASE Retry
  <2>1. PICK j \in Jobs :
          /\ jobs' = [jobs EXCEPT ![j] = "waiting"]
          /\ calls' = [c \in CallIds |-> [calls[c] EXCEPT !.excused = @ \/ (calls[c].job = j /\ OpenTask(c))]]
    BY <1>5 DEF Retry
  <2>2. worker' = worker  BY <1>5 DEF Retry
  <2>3. \A c \in CallIds : /\ calls'[c].job = calls[c].job /\ calls'[c].status = calls[c].status
                           /\ calls'[c].segment = calls[c].segment
    <3>1. ASSUME NEW c \in CallIds PROVE calls[c] \in CallRow  BY <1>0 DEF TypeOK
    <3> QED  BY <2>1, <3>1 DEF CallRow
  <2>4. \A k, s : Has(k, s) => Has(k, s)'  BY <2>3 DEF Has
  <2>5. \A w \in Workers : OwnCall(w)' /\ Behind(w)'
    BY <2>2, <2>3, <2>4 DEF Heard, OwnCall, Behind, Busy, MyCall, Inv, Called
  <2>6. \A k \in Jobs : jobs'[k] = "completed" => jobs[k] = "completed"
    BY <1>0, <2>1 DEF TypeOK
  <2> QED  BY <1>2, <2>4, <2>5, <2>6
<1>6. CASE Delete
  <2>1. PICK j \in Jobs :
          /\ jobs[j] \in {"completed", "failed"} /\ jobs' = [jobs EXCEPT ![j] = "gone"]
          /\ calls' = [c \in CallIds |-> IF calls[c].job = j THEN Absent ELSE calls[c]]
    BY <1>6 DEF Delete
  <2>2. worker' = worker  BY <1>6 DEF Delete
  <2>3. \A k \in Jobs \ {j} : \A s : Has(k, s) => Has(k, s)'  BY <2>1 DEF Has
  <2>4. \A w \in Workers : Busy(w) => worker[w].job \in Jobs \ {j}
    BY <2>1 DEF Inv, Owned
  <2>5. ASSUME NEW w \in Workers PROVE OwnCall(w)' /\ Behind(w)'
    <3>1. worker[w].pc \in Calling => Busy(w) /\ worker[w].call \in CallIds /\ MyCall(w).job = worker[w].job
      BY DEF Inv, Called, Busy, Calling, MyCall
    <3>2. worker[w].pc \in Calling => MyCall(w)' = MyCall(w)
      BY <2>1, <2>2, <2>4, <3>1 DEF MyCall
    <3>3. OwnCall(w)'  BY <2>2, <3>2 DEF Heard, OwnCall
    <3>4. Behind(w)'  BY <2>2, <2>3, <2>4 DEF Heard, Behind, Busy
    <3> QED  BY <3>3, <3>4
  <2>6. \A k \in Jobs : jobs'[k] = "completed" => jobs[k] = "completed" /\ k # j
    BY <1>0, <2>1 DEF TypeOK
  <2> QED  BY <1>2, <2>3, <2>5, <2>6
<1>7. CASE worker' = worker /\ jobs' = jobs /\ calls' = calls
  BY <1>7 DEF Heard, OwnCall, Behind, Busy, MyCall, Has, Whole, Segments, Start
<1>8. Midnight \/ UNCHANGED vars => worker' = worker /\ jobs' = jobs /\ calls' = calls
  BY DEF Midnight, vars
<1> QED  BY <1>1, <1>3, <1>4, <1>5, <1>6, <1>7, <1>8 DEF Next

(* Whatever of the audio of a completed job takes no longer than the       *)
(* overlap was sent, in one piece, in a call that has completed: however   *)
(* long the audio, and however often the job was begun again.              *)
THEOREM NothingIsLost == Spec => []NothingSaidIsLost
<1>1. Init => Inv /\ Heard
  <2>1. Init => Heard
    BY DEF Init, Idle, Heard, OwnCall, Behind, Busy, Calling
  <2> QED  BY <2>1, InvAtFirst
<1>2. Inv /\ Heard /\ [Next]_vars => (Inv /\ Heard)'  BY InvIsKept, HeardIsKept
<1>3. Inv /\ Heard => NothingSaidIsLost  BY WholeIsHeard
<1> QED  BY <1>1, <1>2, <1>3, PTL DEF Spec

-----------------------------------------------------------------------------
(* The end of a run *)

(* The steps, at most, from here to the end of the segment; with a         *)
(* provider left there are six more, from its check to the end of its call *)
Stage(r) ==
  (CASE r.pc = "wait"   -> 18
     [] r.pc = "check"  -> IF r.provider = "none" THEN 17 ELSE 5
     [] r.pc = "create" -> 10
     [] r.pc = "submit" -> 9
     [] r.pc = "report" -> 8
     [] r.pc = "work"   -> 7
     [] r.pc = "settle" -> 6
     [] OTHER           -> 1) + (IF r.left = "none" \/ r.pc \in {"wait", "next"} THEN 0 ELSE 6)

(* The steps, at most, to the end of the run *)
Ahead(r) == (Segments(r.job) - r.segment) * 18 + Stage(r)

(* Only a second provider is checked again, and only if there is one *)
Orderly(r) ==
  /\ r.pc = "wait" => r.provider = "none" /\ r.left = "none"
  /\ r.pc = "check" => (r.provider = "none" <=> r.left = "none")
  /\ r.pc \in {"create"} \cup Calling => r.provider # "none"
  /\ r.pc # "idle" => r.job \in Jobs /\ r.segment \in 1..Segments(r.job)

OrderlyRuns == \A w \in Workers : Orderly(worker[w])

MovesOn(w) ==
  worker[w].pc # "idle" /\ worker'[w] \notin {worker[w], Idle} =>
    worker'[w].pc # "idle" /\ worker'[w].job = worker[w].job /\ Ahead(worker'[w]) < Ahead(worker[w])

LEMMA SegmentsAreThere == ASSUME NEW j \in Jobs PROVE Segments(j) \in Nat \ {0}
<1> USE AudioAssumption
<1>1. CASE Audio[j] <= Length  BY <1>1 DEF Segments
<1>2. CASE Audio[j] > Length
  <2>1. Audio[j] \in Nat \ {0} /\ 0 \in 0..(Audio[j] - 1)  OBVIOUS
  <2>2. PICK s \in 1..Segments(j) : Start(s) <= 0  BY <1>2, <2>1, SegmentAt
  <2>3. IsFiniteSet(1..Audio[j])  BY <2>1, FS_Interval
  <2>4. IsFiniteSet({r \in 1..Audio[j] : Start(r) < Audio[j]})  BY <2>3, FS_Subset
  <2>5. Segments(j) \in Nat  BY <1>2, <2>1, <2>4, FS_CardinalityType DEF Segments
  <2> QED  BY <2>2, <2>5
<1>3. Audio[j] \in Nat /\ Length \in Nat  OBVIOUS
<1> QED  BY <1>1, <1>2, <1>3

LEMMA StageTypes ==
  ASSUME NEW r \in Worker, Orderly(r)
  PROVE  Stage(r) \in 1..18
<1>1. r.pc \in {"idle", "wait", "next", "check", "create", "submit", "report", "work", "settle"}
  BY DEF Worker, InService
<1>2. CASE r.pc = "check"  BY <1>2 DEF Stage, Orderly
<1>3. CASE r.pc \in {"wait", "next"}  BY <1>3 DEF Stage
<1>4. CASE r.pc \in {"idle", "create", "submit", "report", "work", "settle"}  BY <1>4 DEF Stage
<1> QED  BY <1>1, <1>2, <1>3, <1>4

(* Within a segment the stages say how far it is *)
LEMMA StageFalls ==
  ASSUME NEW r \in Worker, NEW q \in Worker, Orderly(r), Orderly(q), r.pc # "idle",
         q.job = r.job, q.segment = r.segment, Stage(q) < Stage(r)
  PROVE  Ahead(q) < Ahead(r)
<1>1. Segments(r.job) \in Nat /\ r.segment \in Nat  BY SegmentsAreThere DEF Orderly
<1>2. (Segments(r.job) - r.segment) * 18 \in Int  BY <1>1
<1>3. Stage(r) \in Int /\ Stage(q) \in Int  BY StageTypes
<1> QED  BY <1>2, <1>3 DEF Ahead

LEMMA IdleIsOrderly == Orderly(Idle)
BY DEF Orderly, Idle, Calling

LEMMA WorkersMoveOn ==
  ASSUME TypeOK, TypeOK', NEW w \in Workers, Orderly(worker[w]),
         Take(w) \/ Lock(w) \/ Transcribing(w) \/ Transcribed(w)
  PROVE  Orderly(worker'[w]) /\ MovesOn(w)
<1> DEFINE r == worker[w]
           q == worker'[w]
<1>0. r \in Worker /\ q \in Worker  BY DEF TypeOK
<1>1. ASSUME r.pc # "idle", q.pc # "idle", q.job = r.job, q.segment = r.segment, Orderly(q), Stage(q) < Stage(r)
      PROVE  Orderly(q) /\ MovesOn(w)
  BY <1>0, <1>1, StageFalls DEF MovesOn
<1>2. ASSUME NEW error, Ends(w, error) PROVE Orderly(q) /\ MovesOn(w)
  <2>1. q = Idle  BY <1>2 DEF Ends, TypeOK
  <2> QED  BY <2>1, IdleIsOrderly DEF MovesOn
<1>3. ASSUME NEW pc, Goto(w, pc)
      PROVE  /\ q.pc = pc /\ q.job = r.job /\ q.segment = r.segment
             /\ q.provider = r.provider /\ q.left = r.left
  BY <1>0, <1>3 DEF Goto, TypeOK, Worker
<1>4. CASE Take(w)
  <2>1. PICK j \in Jobs : worker' = [worker EXCEPT ![w] = [Idle EXCEPT !.pc = "wait", !.job = j, !.segment = 1]]
    BY <1>4 DEF Take
  <2>2. q = [Idle EXCEPT !.pc = "wait", !.job = j, !.segment = 1]  BY <2>1 DEF TypeOK
  <2>3. q.pc = "wait" /\ q.job = j /\ q.segment = 1 /\ q.provider = "none" /\ q.left = "none"
    BY <2>2 DEF Idle
  <2>4. 1 \in 1..Segments(j)  BY SegmentsAreThere
  <2>5. Orderly(q)  BY <2>3, <2>4 DEF Orderly, Calling
  <2>6. r.pc = "idle"  BY <1>4 DEF Take, At
  <2> QED  BY <2>5, <2>6 DEF MovesOn
<1>5. CASE Lock(w)
  <2>1. r.pc = "wait" /\ Goto(w, "check")  BY <1>5 DEF Lock, At
  <2>2. q.pc = "check" /\ q.job = r.job /\ q.segment = r.segment /\ q.provider = r.provider /\ q.left = r.left
    BY <1>3, <2>1
  <2>3. r.provider = "none" /\ r.left = "none"  BY <2>1 DEF Orderly
  <2>4. Orderly(q)  BY <2>1, <2>2, <2>3 DEF Orderly, Calling
  <2>5. Stage(r) = 18 /\ Stage(q) = 17  BY <2>1, <2>2, <2>3 DEF Stage
  <2> QED  BY <1>1, <2>1, <2>2, <2>4, <2>5
<1>6. CASE NextSegment(w)
  <2>1. r.pc = "next"  BY <1>6 DEF NextSegment, At
  <2>2. PICK j \in Jobs : j = r.job /\ r.segment \in 1..Segments(j)  BY <2>1 DEF Orderly
  <2>3. CASE r.segment < Segments(j)
    <3>1. q = [Idle EXCEPT !.pc = "wait", !.job = j, !.segment = r.segment + 1]
      BY <1>6, <2>2, <2>3 DEF NextSegment, TypeOK
    <3>2. q.pc = "wait" /\ q.job = j /\ q.segment = r.segment + 1 /\ q.provider = "none" /\ q.left = "none"
      BY <3>1 DEF Idle
    <3>3. Segments(j) \in Nat /\ r.segment \in Nat  BY <2>2, SegmentsAreThere
    <3>4. Orderly(q)  BY <2>2, <2>3, <3>2, <3>3 DEF Orderly, Calling
    <3>5. Stage(q) = 18 /\ Stage(r) = 1  BY <2>1, <3>2 DEF Stage
    <3>6. Ahead(q) < Ahead(r)  BY <2>2, <3>2, <3>3, <3>5 DEF Ahead
    <3> QED  BY <2>2, <3>2, <3>4, <3>6 DEF MovesOn
  <2>4. CASE ~(r.segment < Segments(j))
    <3>1. q = Idle  BY <1>6, <2>2, <2>4 DEF NextSegment, TypeOK
    <3> QED  BY <3>1, IdleIsOrderly DEF MovesOn
  <2> QED  BY <2>3, <2>4
<1>7. CASE CheckBudget(w)
  <2>1. r.pc = "check"  BY <1>7 DEF CheckBudget, At
  <2>2. CASE r.provider = "none"
    <3>1. PICK keys \in (SUBSET Providers) \ {{}} :
            worker' = [worker EXCEPT ![w].pc = "create", ![w].provider = Preferred(keys), ![w].left = Second(keys)]
      BY <1>7, <2>2 DEF CheckBudget
    <3>2. /\ q.pc = "create" /\ q.job = r.job /\ q.segment = r.segment
          /\ q.provider = Preferred(keys)
      BY <1>0, <3>1 DEF TypeOK, Worker
    <3>3. Preferred(keys) # "none"
      <4>1. "silicon" \in keys \/ keys = {"aliyun"}  BY DEF Providers
      <4> QED  BY <4>1 DEF Preferred
    <3>4. Orderly(q)  BY <2>1, <3>2, <3>3 DEF Orderly, Calling
    <3>5. Stage(r) = 17 /\ Stage(q) \in {10, 16}
      <4>1. r.left = "none"  BY <2>1, <2>2 DEF Orderly
      <4> QED  BY <2>1, <2>2, <3>2, <4>1 DEF Stage
    <3> QED  BY <1>1, <2>1, <3>2, <3>4, <3>5
  <2>3. CASE r.provider # "none"
    <3>1. worker' = [worker EXCEPT ![w].pc = "create", ![w].provider = r.left, ![w].left = "none", ![w].call = NoCall]
      BY <1>7, <2>3 DEF CheckBudget
    <3>2. /\ q.pc = "create" /\ q.job = r.job /\ q.segment = r.segment
          /\ q.provider = r.left /\ q.left = "none"
      BY <1>0, <3>1 DEF TypeOK, Worker
    <3>3. r.left # "none"  BY <2>1, <2>3 DEF Orderly
    <3>4. Orderly(q)  BY <2>1, <3>2, <3>3 DEF Orderly, Calling
    <3>5. Stage(r) = 11 /\ Stage(q) = 10  BY <2>1, <2>3, <3>2, <3>3 DEF Stage
    <3> QED  BY <1>1, <2>1, <3>2, <3>4, <3>5
  <2> QED  BY <2>2, <2>3
<1>8. CASE Refuse(w) \/ GiveUp(w) \/ Settle(w) \/ CompleteFails(w)
  BY <1>2, <1>8 DEF Refuse, GiveUp, Settle, CompleteFails
<1>9. CASE Create(w)
  <2>1. r.pc = "create" /\ worker' = [worker EXCEPT ![w].pc = "submit", ![w].call = NewCall]
    BY <1>9 DEF Create, At
  <2>2. q.pc = "submit" /\ q.job = r.job /\ q.segment = r.segment /\ q.provider = r.provider /\ q.left = r.left
    BY <1>0, <2>1 DEF TypeOK, Worker
  <2>3. Orderly(q)  BY <2>1, <2>2 DEF Orderly, Calling
  <2>4. Stage(q) < Stage(r)  BY <2>1, <2>2 DEF Stage
  <2> QED  BY <1>1, <2>1, <2>2, <2>3, <2>4
<1>10. CASE Submit(w) \/ Report(w) \/ Complete(w)
  <2>1. PICK pc \in {"report", "work", "next"} :
          /\ Goto(w, pc)
          /\ \/ r.pc = "submit" /\ pc \in {"report", "work"}
             \/ r.pc = "report" /\ pc = "work"
             \/ r.pc = "work" /\ pc = "next"
    BY <1>10 DEF Submit, Report, Complete, At
  <2>2. q.pc = pc /\ q.job = r.job /\ q.segment = r.segment /\ q.provider = r.provider /\ q.left = r.left
    BY <1>3, <2>1
  <2>3. Orderly(q)  BY <2>1, <2>2 DEF Orderly, Calling
  <2>4. Stage(q) < Stage(r)  BY <2>1, <2>2 DEF Stage
  <2> QED  BY <1>1, <2>1, <2>2, <2>3, <2>4
<1>11. CASE CallFails(w)
  <2>1. PICK error \in {"failed", "refused"} :
          r.pc \in {"submit", "report", "work"} /\ worker' = [worker EXCEPT ![w].pc = "settle", ![w].error = error]
    BY <1>11 DEF CallFails
  <2>2. q.pc = "settle" /\ q.job = r.job /\ q.segment = r.segment /\ q.provider = r.provider /\ q.left = r.left
    BY <1>0, <2>1 DEF TypeOK, Worker
  <2>3. Orderly(q)  BY <2>1, <2>2 DEF Orderly, Calling
  <2>4. Stage(q) < Stage(r)  BY <2>1, <2>2 DEF Stage
  <2> QED  BY <1>1, <2>1, <2>2, <2>3, <2>4
<1>12. CASE FallBack(w)
  <2>1. r.pc = "settle" /\ r.left # "none" /\ worker' = [worker EXCEPT ![w].pc = "check", ![w].error = "none"]
    BY <1>12 DEF FallBack, At
  <2>2. q.pc = "check" /\ q.job = r.job /\ q.segment = r.segment /\ q.provider = r.provider /\ q.left = r.left
    BY <1>0, <2>1 DEF TypeOK, Worker
  <2>3. r.provider # "none"  BY <2>1 DEF Orderly, Calling
  <2>4. Orderly(q)  BY <2>1, <2>2, <2>3 DEF Orderly, Calling
  <2>5. Stage(q) = 11 /\ Stage(r) = 12  BY <2>1, <2>2, <2>3 DEF Stage
  <2> QED  BY <1>1, <2>1, <2>2, <2>4, <2>5
<1> QED  BY <1>4, <1>5, <1>6, <1>7, <1>8, <1>9, <1>10, <1>11, <1>12 DEF Transcribing, Transcribed

LEMMA RunsMoveOn ==
  ASSUME Inv, OrderlyRuns, [Next]_vars
  PROVE  OrderlyRuns' /\ \A w \in Workers : MovesOn(w)
<1>0. TypeOK /\ TypeOK'  BY TypesAreKept DEF Inv
<1>1. ASSUME NEW w \in Workers, Take(w) \/ Lock(w) \/ Transcribing(w) \/ Transcribed(w)
      PROVE  OrderlyRuns' /\ \A v \in Workers : MovesOn(v)
  <2>1. Orderly(worker'[w]) /\ MovesOn(w)  BY <1>0, <1>1, WorkersMoveOn DEF OrderlyRuns
  <2>2. \A v \in Workers \ {w} : worker'[v] = worker[v]  BY <1>1, WorkersTakeSteps DEF WorkerStep
  <2> QED  BY <2>1, <2>2 DEF OrderlyRuns, MovesOn
<1>2. CASE Crash
  <2>1. \A w \in Workers : worker'[w] = Idle  BY <1>2 DEF Crash
  <2> QED  BY <2>1, IdleIsOrderly DEF OrderlyRuns, MovesOn
<1>3. CASE worker' = worker
  BY <1>3 DEF OrderlyRuns, MovesOn
<1> QED  BY <1>1, <1>2, <1>3 DEF Next, Recover, Retry, Delete, Midnight, vars

(* A run of a job takes at most 18 steps for each of its segments, however *)
(* its providers fail and whatever the others do, and never goes back: a   *)
(* run that does not stand still ends.  A call is begun only 16 or 10      *)
(* steps before the end of its segment, so that a run sends no segment     *)
(* more than twice.                                                        *)
THEOREM RunsAreFinite ==
  Spec => /\ [](\A w \in Workers : Busy(w) => Ahead(worker[w]) \in 1..(18 * Segments(worker[w].job)))
          /\ [][\A w \in Workers : MovesOn(w)]_vars
<1> DEFINE Within == \A w \in Workers : Busy(w) => Ahead(worker[w]) \in 1..(18 * Segments(worker[w].job))
<1>1. Init => Inv /\ OrderlyRuns
  <2>1. Init => OrderlyRuns  BY IdleIsOrderly DEF Init, OrderlyRuns
  <2> QED  BY <2>1, InvAtFirst
<1>2. Inv /\ OrderlyRuns /\ [Next]_vars => (Inv /\ OrderlyRuns)' /\ \A w \in Workers : MovesOn(w)
  BY InvIsKept, RunsMoveOn
<1>3. Inv /\ OrderlyRuns => Within
  <2> SUFFICES ASSUME Inv, OrderlyRuns, NEW w \in Workers, Busy(w)
               PROVE  Ahead(worker[w]) \in 1..(18 * Segments(worker[w].job))
    OBVIOUS
  <2>1. Stage(worker[w]) \in 1..18  BY StageTypes DEF Inv, TypeOK, OrderlyRuns
  <2>2. PICK n \in Nat : n = Segments(worker[w].job) /\ worker[w].segment \in 1..n
    BY SegmentsAreThere DEF OrderlyRuns, Orderly, Busy
  <2> QED  BY <2>1, <2>2 DEF Ahead
<1> QED  BY <1>1, <1>2, <1>3, PTL DEF Spec

=============================================================================
