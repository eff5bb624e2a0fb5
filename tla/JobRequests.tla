----------------------------- MODULE JobRequests ----------------------------
(***************************************************************************)
(* POST /jobs: requests that carry an Idempotency-Key create a job, or are *)
(* given the one that the key has already made.  A key is looked up before *)
(* the row is inserted, and again when that fails, so that requests with   *)
(* the same key may meet in between; a job of action info is resolved by   *)
(* the request itself, which may be cut off while it does, or may be given *)
(* an empty shell of a work that no row can refer to.                      *)
(*                                                                         *)
(* Each action is one statement; resolving is one more.                    *)
(*                                                                         *)
(* Abstractions.  A key stands for a user and a key.  What else a request  *)
(* says, apart from its action, is its variant.  Requests that are refused *)
(* for their form touch nothing and are left out.  Of the queue, whose     *)
(* model is JobQueue, there is what it may do to a row.  Jobs are numbered *)
(* as they are inserted.                                                   *)
(***************************************************************************)
EXTENDS Naturals

CONSTANTS
  Clients,   \* the requests that are under way at a time
  Keys,      \* UNIQUE(user_id, idempotency_key)
  Variants,  \* share text and options
  MaxJobs    \* bound: rows ever inserted

ASSUME BoundAssumption == MaxJobs \in Nat

VARIABLES
  table,     \* the rows of jobs that have a key, by it
  request,   \* the requests
  made,      \* the rows inserted so far
  gone       \* a history: the jobs that have been deleted

vars == <<table, request, made, gone>>

-----------------------------------------------------------------------------
(* State *)

Actions == {"info", "queue"}   \* queue: download, transcribe or full

Params == [action : Actions, variant : Variants]

JobNumbers == 0..MaxJobs
NoJob == 0

Statuses == {"resolving", "queued", "completed", "failed"}   \* resolving stands for all that a worker sets

(* leased: lease_owner is a worker.  left: a history, why the request that *)
(* resolved the job has left it as it was: it was cut off, or the work was *)
(* a shell                                                                 *)
Row == [job : JobNumbers \ {NoJob}, params : Params, status : Statuses, leased : BOOLEAN,
        left : {"no", "cut", "shell"}]
NoRow == [job |-> NoJob]

Idle == [pc |-> "idle"]

(* raced: a history, the answer was found after the insert had failed *)
Request == [pc     : {"find", "insert", "again", "resolve", "fail", "complete", "read", "answered"},
            key    : Keys,
            params : Params,
            job    : JobNumbers,
            raced  : BOOLEAN]

TypeOK ==
  /\ table \in [Keys -> Row \cup {NoRow}]
  /\ request \in [Clients -> Request \cup {Idle}]
  /\ made \in JobNumbers
  /\ gone \subseteq JobNumbers

Init ==
  /\ table = [k \in Keys |-> NoRow]
  /\ request = [c \in Clients |-> Idle]
  /\ made = 0
  /\ gone = {}

At(c, pc) == request[c].pc = pc
Goto(c, pc) == request' = [request EXCEPT ![c].pc = pc]
RowOf(c) == table[request[c].key]
Has(k) == table[k].job # NoJob

(* The row that the request has inserted, or found, is still there *)
IsMine(c) == Has(request[c].key) /\ RowOf(c).job = request[c].job

(* An answer names a job; an error or a conflict leaves nothing behind *)
Refuse(c) == request' = [request EXCEPT ![c] = Idle]

-----------------------------------------------------------------------------
(* Service.CreateInfo and Service.CreateDownload *)

Send(c) ==
  /\ At(c, "idle")
  /\ \E k \in Keys, params \in Params :
       request' = [request EXCEPT ![c] = [pc |-> "find", key |-> k, params |-> params, job |-> NoJob, raced |-> FALSE]]
  /\ UNCHANGED <<table, made, gone>>

(* The job that has the key is the answer; one that is completed is read again *)
Take(c, raced) ==
  request' = [request EXCEPT ![c].pc = IF RowOf(c).status = "completed" THEN "read" ELSE "answered",
                             ![c].job = RowOf(c).job, ![c].raced = raced]

(* Another request with the same key and other contents is a conflict *)
Reuse(c, raced) == IF RowOf(c).params = request[c].params THEN Take(c, raced) ELSE Refuse(c)

(* FindByIdempotencyKey *)
Find(c) ==
  /\ At(c, "find")
  /\ IF Has(request[c].key) THEN Reuse(c, FALSE) ELSE Goto(c, "insert")
  /\ UNCHANGED <<table, made, gone>>

(* The row that create inserts *)
Inserted(c, left) ==
  [table EXCEPT ![request[c].key] =
     [job |-> made + 1, params |-> request[c].params, leased |-> FALSE, left |-> left,
      status |-> IF request[c].params.action = "info" THEN "resolving" ELSE "queued"]]

Insert(c) ==
  /\ table' = Inserted(c, "no")
  /\ made' = made + 1
  /\ request' = [request EXCEPT ![c].pc = IF request[c].params.action = "info" THEN "resolve" ELSE "read",
                                ![c].job = made + 1]
  /\ UNCHANGED gone

(* Mutant: the key is not unique *)
CreateAnyway(c) == At(c, "insert") /\ made < MaxJobs /\ Insert(c)

Create(c) ==
  /\ At(c, "insert")
  /\ ~Has(request[c].key) /\ made < MaxJobs
  /\ Insert(c)

(* The constraint is violated, or the statement fails: both are an error *)
CreateFails(c) ==
  /\ At(c, "insert")
  /\ Goto(c, "again")
  /\ UNCHANGED <<table, made, gone>>

(* Mutant: CreateInfo does not compare either *)
FindAnyAgain(c) ==
  /\ At(c, "again")
  /\ IF ~Has(request[c].key) THEN Refuse(c) ELSE Take(c, TRUE)
  /\ UNCHANGED <<table, made, gone>>

(* CreateInfo compares what it finds, CreateDownload does not *)
FindAgain(c) ==
  /\ At(c, "again")
  /\ IF ~Has(request[c].key) THEN Refuse(c)
     ELSE IF request[c].params.action = "info" THEN Reuse(c, TRUE)
     ELSE Take(c, TRUE)
  /\ UNCHANGED <<table, made, gone>>

(* resolver.Service; a request that is cut off has its error here *)
Resolve(c) ==
  /\ At(c, "resolve")
  /\ \E pc \in {"complete", "fail"} : Goto(c, pc)
  /\ UNCHANGED <<table, made, gone>>

SetStatus(c, status) == table' = [table EXCEPT ![request[c].key].status = status]

(* Mutant: Fail gives up with the request *)
FailOrNot(c) ==
  /\ At(c, "fail")
  /\ \/ SetStatus(c, "failed") /\ Goto(c, "read")
     \/ UNCHANGED table /\ Refuse(c)
  /\ UNCHANGED <<made, gone>>

(* Fail, whether the context is cancelled or not *)
Fail(c) ==
  /\ At(c, "fail")
  /\ IF IsMine(c) THEN SetStatus(c, "failed") /\ Goto(c, "read")
                  ELSE UNCHANGED table /\ Refuse(c)
  /\ UNCHANGED <<made, gone>>

(* CompleteInfo: ... WHERE id = ? AND status = 'resolving' *)
CompleteInfo(c) ==
  /\ At(c, "complete")
  /\ IF IsMine(c) /\ RowOf(c).status = "resolving"
     THEN SetStatus(c, "completed") /\ Goto(c, "read")
     ELSE UNCHANGED table /\ Refuse(c)
  /\ UNCHANGED <<made, gone>>

(* The row of a request that ends here is left as it is *)
Strand(c, left) ==
  table' = IF IsMine(c) /\ RowOf(c).status = "resolving"
           THEN [table EXCEPT ![request[c].key].left = left] ELSE table

(* The work is a shell, which has no row: work_id would break its foreign  *)
(* key, and the error is returned without Fail                             *)
CompleteShell(c) ==
  /\ At(c, "complete")
  /\ IsMine(c) /\ RowOf(c).status = "resolving"
  /\ Strand(c, "shell")
  /\ Refuse(c)
  /\ UNCHANGED <<made, gone>>

(* FindByID, which does not find a job that has been deleted since *)
Read(c) ==
  /\ At(c, "read")
  /\ IF IsMine(c) THEN Goto(c, "answered") ELSE Refuse(c)
  /\ UNCHANGED <<table, made, gone>>

(* The client has the answer *)
Leave(c) ==
  /\ At(c, "answered")
  /\ Refuse(c)
  /\ UNCHANGED <<table, made, gone>>

-----------------------------------------------------------------------------
(* Faults *)

(* A statement fails, in most cases with the connection of the client *)
Cut(c) ==
  /\ request[c].pc \in {"find", "again", "fail", "complete", "read"}
  /\ Strand(c, "cut")
  /\ Refuse(c)
  /\ UNCHANGED <<made, gone>>

(* The row is inserted, but the request is told that it is not *)
CutInsert(c) ==
  /\ At(c, "insert")
  /\ ~Has(request[c].key) /\ made < MaxJobs
  /\ table' = Inserted(c, IF request[c].params.action = "info" THEN "cut" ELSE "no")
  /\ made' = made + 1
  /\ Refuse(c)
  /\ UNCHANGED gone

(* The process dies and is started again *)
Crash ==
  /\ request' = [c \in Clients |-> Idle]
  /\ table' = [k \in Keys |-> IF Has(k) /\ table[k].status = "resolving"
                              THEN [table[k] EXCEPT !.left = "cut"] ELSE table[k]]
  /\ UNCHANGED <<made, gone>>

-----------------------------------------------------------------------------
(* What else happens to the jobs *)

Set(k, status, leased) == table' = [table EXCEPT ![k].status = status, ![k].leased = leased]

(* ClaimNext, whatever the action of the job *)
Claim(k) ==
  /\ Has(k) /\ table[k].status = "queued"
  /\ Set(k, "resolving", TRUE)
  /\ UNCHANGED <<request, made, gone>>

(* The run ends, or is recovered *)
Done(k) ==
  /\ Has(k) /\ table[k].leased
  /\ \E status \in {"completed", "failed", "queued"} : Set(k, status, FALSE)
  /\ UNCHANGED <<request, made, gone>>

(* Cancel of a queued job; failed stands for cancelled as well *)
Cancel(k) ==
  /\ Has(k) /\ table[k].status = "queued"
  /\ Set(k, "failed", FALSE)
  /\ UNCHANGED <<request, made, gone>>

Retry(k) ==
  /\ Has(k) /\ table[k].status = "failed"
  /\ Set(k, "queued", FALSE)
  /\ UNCHANGED <<request, made, gone>>

(* Mutant: a job that is being resolved may be deleted *)
DeleteAny(k) ==
  /\ Has(k)
  /\ gone' = gone \cup {table[k].job}
  /\ table' = [table EXCEPT ![k] = NoRow]
  /\ UNCHANGED <<request, made>>

(* A job that is deleted gives back its key *)
Delete(k) ==
  /\ Has(k) /\ table[k].status \in {"completed", "failed"}
  /\ gone' = gone \cup {table[k].job}
  /\ table' = [table EXCEPT ![k] = NoRow]
  /\ UNCHANGED <<request, made>>

-----------------------------------------------------------------------------
(* The specification *)

Serving(c) ==
  \/ Find(c) \/ Create(c) \/ CreateFails(c) \/ FindAgain(c) \/ Resolve(c)
  \/ Fail(c) \/ CompleteInfo(c) \/ CompleteShell(c) \/ Read(c) \/ Leave(c)

Next ==
  \/ \E c \in Clients : Send(c) \/ Serving(c) \/ Cut(c) \/ CutInsert(c)
  \/ \E k \in Keys : Claim(k) \/ Done(k) \/ Cancel(k) \/ Retry(k) \/ Delete(k)
  \/ Crash

Spec == Init /\ [][Next]_vars

(* A goroutine that can go on does: every statement and every resolution ends *)
FairSpec == Spec /\ \A c \in Clients : WF_vars(Serving(c))

-----------------------------------------------------------------------------
(* Properties *)

(* A key makes one job at a time: what a request is answered with is the   *)
(* job that has the key, or has been deleted since.  Nothing but the UNIQUE *)
(* constraint (0002_info_jobs.sql) makes it so, as the look-up and the     *)
(* insertion are two statements.                                           *)
OneJobForAKey == \A c \in Clients :
  At(c, "answered") => RowOf(c).job = request[c].job \/ request[c].job \in gone

(* A request that is answered with a job that another has made had asked   *)
(* for the same (CreateInput), unless it lost the race for the key and is  *)
(* not of action info: CreateDownload compares before the insertion only.  *)
AnswersFitTheRequest == \A c \in Clients :
  /\ At(c, "answered") /\ RowOf(c).job = request[c].job
  /\ ~request[c].raced \/ request[c].params.action = "info"
  => RowOf(c).params = request[c].params

(* While a request resolves its job nobody else touches the row: Fail      *)
(* writes it whatever its status and its owner, and CompleteInfo asks only *)
(* that it is resolving, as the jobs of the workers are too.               *)
ResolvingIsUndisturbed == \A c \in Clients :
  request[c].pc \in {"resolve", "fail", "complete"} =>
    IsMine(c) /\ RowOf(c).status = "resolving" /\ ~RowOf(c).leased

(* An info job does not stay resolving, unless its request was cut off or  *)
(* was given a shell: no lease expires for it, so neither Recover, Cancel  *)
(* nor Delete would ever take it up (repository_sqlite.go, lease_expires_at *)
(* < ?).                                                                   *)
Resolving(k) ==
  /\ Has(k) /\ table[k].status = "resolving" /\ ~table[k].leased
  /\ table[k].left = "no"
InfoJobsEnd == \A k \in Keys : Resolving(k) ~> ~Resolving(k)

=============================================================================
