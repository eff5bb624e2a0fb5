--------------------------- MODULE JobQueueProofs ---------------------------
(***************************************************************************)
(* Proofs about the job queue, for any sets of jobs and workers and any    *)
(* bounds.  Each action is summarised by what it does to a row (RowStep,   *)
(* for the worker that acts or for NoWorker) and to the goroutines         *)
(* (Outcome, Served, Restarted, Halted); the invariant and the properties  *)
(* follow from the summaries.                                              *)
(***************************************************************************)
EXTENDS JobQueue, TLAPS

USE JobsAssumption, WorkersAssumption, AttemptsAssumption

(* The rows the program can store: LeaseDiscipline and AttemptsBounded of  *)
(* one row, with its type.                                                 *)
GoodRow ==
  {r \in Row : /\ r.owner # NoWorker => r.status \in Active
               /\ r.owner = NoWorker <=> r.lease = "none"
               /\ r.attempt <= MaxAttempts
               /\ r.status \in Waiting => r.attempt < MaxAttempts
               /\ r.status = "absent" => r.attempt = 0}

(* What a step of u may make of a row r.  In order: nothing that shows,    *)
(* accepted, claimed, moved to another stage, put back to wait, ended,     *)
(* withdrawn, queued again, deleted.                                       *)
RowStep(r, s, u) ==
  /\ s \in GoodRow
  /\ \/ s.status = r.status /\ s.owner = r.owner /\ s.attempt = r.attempt
     \/ /\ r.status = "absent" /\ r.owner = NoWorker
        /\ s.status \in {"queued", "resolving"} /\ s.attempt = r.attempt
     \/ /\ r.status \in Waiting /\ r.attempt < MaxAttempts /\ u \in Workers
        /\ s.status = "resolving" /\ s.owner = u /\ s.attempt = r.attempt + 1
     \/ /\ r.status \in Active /\ r.owner = u
        /\ s.status \in Active /\ s.owner = u /\ s.attempt = r.attempt
     \/ /\ r.status \in Active /\ r.owner = u
        /\ s.status \in Waiting /\ s.attempt = r.attempt
     \/ /\ r.status \in Active /\ r.owner = u
        /\ s.status \in Terminal /\ s.attempt = r.attempt
     \/ /\ r.status \in Waiting /\ s.status = "cancelled" /\ s.attempt = r.attempt
     \/ /\ r.status \in {"failed", "cancelled"} /\ s.status = "queued" /\ s.attempt = 0
     \/ /\ r.status # "absent" /\ s.status = "deleted" /\ u = NoWorker

(* The owner of a running job may end it (Complete, CancelOwned, Fail).    *)
LEMMA EndedStep ==
  ASSUME NEW r \in GoodRow, r.status \in Active, NEW t \in Terminal
  PROVE  RowStep(r, Released(r, t), r.owner)
BY DEF GoodRow, Row, RowStep, Released, Active, Waiting, Terminal

(* ... or put it back to wait while attempts are left (RetryLater,         *)
(* Recover).                                                               *)
LEMMA BackStep ==
  ASSUME NEW r \in GoodRow, r.status \in Active, r.attempt < MaxAttempts, NEW t \in Waiting
  PROVE  /\ RowStep(r, Released(r, t), r.owner)
         /\ RowStep(r, [Released(r, t) EXCEPT !.due = FALSE], r.owner)
BY DEF GoodRow, Row, RowStep, Released, Active, Waiting, Terminal

(* A claim by w is a step of w (ClaimNext).                                *)
LEMMA ClaimedStep ==
  ASSUME NEW r \in GoodRow, r.status \in Waiting, NEW w \in Workers
  PROVE  RowStep(r, Claimed(w, r), w)
<1>1. r.attempt \in Nat /\ r.attempt + 1 \in Nat BY DEF Row, GoodRow
<1>2. "resolving" \in Active BY DEF Active
<1> DEFINE r1 == [r EXCEPT !.status = "resolving", !.owner = w, !.lease = "live", !.due = FALSE,
                              !.spoilt = FALSE]
<1>3. r1 \in Row BY <1>2 DEF Row, GoodRow
<1>4. Claimed(w, r) = [r1 EXCEPT !.attempt = r.attempt + 1]
  BY DEF Claimed, Row, GoodRow
<1>5. Claimed(w, r) \in Row BY <1>1, <1>2, <1>3, <1>4 DEF Row
<1>6. /\ Claimed(w, r).attempt = r.attempt + 1
      /\ Claimed(w, r).owner = w
      /\ Claimed(w, r).status = "resolving"
      /\ Claimed(w, r).lease = "live"
  BY DEF Claimed, GoodRow, Row
<1> QED BY <1>1, <1>5, <1>6 DEF RowStep, GoodRow, Active, Waiting

(* The owner may move its running job to another stage (SetStage).         *)
LEMMA StagedStep ==
  ASSUME NEW r \in GoodRow, r.status \in Active, NEW t \in Active, r.owner # NoWorker
  PROVE  RowStep(r, [r EXCEPT !.status = t], r.owner)
BY DEF GoodRow, Row, RowStep, Active, Waiting

(* Lease renewal and expiry, retry_at, the ASR calls and the history are   *)
(* no change of state.                                                     *)
LEMMA TickStep ==
  ASSUME NEW r \in GoodRow, NEW u
  PROVE  /\ RowStep(r, r, u)
         /\ \A n \in Nat : RowStep(r, [r EXCEPT !.tasks = n], u)
         /\ \A b \in BOOLEAN : RowStep(r, [r EXCEPT !.due = b], u)
         /\ RowStep(r, [r EXCEPT !.spoilt = TRUE], u)
         /\ r.owner # NoWorker => \A l \in {"live", "expired"} : RowStep(r, [r EXCEPT !.lease = l], u)
BY DEF GoodRow, Row, RowStep

(* A waiting job may be cancelled (Repository.Cancel).                     *)
LEMMA WithdrawnStep ==
  ASSUME NEW r \in GoodRow, NEW u, r.status \in Waiting
  PROVE  RowStep(r, Released(r, "cancelled"), u)
BY DEF GoodRow, Row, RowStep, Released, Active, Waiting, Terminal

(* A failed or cancelled job may be queued again (Repository.Retry).       *)
LEMMA RetriedStep ==
  ASSUME NEW r \in GoodRow, NEW u, r.status \in {"failed", "cancelled"}
  PROVE  RowStep(r, Requeued(r), u)
<1> DEFINE r1 == [r EXCEPT !.status = "queued", !.due = FALSE]
           r2 == Requeued(r)
<1>1. r1 \in Row
  BY DEF Row, GoodRow, Waiting
<1>2. r2 = [r1 EXCEPT !.attempt = 0]
  BY DEF Row, GoodRow, Requeued
<1>3. r2 \in Row
  <2>1. [r1 EXCEPT !.attempt = 0] \in Row
    BY <1>1 DEF Row
  <2> QED BY <1>2, <2>1
<1>4. r2.status = "queued" /\ r2.attempt = 0 /\ r2.owner = r.owner /\ r2.lease = r.lease
  BY DEF Row, GoodRow, Requeued
<1> HIDE DEF r1, r2
<1>5. r2 \in GoodRow
  BY <1>3, <1>4 DEF GoodRow, Waiting, Active
<1>6. RowStep(r, r2, u)
  BY <1>4, <1>5 DEF RowStep
<1> QED
  BY <1>6 DEF r2

(* The rows that create inserts, and the mark of a deleted one, are good.  *)
LEMMA NewRowGood ==
  ASSUME NEW a \in Actions, NEW t \in {"absent", "queued", "resolving", "deleted"}
  PROVE  NewRow(t, a) \in GoodRow
BY DEF NewRow, GoodRow, Row, Active, Waiting, Terminal

(* An absent job may be inserted (CreateInfo, CreateQueued).               *)
LEMMA AcceptedStep ==
  ASSUME NEW r \in GoodRow, r.status = "absent", NEW u,
         NEW a \in Actions, NEW t \in {"queued", "resolving"}
  PROVE  RowStep(r, NewRow(t, a), u)
BY NewRowGood DEF RowStep, GoodRow, NewRow, Active

(* An existing job may be deleted (Repository.Delete).                     *)
LEMMA DeletedStep ==
  ASSUME NEW r \in GoodRow, r.status # "absent", NEW a \in Actions
  PROVE  RowStep(r, NewRow("deleted", a), NoWorker)
BY NewRowGood DEF RowStep, NewRow

(* An info job, which has no owner, may be completed (CompleteInfo).       *)
LEMMA InfoDoneStep ==
  ASSUME NEW r \in GoodRow, r.status \in Active, r.owner = NoWorker
  PROVE  RowStep(r, [r EXCEPT !.status = "completed"], NoWorker)
BY DEF GoodRow, Row, RowStep, Active, Waiting, Terminal

-----------------------------------------------------------------------------

(* The inductive invariant and its parts *)
Rows == row \in [Jobs -> GoodRow]

Types ==
  /\ Rows
  /\ wk \in [Workers -> Worker]
  /\ stops \in [Jobs -> Workers \cup {NoWorker}]
  /\ info \subseteq Jobs
  /\ deleting \subseteq Jobs
  /\ phase \in {"down", "boot", "asr", "leases", "running", "stopping"}
  /\ budget \in [{"crash", "fault", "retry"} -> Nat]

Working ==
  \A w \in Workers : wk[w].pc # "idle" =>
    wk[w].job \in Jobs /\ phase \in {"running", "stopping"}

RequestsKnown ==
  /\ \A j \in info : /\ row[j].status = "resolving" /\ row[j].owner = NoWorker
                     /\ j \notin deleting
  /\ \A j \in deleting : row[j].status # "absent"

IInv == Types /\ Working /\ RunnerOwnsItsJob /\ OneRunner /\ RequestsKnown

(* The table, and the workers but u, in a step of u *)
Rest(u) == \A j \in Jobs : RowStep(row[j], row'[j], u)

Others(u) ==
  \A v \in Workers \ {u} : wk'[v].pc = wk[v].pc /\ wk'[v].job = wk[v].job

NobodyWorks == \A w \in Workers : wk[w].pc = "idle"

(* Writing one row with an allowed step is an allowed step of every row.   *)
LEMMA PutRow ==
  ASSUME Rows, NEW j \in Jobs, NEW u, NEW r, RowStep(row[j], r, u), Put(j, r)
  PROVE  Rows' /\ Rest(u)
<1>1. r \in GoodRow
  BY DEF RowStep
<1>2. row' = [row EXCEPT ![j] = r]
  BY DEF Put
<1>3. ASSUME NEW k \in Jobs PROVE RowStep(row[k], row'[k], u)
  <2>1. CASE k = j BY <2>1, <1>2 DEF Rows
  <2>2. CASE k # j BY <2>2, <1>2, TickStep DEF Rows
  <2> QED BY <2>1, <2>2
<1> QED BY <1>1, <1>2, <1>3 DEF Rows, Rest

(* Leaving the table alone is one, too.                                    *)
LEMMA SameRow == ASSUME Rows, NEW u, UNCHANGED row PROVE Rows' /\ Rest(u)
BY TickStep DEF Rows, Rest

(* A row that is spoilt is what it was, but for the history.               *)
LEMMA SpoiltRow ==
  ASSUME Rows, NEW j \in Jobs, Spoil(j)
  PROVE  /\ Rows' /\ \A u : Rest(u)
         /\ \A k \in Jobs : /\ row'[k].status = row[k].status
                            /\ row'[k].owner = row[k].owner
                            /\ row[k].spoilt => row'[k].spoilt
         /\ \A k \in Jobs \ {j} : row'[k] = row[k]
         /\ row'[j].spoilt
<1>1. row \in [Jobs -> GoodRow] /\ row[j] \in GoodRow /\ row[j] \in Row
  BY DEF Rows, GoodRow
<1>2. row' = [row EXCEPT ![j] = [row[j] EXCEPT !.spoilt = TRUE]]
  BY DEF Spoil, Put
<1>3. ASSUME NEW u PROVE Rows' /\ Rest(u)
  <2>1. RowStep(row[j], [row[j] EXCEPT !.spoilt = TRUE], u)
    BY <1>1, TickStep
  <2> QED BY <1>1, <2>1, PutRow DEF Spoil
<1>4. Rows' /\ \A u : Rest(u)
  BY <1>3
<1>5. \A k \in Jobs \ {j} : row'[k] = row[k]
  BY <1>1, <1>2
<1>6. row'[j].status = row[j].status /\ row'[j].owner = row[j].owner /\ row'[j].spoilt
  BY <1>1, <1>2 DEF Row
<1> QED BY <1>4, <1>5, <1>6

(* What Go does to the goroutines.                                         *)
LEMMA PcType ==
  ASSUME wk \in [Workers -> Worker], NEW w \in Workers,
         NEW pc \in Stages \cup {"idle", "settling", "leaving", "deferred"},
         Go(w, pc)
  PROVE  /\ wk' \in [Workers -> Worker] /\ Others(w)
         /\ wk'[w].pc = pc /\ wk'[w].job = wk[w].job
BY DEF Go, Worker, Others

(* What Quit does to the goroutines.                                       *)
LEMMA QuitType ==
  ASSUME wk \in [Workers -> Worker], NEW w \in Workers,
         NEW pc \in Stages \cup {"idle", "settling", "leaving", "deferred"},
         NEW c \in {"none", "canceled", "permanent", "ffmpeg", "transient", "other"},
         Quit(w, pc, c)
  PROVE  /\ wk' \in [Workers -> Worker] /\ Others(w)
         /\ wk'[w].pc = pc /\ wk'[w].job = wk[w].job
BY DEF Quit, Worker, Others

(* What cancelling a job context does to the goroutines.                   *)
LEMMA CtxType ==
  ASSUME wk \in [Workers -> Worker], NEW w \in Workers,
         NEW c \in {"live", "user", "lost", "stop"}, NEW u,
         wk' = [wk EXCEPT ![w].ctx = c]
  PROVE  /\ wk' \in [Workers -> Worker] /\ Others(u)
         /\ wk'[w].pc = wk[w].pc /\ wk'[w].job = wk[w].job
BY DEF Worker, Others

(* The causes a stage can end with are causes.                             *)
LEMMA CauseType ==
  \A pc : Causes(pc) \subseteq {"none", "canceled", "permanent", "ffmpeg", "transient", "other"}
BY DEF Causes

(* An idle worker and one with a fresh claim are well formed.              *)
LEMMA GoroutineType ==
  /\ Idle \in Worker /\ Idle.pc = "idle"
  /\ \A j \in Jobs : /\ Goroutine("claimed", j) \in Worker
                     /\ Goroutine("claimed", j).pc = "claimed"
                     /\ Goroutine("claimed", j).job = j
BY DEF Idle, Goroutine, Worker, Stages

(* A row that names a worker as its owner is in an active status.          *)
LEMMA OwnedIsActive ==
  ASSUME Rows, NEW w \in Workers, wk[w].job \in Jobs, Owns(w)
  PROVE  /\ row[wk[w].job] \in GoodRow
         /\ row[wk[w].job].owner = w
         /\ row[wk[w].job].owner # NoWorker
         /\ row[wk[w].job].status \in Active
BY DEF Rows, GoodRow, Owns

(* SetStage is an allowed step of its caller, who owns the row after it.   *)
LEMMA SetStageStep ==
  ASSUME Rows, NEW w \in Workers, wk[w].job \in Jobs, NEW t \in Active, SetStage(w, t)
  PROVE  /\ Rows' /\ Rest(w)
         /\ row'[wk[w].job].owner = w /\ row'[wk[w].job].status = t
<1> DEFINE j == wk[w].job
<1>1. Owns(w) /\ Put(j, [row[j] EXCEPT !.status = t])
  BY DEF SetStage
<1>2. RowStep(row[j], [row[j] EXCEPT !.status = t], w)
  BY <1>1, OwnedIsActive, StagedStep
<1>3. Rows' /\ Rest(w)
  BY <1>1, <1>2, PutRow
<1>4. row[j].owner = w /\ row'[j] = [row[j] EXCEPT !.status = t] /\ row[j] \in Row
  BY <1>1, OwnedIsActive DEF Put, Rows, GoodRow
<1> QED BY <1>3, <1>4 DEF Row

(* CompleteDownload and CompleteTranscription are allowed steps of the     *)
(* caller.                                                                 *)
LEMMA CompleteStep ==
  ASSUME Rows, NEW w \in Workers, wk[w].job \in Jobs, NEW t, Complete(w, t)
  PROVE  Rows' /\ Rest(w)
<1> DEFINE j == wk[w].job
<1>1. Owns(w) /\ Put(j, Released(row[j], "completed"))
  BY DEF Complete
<1>2. RowStep(row[j], Released(row[j], "completed"), w)
  BY <1>1, OwnedIsActive, EndedStep DEF Terminal
<1> QED BY <1>1, <1>2, PutRow

(* CancelOwned is an allowed step of the caller, whatever it owns.         *)
LEMMA CancelOwnedStep ==
  ASSUME Rows, NEW w \in Workers, wk[w].job \in Jobs, CancelOwned(w)
  PROVE  Rows' /\ Rest(w)
<1> DEFINE j == wk[w].job
<1>1. CASE Owns(w)
  <2>1. Put(j, Released(row[j], "cancelled"))
    BY <1>1 DEF CancelOwned
  <2>2. RowStep(row[j], Released(row[j], "cancelled"), w)
    BY <1>1, OwnedIsActive, EndedStep DEF Terminal
  <2> QED BY <2>1, <2>2, PutRow
<1>2. CASE ~Owns(w)
  BY <1>2, SameRow DEF CancelOwned
<1> QED BY <1>1, <1>2

(* RetryLater is an allowed step of the caller, whatever it owns.          *)
LEMMA RetryLaterStep ==
  ASSUME Rows, NEW w \in Workers, wk[w].job \in Jobs, RetryLater(w)
  PROVE  Rows' /\ Rest(w)
<1> DEFINE j == wk[w].job
<1>1. CASE ~Owns(w)
  BY <1>1, SameRow DEF RetryLater
<1>2. CASE Owns(w) /\ row[j].attempt >= MaxAttempts
  <2>1. Put(j, Released(row[j], "failed"))
    BY <1>2 DEF RetryLater
  <2>2. RowStep(row[j], Released(row[j], "failed"), w)
    BY <1>2, OwnedIsActive, EndedStep DEF Terminal
  <2> QED BY <2>1, <2>2, PutRow
<1>3. CASE Owns(w) /\ ~(row[j].attempt >= MaxAttempts)
  <2>1. Put(j, [Released(row[j], "retry_wait") EXCEPT !.due = FALSE])
    BY <1>3 DEF RetryLater
  <2>2. row[j].attempt < MaxAttempts
    BY <1>3, OwnedIsActive DEF GoodRow, Row
  <2>3. RowStep(row[j], [Released(row[j], "retry_wait") EXCEPT !.due = FALSE], w)
    BY <1>3, <2>2, OwnedIsActive, BackStep DEF Waiting
  <2> QED BY <2>1, <2>3, PutRow
<1> QED BY <1>1, <1>2, <1>3

(* Closing an ASR call changes neither owner nor status.                   *)
LEMMA TaskClosedStep ==
  ASSUME Rows, NEW j \in Jobs, NEW u, Put(j, TaskClosed(j))
  PROVE  /\ Rows' /\ Rest(u)
         /\ row'[j].owner = row[j].owner /\ row'[j].status = row[j].status
<1>1. row[j] \in GoodRow /\ row[j] \in Row
  BY DEF Rows, GoodRow
<1>2. row[j].tasks # 0 => row[j].tasks - 1 \in Nat
  BY <1>1 DEF Row
<1>3. RowStep(row[j], TaskClosed(j), u)
  BY <1>1, <1>2, TickStep DEF TaskClosed
<1>4. Rows' /\ Rest(u)
  BY <1>3, PutRow
<1>5. row'[j] = TaskClosed(j)
  BY DEF Put, Rows
<1> QED BY <1>1, <1>4, <1>5 DEF TaskClosed, Row

(* RunnerOwnsItsJob, of one worker *)
Owner(w) ==
  Holding(w) => \/ row[wk[w].job].status = "deleted"
                \/ /\ Owns(w)
                   /\ wk[w].pc \in Stages => row[wk[w].job].status = StatusOf(wk[w].pc)

(* What a step of w leaves behind *)
Outcome(w) ==
  /\ Types'
  /\ Rest(w)
  /\ Others(w)
  /\ wk'[w].pc # "idle" => wk'[w].job \in Jobs /\ phase' \in {"running", "stopping"}
  /\ Owner(w)'
  /\ Holding(w)' => \/ Holding(w) /\ wk'[w].job = wk[w].job
                    \/ ~Holding(w) /\ row[wk'[w].job].status \in Waiting
  /\ wk[w].pc = "settling" /\ wk'[w].pc = "settling" =>
       row'[wk[w].job].status = row[wk[w].job].status
  /\ UNCHANGED <<info, deleting, phase>>

(* Spending keeps the budget well formed.                                  *)
LEMMA BudgetType ==
  ASSUME Types, NEW what \in {"crash", "fault", "retry"}, Spend(what)
  PROVE  budget' \in [{"crash", "fault", "retry"} -> Nat]
BY DEF Types, Spend

(* A stage that ends well leaves its worker with a job it owns, or with    *)
(* none.                                                                   *)
LEMMA StageOutcome ==
  ASSUME IInv, NEW w \in Workers, NEW from \in Stages, NEW to \in Stages \cup {"settling", "leaving"},
         Stage(w, from), Rows', Rest(w),
         /\ wk' \in [Workers -> Worker] /\ Others(w)
         /\ wk'[w].pc = to /\ wk'[w].job = wk[w].job,
         to \in Stages \cup {"settling"} =>
           \/ row'[wk[w].job].status = "deleted"
           \/ /\ row'[wk[w].job].owner = w
              /\ to \in Stages => row'[wk[w].job].status = StatusOf(to)
  PROVE  Outcome(w)
<1>1. Types'
  BY DEF Stage, IInv, Types
<1>2. wk[w].pc = from /\ wk[w].pc # "idle" /\ Holding(w)
  BY DEF Stage, At, Holding, Stages
<1>3. wk[w].job \in Jobs /\ phase \in {"running", "stopping"}
  BY <1>2 DEF IInv, Working
<1>4. Owner(w)'
  BY DEF Owner, Holding, Owns, Stages
<1>5. wk[w].pc # "settling"
  BY <1>2 DEF Stages
<1> QED BY <1>1, <1>2, <1>3, <1>4, <1>5 DEF Outcome, Stage

(* A goroutine that is not idle has a job, and the process runs.           *)
LEMMA OnJob ==
  ASSUME IInv, NEW w \in Workers, wk[w].pc # "idle"
  PROVE  wk[w].job \in Jobs /\ phase \in {"running", "stopping"} /\ Rows /\ wk \in [Workers -> Worker]
BY DEF IInv, Working, Types

(* A worker at a stage owns its job in that status, unless it was deleted. *)
LEMMA StageOwner ==
  ASSUME IInv, NEW w \in Workers, NEW from \in Stages, Stage(w, from)
  PROVE  \/ row[wk[w].job].status = "deleted"
         \/ row[wk[w].job].owner = w /\ row[wk[w].job].status = StatusOf(from)
BY DEF IInv, RunnerOwnsItsJob, Holding, Owns, Stage, At

(* From one stage to the next by way of SetStage.                          *)
LEMMA StageMoves ==
  ASSUME IInv, NEW w \in Workers,
         NEW from \in Stages, NEW to \in Stages, Stage(w, from), Go(w, to),
         SetStage(w, StatusOf(to)), StatusOf(to) \in Active
  PROVE  Outcome(w)
<1>1. wk[w].pc = from /\ wk[w].pc # "idle"
  BY DEF Stage, At, Stages
<1>2. wk[w].job \in Jobs /\ Rows /\ wk \in [Workers -> Worker]
  BY <1>1, OnJob
<1>3. /\ Rows' /\ Rest(w)
      /\ row'[wk[w].job].owner = w /\ row'[wk[w].job].status = StatusOf(to)
  BY <1>2, SetStageStep
<1>4. /\ wk' \in [Workers -> Worker] /\ Others(w)
      /\ wk'[w].pc = to /\ wk'[w].job = wk[w].job
  BY <1>2, PcType
<1> QED BY <1>3, <1>4, StageOutcome

(* The last statement of a successful run.                                 *)
LEMMA Completions ==
  ASSUME IInv, NEW w \in Workers,
         NEW from \in Stages, NEW t, Stage(w, from), Complete(w, t), Go(w, "leaving")
  PROVE  Outcome(w)
<1>1. wk[w].pc = from /\ wk[w].pc # "idle"
  BY DEF Stage, At, Stages
<1>2. wk[w].job \in Jobs /\ Rows /\ wk \in [Workers -> Worker]
  BY <1>1, OnJob
<1>3. Rows' /\ Rest(w)
  BY <1>2, CompleteStep
<1>4. /\ wk' \in [Workers -> Worker] /\ Others(w)
      /\ wk'[w].pc = "leaving" /\ wk'[w].job = wk[w].job
  BY <1>2, PcType
<1>5. "leaving" \notin Stages \cup {"settling"}
  BY DEF Stages
<1> QED BY <1>3, <1>4, <1>5, StageOutcome

(* Every stage of process, processNote and Transcriber.Run.                *)
LEMMA StageActions ==
  ASSUME IInv, NEW w \in Workers,
         \/ Resolved(w) \/ Downloaded(w) \/ FinishDownload(w) \/ BeginExtract(w)
         \/ BeginTranscribe(w) \/ SubmitTask(w) \/ TaskDone(w) \/ BeginResults(w)
         \/ FinishTranscription(w) \/ ImagesDone(w) \/ FinishNote(w)
  PROVE  Outcome(w)
<1>0. /\ /\ StatusOf("downloading") = "downloading" /\ StatusOf("imaging") = "downloading"
         /\ StatusOf("downloaded") = "downloading" /\ StatusOf("extracting") = "extracting"
         /\ StatusOf("transcribing") = "transcribing" /\ StatusOf("polling") = "transcribing"
         /\ StatusOf("postprocessing") = "postprocessing"
         /\ StatusOf("composing") = "postprocessing"
      /\ \A pc \in {"resolving", "downloading", "downloaded", "extracting", "transcribing",
                    "polling", "postprocessing", "imaging", "composing"} : pc \in Stages
      /\ {"downloading", "extracting", "transcribing", "postprocessing"} \subseteq Active
  BY DEF Stages, Active, StatusOf
<1>1. CASE Resolved(w)
  <2>1. Stage(w, "resolving") /\ SetStage(w, "downloading")
    BY <1>1 DEF Resolved
  <2>2. CASE \E next \in {"downloading", "imaging"} : Go(w, next)
    BY <1>0, <2>1, <2>2, StageMoves
  <2>3. CASE Quit(w, "settling", "permanent")
    <3>1. wk[w].job \in Jobs /\ Rows /\ wk \in [Workers -> Worker]
      BY <2>1, OnJob DEF Stage, At
    <3>2. Rows' /\ Rest(w) /\ row'[wk[w].job].owner = w
      BY <1>0, <2>1, <3>1, SetStageStep
    <3>3. /\ wk' \in [Workers -> Worker] /\ Others(w)
          /\ wk'[w].pc = "settling" /\ wk'[w].job = wk[w].job
      BY <2>3, <3>1, QuitType
    <3>4. "settling" \notin Stages
      BY DEF Stages
    <3> QED BY <1>0, <2>1, <3>2, <3>3, <3>4, StageOutcome
  <2> QED BY <1>1, <2>2, <2>3 DEF Resolved
<1>2. CASE Downloaded(w)
  <2>1. Stage(w, "downloading") /\ Go(w, "downloaded") /\ UNCHANGED row
    BY <1>2 DEF Downloaded
  <2>2. wk[w].job \in Jobs /\ Rows /\ wk \in [Workers -> Worker]
    BY <2>1, OnJob DEF Stage, At
  <2>3. \/ row[wk[w].job].status = "deleted"
        \/ row[wk[w].job].owner = w /\ row[wk[w].job].status = "downloading"
    BY <1>0, <2>1, StageOwner
  <2>4. Rows' /\ Rest(w)
    BY <2>1, <2>2, SameRow
  <2>5. /\ wk' \in [Workers -> Worker] /\ Others(w)
        /\ wk'[w].pc = "downloaded" /\ wk'[w].job = wk[w].job
    BY <1>0, <2>1, <2>2, PcType
  <2> QED BY <1>0, <2>1, <2>3, <2>4, <2>5, StageOutcome
<1>3. CASE FinishDownload(w)
  BY <1>0, <1>3, Completions DEF FinishDownload
<1>4. CASE BeginExtract(w)
  BY <1>0, <1>4, StageMoves DEF BeginExtract
<1>5. CASE BeginTranscribe(w)
  BY <1>0, <1>5, StageMoves DEF BeginTranscribe
<1>6. CASE SubmitTask(w)
  <2> DEFINE j == wk[w].job
  <2>1. /\ Stage(w, "transcribing") /\ Go(w, "polling")
        /\ Put(j, [row[j] EXCEPT !.tasks = @ + 1])
    BY <1>6 DEF SubmitTask
  <2>2. j \in Jobs /\ Rows /\ wk \in [Workers -> Worker]
    BY <2>1, OnJob DEF Stage, At
  <2>3. row[j] \in GoodRow /\ row[j] \in Row
    BY <2>2 DEF Rows, GoodRow
  <2>8. row[j].tasks \in Nat
    BY <2>3 DEF Row
  <2>9. row[j].tasks + 1 \in Nat
    BY <2>8
  <2>4. Rows' /\ Rest(w)
    BY <2>1, <2>2, <2>3, <2>9, TickStep, PutRow
  <2>5. row'[j].owner = row[j].owner /\ row'[j].status = row[j].status
    BY <2>1, <2>2, <2>3 DEF Put, Rows, Row
  <2>6. \/ row[j].status = "deleted"
        \/ row[j].owner = w /\ row[j].status = "transcribing"
    BY <1>0, <2>1, StageOwner
  <2>7. /\ wk' \in [Workers -> Worker] /\ Others(w)
        /\ wk'[w].pc = "polling" /\ wk'[w].job = wk[w].job
    BY <1>0, <2>1, <2>2, PcType
  <2> QED BY <1>0, <2>1, <2>4, <2>5, <2>6, <2>7, StageOutcome
<1>7. CASE TaskDone(w)
  <2> DEFINE j == wk[w].job
  <2>1. /\ Stage(w, "polling") /\ Go(w, "transcribing") /\ Put(j, TaskClosed(j))
    BY <1>7 DEF TaskDone
  <2>2. j \in Jobs /\ Rows /\ wk \in [Workers -> Worker]
    BY <2>1, OnJob DEF Stage, At
  <2>3. /\ Rows' /\ Rest(w)
        /\ row'[j].owner = row[j].owner /\ row'[j].status = row[j].status
    BY <2>1, <2>2, TaskClosedStep
  <2>4. \/ row[j].status = "deleted"
        \/ row[j].owner = w /\ row[j].status = "transcribing"
    BY <1>0, <2>1, StageOwner
  <2>5. /\ wk' \in [Workers -> Worker] /\ Others(w)
        /\ wk'[w].pc = "transcribing" /\ wk'[w].job = wk[w].job
    BY <1>0, <2>1, <2>2, PcType
  <2> QED BY <1>0, <2>1, <2>3, <2>4, <2>5, StageOutcome
<1>8. CASE BeginResults(w)
  BY <1>0, <1>8, StageMoves DEF BeginResults
<1>9. CASE FinishTranscription(w)
  BY <1>0, <1>9, Completions DEF FinishTranscription
<1>10. CASE ImagesDone(w)
  BY <1>0, <1>10, StageMoves DEF ImagesDone
<1>11. CASE FinishNote(w)
  BY <1>0, <1>11, Completions DEF FinishNote
<1> QED BY <1>1, <1>2, <1>3, <1>4, <1>5, <1>6, <1>7, <1>8, <1>9, <1>10, <1>11

(* A worker that gives up its job, or never had it, owes nothing.          *)
LEMMA RestOutcome ==
  ASSUME IInv, NEW w \in Workers, Rows', Rest(w),
         wk' \in [Workers -> Worker], Others(w),
         wk'[w].pc \in {"idle", "leaving", "deferred"},
         wk'[w].pc # "idle" => wk[w].pc # "idle" /\ wk'[w].job = wk[w].job,
         stops' \in [Jobs -> Workers \cup {NoWorker}],
         budget' \in [{"crash", "fault", "retry"} -> Nat],
         UNCHANGED <<info, deleting, phase>>
  PROVE  Outcome(w)
<1>1. Types'
  BY DEF IInv, Types
<1>2. wk'[w].pc # "idle" => wk'[w].job \in Jobs /\ phase' \in {"running", "stopping"}
  BY OnJob
<1>3. ~Holding(w)'
  BY DEF Holding, Stages
<1> QED BY <1>1, <1>2, <1>3 DEF Outcome, Owner

(* A worker keeps its job while the owner and the status of the row stay.  *)
LEMMA KeepOutcome ==
  ASSUME IInv, NEW w \in Workers, Rows', Rest(w), Holding(w),
         wk' \in [Workers -> Worker], Others(w),
         \/ wk'[w].pc \in {wk[w].pc, "settling"}
         \/ wk[w].pc = "claimed" /\ wk'[w].pc = "resolving",
         wk'[w].job = wk[w].job,
         row'[wk[w].job].owner = row[wk[w].job].owner,
         row'[wk[w].job].status = row[wk[w].job].status,
         stops' \in [Jobs -> Workers \cup {NoWorker}],
         budget' \in [{"crash", "fault", "retry"} -> Nat],
         UNCHANGED <<info, deleting, phase>>
  PROVE  Outcome(w)
<1>1. Types'
  BY DEF IInv, Types
<1>2. wk[w].pc # "idle" /\ wk[w].job \in Jobs /\ phase \in {"running", "stopping"}
  BY OnJob DEF Holding, Stages
<1>3. Owner(w)
  BY DEF IInv, RunnerOwnsItsJob, Owner
<1>4. /\ "settling" \notin Stages
      /\ StatusOf("claimed") = StatusOf("resolving") /\ "claimed" \in Stages
  BY DEF Stages, StatusOf
<1>5. Owner(w)'
  BY <1>3, <1>4 DEF Owner, Owns, Holding
<1> QED BY <1>1, <1>2, <1>5 DEF Outcome

(* ClaimNext, with and without the SELECT that follows it.                 *)
LEMMA ClaimActions ==
  ASSUME IInv, NEW w \in Workers, Claim(w) \/ ClaimUnread(w)
  PROVE  Outcome(w)
<1>1. /\ Types /\ Rows /\ wk \in [Workers -> Worker] /\ wk[w].pc = "idle"
      /\ phase = "running" /\ budget \in [{"crash", "fault", "retry"} -> Nat]
  BY DEF IInv, Types, Claim, ClaimUnread
<1>2. PICK j \in Jobs : /\ Oldest(j) /\ Put(j, Claimed(w, row[j]))
                        /\ Claim(w) => wk' = [wk EXCEPT ![w] = Goroutine("claimed", j)]
  BY DEF Claim, ClaimUnread
<1>3. row[j] \in GoodRow /\ row[j].status \in Waiting
  BY <1>1, <1>2 DEF Oldest, Claimable, Rows, Waiting
<1>4. Rows' /\ Rest(w)
  BY <1>1, <1>2, <1>3, ClaimedStep, PutRow
<1>5. CASE ClaimUnread(w)
  <2>1. budget' \in [{"crash", "fault", "retry"} -> Nat]
    BY <1>1, <1>5, BudgetType DEF ClaimUnread
  <2>2. Others(w) /\ stops' \in [Jobs -> Workers \cup {NoWorker}]
    BY <1>5, <1>1 DEF ClaimUnread, Others, Types
  <2> QED BY <1>1, <1>4, <1>5, <2>1, <2>2, RestOutcome DEF ClaimUnread
<1>6. CASE Claim(w)
  <2>1. /\ wk' \in [Workers -> Worker] /\ Others(w)
        /\ wk'[w].pc = "claimed" /\ wk'[w].job = j
    BY <1>1, <1>2, <1>6, GoroutineType DEF Others
  <2>2. Types'
    BY <1>1, <1>4, <1>6, <2>1 DEF Claim, Types
  <2>3. row'[j].status = "resolving" /\ row'[j].owner = w
    BY <1>1, <1>2, <1>3 DEF Put, Claimed, Rows, GoodRow, Row
  <2>4. StatusOf("claimed") = "resolving"
    BY DEF StatusOf
  <2>5. Owner(w)'
    BY <2>1, <2>3, <2>4 DEF Owner, Owns
  <2>6. ~Holding(w)
    BY <1>1 DEF Holding, Stages
  <2> QED BY <1>1, <1>3, <1>4, <1>6, <2>1, <2>2, <2>5, <2>6 DEF Outcome, Claim
<1> QED BY <1>5, <1>6

(* The ways out of process. Fail is harmless here although it has no       *)
(* guard: the caller still owns the row or it is gone.                     *)
LEMMA LeaveActions ==
  ASSUME IInv, NEW w \in Workers,
         \/ Bail(w) \/ ResolvedShell(w) \/ NoteUnwritten(w) \/ SettleFault(w)
         \/ Unregister(w) \/ Finish(w) \/ Settle(w)
  PROVE  Outcome(w)
<1>1. wk[w].pc # "idle"
  BY DEF Bail, ResolvedShell, NoteUnwritten, Stage, ReturnsRaw, SettleFault, Unregister, Finish,
         Settle, At
<1>2. /\ wk[w].job \in Jobs /\ Rows /\ wk \in [Workers -> Worker] /\ Types
      /\ stops \in [Jobs -> Workers \cup {NoWorker}]
      /\ budget \in [{"crash", "fault", "retry"} -> Nat]
  BY <1>1, OnJob DEF IInv, Types
<1>3. CASE Bail(w)
  <2>1. /\ Quit(w, "leaving", "canceled") \/ Quit(w, "leaving", "other")
        /\ UNCHANGED <<row, stops, info, deleting, phase>>
        /\ UNCHANGED budget \/ Spend("fault")
    BY <1>3 DEF Bail
  <2>2. Rows' /\ Rest(w)
    BY <1>2, <2>1, SameRow
  <2>3. /\ wk' \in [Workers -> Worker] /\ Others(w)
        /\ wk'[w].pc = "leaving" /\ wk'[w].job = wk[w].job
    BY <1>2, <2>1, QuitType
  <2>4. budget' \in [{"crash", "fault", "retry"} -> Nat]
    BY <1>2, <2>1, BudgetType
  <2> QED BY <1>1, <1>2, <2>1, <2>2, <2>3, <2>4, RestOutcome
<1>4. CASE SettleFault(w)
  <2>1. Rows' /\ Rest(w)
    BY <1>2, <1>4, SameRow DEF SettleFault
  <2>2. /\ wk' \in [Workers -> Worker] /\ Others(w)
        /\ wk'[w].pc = "leaving" /\ wk'[w].job = wk[w].job
    BY <1>2, <1>4, PcType DEF SettleFault
  <2>3. budget' \in [{"crash", "fault", "retry"} -> Nat]
    BY <1>2, <1>4, BudgetType DEF SettleFault
  <2> QED BY <1>1, <1>2, <1>4, <2>1, <2>2, <2>3, RestOutcome DEF SettleFault
<1>5. CASE Unregister(w)
  <2>1. Rows' /\ Rest(w)
    BY <1>2, <1>5, SameRow DEF Unregister
  <2>2. /\ wk' \in [Workers -> Worker] /\ Others(w)
        /\ wk'[w].pc = "deferred" /\ wk'[w].job = wk[w].job
    BY <1>2, <1>5, PcType DEF Unregister
  <2>3. stops' \in [Jobs -> Workers \cup {NoWorker}]
    BY <1>2, <1>5 DEF Unregister
  <2> QED BY <1>1, <1>2, <1>5, <2>1, <2>2, <2>3, RestOutcome DEF Unregister
<1>6. CASE Finish(w)
  <2>1. Rows' /\ Rest(w)
    BY <1>2, <1>6, SameRow, CancelOwnedStep DEF Finish
  <2>2. wk' \in [Workers -> Worker] /\ Others(w) /\ wk'[w].pc = "idle"
    BY <1>2, <1>6, GoroutineType DEF Finish, Others
  <2> QED BY <1>1, <1>2, <1>6, <2>1, <2>2, RestOutcome DEF Finish
<1>7. CASE Settle(w)
  <2>1. Rows' /\ Rest(w)
    <3>1. CASE CancelOwned(w)
      BY <1>2, <3>1, CancelOwnedStep
    <3>2. CASE Fail(wk[w].job)
      <4>1. CASE row[wk[w].job].status = "deleted"
        BY <1>2, <3>2, <4>1, SameRow DEF Fail
      <4>2. CASE row[wk[w].job].status # "deleted"
        <5>1. Owns(w)
          BY <1>7, <4>2 DEF IInv, RunnerOwnsItsJob, Holding, Settle, At
        <5>2. RowStep(row[wk[w].job], Released(row[wk[w].job], "failed"), w)
          BY <1>2, <5>1, OwnedIsActive, EndedStep DEF Terminal
        <5> QED BY <1>2, <3>2, <4>2, <5>2, PutRow DEF Fail
      <4> QED BY <4>1, <4>2
    <3>3. CASE RetryLater(w)
      BY <1>2, <3>3, RetryLaterStep
    <3> QED BY <1>7, <3>1, <3>2, <3>3 DEF Settle
  <2>2. /\ wk' \in [Workers -> Worker] /\ Others(w)
        /\ wk'[w].pc = "leaving" /\ wk'[w].job = wk[w].job
    BY <1>2, <1>7, PcType DEF Settle
  <2> QED BY <1>1, <1>2, <1>7, <2>1, <2>2, RestOutcome DEF Settle
<1>8. CASE ResolvedShell(w) \/ NoteUnwritten(w)
  <2>1. /\ Spoil(wk[w].job) /\ Quit(w, "leaving", "other")
        /\ UNCHANGED <<stops, info, deleting, phase, budget>>
    BY <1>8 DEF ResolvedShell, NoteUnwritten, Stage
  <2>2. Rows' /\ Rest(w)
    BY <1>2, <2>1, SpoiltRow
  <2>3. /\ wk' \in [Workers -> Worker] /\ Others(w)
        /\ wk'[w].pc = "leaving" /\ wk'[w].job = wk[w].job
    BY <1>2, <2>1, QuitType
  <2> QED BY <1>1, <1>2, <2>1, <2>2, <2>3, RestOutcome
<1> QED BY <1>3, <1>4, <1>5, <1>6, <1>7, <1>8

(* Registering the cancel function, and running into an error.             *)
LEMMA KeepActions ==
  ASSUME IInv, NEW w \in Workers, Register(w) \/ Break(w)
  PROVE  Outcome(w)
<1>1. wk[w].pc # "idle" /\ Holding(w)
  BY DEF Register, Break, At, Holding, Stages
<1>2. /\ wk[w].job \in Jobs /\ Rows /\ wk \in [Workers -> Worker]
      /\ stops \in [Jobs -> Workers \cup {NoWorker}]
      /\ budget \in [{"crash", "fault", "retry"} -> Nat]
  BY <1>1, OnJob DEF IInv, Types
<1>3. CASE Register(w)
  <2>1. Rows' /\ Rest(w)
    BY <1>2, <1>3, SameRow DEF Register
  <2>2. /\ wk' \in [Workers -> Worker] /\ Others(w)
        /\ wk'[w].pc = "resolving" /\ wk'[w].job = wk[w].job
    BY <1>2, <1>3, PcType DEF Register, Stages
  <2>3. stops' \in [Jobs -> Workers \cup {NoWorker}] /\ wk[w].pc = "claimed"
    BY <1>2, <1>3 DEF Register, At
  <2> QED BY <1>1, <1>2, <1>3, <2>1, <2>2, <2>3, KeepOutcome DEF Register
<1>4. CASE Break(w)
  <2>1. PICK c \in Causes(wk[w].pc) \cup {"canceled"} : Quit(w, "settling", c)
    BY <1>4 DEF Break
  <2>2. /\ wk' \in [Workers -> Worker] /\ Others(w)
        /\ wk'[w].pc = "settling" /\ wk'[w].job = wk[w].job
    BY <1>2, <2>1, CauseType, QuitType
  <2>3. /\ Rows' /\ Rest(w)
        /\ row'[wk[w].job].owner = row[wk[w].job].owner
        /\ row'[wk[w].job].status = row[wk[w].job].status
    <3>1. CASE UNCHANGED row
      BY <1>2, <3>1, SameRow
    <3>2. CASE Put(wk[w].job, TaskClosed(wk[w].job))
      BY <1>2, <3>2, TaskClosedStep
    <3> QED BY <1>4, <3>1, <3>2 DEF Break
  <2> QED BY <1>1, <1>2, <1>4, <2>2, <2>3, KeepOutcome DEF Break
<1> QED BY <1>3, <1>4

(* The heartbeat goroutine.                                                *)
LEMMA HeartbeatActions ==
  ASSUME IInv, NEW w \in Workers, Heartbeat(w) \/ HeartbeatFault(w)
  PROVE  Outcome(w)
<1>1. /\ wk[w].pc # "idle" /\ (Holding(w) \/ wk[w].pc = "leaving")
      /\ UNCHANGED <<stops, info, deleting, phase>>
  <2>1. Registered(w)
    BY DEF Heartbeat, HeartbeatFault
  <2>2. wk[w].pc \in Stages \cup {"idle", "settling", "leaving", "deferred"}
    BY DEF IInv, Types, Worker
  <2> QED BY <2>1, <2>2 DEF Heartbeat, HeartbeatFault, Registered, Holding, Stages
<1>2. /\ wk[w].job \in Jobs /\ Rows /\ wk \in [Workers -> Worker] /\ Types
      /\ stops \in [Jobs -> Workers \cup {NoWorker}]
      /\ budget \in [{"crash", "fault", "retry"} -> Nat]
  BY <1>1, OnJob DEF IInv, Types
<1>3. /\ wk' \in [Workers -> Worker] /\ Others(w)
      /\ wk'[w].pc = wk[w].pc /\ wk'[w].job = wk[w].job
  <2>1. CASE UNCHANGED wk
    BY <1>2, <2>1 DEF Others
  <2>2. CASE wk' = [wk EXCEPT ![w].ctx = "lost"]
    BY <1>2, <2>2, CtxType
  <2> QED BY <2>1, <2>2 DEF Heartbeat, HeartbeatFault
<1>4. /\ Rows' /\ Rest(w)
      /\ row'[wk[w].job].owner = row[wk[w].job].owner
      /\ row'[wk[w].job].status = row[wk[w].job].status
  <2>1. CASE UNCHANGED row
    BY <1>2, <2>1, SameRow
  <2>2. CASE Owns(w) /\ Put(wk[w].job, [row[wk[w].job] EXCEPT !.lease = "live"])
    <3>1. /\ row[wk[w].job] \in GoodRow /\ row[wk[w].job] \in Row
          /\ row[wk[w].job].owner # NoWorker
      BY <1>2, <2>2, OwnedIsActive DEF GoodRow
    <3>2. RowStep(row[wk[w].job], [row[wk[w].job] EXCEPT !.lease = "live"], w)
      BY <3>1, TickStep
    <3>3. row'[wk[w].job] = [row[wk[w].job] EXCEPT !.lease = "live"]
      BY <1>2, <2>2 DEF Put, Rows
    <3> QED BY <1>2, <2>2, <3>1, <3>2, <3>3, PutRow DEF Row
  <2> QED BY <2>1, <2>2 DEF Heartbeat, HeartbeatFault
<1>5. budget' \in [{"crash", "fault", "retry"} -> Nat]
  BY <1>2, BudgetType DEF Heartbeat, HeartbeatFault
<1>6. stops' \in [Jobs -> Workers \cup {NoWorker}]
  BY <1>1, <1>2
<1>7. CASE Holding(w)
  BY <1>1, <1>2, <1>3, <1>4, <1>5, <1>6, <1>7, KeepOutcome
<1>8. CASE wk[w].pc = "leaving"
  BY <1>1, <1>2, <1>3, <1>4, <1>5, <1>6, <1>8, RestOutcome
<1> QED BY <1>1, <1>7, <1>8

(* Every step of a worker has the outcome the invariant needs.             *)
LEMMA WorkerOutcome ==
  ASSUME IInv, NEW w \in Workers, WorkerStep(w)
  PROVE  Outcome(w)
BY StageActions, ClaimActions, LeaveActions, KeepActions, HeartbeatActions DEF WorkerStep, Process

-----------------------------------------------------------------------------

(* What a request or the clock leaves behind *)
Served ==
  /\ Types'
  /\ Rest(NoWorker)
  /\ Others(NoWorker)
  /\ RequestsKnown'
  /\ UNCHANGED phase

(* A good table has good rows.                                             *)
LEMMA RowsGood == ASSUME Rows, NEW j \in Jobs PROVE row[j] \in GoodRow /\ row[j] \in Row
BY DEF Rows, GoodRow

(* Every request and every tick of the clock leaves the workers their      *)
(* jobs.                                                                   *)
LEMMA RequestServed ==
  ASSUME IInv, NEW j \in Jobs, Request(j) \/ Clock(j)
  PROVE  Served
<1> USE DEF Up
<1>1. /\ Types /\ Rows /\ RequestsKnown /\ row[j] \in GoodRow /\ row[j] \in Row
      /\ info \subseteq Jobs /\ deleting \subseteq Jobs
      /\ stops \in [Jobs -> Workers \cup {NoWorker}]
      /\ wk \in [Workers -> Worker] /\ row \in [Jobs -> GoodRow]
  BY RowsGood DEF IInv, Types, Rows
<1>2. ASSUME UNCHANGED wk PROVE Others(NoWorker)
  BY <1>2 DEF Others
<1>3. CASE SubmitQueued(j)
  <2>1. PICK a \in Actions : Put(j, NewRow("queued", a))
    BY <1>3 DEF SubmitQueued
  <2>2. RowStep(row[j], NewRow("queued", a), NoWorker)
    BY <1>1, <1>3, AcceptedStep DEF SubmitQueued
  <2>3. Rows' /\ Rest(NoWorker)
    BY <1>1, <2>1, <2>2, PutRow
  <2>4. RequestsKnown'
    BY <1>1, <1>3, <2>1 DEF RequestsKnown, SubmitQueued, Put, NewRow
  <2> QED BY <1>1, <1>2, <1>3, <2>3, <2>4 DEF Served, Types, SubmitQueued
<1>4. CASE SubmitInfo(j)
  <2>1. RowStep(row[j], NewRow("resolving", "info"), NoWorker)
    BY <1>1, <1>4, AcceptedStep DEF SubmitInfo, Actions
  <2>2. Rows' /\ Rest(NoWorker)
    BY <1>1, <1>4, <2>1, PutRow DEF SubmitInfo
  <2>3. RequestsKnown'
    BY <1>1, <1>4 DEF RequestsKnown, SubmitInfo, Put, NewRow
  <2> QED BY <1>1, <1>2, <1>4, <2>2, <2>3 DEF Served, Types, SubmitInfo
<1>5. CASE InfoCompleted(j)
  <2>1. row[j].owner = NoWorker /\ row[j].status \in Active
    BY <1>1, <1>5 DEF InfoCompleted, RequestsKnown, Active
  <2>2. RowStep(row[j], [row[j] EXCEPT !.status = "completed"], NoWorker)
    BY <1>1, <2>1, InfoDoneStep
  <2>3. Rows' /\ Rest(NoWorker)
    BY <1>1, <1>5, <2>2, PutRow DEF InfoCompleted
  <2>4. row' = [row EXCEPT ![j] = [row[j] EXCEPT !.status = "completed"]]
    BY <1>5 DEF InfoCompleted, Put
  <2>5. \A k \in Jobs : k # j => row'[k] = row[k]
    BY <1>1, <2>4
  <2>6. row'[j].status = "completed"
    BY <1>1, <2>4 DEF Row
  <2>7. RequestsKnown'
    BY <1>1, <1>5, <2>5, <2>6 DEF RequestsKnown, InfoCompleted
  <2> QED BY <1>1, <1>2, <1>5, <2>3, <2>7 DEF Served, Types, InfoCompleted
<1>6. CASE InfoFailed(j)
  <2>1. row[j].owner = NoWorker /\ row[j].status \in Active /\ row[j].status # "deleted"
    BY <1>1, <1>6 DEF InfoFailed, RequestsKnown, Active
  <2>2. RowStep(row[j], Released(row[j], "failed"), NoWorker)
    BY <1>1, <2>1, EndedStep DEF Terminal
  <2>3. Put(j, Released(row[j], "failed"))
    BY <1>6, <2>1 DEF InfoFailed, Fail
  <2>4. Rows' /\ Rest(NoWorker)
    BY <1>1, <2>2, <2>3, PutRow
  <2>5. row' = [row EXCEPT ![j] = Released(row[j], "failed")]
    BY <2>3 DEF Put
  <2>6. \A k \in Jobs : k # j => row'[k] = row[k]
    BY <1>1, <2>5
  <2>7. row'[j].status = "failed"
    BY <1>1, <2>5 DEF Row, Released
  <2>8. RequestsKnown'
    BY <1>1, <1>6, <2>6, <2>7 DEF RequestsKnown, InfoFailed
  <2> QED BY <1>1, <1>2, <1>6, <2>4, <2>8 DEF Served, Types, InfoFailed
<1>7. CASE InfoDropped(j)
  <2>1. Rows' /\ Rest(NoWorker)
    BY <1>1, <1>7, SameRow DEF InfoDropped
  <2>2. budget' \in [{"crash", "fault", "retry"} -> Nat]
    BY <1>1, <1>7, BudgetType DEF InfoDropped
  <2>3. RequestsKnown'
    BY <1>1, <1>7 DEF RequestsKnown, InfoDropped
  <2> QED BY <1>1, <1>2, <1>7, <2>1, <2>2, <2>3 DEF Served, Types, InfoDropped
<1>8. CASE CancelWaiting(j)
  <2>1. RowStep(row[j], Released(row[j], "cancelled"), NoWorker)
    BY <1>1, <1>8, WithdrawnStep DEF CancelWaiting
  <2>2. Rows' /\ Rest(NoWorker)
    BY <1>1, <1>8, <2>1, PutRow DEF CancelWaiting
  <2>3. row' = [row EXCEPT ![j] = Released(row[j], "cancelled")]
    BY <1>8 DEF CancelWaiting, Put
  <2>4. \A k \in Jobs : k # j => row'[k] = row[k]
    BY <1>1, <2>3
  <2>5. row'[j].status = "cancelled" /\ j \notin info
    BY <1>1, <1>8, <2>3 DEF Row, Released, CancelWaiting, RequestsKnown, Waiting
  <2>6. RequestsKnown'
    BY <1>1, <1>8, <2>4, <2>5 DEF RequestsKnown, CancelWaiting
  <2> QED BY <1>1, <1>2, <1>8, <2>2, <2>6 DEF Served, Types, CancelWaiting
<1>9. CASE CancelRunning(j)
  <2>1. stops[j] \in Workers /\ wk' = [wk EXCEPT ![stops[j]].ctx = "user"]
    BY <1>1, <1>9 DEF CancelRunning
  <2>2. wk' \in [Workers -> Worker] /\ Others(NoWorker)
    BY <1>1, <2>1, CtxType
  <2>3. Rows' /\ Rest(NoWorker)
    BY <1>1, <1>9, SameRow DEF CancelRunning
  <2>4. RequestsKnown'
    BY <1>1, <1>9 DEF RequestsKnown, CancelRunning
  <2> QED BY <1>1, <1>9, <2>2, <2>3, <2>4 DEF Served, Types, CancelRunning
<1>10. CASE Retry(j)
  <2> DEFINE r == Requeued(row[j])
  <2>0. row[j].status \in {"failed", "cancelled"} /\ Put(j, r)
    BY <1>10 DEF Retry
  <2>1. RowStep(row[j], r, NoWorker)
    BY <1>1, <2>0, RetriedStep
  <2>2. Rows' /\ Rest(NoWorker)
    BY <1>1, <2>0, <2>1, PutRow
  <2>3. budget' \in [{"crash", "fault", "retry"} -> Nat]
    BY <1>1, <1>10, BudgetType DEF Retry
  <2>4. row' = [row EXCEPT ![j] = r]
    BY <1>10 DEF Retry, Put
  <2>5. \A k \in Jobs : k # j => row'[k] = row[k]
    BY <1>1, <2>4
  <2>6. row'[j].status = "queued" /\ j \notin info
    BY <1>1, <1>10, <2>4 DEF Row, Requeued, Retry, RequestsKnown
  <2>7. RequestsKnown'
    BY <1>1, <1>10, <2>5, <2>6 DEF RequestsKnown, Retry
  <2> QED BY <1>1, <1>2, <1>10, <2>2, <2>3, <2>7 DEF Served, Types, Retry
<1>11. CASE DeleteCheck(j)
  <2>1. Rows' /\ Rest(NoWorker)
    BY <1>1, <1>11, SameRow DEF DeleteCheck
  <2>2. RequestsKnown'
    BY <1>1, <1>11 DEF RequestsKnown, DeleteCheck, Terminal
  <2> QED BY <1>1, <1>2, <1>11, <2>1, <2>2 DEF Served, Types, DeleteCheck
<1>12. CASE DeleteRow(j)
  <2>1. row[j].status # "absent" /\ row[j].action \in Actions
    BY <1>1, <1>12 DEF DeleteRow, RequestsKnown, Row
  <2>2. RowStep(row[j], NewRow("deleted", row[j].action), NoWorker)
    BY <1>1, <2>1, DeletedStep
  <2>3. Rows' /\ Rest(NoWorker)
    BY <1>1, <1>12, <2>2, PutRow DEF DeleteRow
  <2>4. RequestsKnown'
    BY <1>1, <1>12 DEF RequestsKnown, DeleteRow, Put, NewRow
  <2> QED BY <1>1, <1>2, <1>12, <2>3, <2>4 DEF Served, Types, DeleteRow
<1>13. CASE LeaseExpires(j)
  <2>1. row[j].owner # NoWorker
    BY <1>1, <1>13 DEF LeaseExpires, GoodRow
  <2>2. RowStep(row[j], [row[j] EXCEPT !.lease = "expired"], NoWorker)
    BY <1>1, <2>1, TickStep
  <2>3. Rows' /\ Rest(NoWorker)
    BY <1>1, <1>13, <2>2, PutRow DEF LeaseExpires
  <2>4. \A k \in Jobs : row'[k].status = row[k].status /\ row'[k].owner = row[k].owner
    BY <1>1, <1>13, RowsGood DEF LeaseExpires, Put, Row
  <2>5. RequestsKnown'
    BY <1>1, <1>13, <2>4 DEF RequestsKnown, LeaseExpires
  <2> QED BY <1>1, <1>2, <1>13, <2>3, <2>5 DEF Served, Types, LeaseExpires
<1>14. CASE RetryFallsDue(j)
  <2>1. RowStep(row[j], [row[j] EXCEPT !.due = TRUE], NoWorker)
    BY <1>1, TickStep
  <2>2. Rows' /\ Rest(NoWorker)
    BY <1>1, <1>14, <2>1, PutRow DEF RetryFallsDue
  <2>3. \A k \in Jobs : row'[k].status = row[k].status /\ row'[k].owner = row[k].owner
    BY <1>1, <1>14, RowsGood DEF RetryFallsDue, Put, Row
  <2>4. RequestsKnown'
    BY <1>1, <1>14, <2>3 DEF RequestsKnown, RetryFallsDue
  <2> QED BY <1>1, <1>2, <1>14, <2>2, <2>4 DEF Served, Types, RetryFallsDue
<1>15. CASE InfoShell(j)
  <2>1. /\ Spoil(j) /\ info' = info \ {j} /\ UNCHANGED <<wk, stops, deleting, phase, budget>>
    BY <1>15 DEF InfoShell
  <2>2. /\ Rows' /\ Rest(NoWorker)
        /\ \A k \in Jobs : row'[k].status = row[k].status /\ row'[k].owner = row[k].owner
    BY <1>1, <2>1, SpoiltRow
  <2>3. \A k \in Jobs \ {j} : row'[k] = row[k]
    BY <1>1, <2>1, SpoiltRow
  <2>4. RequestsKnown'
    BY <1>1, <2>1, <2>2, <2>3 DEF RequestsKnown
  <2> QED BY <1>1, <1>2, <2>1, <2>2, <2>4 DEF Served, Types
<1> QED BY <1>3, <1>4, <1>5, <1>6, <1>7, <1>8, <1>9, <1>10, <1>11, <1>12, <1>13, <1>14, <1>15
        DEF Request, Clock

(* What the process itself does: nobody is at work before and after, or    *)
(* the rows stay and the workers stay or vanish                            *)
Restarted ==
  /\ Types'
  /\ \A j \in Jobs : RowStep(row[j], row'[j], row[j].owner)
  /\ \A j \in Jobs : row[j].owner = NoWorker => row'[j] = row[j]
  /\ NobodyWorks /\ NobodyWorks'
  /\ UNCHANGED <<info, deleting>>

Halted ==
  /\ Types' /\ UNCHANGED row
  /\ \/ Others(NoWorker) /\ phase' = "stopping" /\ UNCHANGED <<info, deleting>>
     \/ NobodyWorks' /\ info' = {} /\ deleting' = {}

(* Start, recovery, shutdown and crash.                                    *)
LEMMA SystemOutcome ==
  ASSUME IInv, System
  PROVE  Restarted \/ Halted
<1>1. /\ Types /\ Rows /\ RequestsKnown /\ row \in [Jobs -> GoodRow]
      /\ wk \in [Workers -> Worker]
      /\ budget \in [{"crash", "fault", "retry"} -> Nat]
  BY DEF IInv, Types, Rows
<1>2. phase \notin {"running", "stopping"} => NobodyWorks
  BY DEF IInv, Working, NobodyWorks
<1>3. \A j \in Jobs : Expired(j) =>
        /\ row[j] \in GoodRow /\ row[j].owner # NoWorker /\ row[j].status \in Active
  BY <1>1 DEF Expired, GoodRow
<1>4. CASE Boot
  <2>1. Types'
    BY <1>1, <1>4 DEF Types, Boot, Rows
  <2>2. \A j \in Jobs : RowStep(row[j], row'[j], row[j].owner)
    BY <1>1, <1>4, RowsGood, TickStep DEF Boot
  <2>3. NobodyWorks /\ NobodyWorks'
    BY <1>2, <1>4 DEF Boot, NobodyWorks
  <2> QED BY <1>4, <2>1, <2>2, <2>3 DEF Restarted, Boot
<1>5. CASE RecoverAsr
  <2>1. \A j \in Jobs : /\ RowStep(row[j], row'[j], row[j].owner)
                        /\ row[j].owner = NoWorker => row'[j] = row[j]
    <3> TAKE j \in Jobs
    <3>1. \/ row'[j] = row[j]
          \/ Expired(j) /\ row'[j] = Released(row[j], "failed")
      BY <1>5 DEF RecoverAsr
    <3> QED BY <1>1, <1>3, <3>1, RowsGood, TickStep, EndedStep DEF Terminal
  <2>2. row' \in [Jobs -> GoodRow]
    BY <1>5, <2>1 DEF RecoverAsr, RowStep
  <2>3. Types'
    BY <1>1, <1>5, <2>2 DEF Types, RecoverAsr, Rows
  <2>4. NobodyWorks /\ NobodyWorks'
    BY <1>2, <1>5 DEF RecoverAsr, NobodyWorks
  <2> QED BY <1>5, <2>1, <2>3, <2>4 DEF Restarted, RecoverAsr
<1>6. CASE RecoverLeases
  <2>1. \A j \in Jobs : /\ RowStep(row[j], row'[j], row[j].owner)
                        /\ row[j].owner = NoWorker => row'[j] = row[j]
    <3> TAKE j \in Jobs
    <3>1. \/ row'[j] = row[j]
          \/ /\ Expired(j) /\ row[j].attempt >= MaxAttempts
             /\ row'[j] = Released(row[j], "failed")
          \/ /\ Expired(j) /\ ~(row[j].attempt >= MaxAttempts)
             /\ row'[j] = Released(row[j], "queued")
      BY <1>6 DEF RecoverLeases
    <3>2. ~(row[j].attempt >= MaxAttempts) => row[j].attempt < MaxAttempts
      BY <1>1, RowsGood DEF Row
    <3> QED BY <1>1, <1>3, <3>1, <3>2, RowsGood, TickStep, EndedStep, BackStep DEF Terminal, Waiting
  <2>2. row' \in [Jobs -> GoodRow]
    BY <1>6, <2>1 DEF RecoverLeases, RowStep
  <2>3. Types'
    BY <1>1, <1>6, <2>2 DEF Types, RecoverLeases, Rows
  <2>4. NobodyWorks /\ NobodyWorks'
    BY <1>2, <1>6 DEF RecoverLeases, NobodyWorks
  <2> QED BY <1>6, <2>1, <2>3, <2>4 DEF Restarted, RecoverLeases
<1>7. CASE FailExhaustedQueued
  <2>1. \A j \in Jobs : row'[j] = row[j]
    <3> TAKE j \in Jobs
    <3>1. ~(row[j].status \in Waiting /\ row[j].attempt >= MaxAttempts)
      BY <1>1, RowsGood DEF GoodRow, Row
    <3> QED BY <1>7, <3>1 DEF FailExhaustedQueued
  <2>2. \A j \in Jobs : RowStep(row[j], row'[j], row[j].owner)
    BY <1>1, <2>1, RowsGood, TickStep
  <2>3. row' \in [Jobs -> GoodRow]
    BY <1>7, <2>2 DEF FailExhaustedQueued, RowStep
  <2>4. Types'
    BY <1>1, <1>7, <2>3 DEF Types, FailExhaustedQueued, Rows
  <2>5. NobodyWorks /\ NobodyWorks'
    BY <1>2, <1>7 DEF FailExhaustedQueued, NobodyWorks
  <2> QED BY <1>7, <2>1, <2>2, <2>4, <2>5 DEF Restarted, FailExhaustedQueued
<1>8. CASE Stop
  <2>1. \A w \in Workers : /\ wk'[w] \in Worker
                           /\ wk'[w].pc = wk[w].pc /\ wk'[w].job = wk[w].job
    BY <1>1, <1>8 DEF Stop, Worker
  <2>2. wk' \in [Workers -> Worker]
    BY <1>8, <2>1 DEF Stop
  <2>3. budget' \in [{"crash", "fault", "retry"} -> Nat]
    BY <1>1, <1>8, BudgetType DEF Stop
  <2>4. Types'
    BY <1>1, <1>8, <2>2, <2>3 DEF Types, Stop, Rows
  <2> QED BY <1>8, <2>1, <2>4 DEF Halted, Stop, Others
<1>9. CASE Vanish /\ (UNCHANGED budget \/ Spend("crash"))
  <2>1. budget' \in [{"crash", "fault", "retry"} -> Nat]
    BY <1>1, <1>9, BudgetType
  <2>2. wk' \in [Workers -> Worker] /\ NobodyWorks'
    BY <1>9, GoroutineType DEF Vanish, NobodyWorks
  <2>3. Types'
    BY <1>1, <1>9, <2>1, <2>2 DEF Types, Vanish, Rows
  <2> QED BY <1>9, <2>2, <2>3 DEF Halted, Vanish
<1> QED BY <1>4, <1>5, <1>6, <1>7, <1>8, <1>9 DEF System, Crash, Exit

-----------------------------------------------------------------------------

(* A worker that is not the one acting still owns what it holds.           *)
LEMMA Bystander ==
  ASSUME IInv, NEW u \in Workers \cup {NoWorker}, Rest(u), Others(u),
         NEW v \in Workers, v # u, Holding(v)'
  PROVE  /\ Owner(v)' /\ Holding(v) /\ wk'[v].job = wk[v].job /\ wk'[v].pc = wk[v].pc
         /\ wk[v].job \in Jobs
         /\ \/ row'[wk[v].job].status = "deleted"
            \/ row'[wk[v].job].status = row[wk[v].job].status
<1> DEFINE j == wk[v].job
<1>1. wk'[v].pc = wk[v].pc /\ wk'[v].job = j /\ Holding(v)
  BY DEF Others, Holding
<1>2. j \in Jobs /\ row[j] \in GoodRow
  BY <1>1, OnJob, RowsGood DEF Holding, Stages
<1>3. RowStep(row[j], row'[j], u)
  BY <1>2 DEF Rest
<1>4. \/ row[j].status = "deleted"
      \/ /\ row[j].owner = v
         /\ wk[v].pc \in Stages => row[j].status = StatusOf(wk[v].pc)
  BY <1>1 DEF IInv, RunnerOwnsItsJob, Owns
<1>5. CASE row[j].status = "deleted"
  <2>1. row'[j].status = "deleted"
    BY <1>3, <1>5 DEF RowStep, Waiting, Active
  <2> QED BY <1>1, <1>2, <2>1 DEF Owner
<1>6. CASE row[j].owner = v /\ row[j].status # "deleted"
  <2>1. row[j].status \in Active
    BY <1>2, <1>6 DEF GoodRow
  <2>2. \/ row'[j].status = "deleted"
        \/ row'[j].status = row[j].status /\ row'[j].owner = row[j].owner
    BY <1>3, <1>6, <2>1 DEF RowStep, Waiting, Active
  <2> QED BY <1>1, <1>2, <1>4, <1>6, <2>2 DEF Owner, Owns
<1> QED BY <1>4, <1>5, <1>6

(* The steps of the workers keep the invariant.                            *)
LEMMA WorkerKeepsIInv ==
  ASSUME IInv, NEW w \in Workers, Outcome(w)
  PROVE  IInv'
<1>1. Types' /\ Rest(w) /\ Others(w) /\ Owner(w)' /\ UNCHANGED <<info, deleting, phase>>
  BY DEF Outcome
<1>2. Working'
  BY <1>1, OnJob DEF Working, Outcome, Others
<1>3. \A v \in Workers : Owner(v)'
  <2> TAKE v \in Workers
  <2> QED BY <1>1, Bystander DEF Owner
<1>4. RunnerOwnsItsJob'
  BY <1>3 DEF RunnerOwnsItsJob, Owner
<1>5. ASSUME NEW v \in Workers, v # w, Holding(v)', Holding(w)', wk'[v].job = wk'[w].job
      PROVE  FALSE
  <2>1. Holding(v) /\ wk'[v].job = wk[v].job /\ wk[v].job \in Jobs
    BY <1>1, <1>5, Bystander
  <2>2. \/ row[wk[v].job].status = "deleted"
        \/ row[wk[v].job].owner = v
    BY <2>1 DEF IInv, RunnerOwnsItsJob, Owns
  <2>3. row[wk[v].job].owner = v => row[wk[v].job].status \in Active
    BY <2>1, RowsGood DEF IInv, Types, GoodRow
  <2>4. row[wk[v].job].status \notin Waiting
    BY <2>2, <2>3 DEF Waiting, Active
  <2>5. Holding(w) /\ wk'[w].job = wk[w].job
    BY <1>5, <2>1, <2>4 DEF Outcome
  <2> QED BY <1>5, <2>1, <2>5 DEF IInv, OneRunner
<1>6. OneRunner'
  <2> SUFFICES ASSUME NEW v \in Workers, NEW x \in Workers,
                      Holding(v)', Holding(x)', wk'[v].job = wk'[x].job, v # x
               PROVE  FALSE
    BY DEF OneRunner
  <2>1. CASE v = w \/ x = w
    BY <1>5, <2>1
  <2>2. CASE v # w /\ x # w
    BY <1>1, <2>2, Bystander DEF IInv, OneRunner
  <2> QED BY <2>1, <2>2
<1>7. RequestsKnown'
  <2>1. ASSUME NEW j \in info PROVE row'[j].status = "resolving" /\ row'[j].owner = NoWorker
    <3>1. j \in Jobs /\ row[j].status = "resolving" /\ row[j].owner = NoWorker
      BY <2>1 DEF IInv, Types, RequestsKnown
    <3>2. RowStep(row[j], row'[j], w)
      BY <1>1, <3>1 DEF Rest
    <3> QED BY <3>1, <3>2 DEF RowStep, Waiting
  <2>2. ASSUME NEW j \in deleting PROVE row'[j].status # "absent"
    <3>1. j \in Jobs /\ row[j].status # "absent"
      BY <2>2 DEF IInv, Types, RequestsKnown
    <3>2. RowStep(row[j], row'[j], w)
      BY <1>1, <3>1 DEF Rest
    <3> QED BY <3>1, <3>2 DEF RowStep, Waiting, Active, Terminal
  <2> QED BY <1>1, <2>1, <2>2 DEF IInv, RequestsKnown
<1> QED BY <1>1, <1>2, <1>4, <1>6, <1>7 DEF IInv

(* The requests keep the invariant.                                        *)
LEMMA RequestKeepsIInv ==
  ASSUME IInv, Served
  PROVE  IInv'
<1>1. Types' /\ Rest(NoWorker) /\ Others(NoWorker) /\ RequestsKnown' /\ UNCHANGED phase
  BY DEF Served
<1>2. \A v \in Workers : v # NoWorker /\ wk'[v].pc = wk[v].pc /\ wk'[v].job = wk[v].job
  BY <1>1 DEF Others
<1>3. Working'
  BY <1>1, <1>2 DEF IInv, Working
<1>4. \A v \in Workers : Owner(v)'
  <2> TAKE v \in Workers
  <2> QED BY <1>1, <1>2, Bystander DEF Owner
<1>5. RunnerOwnsItsJob'
  BY <1>4 DEF RunnerOwnsItsJob, Owner
<1>6. OneRunner'
  BY <1>2 DEF IInv, OneRunner, Holding
<1> QED BY <1>1, <1>3, <1>5, <1>6 DEF IInv

(* Without a worker at work, the invariant is about the table alone.       *)
LEMMA IdleKeepsIInv ==
  ASSUME Types', RequestsKnown', NobodyWorks'
  PROVE  IInv'
BY DEF IInv, Working, RunnerOwnsItsJob, OneRunner, NobodyWorks, Holding, Stages

(* The steps of the process keep the invariant.                            *)
LEMMA SystemKeepsIInv ==
  ASSUME IInv, Restarted \/ Halted
  PROVE  IInv'
<1>1. CASE Restarted
  <2>1. ASSUME NEW j \in info PROVE row'[j].status = "resolving" /\ row'[j].owner = NoWorker
    BY <1>1, <2>1 DEF IInv, Types, RequestsKnown, Restarted
  <2>2. ASSUME NEW j \in deleting PROVE row'[j].status # "absent"
    <3>1. j \in Jobs /\ row[j].status # "absent"
      BY <2>2 DEF IInv, Types, RequestsKnown
    <3>2. RowStep(row[j], row'[j], row[j].owner)
      BY <1>1, <3>1 DEF Restarted
    <3> QED BY <3>1, <3>2 DEF RowStep, Waiting, Active, Terminal
  <2>3. RequestsKnown'
    BY <1>1, <2>1, <2>2 DEF IInv, RequestsKnown, Restarted
  <2> QED BY <1>1, <2>3, IdleKeepsIInv DEF Restarted
<1>2. CASE Halted
  <2>1. CASE Others(NoWorker) /\ phase' = "stopping" /\ UNCHANGED <<info, deleting>>
    <3>1. \A v \in Workers : wk'[v].pc = wk[v].pc /\ wk'[v].job = wk[v].job
      BY <2>1 DEF Others
    <3>2. Types' /\ UNCHANGED row
      BY <1>2 DEF Halted
    <3>3. Working'
      BY <2>1, <3>1 DEF IInv, Working
    <3>4. RunnerOwnsItsJob' /\ OneRunner'
      BY <3>1, <3>2 DEF IInv, RunnerOwnsItsJob, OneRunner, Holding, Owns
    <3>5. RequestsKnown'
      BY <2>1, <3>2 DEF IInv, RequestsKnown
    <3> QED BY <3>2, <3>3, <3>4, <3>5 DEF IInv
  <2>2. CASE NobodyWorks' /\ info' = {} /\ deleting' = {}
    BY <1>2, <2>2, IdleKeepsIInv DEF RequestsKnown, Halted
  <2> QED BY <1>2, <2>1, <2>2 DEF Halted
<1> QED BY <1>1, <1>2

(* The invariant holds at first.                                           *)
LEMMA InitIInv == Init => IInv
<1> SUFFICES ASSUME Init PROVE IInv
  OBVIOUS
<1>1. row \in [Jobs -> GoodRow]
  BY NewRowGood DEF Init, Actions
<1>2. wk \in [Workers -> Worker] /\ NobodyWorks
  BY GoroutineType DEF Init, NobodyWorks
<1>3. budget \in [{"crash", "fault", "retry"} -> Nat]
  BY BudgetAssumption DEF Init
<1>4. Types /\ RequestsKnown
  BY <1>1, <1>2, <1>3 DEF Init, Types, RequestsKnown, Rows
<1> QED
  BY <1>2, <1>4 DEF IInv, Working, RunnerOwnsItsJob, OneRunner, NobodyWorks, Holding, Stages

(* The invariant is inductive.                                             *)
LEMMA StepIInv == IInv /\ [Next]_vars => IInv'
<1> SUFFICES ASSUME IInv, [Next]_vars PROVE IInv'
  OBVIOUS
<1>1. ASSUME NEW w \in Workers, WorkerStep(w) PROVE IInv'
  BY <1>1, WorkerOutcome, WorkerKeepsIInv
<1>2. ASSUME NEW j \in Jobs, Request(j) \/ Clock(j) PROVE IInv'
  BY <1>2, RequestServed, RequestKeepsIInv
<1>3. CASE System
  BY <1>3, SystemOutcome, SystemKeepsIInv
<1>4. CASE UNCHANGED vars
  BY <1>4 DEF vars, IInv, Types, Rows, Working, RunnerOwnsItsJob, OneRunner, RequestsKnown,
              Holding, Owns
<1> QED BY <1>1, <1>2, <1>3, <1>4 DEF Next

(* So it holds always.                                                     *)
LEMMA Invariance == Spec => []IInv
BY InitIInv, StepIInv, PTL DEF Spec

(* It implies the invariants about the table.                              *)
LEMMA Consequences == IInv => TypeOK /\ LeaseDiscipline /\ AttemptsBounded
<1> SUFFICES ASSUME IInv PROVE TypeOK /\ LeaseDiscipline /\ AttemptsBounded
  OBVIOUS
<1>1. TypeOK
  BY DEF IInv, Types, Rows, GoodRow, TypeOK
<1>2. \A j \in Jobs : row[j] \in GoodRow
  BY RowsGood DEF IInv, Types
<1> QED BY <1>1, <1>2 DEF GoodRow, LeaseDiscipline, AttemptsBounded

(* Every column, goroutine and map keeps holding a value of its type.      *)
THEOREM TypeCorrect == Spec => []TypeOK
BY Invariance, Consequences, PTL

(* Only a running job carries a lease, for any number of jobs and workers, *)
(* so the statements that check only the owner never touch a waiting or    *)
(* finished job.                                                           *)
THEOREM LeasesAreDisciplined == Spec => []LeaseDiscipline
BY Invariance, Consequences, PTL

(* No job is claimed more than max_attempts times in a row, and none waits *)
(* with its attempts used up.                                              *)
THEOREM AttemptsAreBounded == Spec => []AttemptsBounded
BY Invariance, Consequences, PTL

(* Two worker loops never run the same job.                                *)
THEOREM OneRunnerPerJob == Spec => []OneRunner
BY Invariance, PTL DEF IInv

(* A worker owns the lease of the job it runs, which is in the status of   *)
(* its stage, until it persists an outcome or the row is deleted.          *)
THEOREM RunnersOwnTheirJobs == Spec => []RunnerOwnsItsJob
BY Invariance, PTL DEF IInv

-----------------------------------------------------------------------------

(* Every row takes only allowed steps.                                     *)
LEMMA EveryRow ==
  ASSUME IInv, [Next]_vars, NEW j \in Jobs
  PROVE  row[j] \in GoodRow /\ \E u : RowStep(row[j], row'[j], u)
<1>1. row[j] \in GoodRow
  BY RowsGood DEF IInv, Types
<1>2. ASSUME NEW w \in Workers, WorkerStep(w) PROVE \E u : RowStep(row[j], row'[j], u)
  BY <1>2, WorkerOutcome DEF Outcome, Rest
<1>3. ASSUME NEW k \in Jobs, Request(k) \/ Clock(k) PROVE \E u : RowStep(row[j], row'[j], u)
  BY <1>3, RequestServed DEF Served, Rest
<1>4. CASE System
  BY <1>1, <1>4, SystemOutcome, TickStep DEF Restarted, Halted
<1>5. CASE UNCHANGED vars
  BY <1>1, <1>5, TickStep DEF vars
<1> QED BY <1>1, <1>2, <1>3, <1>4, <1>5 DEF Next

(* A finished job changes only by a retry of its user or a deletion.       *)
THEOREM FinishedJobsStay == Spec => FinishedStaysFinished
<1>1. IInv /\ [Next]_vars => [\A j \in Jobs : StaysFinished(j)]_vars
  <2> SUFFICES ASSUME IInv, [Next]_vars, NEW j \in Jobs PROVE StaysFinished(j)
    OBVIOUS
  <2>1. PICK u : RowStep(row[j], row'[j], u)
    BY EveryRow
  <2> QED BY <2>1 DEF StaysFinished, RowStep, Terminal, Waiting, Active
<1> QED BY <1>1, Invariance, PTL DEF Spec, FinishedStaysFinished

(* An attempt is counted for each claim and given back only by the user.   *)
THEOREM AttemptsAreClaims == Spec => AttemptsCountClaims
<1>1. IInv /\ [Next]_vars => [\A j \in Jobs : AttemptCounts(j)]_vars
  <2> SUFFICES ASSUME IInv, [Next]_vars, NEW j \in Jobs PROVE AttemptCounts(j)
    OBVIOUS
  <2>1. PICK u : RowStep(row[j], row'[j], u)
    BY EveryRow
  <2>2. row[j].status \in Waiting => row[j].owner = NoWorker
    BY EveryRow DEF GoodRow, Waiting, Active
  <2> QED BY <2>1, <2>2 DEF AttemptCounts, RowStep
<1> QED BY <1>1, Invariance, PTL DEF Spec, AttemptsCountClaims

(* While a worker holds a job, nobody else moves it to another status.     *)
THEOREM HeldJobsAreLeftAlone == Spec => NoInterference
<1>1. IInv /\ [Next]_vars => [\A w \in Workers : LeftAlone(w)]_vars
  <2> SUFFICES ASSUME IInv, [Next]_vars, NEW v \in Workers, wk'[v].pc = wk[v].pc,
                      Holding(v), row'[wk[v].job].status # row[wk[v].job].status
               PROVE  row'[wk[v].job].status = "deleted"
    BY DEF LeftAlone
  <2>1. Holding(v)' /\ wk[v].job \in Jobs
    BY OnJob DEF Holding, Stages
  <2>2. ASSUME NEW w \in Workers, WorkerStep(w) PROVE row'[wk[v].job].status = "deleted"
    <3>1. Outcome(w) /\ Rest(w) /\ Others(w)
      BY <2>2, WorkerOutcome DEF Outcome
    <3>2. CASE v # w
      BY <2>1, <3>1, <3>2, Bystander
    <3>3. CASE v = w
      <4> DEFINE j == wk[w].job
      <4>1. wk'[w].job = j /\ wk'[w].pc = wk[w].pc /\ Holding(w)
        BY <2>1, <3>1, <3>3 DEF Outcome
      <4>2. wk[w].pc \in Stages
        BY <3>1, <3>3, <4>1 DEF Outcome, Holding
      <4>3. row'[j].status = "deleted" \/ row'[j].status = StatusOf(wk[w].pc)
        BY <2>1, <3>1, <3>3, <4>1, <4>2 DEF Outcome, Owner
      <4>4. row[j].status = "deleted" \/ row[j].status = StatusOf(wk[w].pc)
        BY <4>1, <4>2 DEF IInv, RunnerOwnsItsJob
      <4>5. row[j].status = "deleted" => row'[j].status = "deleted"
        BY <2>1, <3>1, <3>3 DEF Rest, RowStep, Waiting, Active
      <4> QED BY <3>3, <4>3, <4>4, <4>5
    <3> QED BY <3>2, <3>3
  <2>3. ASSUME NEW k \in Jobs, Request(k) \/ Clock(k) PROVE row'[wk[v].job].status = "deleted"
    BY <2>1, <2>3, RequestServed, Bystander DEF Served
  <2>4. CASE System
    BY <2>4, SystemOutcome DEF Restarted, Halted, NobodyWorks, Holding, Stages
  <2>5. CASE UNCHANGED vars
    BY <2>5 DEF vars
  <2> QED BY <2>2, <2>3, <2>4, <2>5 DEF Next
<1> QED BY <1>1, Invariance, PTL DEF Spec, NoInterference

-----------------------------------------------------------------------------

(* The stops map is left alone, and whoever is registered stays on its job. *)
StopsKept(w) ==
  UNCHANGED stops /\ (Registered(w) => Registered(w)' /\ wk'[w].job = wk[w].job)

(* Going on to another point of process keeps the registration.            *)
LEMMA GoKeepsStops ==
  ASSUME IInv, NEW w \in Workers, UNCHANGED stops,
         NEW pc \in (Stages \cup {"settling", "leaving"}) \ {"claimed"}, Go(w, pc)
  PROVE  StopsKept(w)
<1>1. wk'[w].pc = pc /\ wk'[w].job = wk[w].job
  BY PcType DEF IInv, Types
<1> QED BY <1>1 DEF StopsKept, Registered, Stages

(* So does leaving a stage with an error.                                  *)
LEMMA QuitKeepsStops ==
  ASSUME IInv, NEW w \in Workers, UNCHANGED stops,
         NEW pc \in {"settling", "leaving"},
         NEW c \in {"none", "canceled", "permanent", "ffmpeg", "transient", "other"},
         Quit(w, pc, c)
  PROVE  StopsKept(w)
<1>1. wk'[w].pc = pc /\ wk'[w].job = wk[w].job
  BY QuitType DEF IInv, Types
<1> QED BY <1>1 DEF StopsKept, Registered

(* Only Register and Unregister write the stops map.                       *)
LEMMA StopsActions ==
  ASSUME IInv, NEW w \in Workers, WorkerStep(w)
  PROVE  StopsKept(w) \/ Register(w) \/ Unregister(w)
<1>1. wk \in [Workers -> Worker]
  BY DEF IInv, Types
<1>2. CASE Claim(w) \/ Finish(w)
  BY <1>2 DEF Claim, Finish, At, StopsKept, Registered
<1>3. CASE ClaimUnread(w)
  BY <1>3 DEF ClaimUnread, StopsKept, Registered
<1>4. CASE Heartbeat(w) \/ HeartbeatFault(w)
  <2>1. wk' = [wk EXCEPT ![w].ctx = "lost"] \/ UNCHANGED wk
    BY <1>4 DEF Heartbeat, HeartbeatFault
  <2>2. wk'[w].pc = wk[w].pc /\ wk'[w].job = wk[w].job
    BY <1>1, <2>1, CtxType
  <2> QED BY <1>4, <2>2 DEF Heartbeat, HeartbeatFault, StopsKept, Registered
<1>5. CASE \/ Downloaded(w) \/ FinishDownload(w) \/ BeginExtract(w)
           \/ BeginTranscribe(w) \/ SubmitTask(w) \/ TaskDone(w) \/ BeginResults(w)
           \/ FinishTranscription(w) \/ ImagesDone(w) \/ FinishNote(w)
           \/ Settle(w) \/ SettleFault(w)
  <2>1. /\ UNCHANGED stops
        /\ \E pc \in {"downloaded", "extracting", "transcribing", "polling",
                      "postprocessing", "composing", "leaving"} : Go(w, pc)
    BY <1>5 DEF Downloaded, FinishDownload, BeginExtract, BeginTranscribe, SubmitTask, TaskDone,
                BeginResults, FinishTranscription, ImagesDone, FinishNote, Settle, SettleFault,
                Stage
  <2> QED BY <2>1, GoKeepsStops DEF Stages
<1>6. CASE Resolved(w)
  <2>1. /\ UNCHANGED stops
        /\ \/ \E pc \in {"downloading", "imaging"} : Go(w, pc)
           \/ Quit(w, "settling", "permanent")
    BY <1>6 DEF Resolved, Stage
  <2> QED BY <2>1, GoKeepsStops, QuitKeepsStops DEF Stages
<1>7. CASE Break(w)
  <2>1. PICK c \in Causes(wk[w].pc) \cup {"canceled"} : Quit(w, "settling", c)
    BY <1>7 DEF Break
  <2> QED BY <1>7, <2>1, CauseType, QuitKeepsStops DEF Break
<1>8. CASE Bail(w)
  <2>1. UNCHANGED stops /\ (Quit(w, "leaving", "canceled") \/ Quit(w, "leaving", "other"))
    BY <1>8 DEF Bail
  <2> QED BY <2>1, QuitKeepsStops
<1>9. CASE ResolvedShell(w) \/ NoteUnwritten(w)
  BY <1>9, QuitKeepsStops DEF ResolvedShell, NoteUnwritten, Stage
<1> QED BY <1>2, <1>3, <1>4, <1>5, <1>6, <1>7, <1>8, <1>9 DEF WorkerStep, Process

(* Every step keeps the cancel functions with their jobs.                  *)
LEMMA StopsStep == IInv /\ CancelHitsItsJob /\ [Next]_vars => CancelHitsItsJob'
<1> SUFFICES ASSUME IInv, CancelHitsItsJob, [Next]_vars PROVE CancelHitsItsJob'
  OBVIOUS
<1>1. stops \in [Jobs -> Workers \cup {NoWorker}] /\ wk \in [Workers -> Worker]
  BY DEF IInv, Types
<1>2. ASSUME NEW w \in Workers, WorkerStep(w) PROVE CancelHitsItsJob'
  <2>1. Others(w)
    BY <1>2, WorkerOutcome DEF Outcome
  <2>2. CASE StopsKept(w)
    BY <1>1, <2>1, <2>2 DEF CancelHitsItsJob, Others, StopsKept, Registered
  <2>3. CASE Register(w)
    <3>1. /\ stops' = [stops EXCEPT ![wk[w].job] = w]
          /\ wk'[w].pc = "resolving" /\ wk'[w].job = wk[w].job /\ ~Registered(w)
      BY <1>1, <2>3, PcType DEF Register, At, Stages, Registered
    <3> QED BY <1>1, <2>1, <3>1 DEF CancelHitsItsJob, Others, Registered
  <2>4. CASE Unregister(w)
    <3>1. stops' = [stops EXCEPT ![wk[w].job] = NoWorker]
      BY <2>4 DEF Unregister
    <3> QED BY <1>1, <2>1, <3>1 DEF CancelHitsItsJob, Others, Registered
  <2> QED BY <1>2, <2>2, <2>3, <2>4, StopsActions
<1>3. ASSUME NEW j \in Jobs, Request(j) \/ Clock(j) PROVE CancelHitsItsJob'
  <2>1. Others(NoWorker) /\ UNCHANGED stops
    BY <1>3, RequestServed
       DEF Served, Request, Clock, SubmitQueued, SubmitInfo, InfoCompleted, InfoFailed, InfoShell,
           InfoDropped, CancelWaiting, CancelRunning, Retry, DeleteCheck, DeleteRow, LeaseExpires, RetryFallsDue
  <2> QED BY <1>1, <2>1 DEF CancelHitsItsJob, Others, Registered
<1>4. CASE System
  <2>1. CASE Boot \/ RecoverAsr \/ RecoverLeases \/ FailExhaustedQueued
    BY <2>1 DEF Boot, RecoverAsr, RecoverLeases, FailExhaustedQueued, CancelHitsItsJob, Registered
  <2>2. CASE Stop
    <3>1. UNCHANGED stops /\ \A w \in Workers : wk'[w].pc = wk[w].pc /\ wk'[w].job = wk[w].job
      BY <1>1, <2>2 DEF Stop, Worker
    <3> QED BY <1>1, <3>1 DEF CancelHitsItsJob, Registered
  <2>3. CASE Crash \/ Exit
    BY <2>3 DEF Crash, Exit, Vanish, CancelHitsItsJob
  <2> QED BY <1>4, <2>1, <2>2, <2>3 DEF System
<1>5. CASE UNCHANGED vars
  BY <1>5 DEF vars, CancelHitsItsJob, Registered
<1> QED BY <1>2, <1>3, <1>4, <1>5 DEF Next

(* Worker.Cancel never stops another job than the one it is asked for.     *)
THEOREM CancelsHitTheirJobs == Spec => []CancelHitsItsJob
<1>1. Init => CancelHitsItsJob
  BY DEF Init, CancelHitsItsJob
<1> QED BY <1>1, StopsStep, Invariance, PTL DEF Spec

-----------------------------------------------------------------------------

(* The state a poller sees of each status.                                 *)
LEMMA StateOfStatus ==
  /\ \A t \in Waiting : StateOf(t) = "waiting"
  /\ \A t \in Active : StateOf(t) = "running"
  /\ \A t \in Terminal : StateOf(t) = t
  /\ StateOf("absent") = "none" /\ StateOf("deleted") = "gone"
  /\ \A r \in Row : StateOf(r.status) \in Lifecycle!States
BY DEF StateOf, Waiting, Active, Terminal, Row, Lifecycle!States

(* An allowed step of a row is a move of the lifecycle.                    *)
LEMMA RowStepIsMove ==
  ASSUME NEW r \in GoodRow, NEW s, NEW u, RowStep(r, s, u)
  PROVE  LET x == StateOf(r.status)
             y == StateOf(s.status)
         IN  \/ x = "none" /\ y \in {"waiting", "running"} /\ s.attempt = r.attempt
             \/ /\ x = "waiting" /\ y = "running"
                /\ r.attempt < MaxAttempts /\ s.attempt = r.attempt + 1
             \/ x = "running" /\ y = "waiting" /\ r.attempt < MaxAttempts /\ s.attempt = r.attempt
             \/ x = "running" /\ y \in {"completed", "failed", "cancelled"} /\ s.attempt = r.attempt
             \/ x = "waiting" /\ y = "cancelled" /\ s.attempt = r.attempt
             \/ x \in {"failed", "cancelled"} /\ y = "waiting" /\ s.attempt = 0
             \/ x # "none" /\ y = "gone"
             \/ x = y /\ s.attempt = r.attempt
<1> DEFINE x == StateOf(r.status)
           y == StateOf(s.status)
<1>1. s \in GoodRow /\ s \in Row /\ r \in Row
  BY DEF RowStep, GoodRow
<1>2. CASE s.status = r.status /\ s.owner = r.owner /\ s.attempt = r.attempt
  BY <1>2
<1>3. CASE r.status = "absent" /\ s.status \in {"queued", "resolving"} /\ s.attempt = r.attempt
  BY <1>3, StateOfStatus DEF Waiting, Active
<1>4. CASE /\ r.status \in Waiting /\ r.attempt < MaxAttempts /\ u \in Workers
           /\ s.status = "resolving" /\ s.attempt = r.attempt + 1
  BY <1>4, StateOfStatus DEF Active
<1>5. CASE r.status \in Active /\ s.status \in Active /\ s.attempt = r.attempt
  BY <1>5, StateOfStatus
<1>6. CASE r.status \in Active /\ s.status \in Waiting /\ s.attempt = r.attempt
  <2>1. r.attempt < MaxAttempts
    BY <1>1, <1>6 DEF GoodRow
  <2> QED BY <1>6, <2>1, StateOfStatus
<1>7. CASE r.status \in Active /\ s.status \in Terminal /\ s.attempt = r.attempt
  BY <1>7, StateOfStatus DEF Terminal
<1>8. CASE r.status \in Waiting /\ s.status = "cancelled" /\ s.attempt = r.attempt
  BY <1>8, StateOfStatus DEF Terminal
<1>9. CASE r.status \in {"failed", "cancelled"} /\ s.status = "queued" /\ s.attempt = 0
  BY <1>9, StateOfStatus DEF Terminal, Waiting
<1>10. CASE r.status # "absent" /\ s.status = "deleted"
  BY <1>1, <1>10, StateOfStatus DEF Row, Waiting, Active, Terminal
<1> QED BY <1>2, <1>3, <1>4, <1>5, <1>6, <1>7, <1>8, <1>9, <1>10 DEF RowStep

(* The queue, with its workers, leases, crashes and faults, implements the *)
(* lifecycle that JobLifecycle promises.                                   *)
THEOREM QueueImplementsLifecycle == Spec => LifecycleSpec
<1>1. Init => Lifecycle!Init
  BY StateOfStatus DEF Init, NewRow, Lifecycle!Init
<1>2. ASSUME IInv, IInv', [Next]_vars PROVE Lifecycle!Next
  <2>1. \A j \in Jobs : row[j] \in GoodRow /\ row'[j] \in GoodRow
    BY <1>2, RowsGood DEF IInv, Types, Rows
  <2>2. [j \in Jobs |-> StateOf(row[j].status)]' \in [Jobs -> Lifecycle!States]
    BY <2>1, StateOfStatus DEF GoodRow
  <2>3. [j \in Jobs |-> row[j].attempt]' \in [Jobs -> 0..MaxAttempts]
    BY <2>1 DEF GoodRow, Row
  <2>4. ASSUME NEW j \in Jobs PROVE Lifecycle!Move(j)
    <3>1. PICK u : RowStep(row[j], row'[j], u)
      BY <1>2, EveryRow
    <3> QED BY <2>1, <3>1, RowStepIsMove
            DEF Lifecycle!Move, Lifecycle!Accept, Lifecycle!Start, Lifecycle!GoBack,
                Lifecycle!End, Lifecycle!Withdraw, Lifecycle!Again, Lifecycle!Purge
  <2> QED BY <2>2, <2>3, <2>4 DEF Lifecycle!Next
<1> QED BY <1>1, <1>2, Invariance, PTL DEF Spec, LifecycleSpec, Lifecycle!Spec
-----------------------------------------------------------------------------

(* Why no job is abandoned, unless it is spoilt: its owner still has a     *)
(* statement to run that ends it.  Attended alone is not inductive; it     *)
(* does not say that the worker it names owns the row.                     *)
Minding(w) ==
  \/ Holding(w)
  \/ wk[w].pc \in {"leaving", "deferred"} /\ wk[w].cause = "canceled"

Minds(w, j) == wk[w].job = j /\ row[j].owner = w /\ Minding(w)

Minded ==
  \A j \in Jobs : row[j].status \in Active =>
    j \in info \/ row[j].spoilt \/ \E w \in Workers : Minds(w, j)

Mindful ==
  /\ budget.crash <= MaxCrashes /\ budget.fault <= MaxFaults
  /\ Undisturbed => phase # "stopping" /\ Minded

(* What a step of w, no fault, does to its job: it stays active only as    *)
(* the job it was, and w does not forget it unless it is spoilt.           *)
Faithful(w) ==
  /\ \A v \in Workers \ {w} : wk'[v] = wk[v]
  /\ \A k \in Jobs \ {wk[w].job} : row'[k] = row[k]
  /\ row'[wk[w].job].status \in Active =>
       /\ row[wk[w].job].status \in Active
       /\ row'[wk[w].job].owner = row[wk[w].job].owner
       /\ row[wk[w].job].spoilt => row'[wk[w].job].spoilt
       /\ row[wk[w].job].owner = w /\ Minding(w) =>
            row'[wk[w].job].spoilt \/ (wk'[w].job = wk[w].job /\ Minding(w)')

(* A stage that goes on, or fails, holds its job.                          *)
LEMMA HeldOn ==
  ASSUME IInv, NEW w \in Workers, NEW pc \in Stages \cup {"settling"},
         Go(w, pc) \/ (\E c : Quit(w, pc, c)),
         \A k \in Jobs \ {wk[w].job} : row'[k] = row[k],
         row'[wk[w].job].status \in Active =>
           /\ row[wk[w].job].status \in Active /\ row'[wk[w].job].owner = row[wk[w].job].owner
           /\ row[wk[w].job].spoilt => row'[wk[w].job].spoilt
  PROVE  Faithful(w)
<1>1. wk \in [Workers -> Worker]
  BY DEF IInv, Types
<1>2. wk'[w].pc = pc /\ wk'[w].job = wk[w].job /\ \A v \in Workers \ {w} : wk'[v] = wk[v]
  BY <1>1 DEF Go, Quit, Worker
<1>3. Minding(w)'
  BY <1>2 DEF Minding, Holding
<1> QED BY <1>2, <1>3 DEF Faithful

(* Whoever ends its job may forget it.                                     *)
LEMMA LetGo ==
  ASSUME IInv, NEW w \in Workers, NEW g, wk' = [wk EXCEPT ![w] = g],
         \A k \in Jobs \ {wk[w].job} : row'[k] = row[k],
         row'[wk[w].job].status \notin Active
  PROVE  Faithful(w)
BY DEF Faithful, IInv, Types

(* SetStage keeps the owner, and Complete ends the job.                    *)
LEMMA OwnStatements ==
  ASSUME IInv, NEW w \in Workers, wk[w].job \in Jobs
  PROVE  /\ \A t \in Active : SetStage(w, t) =>
              /\ \A k \in Jobs \ {wk[w].job} : row'[k] = row[k]
              /\ row[wk[w].job].status \in Active /\ row'[wk[w].job].owner = row[wk[w].job].owner
              /\ row'[wk[w].job].spoilt = row[wk[w].job].spoilt
         /\ \A t : Complete(w, t) =>
              /\ \A k \in Jobs \ {wk[w].job} : row'[k] = row[k]
              /\ row'[wk[w].job].status \notin Active
<1>1. Rows /\ row \in [Jobs -> GoodRow]
  BY DEF IInv, Types, Rows
<1>2. ASSUME NEW t \in Active, SetStage(w, t)
      PROVE  /\ \A k \in Jobs \ {wk[w].job} : row'[k] = row[k]
             /\ row[wk[w].job].status \in Active /\ row'[wk[w].job].owner = row[wk[w].job].owner
             /\ row'[wk[w].job].spoilt = row[wk[w].job].spoilt
  <2>1. Owns(w) /\ Put(wk[w].job, [row[wk[w].job] EXCEPT !.status = t])
    BY <1>2 DEF SetStage
  <2>2. row'[wk[w].job].owner = w
    BY <1>1, <1>2, SetStageStep
  <2>3. row'[wk[w].job].spoilt = row[wk[w].job].spoilt
    BY <1>1, <2>1, RowsGood DEF Put, Row
  <2> QED BY <1>1, <2>1, <2>2, <2>3, OwnedIsActive DEF Put
<1>3. ASSUME NEW t, Complete(w, t)
      PROVE  /\ \A k \in Jobs \ {wk[w].job} : row'[k] = row[k]
             /\ row'[wk[w].job].status \notin Active
  <2>1. row' = [row EXCEPT ![wk[w].job] = Released(row[wk[w].job], "completed")]
    BY <1>3 DEF Complete, Put
  <2>2. row[wk[w].job] \in Row
    BY <1>1, RowsGood
  <2> QED BY <1>1, <2>1, <2>2 DEF Released, Row, Active
<1> QED BY <1>2, <1>3

(* The stages of process, processNote and Transcriber.Run.                 *)
LEMMA FaithfulStages ==
  ASSUME IInv, NEW w \in Workers,
         \/ Register(w) \/ Resolved(w) \/ Downloaded(w) \/ FinishDownload(w) \/ BeginExtract(w)
         \/ BeginTranscribe(w) \/ SubmitTask(w) \/ TaskDone(w) \/ BeginResults(w)
         \/ FinishTranscription(w) \/ ImagesDone(w) \/ FinishNote(w) \/ Break(w)
  PROVE  Faithful(w)
<1> DEFINE j == wk[w].job
<1>1. wk[w].pc # "idle"
  BY DEF Register, Resolved, Downloaded, FinishDownload, BeginExtract, BeginTranscribe, SubmitTask,
         TaskDone, BeginResults, FinishTranscription, ImagesDone, FinishNote, Break, Stage, At, Stages
<1>2. j \in Jobs /\ Rows /\ row \in [Jobs -> GoodRow] /\ wk \in [Workers -> Worker]
  BY <1>1, OnJob DEF Rows
<1>3. CASE Resolved(w) \/ BeginExtract(w) \/ BeginTranscribe(w) \/ BeginResults(w) \/ ImagesDone(w)
  <2>1. /\ \E t \in Active : SetStage(w, t)
        /\ \E pc \in Stages \cup {"settling"} : Go(w, pc) \/ \E c : Quit(w, pc, c)
    BY <1>3 DEF Resolved, BeginExtract, BeginTranscribe, BeginResults, ImagesDone, Stages, Active
  <2> QED BY <1>2, <2>1, OwnStatements, HeldOn
<1>4. CASE FinishDownload(w) \/ FinishTranscription(w) \/ FinishNote(w)
  <2>1. (\E t : Complete(w, t)) /\ Go(w, "leaving")
    BY <1>4 DEF FinishDownload, FinishTranscription, FinishNote
  <2>2. \E g : wk' = [wk EXCEPT ![w] = g]
    BY <2>1 DEF Go
  <2> QED BY <1>2, <2>1, <2>2, OwnStatements, LetGo
<1>5. CASE Register(w) \/ Downloaded(w) \/ SubmitTask(w) \/ TaskDone(w) \/ Break(w)
  <2>1. /\ \/ UNCHANGED row
           \/ Put(j, [row[j] EXCEPT !.tasks = @ + 1])
           \/ Put(j, TaskClosed(j))
        /\ \E pc \in Stages \cup {"settling"} : Go(w, pc) \/ \E c : Quit(w, pc, c)
    BY <1>5 DEF Register, Downloaded, SubmitTask, TaskDone, Break, Stages
  <2>2. row[j] \in Row
    BY <1>2, RowsGood
  <2>3. /\ \A k \in Jobs \ {j} : row'[k] = row[k]
        /\ row'[j].status = row[j].status /\ row'[j].owner = row[j].owner
        /\ row'[j].spoilt = row[j].spoilt
    BY <1>2, <2>1, <2>2 DEF Put, TaskClosed, Row
  <2> QED BY <2>1, <2>3, HeldOn
<1> QED BY <1>3, <1>4, <1>5

(* The ways out of process, and the heartbeat.                             *)
LEMMA FaithfulExits ==
  ASSUME IInv, NEW w \in Workers, phase # "stopping",
         \/ Bail(w) /\ UNCHANGED budget
         \/ ResolvedShell(w) \/ NoteUnwritten(w)
         \/ Settle(w) \/ Unregister(w) \/ Finish(w) \/ Heartbeat(w)
  PROVE  Faithful(w)
<1> DEFINE j == wk[w].job
<1>1. wk[w].pc # "idle"
  BY DEF Bail, ReturnsRaw, ResolvedShell, NoteUnwritten, Stage, Settle, Unregister, Finish,
         Heartbeat, Registered, At
<1>2. j \in Jobs /\ Rows /\ row \in [Jobs -> GoodRow] /\ wk \in [Workers -> Worker] /\ row[j] \in Row
  BY <1>1, OnJob, RowsGood DEF Rows
<1>3. CancelOwned(w) \/ RetryLater(w) \/ Fail(j) =>
        /\ \A k \in Jobs \ {j} : row'[k] = row[k]
        /\ Owns(w) => row'[j].status \notin Active
        /\ row'[j].status \in Active => UNCHANGED row
  <2>1. \A t \in {"cancelled", "failed", "retry_wait"} :
          /\ Released(row[j], t).status = t
          /\ [Released(row[j], t) EXCEPT !.due = FALSE].status = t
    BY <1>2 DEF Released, Row
  <2>2. CancelOwned(w) \/ RetryLater(w) \/ Fail(j) =>
          \/ UNCHANGED row /\ (~Owns(w) \/ row[j].status = "deleted")
          \/ \E r : row' = [row EXCEPT ![j] = r] /\ r.status \in {"cancelled", "failed", "retry_wait"}
    <3>1. CASE CancelOwned(w)
      BY <2>1, <3>1 DEF CancelOwned, Put
    <3>2. CASE RetryLater(w)
      BY <2>1, <3>2 DEF RetryLater, Put
    <3>3. CASE Fail(j)
      BY <2>1, <3>3 DEF Fail, Put
    <3> QED BY <3>1, <3>2, <3>3
  <2> QED BY <1>2, <2>2 DEF Active
<1>4. CASE Settle(w)
  <2>1. wk[w].pc = "settling" /\ (CancelOwned(w) \/ RetryLater(w) \/ Fail(j)) /\ Go(w, "leaving")
    BY <1>4 DEF Settle, At
  <2>2. \A v \in Workers \ {w} : wk'[v] = wk[v]
    BY <1>2, <2>1 DEF Go
  <2> QED BY <1>2, <1>3, <2>1, <2>2 DEF Faithful, Owns
<1>5. CASE Finish(w)
  <2>1. /\ wk[w].pc = "deferred" /\ wk' = [wk EXCEPT ![w] = Idle]
        /\ IF wk[w].cause = "canceled" THEN CancelOwned(w) ELSE UNCHANGED row
    BY <1>5 DEF Finish, At
  <2>2. \A v \in Workers \ {w} : wk'[v] = wk[v]
    BY <1>2, <2>1
  <2>3. CASE wk[w].cause = "canceled"
    BY <1>2, <1>3, <2>1, <2>2, <2>3 DEF Faithful, Owns
  <2>4. CASE wk[w].cause # "canceled"
    <3>1. ~Minding(w)
      BY <2>1, <2>4 DEF Minding, Holding, Stages
    <3> QED BY <2>1, <2>2, <2>4, <3>1 DEF Faithful
  <2> QED BY <2>3, <2>4
<1>6. CASE Bail(w) /\ UNCHANGED budget
  <2>1. UNCHANGED row
    BY <1>6 DEF Bail
  <2>2. Quit(w, "leaving", "canceled") \/ (~Owns(w) /\ Quit(w, "leaving", "other"))
    <3>1. ~Spend("fault")
      BY <1>6 DEF IInv, Types, Spend
    <3> QED BY <1>6, <3>1 DEF Bail
  <2>3. \A v \in Workers \ {w} : wk'[v] = wk[v]
    BY <1>2, <2>2 DEF Quit
  <2>4. Owns(w) => wk'[w].pc = "leaving" /\ wk'[w].cause = "canceled" /\ wk'[w].job = j
    BY <1>2, <2>2 DEF Quit, Worker
  <2> QED BY <2>1, <2>3, <2>4 DEF Faithful, Minding, Owns
<1>7. CASE Unregister(w)
  <2>1. UNCHANGED row /\ wk[w].pc = "leaving" /\ Go(w, "deferred")
    BY <1>7 DEF Unregister, At
  <2>2. /\ \A v \in Workers \ {w} : wk'[v] = wk[v]
        /\ wk'[w].pc = "deferred" /\ wk'[w].cause = wk[w].cause /\ wk'[w].job = j
    BY <1>2, <2>1 DEF Go, Worker
  <2> QED BY <2>1, <2>2 DEF Faithful, Minding, Holding, Stages
<1>8. CASE Heartbeat(w)
  <2>1. /\ UNCHANGED wk \/ wk' = [wk EXCEPT ![w].ctx = "lost"]
        /\ UNCHANGED row \/ Put(j, [row[j] EXCEPT !.lease = "live"])
    BY <1>8 DEF Heartbeat
  <2>2. /\ \A v \in Workers \ {w} : wk'[v] = wk[v]
        /\ wk'[w].pc = wk[w].pc /\ wk'[w].cause = wk[w].cause /\ wk'[w].job = j
    BY <1>2, <2>1 DEF Worker
  <2>3. /\ \A k \in Jobs \ {j} : row'[k] = row[k]
        /\ row'[j].status = row[j].status /\ row'[j].owner = row[j].owner
        /\ row'[j].spoilt = row[j].spoilt
    BY <1>2, <2>1 DEF Put, Row
  <2> QED BY <2>2, <2>3 DEF Faithful, Minding, Holding
<1>9. CASE ResolvedShell(w) \/ NoteUnwritten(w)
  <2>1. Spoil(j) /\ Quit(w, "leaving", "other")
    BY <1>9 DEF ResolvedShell, NoteUnwritten
  <2>2. /\ \A k \in Jobs \ {j} : row'[k] = row[k]
        /\ row'[j].status = row[j].status /\ row'[j].owner = row[j].owner /\ row'[j].spoilt
    BY <1>2, <2>1, SpoiltRow
  <2>3. \A v \in Workers \ {w} : wk'[v] = wk[v]
    BY <1>2, <2>1 DEF Quit
  <2> QED BY <2>2, <2>3 DEF Faithful
<1> QED BY <1>4, <1>5, <1>6, <1>7, <1>8, <1>9

(* ClaimNext makes one more job active, and its owner minds it.            *)
LEMMA FaithfulClaim ==
  ASSUME IInv, NEW w \in Workers, Claim(w)
  PROVE  \E j \in Jobs :
           /\ Minds(w, j)'
           /\ \A k \in Jobs \ {j} : row'[k] = row[k]
           /\ \A v \in Workers \ {w} : wk'[v] = wk[v]
           /\ ~Minding(w)
<1>1. wk \in [Workers -> Worker] /\ Rows /\ row \in [Jobs -> GoodRow]
  BY DEF IInv, Types, Rows
<1>2. PICK j \in Jobs : /\ Put(j, Claimed(w, row[j]))
                        /\ wk' = [wk EXCEPT ![w] = Goroutine("claimed", j)]
  BY DEF Claim
<1>3. /\ \A k \in Jobs \ {j} : row'[k] = row[k]
      /\ \A v \in Workers \ {w} : wk'[v] = wk[v]
  BY <1>1, <1>2 DEF Put
<1>4. row'[j].owner = w
  <2>1. row[j] \in Row
    BY <1>1, RowsGood
  <2> QED BY <1>1, <1>2, <2>1 DEF Put, Claimed, Row
<1>5. wk'[w].job = j /\ wk'[w].pc = "claimed"
  BY <1>1, <1>2, GoroutineType
<1>6. Minds(w, j)'
  BY <1>4, <1>5 DEF Minds, Minding, Holding, Stages
<1>7. ~Minding(w)
  BY DEF Claim, Minding, Holding, Stages
<1> QED BY <1>3, <1>6, <1>7

(* What a request, a tick of the clock or the recovery may do: it makes no *)
(* job active but an info job with its request, leaves that one active     *)
(* only spoilt, and disturbs no worker.                                    *)
Considerate ==
  /\ \A j \in info : j \in info' \/ row'[j].spoilt \/ row'[j].status \notin Active
  /\ \A w \in Workers : wk'[w].pc = wk[w].pc /\ wk'[w].job = wk[w].job /\ wk'[w].cause = wk[w].cause
  /\ \A j \in Jobs : row'[j].status \in Active =>
       \/ j \in info'
       \/ /\ row[j].status \in Active /\ row'[j].owner = row[j].owner
          /\ row[j].spoilt => row'[j].spoilt

(* Who minded a job that is still active minds it after such a step.       *)
LEMMA ConsiderateKeeps ==
  ASSUME IInv, Minded, Considerate
  PROVE  Minded'
<1> SUFFICES ASSUME NEW j \in Jobs, row'[j].status \in Active, j \notin info', ~row'[j].spoilt
             PROVE  \E w \in Workers : Minds(w, j)'
  BY DEF Minded
<1>1. row[j].status \in Active /\ row'[j].owner = row[j].owner /\ j \notin info /\ ~row[j].spoilt
  BY DEF Considerate
<1>2. PICK w \in Workers : Minds(w, j)
  BY <1>1 DEF Minded
<1>3. Minds(w, j)'
  BY <1>1, <1>2 DEF Considerate, Minds, Minding, Holding
<1> QED BY <1>3

(* Without a fault no request and no tick abandons a job.                  *)
LEMMA ConsiderateRequests ==
  ASSUME IInv, NEW j \in Jobs, Request(j) \/ Clock(j), ~Spend("fault")
  PROVE  Considerate
<1>1. wk \in [Workers -> Worker] /\ Rows /\ row \in [Jobs -> GoodRow] /\ row[j] \in Row
  BY RowsGood DEF IInv, Types, Rows
<1>2. info \subseteq Jobs
  BY DEF IInv, Types
<1>3. \A t \in {"cancelled", "failed"} : Released(row[j], t).status = t
  BY <1>1 DEF Released, Row
<1>4. CASE CancelRunning(j)
  <2>1. stops[j] \in Workers /\ wk' = [wk EXCEPT ![stops[j]].ctx = "user"] /\ UNCHANGED <<row, info>>
    BY <1>4 DEF CancelRunning, IInv, Types
  <2>2. \A w \in Workers : /\ wk'[w].pc = wk[w].pc /\ wk'[w].job = wk[w].job
                           /\ wk'[w].cause = wk[w].cause
    BY <1>1, <2>1 DEF Worker
  <2> QED BY <2>1, <2>2 DEF Considerate
<1>5. CASE SubmitQueued(j) \/ CancelWaiting(j) \/ Retry(j) \/ DeleteRow(j)
  <2>1. UNCHANGED <<wk, info>> /\ \E r : Put(j, r) /\ r.status \notin Active
    <3>1. CASE SubmitQueued(j)
      BY <3>1 DEF SubmitQueued, NewRow, Active
    <3>2. CASE CancelWaiting(j)
      BY <1>3, <3>2 DEF CancelWaiting, Active
    <3>3. CASE Retry(j)
      <4>1. Requeued(row[j]).status = "queued"
        BY <1>1 DEF Requeued, Row
      <4> QED BY <3>3, <4>1 DEF Retry, Active
    <3>4. CASE DeleteRow(j)
      BY <3>4 DEF DeleteRow, NewRow, Active
    <3> QED BY <1>5, <3>1, <3>2, <3>3, <3>4
  <2> QED BY <1>1, <2>1 DEF Considerate, Put
<1>6. CASE InfoCompleted(j) \/ InfoFailed(j)
  <2>1. UNCHANGED wk /\ info' = info \ {j}
    BY <1>6 DEF InfoCompleted, InfoFailed
  <2>2. /\ \A k \in Jobs \ {j} : row'[k] = row[k]
        /\ row'[j].status \notin Active
    <3>1. CASE InfoCompleted(j)
      BY <1>1, <3>1 DEF InfoCompleted, Put, Row, Active
    <3>2. CASE InfoFailed(j) /\ row[j].status = "deleted"
      BY <3>2 DEF InfoFailed, Fail, Active
    <3>3. CASE InfoFailed(j) /\ row[j].status # "deleted"
      BY <1>1, <1>3, <3>3 DEF InfoFailed, Fail, Put, Active
    <3> QED BY <1>6, <3>1, <3>2, <3>3
  <2> QED BY <1>2, <2>1, <2>2 DEF Considerate
<1>7. CASE SubmitInfo(j)
  <2>1. UNCHANGED wk /\ info' = info \cup {j} /\ \A k \in Jobs \ {j} : row'[k] = row[k]
    BY <1>1, <1>7 DEF SubmitInfo, Put
  <2> QED BY <2>1 DEF Considerate
<1>8. CASE DeleteCheck(j)
  BY <1>8 DEF DeleteCheck, Considerate
<1>9. CASE LeaseExpires(j) \/ RetryFallsDue(j)
  <2>1. UNCHANGED <<wk, info>> /\ \A k \in Jobs : /\ row'[k].status = row[k].status
                                                  /\ row'[k].owner = row[k].owner
                                                  /\ row'[k].spoilt = row[k].spoilt
    BY <1>1, <1>9, RowsGood DEF LeaseExpires, RetryFallsDue, Put, Row
  <2> QED BY <2>1 DEF Considerate
<1>10. CASE InfoDropped(j)
  BY <1>10 DEF InfoDropped
<1>11. CASE InfoShell(j)
  <2>1. Spoil(j) /\ info' = info \ {j} /\ UNCHANGED wk
    BY <1>11 DEF InfoShell
  <2>2. /\ \A k \in Jobs \ {j} : row'[k] = row[k]
        /\ row'[j].status = row[j].status /\ row'[j].owner = row[j].owner /\ row'[j].spoilt
    BY <1>1, <2>1, SpoiltRow
  <2> QED BY <2>1, <2>2 DEF Considerate
<1> QED BY <1>4, <1>5, <1>6, <1>7, <1>8, <1>9, <1>10, <1>11 DEF Request, Clock

(* The start of the process and its recovery abandon no job.               *)
LEMMA ConsiderateRestart ==
  ASSUME IInv, Boot \/ RecoverAsr \/ RecoverLeases \/ FailExhaustedQueued
  PROVE  Considerate
<1>1. Rows /\ row \in [Jobs -> GoodRow]
  BY DEF IInv, Types, Rows
<1>2. UNCHANGED <<wk, info>>
  BY DEF Boot, RecoverAsr, RecoverLeases, FailExhaustedQueued
<1>3. \A j \in Jobs : row'[j] = row[j] \/ row'[j].status \notin Active
  <2> TAKE j \in Jobs
  <2>1. \A t \in {"failed", "queued"} : /\ Released(row[j], t).status = t
                                        /\ [row[j] EXCEPT !.status = t].status = t
    BY <1>1, RowsGood DEF Released, Row
  <2> QED BY <2>1 DEF Boot, RecoverAsr, RecoverLeases, FailExhaustedQueued, Active
<1> QED BY <1>2, <1>3 DEF Considerate

(* Undisturbed, every step leaves each active job with somebody who minds  *)
(* it.                                                                     *)
LEMMA MindfulStep == IInv /\ Mindful /\ [Next]_vars => Mindful'
<1> SUFFICES ASSUME IInv, Mindful, [Next]_vars PROVE Mindful'
  OBVIOUS
<1>1. /\ budget \in [{"crash", "fault", "retry"} -> Nat]
      /\ MaxCrashes \in Nat /\ MaxFaults \in Nat
  BY BudgetAssumption DEF IInv, Types
<1>2. \/ UNCHANGED budget
      \/ \E what \in {"crash", "fault", "retry"} : Spend(what)
  BY DEF Next, vars, WorkerStep, Process, Request, Clock, System, Claim, ClaimUnread, Register,
         Resolved, Downloaded, FinishDownload, BeginExtract, BeginTranscribe, SubmitTask, TaskDone,
         BeginResults, FinishTranscription, ImagesDone, FinishNote, Stage, Break, Bail, ResolvedShell,
         NoteUnwritten, Settle, SettleFault, Unregister, Finish, Heartbeat, HeartbeatFault, SubmitQueued, SubmitInfo,
         InfoCompleted, InfoFailed, InfoShell, InfoDropped, CancelWaiting, CancelRunning, Retry,
         DeleteCheck, DeleteRow, Boot, RecoverAsr, RecoverLeases, FailExhaustedQueued, Stop, Crash, Exit, Vanish,
         LeaseExpires, RetryFallsDue
<1>3. /\ budget'.crash <= budget.crash /\ budget'.fault <= budget.fault
      /\ Spend("crash") => budget'.crash < budget.crash
      /\ Spend("fault") => budget'.fault < budget.fault
  BY <1>1, <1>2 DEF Spend
<1>4. budget'.crash <= MaxCrashes /\ budget'.fault <= MaxFaults
  BY <1>1, <1>2, <1>3 DEF Mindful, Spend
<1> SUFFICES ASSUME Undisturbed' PROVE phase' # "stopping" /\ Minded'
  BY <1>4 DEF Mindful
<1>5. Undisturbed /\ ~Spend("crash") /\ ~Spend("fault")
  BY <1>1, <1>2, <1>3 DEF Mindful, Undisturbed, Spend
<1>6. phase # "stopping" /\ Minded
  BY <1>5 DEF Mindful
<1>7. ASSUME NEW w \in Workers, WorkerStep(w) PROVE phase' # "stopping" /\ Minded'
  <2>1. UNCHANGED <<info, phase>>
    BY <1>7, WorkerOutcome DEF Outcome
  <2>2. CASE Claim(w)
    <3>1. PICK j \in Jobs : /\ Minds(w, j)' /\ ~Minding(w)
                            /\ \A k \in Jobs \ {j} : row'[k] = row[k]
                            /\ \A v \in Workers \ {w} : wk'[v] = wk[v]
      BY <2>2, FaithfulClaim
    <3>2. ASSUME NEW k \in Jobs, NEW v \in Workers, k # j, Minds(v, k) PROVE Minds(v, k)'
      BY <3>1, <3>2 DEF Minds, Minding, Holding
    <3> QED BY <1>6, <2>1, <3>1, <3>2 DEF Minded
  <2>3. CASE Faithful(w)
    <3> SUFFICES ASSUME NEW k \in Jobs, row'[k].status \in Active, k \notin info, ~row'[k].spoilt
                 PROVE  \E v \in Workers : Minds(v, k)'
      BY <1>6, <2>1 DEF Minded
    <3>1. row[k].status \in Active /\ row'[k].owner = row[k].owner /\ ~row[k].spoilt
      BY <2>3 DEF Faithful
    <3>2. PICK v \in Workers : Minds(v, k)
      BY <1>6, <3>1 DEF Minded
    <3>3. CASE v = w
      BY <2>3, <3>1, <3>2, <3>3 DEF Faithful, Minds
    <3>4. CASE v # w
      BY <2>3, <3>1, <3>2, <3>4 DEF Faithful, Minds, Minding, Holding
    <3> QED BY <3>3, <3>4
  <2>4. ~ClaimUnread(w) /\ ~SettleFault(w) /\ ~HeartbeatFault(w) /\ (Bail(w) => UNCHANGED budget)
    BY <1>5 DEF ClaimUnread, SettleFault, HeartbeatFault, Bail
  <2>5. Claim(w) \/ Faithful(w)
    BY <1>6, <1>7, <2>4, FaithfulStages, FaithfulExits DEF WorkerStep, Process
  <2> QED BY <2>2, <2>3, <2>5
<1>8. ASSUME NEW j \in Jobs, Request(j) \/ Clock(j) PROVE phase' # "stopping" /\ Minded'
  BY <1>5, <1>6, <1>8, ConsiderateRequests, ConsiderateKeeps, RequestServed DEF Served
<1>9. CASE System
  <2>1. Boot \/ RecoverAsr \/ RecoverLeases \/ FailExhaustedQueued
    BY <1>5, <1>6, <1>9 DEF System, Stop, Crash, Exit
  <2>2. phase' # "stopping"
    BY <2>1 DEF Boot, RecoverAsr, RecoverLeases, FailExhaustedQueued
  <2> QED BY <1>6, <2>1, <2>2, ConsiderateRestart, ConsiderateKeeps
<1>10. CASE UNCHANGED vars
  BY <1>6, <1>10 DEF vars, Minded, Minds, Minding, Holding
<1> QED BY <1>7, <1>8, <1>9, <1>10 DEF Next

(* A job left in an active status with nobody working on it is the trace   *)
(* of a crash, a shutdown, a failed statement or a lost client, or of a    *)
(* shell or of a result of a note that could not be written: every other   *)
(* path through process and CreateInfo persists an outcome.                *)
THEOREM AbandonedJobsAreTraces == Spec => []AbandonedOnlyByFaults
<1>1. Init => Mindful
  <2> SUFFICES ASSUME Init PROVE Mindful
    OBVIOUS
  <2>1. budget.crash <= MaxCrashes /\ budget.fault <= MaxFaults /\ phase # "stopping"
    BY BudgetAssumption DEF Init
  <2>2. Minded
    BY DEF Init, Minded, NewRow, Active
  <2> QED BY <2>1, <2>2 DEF Mindful
<1>2. Mindful => AbandonedOnlyByFaults
  BY DEF Mindful, Minded, Minds, Minding, AbandonedOnlyByFaults, Attended
<1> QED BY <1>1, <1>2, MindfulStep, Invariance, PTL DEF Spec

=============================================================================
