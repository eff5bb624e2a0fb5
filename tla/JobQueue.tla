------------------------------ MODULE JobQueue ------------------------------
(***************************************************************************)
(* The job queue of the API server: the jobs table, the worker loops that  *)
(* claim and run the jobs, the heartbeats that keep a lease alive, the     *)
(* requests that create, cancel, retry and delete jobs, and the recovery   *)
(* that runs once when the process starts.                                 *)
(*                                                                         *)
(* The database is SQLite behind one connection, so a statement is an      *)
(* atomic action; what a goroutine read earlier may be stale by the time   *)
(* it runs its next statement.  One process runs at a time.                *)
(*                                                                         *)
(* Abstractions.  Time is not a number: a lease is live or expired and a   *)
(* retry is due or not, and the environment moves each from one to the     *)
(* other.  A job's identifier is its created_at rank, which is all that    *)
(* ClaimNext reads of it; identifiers are never reused.  The columns no    *)
(* guard reads (messages, progress, timestamps, the work) are left out.    *)
(* A step that fails does so with one of the classes of error that         *)
(* failedWith tells apart.  Crashes and restarts, failing statements and   *)
(* user retries are bounded by "budget".                                   *)
(***************************************************************************)
EXTENDS Naturals

CONSTANTS
  Jobs,          \* job identifiers, ordered by created_at
  Workers,       \* the loops of one process, named after their lease owner
  NoWorker,      \* NULL in the lease_owner column, nil in the stops map
  MaxAttempts,   \* max_attempts of every job
  MaxCrashes,    \* bound: crashes and SIGTERMs
  MaxFaults,     \* bound: failing statements, lost clients
  MaxRetries,    \* bound: POST /jobs/{id}/retry
  QuickRestart   \* may the process be back before the leases have expired?

ASSUME JobsAssumption     == Jobs \subseteq Nat \ {0}
ASSUME WorkersAssumption  == NoWorker \notin Workers
ASSUME AttemptsAssumption == MaxAttempts \in Nat \ {0}
ASSUME BudgetAssumption   == /\ MaxCrashes \in Nat
                             /\ MaxFaults \in Nat
                             /\ MaxRetries \in Nat
ASSUME RestartAssumption  == QuickRestart \in BOOLEAN

VARIABLES
  row,       \* the jobs table
  wk,        \* the goroutine of each worker loop
  stops,     \* Worker.stops: the cancel function registered for a job
  info,      \* CreateInfo requests between their INSERT and their last UPDATE
  deleting,  \* DELETE requests whose status check has passed
  phase,     \* of the process
  budget     \* what is left of the bounds

vars == <<row, wk, stops, info, deleting, phase, budget>>

-----------------------------------------------------------------------------
(* The jobs table *)

Waiting  == {"queued", "retry_wait"}
Active   == {"resolving", "downloading", "extracting", "transcribing",
             "postprocessing"}
Terminal == {"completed", "failed", "cancelled"}
Actions  == {"info", "download", "transcribe"}   \* "full" takes the same path as "transcribe"

Row == [status  : Waiting \cup Active \cup Terminal \cup {"absent", "deleted"},
        action  : Actions,
        attempt : Nat,
        owner   : Workers \cup {NoWorker},        \* lease_owner
        lease   : {"none", "live", "expired"},    \* lease_expires_at
        due     : BOOLEAN,                        \* retry_at <= now
        spoilt  : BOOLEAN,   \* a history: the run, or the request, left the row as it was (Spoil)
        tasks   : Nat]   \* asr_calls of the job that hold a provider task and are open

NewRow(s, a) == [status |-> s, action |-> a, attempt |-> 0,
                 owner |-> NoWorker, lease |-> "none", due |-> FALSE, spoilt |-> FALSE, tasks |-> 0]

(* status = s, lease_owner = NULL, lease_expires_at = NULL, heartbeat_at = NULL *)
Released(r, s) == [r EXCEPT !.status = s, !.owner = NoWorker, !.lease = "none"]

(* status = 'queued', attempt_count = 0, retry_at = NULL *)
Requeued(r) == [r EXCEPT !.status = "queued", !.attempt = 0, !.due = FALSE]

Put(j, r) == row' = [row EXCEPT ![j] = r]

-----------------------------------------------------------------------------
(* The workers *)

(* Where process stands.  From "claimed" to "settling" the worker believes *)
(* that the job is its own; "leaving" and "deferred" are its deferred calls. *)
Stages == {"claimed", "resolving", "downloading", "downloaded", "extracting",
           "transcribing", "polling", "postprocessing", "imaging", "composing"}

Worker == [pc    : Stages \cup {"idle", "settling", "leaving", "deferred"},
           job   : Jobs \cup {0},
           ctx   : {"live", "user", "lost", "stop"},   \* jobCtx, and who cancelled it
           cause : {"none", "canceled", "permanent", "ffmpeg", "transient", "other"}]

Goroutine(pc, j) == [pc |-> pc, job |-> j, ctx |-> "live", cause |-> "none"]
Idle == Goroutine("idle", 0)

Holding(w)    == wk[w].pc \in Stages \cup {"settling"}
Registered(w) == wk[w].pc \notin {"idle", "claimed", "deferred"}
Owns(w)       == row[wk[w].job].owner = w
At(w, pc)     == wk[w].pc = pc /\ phase # "down"
Live(w)       == wk[w].ctx = "live"

Go(w, pc)         == wk' = [wk EXCEPT ![w].pc = pc]
Quit(w, pc, cause) == wk' = [wk EXCEPT ![w].pc = pc, ![w].cause = cause]

Spend(what) == budget[what] > 0 /\ budget' = [budget EXCEPT ![what] = @ - 1]

Up == phase # "down"

-----------------------------------------------------------------------------
(* Claiming: Worker.loop, Repository.ClaimNext *)

(* Mutant: the claim forgets which statuses wait *)
ClaimableInAnyStatus(j) ==
  row[j].status \in Waiting \cup Active /\ row[j].attempt < MaxAttempts

Claimable(j) ==
  /\ \/ row[j].status = "queued"
     \/ row[j].status = "retry_wait" /\ row[j].due
  /\ row[j].attempt < MaxAttempts

Oldest(j) == Claimable(j) /\ \A k \in Jobs : Claimable(k) => j <= k

Claimed(w, r) ==
  [r EXCEPT !.status = "resolving", !.attempt = @ + 1, !.owner = w,
            !.lease = "live", !.due = FALSE, !.spoilt = FALSE]

Claim(w) ==
  /\ phase = "running" /\ wk[w].pc = "idle"
  /\ \E j \in Jobs :
       /\ Oldest(j)
       /\ Put(j, Claimed(w, row[j]))
       /\ wk' = [wk EXCEPT ![w] = Goroutine("claimed", j)]
  /\ UNCHANGED <<stops, info, deleting, phase, budget>>

(* The UPDATE of ClaimNext succeeds and the SELECT that follows it fails:  *)
(* the loop logs the error and polls again, the row keeps its new lease.   *)
ClaimUnread(w) ==
  /\ phase = "running" /\ wk[w].pc = "idle"
  /\ \E j \in Jobs : Oldest(j) /\ Put(j, Claimed(w, row[j]))
  /\ Spend("fault")
  /\ UNCHANGED <<wk, stops, info, deleting, phase>>

Register(w) ==
  /\ At(w, "claimed")
  /\ stops' = [stops EXCEPT ![wk[w].job] = w]
  /\ Go(w, "resolving")
  /\ UNCHANGED <<row, info, deleting, phase, budget>>

-----------------------------------------------------------------------------
(* The stages of process, processNote and Transcriber.Run.  Each ends with *)
(* a statement run under jobCtx, so none of them succeeds once jobCtx is   *)
(* cancelled.                                                              *)

(* Repository.SetStage: guarded by the lease owner only *)
SetStage(w, status) ==
  /\ Owns(w)
  /\ Put(wk[w].job, [row[wk[w].job] EXCEPT !.status = status])

(* CompleteDownload, CompleteTranscription: guarded by owner and status *)
Complete(w, status) ==
  /\ Owns(w)
  /\ row[wk[w].job].status = status
  /\ Put(wk[w].job, Released(row[wk[w].job], "completed"))

Stage(w, pc) == At(w, pc) /\ Live(w) /\ UNCHANGED <<stops, info, deleting, phase, budget>>

(* SetResolved, then the branch on the type of the work *)
Resolved(w) ==
  /\ Stage(w, "resolving")
  /\ row[wk[w].job].status = "resolving"
  /\ SetStage(w, "downloading")
  /\ \/ \E next \in {"downloading", "imaging"} : Go(w, next)
     \/ Quit(w, "settling", "permanent")          \* ErrVideoRequired

(* The file is on disk and its row refers to the job, which must exist *)
Downloaded(w) ==
  /\ Stage(w, "downloading")
  /\ row[wk[w].job].status # "deleted"
  /\ Go(w, "downloaded")
  /\ UNCHANGED row

FinishDownload(w) ==
  /\ Stage(w, "downloaded")
  /\ row[wk[w].job].action = "download"
  /\ Complete(w, "downloading")
  /\ Go(w, "leaving")

BeginExtract(w) ==
  /\ Stage(w, "downloaded")
  /\ row[wk[w].job].action # "download"
  /\ SetStage(w, "extracting")
  /\ Go(w, "extracting")

BeginTranscribe(w) ==
  /\ Stage(w, "extracting")
  /\ SetStage(w, "transcribing")
  /\ Go(w, "transcribing")

(* Paraformer: the task is submitted and SetProviderTask stores its id.    *)
(* SiliconFlow answers in the request itself and stores no id.             *)
SubmitTask(w) ==
  /\ Stage(w, "transcribing")
  /\ row[wk[w].job].status # "deleted"
  /\ Put(wk[w].job, [row[wk[w].job] EXCEPT !.tasks = @ + 1])
  /\ Go(w, "polling")

(* Mutant: the call is closed although its row was deleted *)
TaskClosedUnchecked(j) == [row[j] EXCEPT !.tasks = @ - 1]

(* Complete or Fail of the call, a no-op once the job's calls are deleted *)
TaskClosed(j) ==
  IF row[j].tasks = 0 THEN row[j] ELSE [row[j] EXCEPT !.tasks = @ - 1]

TaskDone(w) ==
  /\ Stage(w, "polling")
  /\ Put(wk[w].job, TaskClosed(wk[w].job))
  /\ Go(w, "transcribing")

BeginResults(w) ==
  /\ Stage(w, "transcribing")
  /\ SetStage(w, "postprocessing")
  /\ Go(w, "postprocessing")

FinishTranscription(w) ==
  /\ Stage(w, "postprocessing")
  /\ Complete(w, "postprocessing")
  /\ Go(w, "leaving")

(* A note: at least one of its images was downloaded *)
ImagesDone(w) ==
  /\ Stage(w, "imaging")
  /\ SetStage(w, "postprocessing")
  /\ Go(w, "composing")

FinishNote(w) ==
  /\ Stage(w, "composing")
  /\ Complete(w, "postprocessing")
  /\ Go(w, "leaving")

-----------------------------------------------------------------------------
(* Failing *)

(* The error classes a stage can end with.  A cancelled context surfaces   *)
(* as context.Canceled only where the error is wrapped: the downloader,    *)
(* ffmpeg and the ASR providers replace it by an error of their own.       *)
Causes(pc) ==
  CASE pc = "resolving"      -> {"permanent", "transient"}
    [] pc = "downloading"    -> {"permanent", "transient"}
    [] pc = "downloaded"     -> {"transient"}
    [] pc = "extracting"     -> {"ffmpeg", "transient"}
    [] pc = "transcribing"   -> {"permanent", "transient"}
    [] pc = "polling"        -> {"permanent", "transient"}
    [] pc = "postprocessing" -> {"transient"}
    [] pc = "imaging"        -> {"transient"}
    [] OTHER                 -> {}

(* An error that goes through finishFailed or failed *)
Break(w) ==
  /\ Up
  /\ wk[w].pc \in Stages
  /\ wk[w].pc = "downloaded" => row[wk[w].job].action # "download"
  /\ \E cause \in Causes(wk[w].pc) \cup {"canceled"} :
       /\ cause = "canceled" => ~Live(w) /\ wk[w].pc \notin {"claimed", "imaging", "composing"}
       /\ Quit(w, "settling", cause)
  /\ IF wk[w].pc = "polling" THEN Put(wk[w].job, TaskClosed(wk[w].job))
                             ELSE UNCHANGED row
  /\ UNCHANGED <<stops, info, deleting, phase, budget>>

(* The statements whose error process returns as it is, unpersisted: a     *)
(* cancelled context, a row that is gone, or a database that failed        *)
ReturnsRaw(w) ==
  \/ wk[w].pc \in {"resolving", "downloading", "imaging", "composing"}
  \/ wk[w].pc = "downloaded" /\ row[wk[w].job].action = "download"

Bail(w) ==
  /\ Up /\ ReturnsRaw(w)
  /\ \/ ~Live(w) /\ Quit(w, "leaving", "canceled") /\ UNCHANGED budget
     \/ Live(w) /\ ~Owns(w) /\ Quit(w, "leaving", "other") /\ UNCHANGED budget
     \/ Live(w) /\ Quit(w, "leaving", "other") /\ Spend("fault")
  /\ UNCHANGED <<row, stops, info, deleting, phase>>

(* The row stays as it is, but for the history *)
Spoil(j) == Put(j, [row[j] EXCEPT !.spoilt = TRUE])

(* The detail API answered with an empty shell, which the cache does not   *)
(* save: its id is empty, and SetResolved breaks the foreign key of        *)
(* work_id.  process returns the error as it is.                           *)
ResolvedShell(w) ==
  /\ Stage(w, "resolving")
  /\ Owns(w) /\ row[wk[w].job].status = "resolving"
  /\ Spoil(wk[w].job)
  /\ Quit(w, "leaving", "other")

(* A result of a note cannot be composed or written, whatever jobCtx says; *)
(* the error is returned as it is, where Transcriber.Run has its own go    *)
(* through failed                                                          *)
NoteUnwritten(w) ==
  /\ At(w, "composing")
  /\ Owns(w)
  /\ Spoil(wk[w].job)
  /\ Quit(w, "leaving", "other")
  /\ UNCHANGED <<stops, info, deleting, phase, budget>>

(* Mutant: the last attempt is put back to wait *)
RetryLaterOffByOne(w) ==
  LET r == row[wk[w].job] IN
  IF ~Owns(w) THEN UNCHANGED row
  ELSE IF r.attempt > MaxAttempts THEN Put(wk[w].job, Released(r, "failed"))
  ELSE Put(wk[w].job, [Released(r, "retry_wait") EXCEPT !.due = FALSE])

(* CancelOwned, RetryLater (owner guarded) and Fail (not guarded) *)
CancelOwned(w) ==
  IF Owns(w) THEN Put(wk[w].job, Released(row[wk[w].job], "cancelled"))
             ELSE UNCHANGED row

RetryLater(w) ==
  LET r == row[wk[w].job] IN
  IF ~Owns(w) THEN UNCHANGED row
  ELSE IF r.attempt >= MaxAttempts THEN Put(wk[w].job, Released(r, "failed"))
  ELSE Put(wk[w].job, [Released(r, "retry_wait") EXCEPT !.due = FALSE])

Fail(j) ==
  IF row[j].status = "deleted" THEN UNCHANGED row
  ELSE Put(j, Released(row[j], "failed"))

FailsForGood(w) ==
  \/ wk[w].cause = "permanent"
  \/ wk[w].cause = "ffmpeg" /\ row[wk[w].job].attempt >= 2

Settle(w) ==
  /\ At(w, "settling")
  /\ CASE wk[w].cause = "canceled" -> CancelOwned(w)
       [] FailsForGood(w)          -> Fail(wk[w].job)
       [] OTHER                    -> RetryLater(w)
  /\ Go(w, "leaving")
  /\ UNCHANGED <<stops, info, deleting, phase, budget>>

SettleFault(w) ==
  /\ At(w, "settling")
  /\ Go(w, "leaving")
  /\ Spend("fault")
  /\ UNCHANGED <<row, stops, info, deleting, phase>>

(* Mutant: the cancel function stays registered *)
UnregisterForgotten(w) ==
  /\ At(w, "leaving")
  /\ Go(w, "deferred")
  /\ UNCHANGED <<row, stops, info, deleting, phase, budget>>

(* The deferred calls: stop the heartbeat, delete stops[job.ID] ...        *)
Unregister(w) ==
  /\ At(w, "leaving")
  /\ stops' = [stops EXCEPT ![wk[w].job] = NoWorker]
  /\ Go(w, "deferred")
  /\ UNCHANGED <<row, info, deleting, phase, budget>>

(* Mutant: no deferred CancelOwned *)
FinishWithoutPersisting(w) ==
  /\ At(w, "deferred")
  /\ wk' = [wk EXCEPT ![w] = Idle]
  /\ UNCHANGED <<row, stops, info, deleting, phase, budget>>

(* ... then persist a cancellation nobody persisted, unless shutting down  *)
Finish(w) ==
  /\ At(w, "deferred")
  /\ IF wk[w].cause = "canceled" /\ phase # "stopping" THEN CancelOwned(w)
                                                       ELSE UNCHANGED row
  /\ wk' = [wk EXCEPT ![w] = Idle]
  /\ UNCHANGED <<stops, info, deleting, phase, budget>>

-----------------------------------------------------------------------------
(* The heartbeat goroutine of a worker *)

Heartbeat(w) ==
  /\ Up /\ Registered(w) /\ Live(w)
  /\ IF Owns(w) /\ row[wk[w].job].status \in Active
       THEN Put(wk[w].job, [row[wk[w].job] EXCEPT !.lease = "live"]) /\ UNCHANGED wk
       ELSE wk' = [wk EXCEPT ![w].ctx = "lost"] /\ UNCHANGED row
  /\ UNCHANGED <<stops, info, deleting, phase, budget>>

HeartbeatFault(w) ==
  /\ Up /\ Registered(w) /\ Live(w)
  /\ wk' = [wk EXCEPT ![w].ctx = "lost"]
  /\ Spend("fault")
  /\ UNCHANGED <<row, stops, info, deleting, phase>>

-----------------------------------------------------------------------------
(* The requests: jobs.Service *)

SubmitQueued(j) ==
  /\ Up /\ row[j].status = "absent"
  /\ \E a \in Actions \ {"info"} : Put(j, NewRow("queued", a))
  /\ UNCHANGED <<wk, stops, info, deleting, phase, budget>>

(* CreateInfo inserts the row as resolving, without a lease, and resolves  *)
(* the work inside the request                                             *)
SubmitInfo(j) ==
  /\ Up /\ row[j].status = "absent"
  /\ Put(j, NewRow("resolving", "info"))
  /\ info' = info \cup {j}
  /\ UNCHANGED <<wk, stops, deleting, phase, budget>>

InfoCompleted(j) ==
  /\ j \in info
  /\ row[j].status = "resolving"
  /\ Put(j, [row[j] EXCEPT !.status = "completed"])
  /\ info' = info \ {j}
  /\ UNCHANGED <<wk, stops, deleting, phase, budget>>

InfoFailed(j) ==
  /\ j \in info
  /\ Fail(j)
  /\ info' = info \ {j}
  /\ UNCHANGED <<wk, stops, deleting, phase, budget>>

(* The work is a shell: CompleteInfo breaks the same foreign key, and its  *)
(* error is returned without Fail                                          *)
InfoShell(j) ==
  /\ j \in info
  /\ row[j].status = "resolving"
  /\ Spoil(j)
  /\ info' = info \ {j}
  /\ UNCHANGED <<wk, stops, deleting, phase, budget>>

(* The client goes away before CompleteInfo, whose context is the request's *)
InfoDropped(j) ==
  /\ j \in info
  /\ info' = info \ {j}
  /\ Spend("fault")
  /\ UNCHANGED <<row, wk, stops, deleting, phase>>

(* Mutant: a running job is cancelled in the table as well *)
CancelUnfinished(j) ==
  /\ Up /\ row[j].status \in Waiting \cup Active
  /\ Put(j, Released(row[j], "cancelled"))
  /\ UNCHANGED <<wk, stops, info, deleting, phase, budget>>

CancelWaiting(j) ==
  /\ Up /\ row[j].status \in Waiting
  /\ Put(j, Released(row[j], "cancelled"))
  /\ UNCHANGED <<wk, stops, info, deleting, phase, budget>>

(* Repository.Cancel found the job in no waiting state and Worker.Cancel   *)
(* looks its cancel function up later: the status is not checked again.    *)
CancelRunning(j) ==
  /\ stops[j] # NoWorker
  /\ wk[stops[j]].ctx = "live"
  /\ wk' = [wk EXCEPT ![stops[j]].ctx = "user"]
  /\ UNCHANGED <<row, stops, info, deleting, phase, budget>>

(* Mutant: a completed job can be retried *)
RetryFinished(j) ==
  /\ Up /\ row[j].status \in Terminal
  /\ Put(j, Requeued(row[j]))
  /\ Spend("retry")
  /\ UNCHANGED <<wk, stops, info, deleting, phase>>

Retry(j) ==
  /\ Up /\ row[j].status \in {"failed", "cancelled"}
  /\ Put(j, Requeued(row[j]))
  /\ Spend("retry")
  /\ UNCHANGED <<wk, stops, info, deleting, phase>>

DeleteCheck(j) ==
  /\ Up /\ row[j].status \in Terminal
  /\ deleting' = deleting \cup {j}
  /\ UNCHANGED <<row, wk, stops, info, phase, budget>>

(* Repository.Delete: one transaction that does not look at the status *)
DeleteRow(j) ==
  /\ j \in deleting
  /\ deleting' = deleting \ {j}
  /\ Put(j, NewRow("deleted", row[j].action))
  /\ UNCHANGED <<wk, stops, info, phase, budget>>

-----------------------------------------------------------------------------
(* The process: main, Worker.Run, Repository.Recover *)

Boot ==
  /\ phase = "down"
  /\ QuickRestart \/ \A j \in Jobs : row[j].lease # "live"
  /\ phase' = "boot"
  /\ UNCHANGED <<row, wk, stops, info, deleting, budget>>

(* Mutant: recovery forgets one of the active statuses *)
ExpiredBeforeResults(j) ==
  row[j].status \in Active \ {"postprocessing"} /\ row[j].lease = "expired"

Expired(j) == row[j].status \in Active /\ row[j].lease = "expired"

RecoverAsr ==
  /\ phase = "boot"
  /\ phase' = "asr"
  /\ row' = [j \in Jobs |->
       IF Expired(j) /\ row[j].status = "transcribing" /\ row[j].tasks > 0
         THEN Released(row[j], "failed") ELSE row[j]]
  /\ UNCHANGED <<wk, stops, info, deleting, budget>>

(* Mutant: recovery requeues without counting *)
RecoverUncounted ==
  /\ phase = "asr"
  /\ phase' = "leases"
  /\ row' = [j \in Jobs |-> IF Expired(j) THEN Released(row[j], "queued") ELSE row[j]]
  /\ UNCHANGED <<wk, stops, info, deleting, budget>>

RecoverLeases ==
  /\ phase = "asr"
  /\ phase' = "leases"
  /\ row' = [j \in Jobs |->
       IF Expired(j)
         THEN Released(row[j], IF row[j].attempt >= MaxAttempts THEN "failed" ELSE "queued")
         ELSE row[j]]
  /\ UNCHANGED <<wk, stops, info, deleting, budget>>

FailExhaustedQueued ==
  /\ phase = "leases"
  /\ phase' = "running"
  /\ row' = [j \in Jobs |->
       IF row[j].status \in Waiting /\ row[j].attempt >= MaxAttempts
         THEN [row[j] EXCEPT !.status = "failed"] ELSE row[j]]
  /\ UNCHANGED <<wk, stops, info, deleting, budget>>

(* SIGTERM cancels the context every jobCtx is derived from *)
Stop ==
  /\ phase \notin {"down", "stopping"}
  /\ phase' = "stopping"
  /\ wk' = [w \in Workers |->
       IF wk[w].pc # "idle" /\ wk[w].ctx = "live" THEN [wk[w] EXCEPT !.ctx = "stop"] ELSE wk[w]]
  /\ Spend("crash")
  /\ UNCHANGED <<row, stops, info, deleting>>

Vanish ==
  /\ phase' = "down"
  /\ wk' = [w \in Workers |-> Idle]
  /\ stops' = [j \in Jobs |-> NoWorker]
  /\ info' = {}
  /\ deleting' = {}
  /\ UNCHANGED row

Crash == Up /\ Vanish /\ Spend("crash")

(* main returns when the HTTP server has shut down; it does not wait for   *)
(* the workers                                                             *)
Exit == phase = "stopping" /\ Vanish /\ UNCHANGED budget

LeaseExpires(j) ==
  /\ row[j].lease = "live"
  /\ Put(j, [row[j] EXCEPT !.lease = "expired"])
  /\ UNCHANGED <<wk, stops, info, deleting, phase, budget>>

RetryFallsDue(j) ==
  /\ row[j].status = "retry_wait" /\ ~row[j].due
  /\ Put(j, [row[j] EXCEPT !.due = TRUE])
  /\ UNCHANGED <<wk, stops, info, deleting, phase, budget>>

-----------------------------------------------------------------------------
Init ==
  /\ row = [j \in Jobs |-> NewRow("absent", "info")]
  /\ wk = [w \in Workers |-> Idle]
  /\ stops = [j \in Jobs |-> NoWorker]
  /\ info = {}
  /\ deleting = {}
  /\ phase = "down"
  /\ budget = [crash |-> MaxCrashes, fault |-> MaxFaults, retry |-> MaxRetries]

(* What a worker's own goroutine does once it has claimed a job *)
Process(w) ==
  \/ Register(w) \/ Resolved(w) \/ Downloaded(w) \/ FinishDownload(w)
  \/ BeginExtract(w) \/ BeginTranscribe(w) \/ SubmitTask(w) \/ TaskDone(w)
  \/ BeginResults(w) \/ FinishTranscription(w) \/ ImagesDone(w) \/ FinishNote(w)
  \/ Break(w) \/ Bail(w) \/ ResolvedShell(w) \/ NoteUnwritten(w) \/ Settle(w) \/ SettleFault(w)
  \/ Unregister(w) \/ Finish(w)

WorkerStep(w) ==
  Claim(w) \/ ClaimUnread(w) \/ Process(w) \/ Heartbeat(w) \/ HeartbeatFault(w)

Request(j) ==
  \/ SubmitQueued(j) \/ SubmitInfo(j) \/ InfoCompleted(j) \/ InfoFailed(j)
  \/ InfoShell(j) \/ InfoDropped(j) \/ CancelWaiting(j) \/ CancelRunning(j) \/ Retry(j)
  \/ DeleteCheck(j) \/ DeleteRow(j)

System ==
  \/ Boot \/ RecoverAsr \/ RecoverLeases \/ FailExhaustedQueued
  \/ Stop \/ Crash \/ Exit

Clock(j) == LeaseExpires(j) \/ RetryFallsDue(j)

Next ==
  \/ \E w \in Workers : WorkerStep(w)
  \/ \E j \in Jobs : Request(j) \/ Clock(j)
  \/ System

Spec == Init /\ [][Next]_vars

(***************************************************************************)
(* Fairness.  The loops, the timers behind retry_at and lease_expires_at,  *)
(* the start-up sequence and the info requests run on their own; requests  *)
(* of users, crashes and faults need never happen.  A stage may fail or    *)
(* succeed, but it ends: every external call in it has a timeout, and the  *)
(* segments of an audio file are finitely many (the strong fairness).      *)
(***************************************************************************)
Progress(w) == Process(w) /\ UNCHANGED budget

Fairness ==
  /\ \A w \in Workers : /\ WF_vars(Claim(w)) /\ WF_vars(Progress(w))
                        /\ SF_vars(BeginResults(w))
  /\ \A j \in Jobs : /\ WF_vars(InfoCompleted(j) \/ InfoFailed(j) \/ InfoShell(j))
                     /\ WF_vars(RetryFallsDue(j))
                     /\ WF_vars(phase = "down" /\ LeaseExpires(j))
  /\ WF_vars(Boot) /\ WF_vars(RecoverAsr) /\ WF_vars(RecoverLeases)
  /\ WF_vars(FailExhaustedQueued) /\ WF_vars(Exit)

FairSpec == Spec /\ Fairness

-----------------------------------------------------------------------------
(* Properties *)

(* Every column, goroutine and map holds a value the program can store in  *)
(* it (the schema's types, the states of process, the stops map).          *)
TypeOK ==
  /\ row \in [Jobs -> Row]
  /\ wk \in [Workers -> Worker]
  /\ stops \in [Jobs -> Workers \cup {NoWorker}]
  /\ info \subseteq Jobs
  /\ deleting \subseteq Jobs
  /\ phase \in {"down", "boot", "asr", "leases", "running", "stopping"}
  /\ budget \in [{"crash", "fault", "retry"} -> Nat]

(* A job has a lease exactly while a claim is open: a waiting or finished  *)
(* job never carries one, so SetStage, RetryLater and CancelOwned, which   *)
(* check the owner and not the status, cannot touch such a job.            *)
LeaseDiscipline ==
  \A j \in Jobs :
    /\ row[j].owner # NoWorker => row[j].status \in Active
    /\ row[j].owner = NoWorker <=> row[j].lease = "none"

(* max_attempts bounds the attempts of a job, and a job put back to wait   *)
(* can still be claimed: nothing waits for ever with its attempts used up, *)
(* although FailExhaustedQueued runs only once, at start.                  *)
AttemptsBounded ==
  \A j \in Jobs :
    /\ row[j].attempt <= MaxAttempts
    /\ row[j].status \in Waiting => row[j].attempt < MaxAttempts

(* Two loops never run the same job (TestQueueClaimIsExclusive... checks   *)
(* two claims; here every interleaving with cancel, retry and recovery).   *)
OneRunner ==
  \A v, w \in Workers :
    Holding(v) /\ Holding(w) /\ wk[v].job = wk[w].job => v = w

(* Until it persists an outcome, a worker owns the lease of its job and    *)
(* the row is in the status of the worker's stage, unless the row was      *)
(* deleted: so SetResolved, CompleteDownload and CompleteTranscription     *)
(* never answer ErrLeaseLost to a worker whose job still exists.           *)
StatusOf(pc) ==
  CASE pc \in {"claimed", "resolving"}                -> "resolving"
    [] pc \in {"downloading", "downloaded", "imaging"} -> "downloading"
    [] pc = "extracting"                              -> "extracting"
    [] pc \in {"transcribing", "polling"}             -> "transcribing"
    [] OTHER                                          -> "postprocessing"

RunnerOwnsItsJob ==
  \A w \in Workers : Holding(w) =>
    \/ row[wk[w].job].status = "deleted"
    \/ /\ Owns(w)
       /\ wk[w].pc \in Stages => row[wk[w].job].status = StatusOf(wk[w].pc)

(* A cancel function reached through the stops map belongs to a worker     *)
(* that is on that very job: Worker.Cancel never stops another job.        *)
CancelHitsItsJob ==
  \A j \in Jobs : stops[j] # NoWorker =>
    Registered(stops[j]) /\ wk[stops[j]].job = j

(* A job left in an active status with nobody working on it is always the  *)
(* trace of a crash, a shutdown, a database that failed or a lost client,  *)
(* or was spoilt by a shell or by a result of a note that could not be     *)
(* written: every other path through process and CreateInfo, cancelled or  *)
(* not, persists an outcome.                                               *)
Attended(j) ==
  \/ j \in info
  \/ \E w \in Workers : /\ wk[w].job = j
                        /\ \/ Holding(w)
                           \/ wk[w].pc \in {"leaving", "deferred"} /\ wk[w].cause = "canceled"

Undisturbed == budget.crash = MaxCrashes /\ budget.fault = MaxFaults

AbandonedOnlyByFaults ==
  Undisturbed => \A j \in Jobs : row[j].status \in Active => Attended(j) \/ row[j].spoilt

(* A finished job changes only when its user retries it, and then with a   *)
(* fresh count of attempts, or deletes it; a completed one cannot be       *)
(* retried.  Fail has neither an owner nor a status guard.                 *)
StaysFinished(j) ==
  row[j].status \in Terminal /\ row'[j].status # row[j].status =>
    \/ row'[j].status = "deleted"
    \/ /\ row[j].status # "completed"
       /\ row'[j].status = "queued" /\ row'[j].attempt = 0

FinishedStaysFinished == [][\A j \in Jobs : StaysFinished(j)]_vars

(* While a worker holds a job, nobody else moves it to another status: not *)
(* a request, not the recovery, not the worker that ran it before.  Only a *)
(* deletion that was already past its check can.                           *)
LeftAlone(w) ==
  Holding(w) /\ row'[wk[w].job].status # row[wk[w].job].status =>
    wk'[w].pc # wk[w].pc \/ row'[wk[w].job].status = "deleted"

NoInterference == [][\A w \in Workers : LeftAlone(w)]_vars

(* An attempt is counted for each claim and given back only by the user:   *)
(* the automatic paths (retry_wait, recovery, shutdown) never reset it.    *)
AttemptCounts(j) ==
  row'[j].attempt # row[j].attempt =>
    \/ row'[j].attempt = row[j].attempt + 1 /\ row[j].owner = NoWorker
                                           /\ row'[j].owner # NoWorker
    \/ row'[j].attempt = 0 /\ row[j].status \in {"failed", "cancelled"}
    \/ row'[j].status = "deleted"

AttemptsCountClaims == [][\A j \in Jobs : AttemptCounts(j)]_vars

(* Every job in the queue reaches an end, whatever the errors of its       *)
(* stages, when a restart finds the leases of the dead process expired;    *)
(* only a run that is spoilt leaves its job active.  A crash and a restart *)
(* put that job back, too, and the claim makes a fresh run of it.          *)
InQueue(j) == row[j].status \in Waiting \cup Active /\ row[j].action # "info"
Ended(j)   == row[j].status \in Terminal \cup {"deleted"}
IsSpoilt(j) == row[j].status \in Active /\ row[j].spoilt

EveryJobEnds == \A j \in Jobs : InQueue(j) ~> Ended(j) \/ IsSpoilt(j)

(* The table, read with the statuses of a run folded into one, is a        *)
(* lifecycle as JobLifecycle promises it.                                  *)
StateOf(status) ==
  CASE status = "absent"    -> "none"
    [] status \in Waiting   -> "waiting"
    [] status \in Active    -> "running"
    [] status = "deleted"   -> "gone"
    [] OTHER                -> status

Lifecycle == INSTANCE JobLifecycle WITH
  state <- [j \in Jobs |-> StateOf(row[j].status)],
  runs  <- [j \in Jobs |-> row[j].attempt]

LifecycleSpec == Lifecycle!Spec

-----------------------------------------------------------------------------
(* What the documents and comments say and the code does not do *)

(* A download that its user cancels ends as cancelled.                     *)
CancelledDownloadEnds ==
  \A j \in Jobs, w \in Workers :
    wk[w].pc = "downloading" /\ wk[w].ctx = "user" /\ wk[w].job = j
      ~> row[j].status \in {"cancelled", "deleted"}

(* No job is in progress for ever, not even after a failure of what is    *)
(* around the server or a restart of it: a shell, a crash during a request *)
(* for information and a restart within the lease each leave one.          *)
NoJobStaysInProgress ==
  \A j \in Jobs : row[j].status \in Active ~> row[j].status \notin Active

=============================================================================
