------------------------------ MODULE AsrCalls ------------------------------
(***************************************************************************)
(* The calls of speech recognition: how Transcriber.Run has the segments   *)
(* of a job transcribed one after the other by asr.Service, which checks   *)
(* the budget, records every call in the table asr_calls, and turns to a   *)
(* second provider when the first fails.  TranscribeSegment holds budgetMu *)
(* from the check to the end of the call, so that calls are made one at a  *)
(* time; the wait for it does not look at the context.                     *)
(*                                                                         *)
(* Each action is one statement, or one request to a provider.             *)
(*                                                                         *)
(* Abstractions.  The job is what JobQueue makes of it; whether it has     *)
(* attempts left is a choice.  Costs are whole numbers: a call is          *)
(* estimated at 1, and what is billed in the end is a choice.  Which keys  *)
(* are configured is a choice every time they are read, since an           *)
(* administrator may change them at any time.  Any request or statement    *)
(* may fail; a cancelled context is one more failure.  The rows of a       *)
(* deleted job go with it, and their numbers are used again.               *)
(***************************************************************************)
EXTENDS Integers, FiniteSets, Functions

CONSTANTS
  Workers,
  Jobs,
  NoJob,
  Audio,         \* the length of the audio of a job
  Length,        \* the most that one segment holds: 9 minutes
  Overlap,       \* of two segments: a second
  Daily,         \* Budget.DailyCNY
  Monthly,       \* Budget.MonthlyCNY
  MostBilled,    \* the most that one call turns out to cost
  MaxCalls,      \* bound: rows of asr_calls at a time
  MaxDays        \* bound: the days of the month that are looked at

ASSUME JobAssumption     == NoJob \notin Jobs
ASSUME AudioAssumption   == Audio \in [Jobs -> Nat \ {0}] /\ Overlap \in Nat /\ Length \in Nat /\ Overlap < Length
ASSUME BudgetAssumption  == Daily \in Nat /\ Monthly \in Nat /\ MostBilled \in Nat \ {0}
ASSUME BoundAssumption   == MaxCalls \in Nat /\ MaxDays \in Nat \ {0}

VARIABLES
  calls,     \* the table asr_calls
  jobs,      \* the jobs to transcribe
  worker,    \* the workers
  day

vars == <<calls, jobs, worker, day>>

Days == 1..MaxDays
CallIds == 1..MaxCalls
NoCall == 0

-----------------------------------------------------------------------------
(* State *)

Providers == {"silicon", "aliyun"}

(* task: provider_task_id is set; excused: a history, the statement that   *)
(* was to end the row failed, or the owner has asked for a retry since     *)
CallRow == [job : Jobs \cup {NoJob}, segment : Nat, status : {"none", "submitted", "running", "completed", "failed"},
            task : BOOLEAN, cost : Nat, day : Days, excused : BOOLEAN]

Absent == [job |-> NoJob, segment |-> 0, status |-> "none", task |-> FALSE, cost |-> 0, day |-> 1, excused |-> FALSE]

Job == {"waiting", "transcribing", "completed", "failed", "gone"}

InService == {"check", "create", "submit", "report", "work", "settle"}

(* left: the provider to turn to if this one fails; error: of the call     *)
Worker == [pc       : {"idle", "wait", "next"} \cup InService,
           job      : Jobs \cup {NoJob},
           segment  : Nat,
           call     : CallIds \cup {NoCall},
           provider : Providers \cup {"none"},
           left     : Providers \cup {"none"},
           error    : {"none", "failed", "refused"}]

Idle == [pc |-> "idle", job |-> NoJob, segment |-> 0, call |-> NoCall,
         provider |-> "none", left |-> "none", error |-> "none"]

TypeOK ==
  /\ calls \in [CallIds -> CallRow]
  /\ jobs \in [Jobs -> Job]
  /\ worker \in [Workers -> Worker]
  /\ day \in Days

Init ==
  /\ calls = [c \in CallIds |-> Absent]
  /\ jobs = [j \in Jobs |-> "waiting"]
  /\ worker = [w \in Workers |-> Idle]
  /\ day = 1

At(w, pc) == worker[w].pc = pc
Goto(w, pc) == worker' = [worker EXCEPT ![w].pc = pc]
MyCall(w) == calls[worker[w].call]

(* Mutant: budgetMu is not held while the provider works *)
UnlockedWhileItWorks == \A w \in Workers : worker[w].pc \notin InService \ {"work"}

(* sync.Mutex *)
Unlocked == \A w \in Workers : worker[w].pc \notin InService

Unused == {c \in CallIds : calls[c].status = "none"}
NewCall == CHOOSE c \in CallIds : c \in Unused

(* provider_task_id IS NOT NULL AND status IN ('submitted','running') *)
OpenTask(c) == calls[c].task /\ calls[c].status \in {"submitted", "running"}

-----------------------------------------------------------------------------
(* The segments *)

Step == Length - Overlap

(* SplitMP3: the loop ends when a start is not within the audio any more *)
Start(s) == (s - 1) * Step
Segments(j) == IF Audio[j] <= Length THEN 1 ELSE Cardinality({s \in 1..Audio[j] : Start(s) < Audio[j]})
End(j, s) == IF Start(s) + Length < Audio[j] THEN Start(s) + Length ELSE Audio[j]

-----------------------------------------------------------------------------
(* The budget *)

(* SELECT SUM(estimated_cost_cny) *)
Costs == [c \in CallIds |-> calls[c].cost]
DailyEstimatedCost(d) == SumFunctionOnSet(Costs, {c \in CallIds : calls[c].status # "none" /\ calls[c].day = d})
MonthlyEstimatedCost == SumFunctionOnSet(Costs, {c \in CallIds : calls[c].status # "none"})

(* A budget of 0 is no budget *)
WithinBudget ==
  /\ Monthly > 0 => MonthlyEstimatedCost + 1 <= Monthly
  /\ Daily > 0 => DailyEstimatedCost(day) + 1 <= Daily

-----------------------------------------------------------------------------
(* A run of the job: Transcriber.Run *)

(* RetryLater if the job has attempts left, or Fail *)
AfterError(j, error) == \E status \in {"waiting", "failed"} :
  /\ error = "refused" => status = "failed"
  /\ jobs' = [jobs EXCEPT ![j] = status]

Ends(w, error) ==
  /\ worker' = [worker EXCEPT ![w] = Idle]
  /\ AfterError(worker[w].job, error)

Take(w) ==
  /\ At(w, "idle")
  /\ \E j \in Jobs :
       /\ jobs[j] = "waiting"
       /\ jobs' = [jobs EXCEPT ![j] = "transcribing"]
       /\ worker' = [worker EXCEPT ![w] = [Idle EXCEPT !.pc = "wait", !.job = j, !.segment = 1]]
  /\ UNCHANGED <<calls, day>>

(* Mutant: one segment too few *)
NextButLast(w) ==
  /\ At(w, "next")
  /\ LET j == worker[w].job
     IN  IF worker[w].segment + 1 < Segments(j)
         THEN /\ worker' = [worker EXCEPT ![w] = [Idle EXCEPT !.pc = "wait", !.job = j, !.segment = worker[w].segment + 1]]
              /\ UNCHANGED jobs
         ELSE /\ worker' = [worker EXCEPT ![w] = Idle]
              /\ jobs' = [jobs EXCEPT ![j] = "completed"]
  /\ UNCHANGED <<calls, day>>

(* The segments in their order; after the last the results are written *)
NextSegment(w) ==
  /\ At(w, "next")
  /\ LET j == worker[w].job
     IN  IF worker[w].segment < Segments(j)
         THEN /\ worker' = [worker EXCEPT ![w] = [Idle EXCEPT !.pc = "wait", !.job = j, !.segment = worker[w].segment + 1]]
              /\ UNCHANGED jobs
         ELSE /\ worker' = [worker EXCEPT ![w] = Idle]
              /\ jobs' = [jobs EXCEPT ![j] = "completed"]
  /\ UNCHANGED <<calls, day>>

-----------------------------------------------------------------------------
(* Service.TranscribeSegment *)

Lock(w) ==
  /\ At(w, "wait") /\ Unlocked
  /\ Goto(w, "check")
  /\ UNCHANGED <<calls, jobs, day>>

(* The ProviderFactory: SiliconFlow first if it has a key, then Aliyun *)
Preferred(keys) == CASE "silicon" \in keys -> "silicon"
                     [] keys = {"aliyun"}  -> "aliyun"
                     [] OTHER              -> "none"
Second(keys) == IF keys = Providers THEN "aliyun" ELSE "none"

(* checkBudget, before the first provider and again before the second;     *)
(* without a key there is no provider                                      *)
CheckBudget(w) ==
  /\ At(w, "check") /\ WithinBudget
  /\ \/ worker[w].provider = "none"
        /\ \E keys \in (SUBSET Providers) \ {{}} :
             worker' = [worker EXCEPT ![w].pc = "create", ![w].provider = Preferred(keys), ![w].left = Second(keys)]
     \/ worker[w].provider # "none"
        /\ worker' = [worker EXCEPT ![w].pc = "create", ![w].provider = worker[w].left, ![w].left = "none",
                                    ![w].call = NoCall]
  /\ UNCHANGED <<calls, jobs, day>>

(* ErrBudgetExceeded, ErrAuth *)
Refuse(w) ==
  /\ At(w, "check")
  /\ ~WithinBudget \/ worker[w].provider = "none"
  /\ Ends(w, "refused")
  /\ UNCHANGED <<calls, day>>

(* The statement of the check or of Create fails *)
GiveUp(w) ==
  /\ worker[w].pc \in {"check", "create"}
  /\ Ends(w, "failed")
  /\ UNCHANGED <<calls, day>>

Create(w) ==
  /\ At(w, "create")
  /\ Unused # {}
  /\ calls' = [calls EXCEPT ![NewCall] =
       [Absent EXCEPT !.job = worker[w].job, !.segment = worker[w].segment, !.status = "submitted",
                      !.cost = 1, !.day = day]]
  /\ worker' = [worker EXCEPT ![w].pc = "submit", ![w].call = NewCall]
  /\ UNCHANGED <<jobs, day>>

(* Aliyun gives the task a number; SiliconFlow keeps the request waiting *)
Submit(w) ==
  /\ At(w, "submit")
  /\ Goto(w, IF worker[w].provider = "aliyun" THEN "report" ELSE "work")
  /\ UNCHANGED <<calls, jobs, day>>

(* The TaskReporter: SetProviderTask, whether the context is cancelled or not *)
Report(w) ==
  /\ At(w, "report")
  /\ calls' = [calls EXCEPT ![worker[w].call].status = "running", ![worker[w].call].task = TRUE]
  /\ Goto(w, "work")
  /\ UNCHANGED <<jobs, day>>

(* Mutant: a provider that works is given all the time it wants *)
CallFailsAtOnce(w) ==
  /\ worker[w].pc \in {"submit", "report"}
  /\ \E error \in {"failed", "refused"} :
       worker' = [worker EXCEPT ![w].pc = "settle", ![w].error = error]
  /\ UNCHANGED <<calls, jobs, day>>

(* statusError, a failed task, a timeout *)
CallFails(w) ==
  /\ worker[w].pc \in {"submit", "report", "work"}
  /\ \E error \in {"failed", "refused"} :
       worker' = [worker EXCEPT ![w].pc = "settle", ![w].error = error]
  /\ UNCHANGED <<calls, jobs, day>>

(* The provider succeeds.  Only Aliyun says what it bills *)
Billed(w) == IF worker[w].provider = "aliyun" THEN 0..MostBilled ELSE {1}

Complete(w) ==
  /\ At(w, "work")
  /\ \E cost \in Billed(w) :
       calls' = [calls EXCEPT ![worker[w].call].status = "completed", ![worker[w].call].task = (worker[w].provider = "aliyun"),
                              ![worker[w].call].cost = IF cost = 0 THEN 1 ELSE cost]
  /\ Goto(w, "next")
  /\ UNCHANGED <<jobs, day>>

(* The provider succeeds, but the row stays open, and the error goes to the job *)
CompleteFails(w) ==
  /\ At(w, "work")
  /\ calls' = [calls EXCEPT ![worker[w].call].excused = MyCall(w).task]
  /\ Ends(w, "failed")
  /\ UNCHANGED day

(* Mutant: a status that the table does not know *)
FailedAsCancelled(w) == calls' = [calls EXCEPT ![worker[w].call].status = "cancelled"]

(* Repository.Fail, whose error is ignored *)
Failed(w) ==
  calls' \in {[calls EXCEPT ![worker[w].call].status = "failed"], [calls EXCEPT ![worker[w].call].excused = MyCall(w).task]}

(* fallbackAllowed: the second provider gets its turn *)
FallBack(w) ==
  /\ At(w, "settle")
  /\ worker[w].error = "failed" /\ worker[w].left # "none"
  /\ Failed(w)
  /\ worker' = [worker EXCEPT ![w].pc = "check", ![w].error = "none"]
  /\ UNCHANGED <<jobs, day>>

Settle(w) ==
  /\ At(w, "settle")
  /\ worker[w].error = "refused" \/ worker[w].left = "none"
  /\ Failed(w)
  /\ Ends(w, worker[w].error)
  /\ UNCHANGED day

-----------------------------------------------------------------------------
(* Recovery, the owner, the clock *)

Crash ==
  /\ worker' = [w \in Workers |-> Idle]
  /\ UNCHANGED <<calls, jobs, day>>

Orphaned(j) == jobs[j] = "transcribing" /\ \A w \in Workers : worker[w].job # j

(* Mutant: the job is queued again whatever its calls *)
RecoverAll ==
  /\ \E j \in Jobs :
       /\ Orphaned(j)
       /\ AfterError(j, "failed")
  /\ UNCHANGED <<calls, worker, day>>

(* A job with an open task is left to its owner *)
Recover ==
  /\ \E j \in Jobs :
       /\ Orphaned(j)
       /\ AfterError(j, IF \E c \in CallIds : calls[c].job = j /\ OpenTask(c) THEN "refused" ELSE "failed")
  /\ UNCHANGED <<calls, worker, day>>

Retry ==
  /\ \E j \in Jobs :
       /\ jobs[j] = "failed"
       /\ jobs' = [jobs EXCEPT ![j] = "waiting"]
       /\ calls' = [c \in CallIds |-> [calls[c] EXCEPT !.excused = @ \/ (calls[c].job = j /\ OpenTask(c))]]
  /\ UNCHANGED <<worker, day>>

(* DELETE FROM jobs: the rows of asr_calls go ON DELETE CASCADE *)
Delete ==
  /\ \E j \in Jobs :
       /\ jobs[j] \in {"completed", "failed"}
       /\ jobs' = [jobs EXCEPT ![j] = "gone"]
       /\ calls' = [c \in CallIds |-> IF calls[c].job = j THEN Absent ELSE calls[c]]
  /\ UNCHANGED <<worker, day>>

Midnight ==
  /\ day < MaxDays
  /\ day' = day + 1
  /\ UNCHANGED <<calls, jobs, worker>>

-----------------------------------------------------------------------------
(* The specification *)

Transcribing(w) ==
  \/ NextSegment(w) \/ CheckBudget(w) \/ Refuse(w) \/ GiveUp(w) \/ Create(w)
  \/ Submit(w) \/ Report(w) \/ CallFails(w) \/ FallBack(w) \/ Settle(w)

Transcribed(w) == Complete(w) \/ CompleteFails(w)

Next ==
  \/ \E w \in Workers : Take(w) \/ Lock(w) \/ Transcribing(w) \/ Transcribed(w)
  \/ Crash \/ Recover \/ Retry \/ Delete \/ Midnight

Spec == Init /\ [][Next]_vars

(* A goroutine that can go on does; a provider may never succeed, but a    *)
(* call ends after half an hour; a waiter gets the mutex in its turn       *)
FairSpec == Spec /\ \A w \in Workers : WF_vars(Transcribing(w)) /\ SF_vars(Lock(w))

-----------------------------------------------------------------------------
(* Properties *)

(* The stored calls of a day, and of the month, cost no more than the      *)
(* budget and what a single call may cost above its estimate, whatever     *)
(* number of workers transcribe, also over midnight: no call is checked    *)
(* while another is under way.                                             *)
BudgetIsKept ==
  /\ Monthly > 0 => MonthlyEstimatedCost <= Monthly + (MostBilled - 1)
  /\ Daily > 0 => \A d \in Days : DailyEstimatedCost(d) <= Daily + (MostBilled - 1)

(* A job that waits to be run again has no task that is recorded as open   *)
(* at the provider, unless its owner has asked for it, or the statement    *)
(* that was to end the row failed: such a task would be billed twice.      *)
NoBlindReplay == \A j \in Jobs :
  jobs[j] = "waiting" => \A c \in CallIds : calls[c].job = j /\ OpenTask(c) => calls[c].excused

(* Whatever is said in a completed job, and takes no longer than the       *)
(* overlap, lies within a segment whose call has completed: no segment is  *)
(* left out, and none ends where the next begins.                          *)
NothingSaidIsLost == \A j \in Jobs :
  jobs[j] = "completed"
    => \A t \in 0..(Audio[j] - Overlap) : \E c \in CallIds :
         /\ calls[c].job = j /\ calls[c].status = "completed"
         /\ Start(calls[c].segment) <= t /\ t + Overlap <= End(j, calls[c].segment)

(* Every run of a job ends, though it waits for the calls of all others.   *)
EveryRunEnds == \A w \in Workers : ~At(w, "idle") ~> At(w, "idle")

=============================================================================
