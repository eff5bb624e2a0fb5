---------------------------- MODULE JobLifecycle ----------------------------
(***************************************************************************)
(* What the queue promises about each job, seen by somebody who polls it:  *)
(* the state diagram of the product design with its attempts.  It knows    *)
(* nothing of workers, leases, contexts, processes or statements.          *)
(***************************************************************************)
EXTENDS Naturals

CONSTANTS Jobs, MaxAttempts

VARIABLES state, runs

vars == <<state, runs>>

States == {"none", "waiting", "running", "completed", "failed", "cancelled", "gone"}

(* A job is accepted into the queue, or as a synchronous info job *)
Accept(j) == state[j] = "none" /\ state'[j] \in {"waiting", "running"} /\ runs'[j] = runs[j]

(* It is run at most MaxAttempts times ... *)
Start(j) ==
  /\ state[j] = "waiting" /\ state'[j] = "running"
  /\ runs[j] < MaxAttempts /\ runs'[j] = runs[j] + 1

(* ... and goes back to wait only if it may be run again *)
GoBack(j) ==
  /\ state[j] = "running" /\ state'[j] = "waiting"
  /\ runs[j] < MaxAttempts /\ runs'[j] = runs[j]

End(j) ==
  /\ state[j] = "running" /\ state'[j] \in {"completed", "failed", "cancelled"}
  /\ runs'[j] = runs[j]

Withdraw(j) == state[j] = "waiting" /\ state'[j] = "cancelled" /\ runs'[j] = runs[j]

(* The user gives a job that did not complete another MaxAttempts runs *)
Again(j) ==
  /\ state[j] \in {"failed", "cancelled"} /\ state'[j] = "waiting"
  /\ runs'[j] = 0

(* A deleted job is gone for good.  It need not be finished any more when  *)
(* it goes: it was when the deletion was asked for.                        *)
Purge(j) == state[j] # "none" /\ state'[j] = "gone"

Move(j) ==
  \/ Accept(j) \/ Start(j) \/ GoBack(j) \/ End(j) \/ Withdraw(j) \/ Again(j) \/ Purge(j)
  \/ state'[j] = state[j] /\ runs'[j] = runs[j]

Init ==
  /\ state = [j \in Jobs |-> "none"]
  /\ runs = [j \in Jobs |-> 0]

(* Recovery moves several jobs in one step *)
Next ==
  /\ state' \in [Jobs -> States]
  /\ runs' \in [Jobs -> 0..MaxAttempts]
  /\ \A j \in Jobs : Move(j)

Spec == Init /\ [][Next]_vars
=============================================================================
