--------------------------- MODULE JobFilesProofs ---------------------------
(***************************************************************************)
(* The invariants of JobFiles, for any plans, counts, batches, files that  *)
(* cannot be removed, and bounds.                                          *)
(*                                                                         *)
(* Each goroutine keeps facts about the files it is at: what a worker is   *)
(* writing has no row yet, what it removes has none any more, what the     *)
(* cleanup removes has expired, what a deletion removes is doomed.  The    *)
(* property of the links follows from them file by file.                   *)
(***************************************************************************)
EXTENDS JobFiles, FiniteSetTheorems, WellFoundedInduction, TLAPS

(* Where a worker is at a file *)
AtFile == {"loading", "loaded", "kept", "asr", "asr.mark", "asr.purge",
           "rollback", "rollback.erase", "trim", "trim.mark"}
Done == {"idle", "trim", "trim.mark"}

(* The file a worker has written and not yet registered *)
New(f, disk) ==
  /\ file[f].kind = worker.kind /\ file[f].disk = disk /\ file[f].row = "none"
  /\ ~file[f].expired /\ ~file[f].doomed /\ file[f].run = job.run

WorkerAtFile ==
  /\ worker.pc \in AtFile => worker.file \in Files /\ file[worker.file].kind # "none"
  /\ Here("loading") => New(worker.file, "part")
  /\ Here("loaded") => New(worker.file, "full")
  /\ worker.pc \in {"kept", "rollback", "rollback.erase"} =>
       file[worker.file].kind = "media" /\ worker.kind = "media" /\ ~IsNote
  /\ Here("rollback.erase") => file[worker.file].row = "none"
  /\ worker.pc \in {"asr", "asr.mark", "asr.purge"} =>
       file[worker.file].kind = "source" /\ worker.kind = "source" /\ worker.left > 0
  /\ Here("asr") /\ job.status # "gone" =>
       \/ file[worker.file].expired \/ file[worker.file].doomed
       \/ Live(worker.file) /\ Written(worker.file)
  /\ worker.pc \in {"loading", "loaded"} => worker.left > 0
  /\ worker.pc \in {"trim", "trim.mark"} =>
       /\ file[worker.file].kind = "media" /\ job.plan = "transcribe"
       /\ job.status \in {"completed", "gone"}

(* A run in progress is that of a running job, or of one deleted meanwhile *)
Running == worker.pc \notin Done => job.status \in {"running", "gone"}

(* The files the loops go through *)
Batches ==
  /\ \A f \in worker.todo : file[f].kind # "none"
  /\ Here("erase") => \A f \in worker.todo : file[f].row = "none"
  /\ \A f \in deletion.todo : file[f].kind # "none" /\ file[f].doomed
  /\ \A f \in sweep.todo : file[f].kind # "none" /\ file[f].expired

Rows ==
  /\ \A f \in Files : file[f].kind = "none" => file[f] = Absent
  /\ \A f \in Files : file[f].expired => file[f].kind # "result"
  /\ \A f \in Files : file[f].run <= job.run
  /\ job.status = "gone" => \A f \in Files : file[f].row = "none"

Shape == WorkerAtFile /\ Running /\ Batches /\ Rows /\ ListedFilesExist

(* Once the stale files are gone, and unless they could not be delisted,   *)
(* only files of this run are listed                                       *)
Cleaned ==
  ~job.cluttered /\ (job.status = "completed" \/ worker.pc \notin {"idle", "list", "drop"}) =>
    \A f \in Files : Live(f) => file[f].run = job.run

(* What is marked, or is going to be, is no longer on disk *)
Erasures ==
  /\ sweep.pc = "mark" => file[First(sweep.todo)].disk = "none"
  /\ Here("drop") => \A f \in Files : Live(f) => f \in worker.todo
  /\ trouble = 0 /\ worker.pc \in {"asr.mark", "asr.purge", "trim.mark"} =>
       file[worker.file].disk = "none"

Remembered == Erasures /\ NothingIsForgotten

(* As long as the job is not run again, a deletion is alone with its files *)
Alone ==
  /\ deletion.run <= job.run
  /\ deletion.pc # "free" => job.status # "gone"
  /\ deletion.pc # "free" /\ deletion.run = job.run =>
       job.status # "running" /\ worker.pc \in Done
  /\ deletion.pc \in {"erase", "check", "rows"} /\ deletion.run = job.run /\ trouble = 0 =>
       \A f \in Files : Live(f) => file[f].disk = "none" \/ (deletion.pc = "erase" /\ f \in deletion.todo)

(* The results of the last run *)
Made == {f \in Files : Live(f) /\ file[f].kind = "result" /\ file[f].run = job.run}

Counted ==
  /\ worker.pc \in {"list", "drop"} => worker.kind = "media"
  /\ worker.pc \notin Done /\ job.status = "running" =>
       IF worker.kind = "result" THEN Cardinality(Made) + worker.left = Results ELSE Made = {}
  /\ ResultsAreComplete

-----------------------------------------------------------------------------
(* The first file of a set exists *)
LEMMA FirstIn ==
  ASSUME NEW S \in SUBSET Files, S # {}
  PROVE  First(S) \in S
<1>1. S \subseteq Nat BY BoundAssumption DEF Files
<1>2. PICK f \in S : \A g \in S : ~(<<g, f>> \in OpToRel(<, Nat))
  BY <1>1, NatLessThanWellFounded, WFMin
<1>3. ASSUME NEW g \in S PROVE f <= g
  <2>1. f \in Nat /\ g \in Nat BY <1>1
  <2>2. ~(g < f) BY <1>2, <2>1, Zenon DEF OpToRel
  <2> QED BY <2>1, <2>2
<1> QED BY <1>3 DEF First

(* Types.                                                                  *)
LEMMA FirstIsFile ==
  ASSUME TypeOK
  PROVE  /\ worker.todo # {} => First(worker.todo) \in worker.todo
         /\ deletion.todo # {} => First(deletion.todo) \in deletion.todo
         /\ sweep.todo # {} => First(sweep.todo) \in sweep.todo
         /\ Fresh # {} => First(Fresh) \in Fresh
         /\ worker.todo \subseteq Files /\ deletion.todo \subseteq Files /\ sweep.todo \subseteq Files
         /\ Fresh \subseteq Files /\ worker.file \in 0..MaxFiles
<1>1. Fresh \subseteq Files BY DEF Fresh
<1>2. worker.todo \subseteq Files /\ deletion.todo \subseteq Files /\ sweep.todo \subseteq Files
      /\ worker.file \in 0..MaxFiles
  BY DEF TypeOK, Worker, Deletion, Sweep
<1> QED BY <1>1, <1>2, FirstIn

LEMMA TypeInit == Init => TypeOK
<1> SUFFICES ASSUME Init PROVE TypeOK OBVIOUS
<1>1. job \in [plan : Plans, status : Status, run : 0..MaxRuns, cluttered : BOOLEAN]
  <2>1. 0 \in 0..MaxRuns BY BoundAssumption
  <2> QED BY <2>1 DEF Init, Status
<1> QED BY <1>1, CountAssumption, BoundAssumption
        DEF Init, TypeOK, Absent, IdleWorker, NoDeletion, IdleSweep, File, Worker, Deletion, Sweep, Files, NoFile

(* The changes of the files keep their type *)
LEMMA FileTypes ==
  ASSUME TypeOK, NEW f \in Files, NEW S
  PROVE  /\ file' = file => file' \in [Files -> File]
         /\ file' = Erased(f) => file' \in [Files -> File]
         /\ Forget(S) => file' \in [Files -> File]
         /\ MarkDeleted(f) => file' \in [Files -> File]
         /\ RemoveAnyway(f) => file' \in [Files -> File]
<1>1. file \in [Files -> File] BY DEF TypeOK
<1>2. file' = Erased(f) => file' \in [Files -> File] BY <1>1 DEF Erased, File
<1>3. Forget(S) => file' \in [Files -> File] BY <1>1 DEF Forget, File
<1>4. MarkDeleted(f) => file' \in [Files -> File] BY <1>1 DEF MarkDeleted, File
<1> QED BY <1>1, <1>2, <1>3, <1>4 DEF RemoveAnyway

(* What a worker needs besides: a file where it is at one, and one more to *)
(* produce where it counts one                                             *)
Busy ==
  /\ worker.pc \in AtFile => worker.file \in Files
  /\ worker.pc \in {"loading", "loaded", "asr", "asr.mark", "asr.purge"} => worker.left > 0

WorkerOK ==
  /\ worker \in Worker
  /\ worker.pc \in {"drop", "erase"} => worker.todo # {}
  /\ Busy

DeletionOK == deletion \in Deletion /\ (deletion.pc = "erase" => deletion.todo # {})
SweepOK == sweep \in Sweep /\ (sweep.pc \in {"erase", "mark"} => sweep.todo # {})

Typed == TypeOK /\ Busy

LEMMA WorkerMoves ==
  ASSUME WorkerOK
  PROVE  /\ worker' = worker => WorkerOK'
         /\ worker' = IdleWorker => WorkerOK'
         /\ worker.left > 0 /\ Advance => WorkerOK'
         /\ Goto("next") => WorkerOK'
<1> USE CountAssumption, BoundAssumption DEF WorkerOK, Busy, Worker
<1>1. worker' = worker => WorkerOK' OBVIOUS
<1>2. worker' = IdleWorker => WorkerOK' BY DEF IdleWorker, NoFile, AtFile
<1>3. ASSUME worker.left > 0, Advance PROVE WorkerOK'
  <2>1. 0 \in 0..MaxFiles OBVIOUS
  <2>2. CASE worker' = [worker EXCEPT !.pc = "next", !.file = NoFile, !.kind = "result", !.left = Results]
    <3>1. worker' \in Worker BY <2>1, <2>2 DEF NoFile
    <3> QED BY <2>2, <3>1 DEF AtFile
  <2>3. CASE worker' = [worker EXCEPT !.pc = "next", !.file = NoFile, !.left = @ - 1]
    <3>1. worker.left - 1 \in Nat BY <1>3
    <3>2. worker' \in Worker BY <2>1, <2>3, <3>1 DEF NoFile
    <3> QED BY <2>3, <3>2 DEF AtFile
  <2> QED BY <1>3, <2>2, <2>3 DEF Advance
<1>4. Goto("next") => WorkerOK' BY DEF Goto, AtFile
<1> QED BY <1>1, <1>2, <1>3, <1>4

LEMMA GotoMoves ==
  ASSUME WorkerOK, NEW pc, Goto(pc), worker.pc \in AtFile,
         \/ pc \in {"rollback", "rollback.erase", "trim.mark", "kept"}
         \/ worker.left > 0 /\ pc \in {"loaded", "asr", "asr.mark", "asr.purge"}
  PROVE  WorkerOK'
<1>1. worker' = [worker EXCEPT !.pc = pc] BY DEF Goto
<1>2. worker' \in Worker BY <1>1 DEF WorkerOK, Worker
<1> QED BY <1>1, <1>2 DEF WorkerOK, Busy, Worker, AtFile

(* The part of the type invariant that is about the worker *)
LEMMA WorkerTyped ==
  ASSUME Typed, [Next]_vars
  PROVE  WorkerOK'
<1> USE DEF Works, Stopped, Bailed, End, Here
<1>0. WorkerOK /\ Fresh \subseteq Files /\ (Fresh # {} => First(Fresh) \in Fresh)
      /\ (worker.todo # {} => First(worker.todo) \in worker.todo) /\ worker.todo \subseteq Files
  BY FirstIsFile DEF Typed, TypeOK, WorkerOK
<1>1. CASE worker' = worker BY <1>0, <1>1, WorkerMoves
<1>2. CASE worker' = IdleWorker BY <1>0, <1>2, WorkerMoves
<1>3. CASE Claim
  <2>1. PICK n \in Nat : worker' = [pc |-> "list", file |-> 0, todo |-> {}, kind |-> "media", left |-> n]
    BY <1>3, CountAssumption DEF Claim, IdleWorker, NoFile
  <2>2. 0 \in 0..MaxFiles BY BoundAssumption
  <2>3. worker' \in Worker BY <2>1, <2>2 DEF Worker
  <2> QED BY <2>1, <2>3 DEF WorkerOK, Busy, AtFile
<1>4. CASE List BY <1>0, <1>4, WorkerMoves DEF List, ListByJob, WorkerOK, Worker, Busy, AtFile
<1>5. CASE DropRows
  <2>1. CASE Goto("erase") BY <1>0, <1>5, <2>1 DEF DropRows, Goto, WorkerOK, Worker, Busy, AtFile
  <2>2. CASE worker' = [worker EXCEPT !.pc = "next", !.todo = {}]
    BY <1>0, <1>5, <2>2 DEF DropRows, WorkerOK, Worker, Busy, AtFile
  <2> QED BY <1>5, <2>1, <2>2 DEF DropRows
<1>6. CASE EraseStale
  <2>1. worker.todo \ {First(worker.todo)} = {} => worker.todo = {First(worker.todo)}
    BY <1>0, <1>6 DEF EraseStale, WorkerOK
  <2>2. worker' = [worker EXCEPT !.todo = @ \ {First(worker.todo)},
                                 !.pc = IF worker.todo = {First(worker.todo)} THEN "next" ELSE @]
    BY <1>6 DEF EraseStale
  <2>3. worker.pc = "erase" BY <1>6 DEF EraseStale
  <2>4. worker' \in Worker BY <1>0, <2>2, <2>3 DEF WorkerOK, Worker
  <2> QED BY <1>0, <2>1, <2>2, <2>3, <2>4 DEF WorkerOK, Worker, Busy, AtFile
<1>7. CASE Write
  <2>1. PICK f \in Files : worker' = [worker EXCEPT !.file = f, !.pc = "loading"]
    BY <1>0, <1>7 DEF Write
  <2>2. f \in 0..MaxFiles BY BoundAssumption DEF Files
  <2>3. worker' \in Worker BY <1>0, <2>1, <2>2 DEF WorkerOK, Worker
  <2>4. worker'.pc = "loading" /\ worker'.file = f /\ worker'.left = worker.left /\ worker.left > 0
    BY <1>0, <1>7, <2>1 DEF Write, WorkerOK, Worker
  <2> QED BY <2>3, <2>4 DEF WorkerOK, Busy, AtFile
<1>8. CASE Rename BY <1>0, <1>8, GotoMoves DEF Rename, WorkerOK, Busy, AtFile
<1>9. CASE WriteFails BY <1>0, <1>2, <1>9, WorkerMoves DEF WriteFails, SkipOrStop, WorkerOK, Busy
<1>10. CASE Create BY <1>0, <1>10, WorkerMoves, GotoMoves DEF Create, WorkerOK, Busy, AtFile
<1>11. CASE CreateCancelled \/ CreateFails
  BY <1>0, <1>2, <1>11, WorkerMoves DEF CreateCancelled, CreateFails, SkipOrStop, WorkerOK, Busy
<1>12. CASE Keep
  <2>1. CASE worker' = [worker EXCEPT !.pc = "next", !.file = NoFile,
                                      !.kind = IF Segments = 0 THEN "result" ELSE "source",
                                      !.left = IF Segments = 0 THEN Results ELSE Segments]
    <3>1. 0 \in 0..MaxFiles BY BoundAssumption
    <3>2. worker' \in Worker BY <1>0, <2>1, <3>1, CountAssumption DEF WorkerOK, Worker, NoFile
    <3>3. worker'.pc = "next" BY <1>0, <2>1 DEF WorkerOK, Worker
    <3> QED BY <3>2, <3>3 DEF WorkerOK, Busy, AtFile
  <2> QED BY <1>2, <1>12, <2>1 DEF Keep
<1>13. CASE KeepFails BY <1>0, <1>13, GotoMoves DEF KeepFails, WorkerOK, Busy, AtFile
<1>14. CASE Rollback BY <1>0, <1>2, <1>14, GotoMoves DEF Rollback, WorkerOK, Busy, AtFile
<1>15. CASE SourceErase BY <1>0, <1>15, GotoMoves DEF SourceErase, WorkerOK, Busy, AtFile
<1>16. CASE SourceMark BY <1>0, <1>16, GotoMoves DEF SourceMark, WorkerOK, Busy, AtFile
<1>17. CASE SourcePurge BY <1>0, <1>17, WorkerMoves DEF SourcePurge, WorkerOK, Busy
<1>18. CASE ImagesDone
  BY <1>0, <1>18, CountAssumption DEF ImagesDone, WorkerOK, Worker, Busy, AtFile
<1>19. CASE Complete
  <2>1. ASSUME NEW f \in Files, worker' = [IdleWorker EXCEPT !.pc = "trim", !.file = f]
        PROVE  WorkerOK'
    <3>1. worker' = [pc |-> "trim", file |-> f, todo |-> {}, kind |-> "media", left |-> 0]
      BY <2>1 DEF IdleWorker
    <3>2. f \in 0..MaxFiles BY BoundAssumption DEF Files
    <3>3. worker' \in Worker BY <3>1, <3>2 DEF Worker
    <3> QED BY <3>1, <3>3 DEF WorkerOK, Busy, AtFile
  <2> QED BY <1>2, <1>19, <2>1 DEF Complete
<1>20. CASE Trim BY <1>0, <1>20, GotoMoves DEF Trim, WorkerOK, Busy, AtFile
<1> QED BY <1>1, <1>2, <1>3, <1>4, <1>5, <1>6, <1>7, <1>8, <1>9, <1>10, <1>11, <1>12, <1>13, <1>14, <1>15,
           <1>16, <1>17, <1>18, <1>19, <1>20
        DEF Next, Run, Cleanup, vars, Cancelled, RollbackErase, Break, TrimMark, CancelWaiting, Retry,
            DeleteRead, DeleteList, DeleteErase, DeleteCheck, DeleteRows, DeleteFails,
            Tick, Scan, SweepErase, SweepMark, Expire, Crash

LEMMA JobTyped ==
  ASSUME Typed, [Next]_vars
  PROVE  job' \in [plan : Plans, status : Status, run : 0..MaxRuns, cluttered : BOOLEAN]
<1> USE BoundAssumption DEF Typed, TypeOK, Status, Works, Stopped, Bailed, End
<1>1. CASE job' = job BY <1>1
<1>2. CASE Claim
  <2>1. job.run + 1 \in 0..MaxRuns BY <1>2 DEF Claim
  <2> QED BY <1>2, <2>1 DEF Claim
<1>3. CASE WriteFails BY <1>3 DEF WriteFails, SkipOrStop
<1>4. CASE Cancelled BY <1>4 DEF Cancelled
<1>5. CASE CreateCancelled \/ CreateFails BY <1>5 DEF CreateCancelled, CreateFails, SkipOrStop
<1>6. CASE Keep BY <1>6 DEF Keep
<1>7. CASE Rollback BY <1>7 DEF Rollback
<1>8. CASE RollbackErase BY <1>8 DEF RollbackErase
<1>9. CASE Complete BY <1>9 DEF Complete
<1>10. CASE Break BY <1>10 DEF Break
<1>11. CASE CancelWaiting BY <1>11 DEF CancelWaiting
<1>12. CASE Retry BY <1>12 DEF Retry
<1>13. CASE DeleteRows BY <1>13 DEF DeleteRows
<1>14. CASE Crash BY <1>14 DEF Crash
<1>15. CASE Clutter BY <1>15 DEF Clutter
<1> QED BY <1>1, <1>2, <1>3, <1>4, <1>5, <1>6, <1>7, <1>8, <1>9, <1>10, <1>11, <1>12, <1>13, <1>14, <1>15
        DEF Next, Run, Cleanup, vars, List, DropRows, EraseStale, Write, Rename, Create, KeepFails,
            SourceErase, SourceMark, SourcePurge, ImagesDone, Trim, TrimMark,
            DeleteRead, DeleteList, DeleteErase, DeleteCheck, DeleteFails,
            Tick, Scan, SweepErase, SweepMark, Expire

LEMMA FilesTyped ==
  ASSUME Typed, [Next]_vars
  PROVE  file' \in [Files -> File]
<1> USE DEF Works, Here
<1>0. /\ worker.pc \in AtFile => worker.file \in Files
      /\ worker.todo # {} => First(worker.todo) \in Files
      /\ deletion.todo # {} => First(deletion.todo) \in Files
      /\ sweep.todo # {} => First(sweep.todo) \in Files
      /\ Fresh # {} => First(Fresh) \in Files
      /\ file \in [Files -> File]
      /\ TypeOK
  BY FirstIsFile DEF Typed, Busy, TypeOK
<1>1. CASE file' = file BY <1>0, <1>1
<1>2. ASSUME NEW f \in Files, \/ file' = Erased(f) \/ MarkDeleted(f) \/ RemoveAnyway(f)
      PROVE  file' \in [Files -> File]
  BY <1>0, <1>2, FileTypes
<1>3. ASSUME NEW S, Forget(S) PROVE file' \in [Files -> File]
  BY <1>0, <1>3 DEF Forget, File
<1>4. CASE DropRows \/ SourcePurge \/ Rollback \/ DeleteRows
  BY <1>1, <1>3, <1>4 DEF DropRows, SourcePurge, Rollback, DeleteRows
<1>5. CASE EraseStale BY <1>0, <1>2, <1>5 DEF EraseStale, Typed, TypeOK
<1>6. CASE WriteFails \/ Cancelled \/ CreateCancelled \/ CreateFails \/ RollbackErase \/ SourceErase \/ SourceMark \/ Trim \/ TrimMark
  <2>1. worker.file \in Files
    BY <1>0, <1>6 DEF WriteFails, Cancelled, CreateCancelled, CreateFails, RollbackErase, SourceErase, SourceMark, Trim, TrimMark, AtFile
  <2>2. CASE file' = [file EXCEPT ![worker.file].lost = TRUE] BY <1>0, <2>1, <2>2 DEF File
  <2> QED BY <1>1, <1>2, <1>6, <2>1, <2>2
          DEF WriteFails, Cancelled, CreateCancelled, CreateFails, RollbackErase, SourceErase, SourceMark, Trim, TrimMark
<1>7. CASE Write
  <2>1. worker.kind \in {"media", "source", "result"} /\ job.run \in 0..MaxRuns
    BY <1>0 DEF TypeOK, Worker
  <2>2. [Absent EXCEPT !.kind = worker.kind, !.disk = "part", !.run = job.run] \in File
    BY <2>1, BoundAssumption DEF Absent, File
  <2> QED BY <1>0, <1>7, <2>2 DEF Write
<1>8. CASE Rename BY <1>0, <1>8 DEF Rename, File, AtFile
<1>9. CASE Create BY <1>0, <1>9 DEF Create, File, AtFile
<1>10. CASE DeleteList
  <2>1. PICK S : file' = [f \in Files |-> IF f \in S THEN [file[f] EXCEPT !.doomed = TRUE] ELSE file[f]]
    BY <1>10 DEF DeleteList
  <2> QED BY <1>0, <2>1 DEF File
<1>11. CASE DeleteErase BY <1>0, <1>2, <1>11 DEF DeleteErase, TypeOK
<1>12. CASE SweepErase BY <1>0, <1>1, <1>2, <1>12 DEF SweepErase, TypeOK
<1>13. CASE SweepMark BY <1>0, <1>1, <1>2, <1>13 DEF SweepMark, TypeOK
<1>14. ASSUME NEW f \in Files, Expire(f) PROVE file' \in [Files -> File]
  BY <1>0, <1>14 DEF Expire, File
<1> QED BY <1>1, <1>4, <1>5, <1>6, <1>7, <1>8, <1>9, <1>10, <1>11, <1>12, <1>13, <1>14
        DEF Next, Run, Cleanup, vars, Claim, List, Keep, KeepFails, ImagesDone, Complete, Break,
            CancelWaiting, Retry, DeleteRead, DeleteCheck, DeleteFails, Tick, Scan, Crash

LEMMA DeletionTyped ==
  ASSUME Typed, [Next]_vars
  PROVE  DeletionOK'
<1>0. DeletionOK /\ job.run \in 0..MaxRuns /\ NoDeletion \in Deletion
      /\ (deletion.todo # {} => First(deletion.todo) \in deletion.todo)
  BY FirstIsFile, BoundAssumption DEF Typed, TypeOK, DeletionOK, NoDeletion, Deletion
<1>1. CASE deletion' = deletion BY <1>0, <1>1 DEF DeletionOK
<1>2. CASE deletion' = NoDeletion BY <1>0, <1>2 DEF DeletionOK, NoDeletion
<1>3. CASE DeleteRead BY <1>0, <1>3 DEF DeleteRead, NoDeletion, Deletion, DeletionOK
<1>4. CASE DeleteList
  <2>1. PICK S \in {ListByJob, {}} :
          deletion' = [deletion EXCEPT !.todo = S, !.pc = IF S = {} THEN "check" ELSE "erase"]
    BY <1>4 DEF DeleteList
  <2>2. S \in SUBSET Files BY DEF ListByJob
  <2> QED BY <1>0, <2>1, <2>2 DEF Deletion, DeletionOK
<1>5. CASE DeleteErase
  <2>1. deletion.todo \ {First(deletion.todo)} = {} => deletion.todo = {First(deletion.todo)}
    BY <1>0, <1>5 DEF DeleteErase, DeletionOK
  <2> QED BY <1>0, <1>5, <2>1 DEF DeleteErase, Deletion, DeletionOK
<1>6. CASE DeleteCheck BY <1>0, <1>2, <1>6 DEF DeleteCheck, Deletion, DeletionOK
<1> QED BY <1>1, <1>2, <1>3, <1>4, <1>5, <1>6
        DEF Next, Run, Cleanup, vars, Claim, List, DropRows, EraseStale, Write, Rename, WriteFails, Cancelled,
            Create, CreateCancelled, CreateFails, Keep, KeepFails, Rollback, RollbackErase, SourceErase, SourceMark,
            SourcePurge, ImagesDone, Complete, Break, Trim, TrimMark, CancelWaiting, Retry,
            DeleteRows, DeleteFails, Tick, Scan, SweepErase, SweepMark, Expire, Crash

LEMMA SweepTyped ==
  ASSUME Typed, [Next]_vars
  PROVE  SweepOK'
<1>0. SweepOK /\ IdleSweep \in Sweep /\ (sweep.todo # {} => First(sweep.todo) \in sweep.todo)
  BY FirstIsFile DEF Typed, TypeOK, SweepOK, IdleSweep, Sweep
<1>1. CASE sweep' = sweep BY <1>0, <1>1 DEF SweepOK
<1>2. CASE sweep' = IdleSweep BY <1>0, <1>2 DEF SweepOK, IdleSweep
<1>3. CASE Tick BY <1>0, <1>3 DEF Tick, Sweep, SweepOK
<1>4. CASE Scan
  <2>1. ASSUME NEW S \in Expired, S # {},
               sweep' = [pc |-> "erase", todo |-> S, full |-> Cardinality(S) = Limit]
        PROVE  SweepOK'
    BY <2>1 DEF SweepOK, Sweep, Expired, Due
  <2> QED BY <1>2, <1>4, <2>1 DEF Scan
<1>5. ASSUME sweep.todo # {}, SweepPast(First(sweep.todo)) PROVE SweepOK'
  BY <1>0, <1>5 DEF SweepPast, IdleSweep, Sweep, SweepOK
<1>6. CASE SweepErase BY <1>0, <1>5, <1>6 DEF SweepErase, Sweep, SweepOK
<1>7. CASE SweepMark BY <1>0, <1>5, <1>7 DEF SweepMark, SweepOK
<1> QED BY <1>1, <1>2, <1>3, <1>4, <1>6, <1>7
        DEF Next, Run, Cleanup, vars, Claim, List, DropRows, EraseStale, Write, Rename, WriteFails, Cancelled,
            Create, CreateCancelled, CreateFails, Keep, KeepFails, Rollback, RollbackErase, SourceErase, SourceMark,
            SourcePurge, ImagesDone, Complete, Break, Trim, TrimMark, CancelWaiting, Retry,
            DeleteRead, DeleteList, DeleteErase, DeleteCheck, DeleteRows, DeleteFails, Expire, Crash

LEMMA TroubleTyped ==
  ASSUME Typed, [Next]_vars
  PROVE  trouble' \in 0..MaxTroubles /\ trouble <= trouble'
<1> USE BoundAssumption DEF Typed, TypeOK, Works, Fails
<1>1. CASE Works BY <1>1
<1>2. CASE Fails BY <1>2
<1> QED BY <1>1, <1>2
        DEF Next, Run, Cleanup, vars, Claim, List, DropRows, EraseStale, Write, Rename, WriteFails, Cancelled,
            Create, CreateCancelled, CreateFails, Keep, KeepFails, Rollback, RollbackErase, SourceErase, SourceMark,
            SourcePurge, ImagesDone, Complete, Break, Trim, TrimMark, CancelWaiting, Retry, RemoveAnyway,
            DeleteRead, DeleteList, DeleteErase, DeleteCheck, DeleteRows, DeleteFails,
            Tick, Scan, SweepErase, SweepMark, Expire, Crash

LEMMA TypedNext ==
  ASSUME Typed, [Next]_vars
  PROVE  Typed'
BY WorkerTyped, JobTyped, FilesTyped, DeletionTyped, SweepTyped, TroubleTyped
   DEF Typed, TypeOK, WorkerOK, DeletionOK, SweepOK

LEMMA TypedInit == Init => Typed
BY TypeInit DEF Init, Typed, Busy, AtFile, IdleWorker

(* Type correctness, for any plans, counts and bounds.                     *)
THEOREM TypeCorrect == Spec => []TypeOK
<1>1. Typed /\ [Next]_vars => Typed' BY TypedNext
<1>2. Typed => TypeOK BY DEF Typed
<1> QED BY <1>1, <1>2, TypedInit, PTL DEF Spec

-----------------------------------------------------------------------------
(* What any step does to a file *)

(* Who may remove f from disk *)
Removing(f) ==
  \/ file[f].expired \/ file[f].doomed
  \/ /\ worker' # worker
     /\ \/ f = worker.file /\ worker.pc \in {"loading", "loaded", "rollback.erase", "asr", "trim"}
        \/ f \in worker.todo /\ Here("erase")

Aged(f) ==
  /\ file'[f].kind = file[f].kind /\ file'[f].run = file[f].run
  /\ file[f].expired => file'[f].expired
  /\ file[f].doomed => file'[f].doomed
  /\ file[f].lost => file'[f].lost
  /\ file'[f].expired # file[f].expired => Live(f) /\ file[f].kind # "result"
  /\ file'[f].doomed # file[f].doomed => Live(f)
  /\ \/ file'[f].row = file[f].row
     \/ file'[f].row = "none" /\ (worker' # worker \/ job'.status = "gone")
     \/ Live(f) /\ file'[f].row = "marked" /\ (worker' # worker \/ file[f].expired)
     \/ Create /\ f = worker.file /\ file'[f].row = "live" /\ file'[f].disk = file[f].disk
  /\ \/ file'[f].disk = file[f].disk
     \/ file'[f].disk = "none" /\ Removing(f)
     \/ Rename /\ f = worker.file /\ file'[f].disk = "full"

Started(f) ==
  /\ Write /\ worker'.file = f
  /\ file'[f] = [Absent EXCEPT !.kind = worker.kind, !.disk = "part", !.run = job.run]

FilesAge ==
  \A f \in Files : IF file[f].kind = "none" THEN file'[f] = file[f] \/ Started(f) ELSE Aged(f)

Base == Typed /\ Shape

LEMMA SameAge ==
  ASSUME file \in [Files -> File], file' = file
  PROVE  FilesAge
BY DEF FilesAge, Aged, File

LEMMA EraseAge ==
  ASSUME file \in [Files -> File], NEW f \in Files, file[f].kind # "none", Removing(f),
         file' = Erased(f) \/ RemoveAnyway(f)
  PROVE  FilesAge
<1>1. CASE file' = Erased(f) BY <1>1 DEF Erased, FilesAge, Aged, File
<1> QED BY <1>1, SameAge DEF RemoveAnyway

LEMMA LoseAge ==
  ASSUME file \in [Files -> File], NEW f \in Files, file[f].kind # "none",
         file' = [file EXCEPT ![f].lost = TRUE]
  PROVE  FilesAge
BY DEF FilesAge, Aged, File

LEMMA MarkAge ==
  ASSUME file \in [Files -> File], NEW f \in Files, file[f].kind # "none", MarkDeleted(f),
         worker' # worker \/ file[f].expired
  PROVE  FilesAge
BY DEF MarkDeleted, FilesAge, Aged, File, Live

LEMMA ForgetAge ==
  ASSUME file \in [Files -> File], \A f \in Files : file[f].kind = "none" => file[f] = Absent,
         NEW S, Forget(S), worker' # worker \/ job'.status = "gone"
  PROVE  FilesAge
BY DEF Forget, FilesAge, Aged, File, Absent

(* A worker that acts goes somewhere, or has one file less to remove *)
LEMMA WorkerActs ==
  ASSUME Typed, Run
  PROVE  worker' # worker
<1>0. worker \in Worker /\ worker.todo \subseteq Files
      /\ (worker.todo # {} => First(worker.todo) \in worker.todo)
      /\ (Here("erase") => worker.todo # {})
  BY FirstIsFile DEF Typed, TypeOK, Here
<1>1. CASE EraseStale
  <2>1. worker'.todo = worker.todo \ {First(worker.todo)} BY <1>0, <1>1 DEF EraseStale, Worker
  <2> QED BY <1>0, <1>1, <2>1 DEF EraseStale
<1>2. ASSUME worker' = IdleWorker, worker.pc # "idle" PROVE worker' # worker
  BY <1>2 DEF IdleWorker
<1>3. ASSUME NEW pc, pc # worker.pc, Goto(pc) PROVE worker' # worker
  BY <1>0, <1>3 DEF Goto, Worker
<1>4. ASSUME Advance, worker.pc # "next" PROVE worker' # worker
  BY <1>0, <1>4 DEF Advance, Worker
<1>5. CASE Claim \/ List \/ DropRows \/ Write \/ ImagesDone
  BY <1>0, <1>5 DEF Claim, List, DropRows, Write, ImagesDone, Goto, Worker, IdleWorker, Here
<1>6. CASE WriteFails \/ CreateCancelled \/ CreateFails
  BY <1>2, <1>4, <1>6 DEF WriteFails, CreateCancelled, CreateFails, SkipOrStop, Stopped, Bailed, End, Here
<1>7. CASE Create BY <1>3, <1>4, <1>7 DEF Create, Here
<1>8. CASE Keep
  BY <1>0, <1>2, <1>8 DEF Keep, End, Here, Worker
<1>9. CASE Complete
  BY <1>0, <1>2, <1>9 DEF Complete, Here, Worker, IdleWorker
<1>10. CASE Rename \/ KeepFails \/ SourceErase \/ SourceMark \/ Trim
  BY <1>3, <1>10 DEF Rename, KeepFails, SourceErase, SourceMark, Trim, Here
<1>11. CASE Cancelled \/ Rollback \/ RollbackErase \/ SourcePurge \/ Break \/ TrimMark
  BY <1>2, <1>3, <1>4, <1>11 DEF Cancelled, Rollback, RollbackErase, SourcePurge, Break, TrimMark, Bailed, End, Here
<1> QED BY <1>1, <1>5, <1>6, <1>7, <1>8, <1>9, <1>10, <1>11 DEF Run

LEMMA EveryFileAges ==
  ASSUME Base, [Next]_vars
  PROVE  FilesAge
<1> USE DEF Works, Here
<1>a. Run => worker' # worker BY WorkerActs DEF Base
<1>0. /\ worker.pc \in AtFile => worker.file \in Files /\ file[worker.file].kind # "none"
      /\ worker.todo # {} => First(worker.todo) \in worker.todo
      /\ deletion.todo # {} => First(deletion.todo) \in deletion.todo
      /\ sweep.todo # {} => First(sweep.todo) \in sweep.todo
      /\ worker.todo \subseteq Files /\ deletion.todo \subseteq Files /\ sweep.todo \subseteq Files
      /\ Fresh # {} => First(Fresh) \in Files /\ file[First(Fresh)].kind = "none"
      /\ file \in [Files -> File]
      /\ \A f \in Files : file[f].kind = "none" => file[f] = Absent
      /\ TypeOK /\ Batches
  BY FirstIsFile DEF Base, Typed, TypeOK, Shape, WorkerAtFile, Rows, Fresh
<1>1. CASE file' = file BY <1>0, <1>1, SameAge
<1>2. CASE DropRows \/ SourcePurge \/ Rollback \/ DeleteRows
  <2>1. worker' # worker \/ job'.status = "gone"
    <3>1. DeleteRows => job'.status = "gone" BY <1>0 DEF DeleteRows, TypeOK
    <3> QED BY <1>a, <1>2, <3>1 DEF Run
  <2> QED BY <1>0, <1>1, <1>2, <2>1, ForgetAge DEF DropRows, SourcePurge, Rollback, DeleteRows
<1>3. CASE EraseStale
  <2>1. worker' # worker BY <1>a, <1>3 DEF Run
  <2> QED BY <1>0, <1>3, <2>1, EraseAge DEF EraseStale, TypeOK, Batches, Removing
<1>4. CASE WriteFails \/ Cancelled \/ CreateCancelled \/ CreateFails \/ RollbackErase \/ SourceErase \/ Trim
  <2>1. worker.pc \in {"loading", "loaded", "rollback.erase", "asr", "trim"}
    BY <1>4 DEF WriteFails, Cancelled, CreateCancelled, CreateFails, RollbackErase, SourceErase, Trim
  <2>2. worker.file \in Files /\ file[worker.file].kind # "none" /\ Removing(worker.file)
    BY <1>0, <1>a, <1>4, <2>1 DEF AtFile, Removing, Run
  <2>3. CASE file' = [file EXCEPT ![worker.file].lost = TRUE] BY <1>0, <2>2, <2>3, LoseAge
  <2> QED BY <1>0, <1>1, <1>4, <2>2, <2>3, EraseAge DEF WriteFails, Cancelled, CreateCancelled, CreateFails, RollbackErase, SourceErase, Trim
<1>5. CASE SourceMark \/ TrimMark
  BY <1>0, <1>a, <1>1, <1>5, MarkAge DEF SourceMark, TrimMark, AtFile, Run
<1>6. CASE Write
  <2>1. worker' = [worker EXCEPT !.file = First(Fresh), !.pc = "loading"] /\ Fresh # {}
    BY <1>6 DEF Write
  <2>2. worker'.file = First(Fresh) BY <1>0, <2>1 DEF TypeOK, Worker
  <2>3. file' = [file EXCEPT ![First(Fresh)] =
                   [Absent EXCEPT !.kind = worker.kind, !.disk = "part", !.run = job.run]]
    BY <1>6 DEF Write
  <2>4. ASSUME NEW f \in Files, f # First(Fresh) PROVE file'[f] = file[f]
    BY <1>0, <2>3, <2>4
  <2>5. Started(First(Fresh)) BY <1>0, <1>6, <2>1, <2>2, <2>3 DEF Started
  <2> QED BY <1>0, <2>1, <2>4, <2>5 DEF FilesAge, Aged, File
<1>7. CASE Rename BY <1>0, <1>7 DEF Rename, FilesAge, Aged, File, AtFile
<1>8. CASE Create BY <1>0, <1>8 DEF Create, FilesAge, Aged, File, AtFile
<1>9. CASE DeleteList
  <2>1. PICK S \in {ListByJob, {}} :
          file' = [f \in Files |-> IF f \in S THEN [file[f] EXCEPT !.doomed = TRUE] ELSE file[f]]
    BY <1>9 DEF DeleteList
  <2>2. \A f \in S : Live(f) BY DEF ListByJob
  <2>3. ASSUME NEW f \in Files, file[f].kind = "none" PROVE file'[f] = file[f]
    <3>1. ~Live(f) BY <1>0, <2>3 DEF Live, Absent
    <3> QED BY <1>0, <2>1, <2>2, <3>1
  <2>4. ASSUME NEW f \in Files PROVE Aged(f)
    <3>1. file[f] \in File BY <1>0
    <3>2. CASE f \in S
      <4>1. file'[f] = [file[f] EXCEPT !.doomed = TRUE] BY <2>1, <3>2
      <4> QED BY <2>2, <3>1, <3>2, <4>1 DEF Aged, File
    <3>3. CASE f \notin S
      <4>1. file'[f] = file[f] BY <2>1, <3>3
      <4> QED BY <3>1, <4>1 DEF Aged, File
    <3> QED BY <3>2, <3>3
  <2> QED BY <2>3, <2>4 DEF FilesAge
<1>10. CASE DeleteErase
  BY <1>0, <1>10, EraseAge DEF DeleteErase, TypeOK, Batches, Removing
<1>11. CASE SweepErase
  BY <1>0, <1>1, <1>11, EraseAge DEF SweepErase, TypeOK, Batches, Removing
<1>12. CASE SweepMark
  BY <1>0, <1>1, <1>12, MarkAge DEF SweepMark, TypeOK, Batches
<1>13. ASSUME NEW f \in Files, Expire(f) PROVE FilesAge
  <2>1. file[f].kind # "none" BY <1>0, <1>13 DEF Expire, Live, Absent
  <2>2. file' = [file EXCEPT ![f].expired = TRUE] /\ Live(f) /\ file[f].kind # "result" BY <1>13 DEF Expire
  <2>3. ASSUME NEW g \in Files, g # f PROVE file'[g] = file[g] BY <1>0, <2>2, <2>3
  <2>4. \A g \in Files : g # f => Aged(g) BY <1>0, <2>3 DEF Aged, File
  <2>5. file[f] \in File /\ file'[f] = [file[f] EXCEPT !.expired = TRUE] BY <1>0, <2>2
  <2>6. /\ file'[f].expired = TRUE /\ file'[f].doomed = file[f].doomed /\ file'[f].disk = file[f].disk
        /\ file'[f].kind = file[f].kind /\ file'[f].run = file[f].run /\ file'[f].row = file[f].row
        /\ file'[f].lost = file[f].lost
    BY <2>5 DEF File
  <2>7. Aged(f) BY <2>2, <2>6 DEF Aged
  <2> QED BY <2>1, <2>3, <2>4, <2>7 DEF FilesAge
<1> QED BY <1>1, <1>2, <1>3, <1>4, <1>5, <1>6, <1>7, <1>8, <1>9, <1>10, <1>11, <1>12, <1>13
        DEF Next, Run, Cleanup, vars, Claim, List, Keep, KeepFails, ImagesDone, Complete, Break,
            CancelWaiting, Retry, DeleteRead, DeleteCheck, DeleteFails, Tick, Scan, Crash

(* What any step does to the job *)
LEMMA JobAges ==
  ASSUME Base, [Next]_vars
  PROVE  /\ job'.plan = job.plan /\ job.run <= job'.run
         /\ job.status = "gone" => job'.status = "gone"
         /\ job.status = "completed" => job'.status \in {"completed", "gone"}
         /\ job'.status = "gone" => job.status = "gone" \/ DeleteRows
         /\ ~Run => job'.run = job.run
         /\ ~Claim => job'.run = job.run /\ (job.cluttered => job'.cluttered)
         /\ ~Run /\ worker' = worker =>
              \/ job'.status \in {job.status, "gone"}
              \/ job.status \in {"waiting", "ended"}
              \/ Here("idle")
<1>0. job \in [plan : Plans, status : Status, run : 0..MaxRuns, cluttered : BOOLEAN] BY DEF Base, Typed, TypeOK
<1> USE <1>0 DEF Works, Stopped, Bailed, End, Finished
<1>1. CASE job' = job BY <1>1
<1>2. CASE Claim BY <1>2 DEF Claim, Run
<1>3. CASE WriteFails BY <1>3 DEF WriteFails, SkipOrStop, Run
<1>4. CASE Cancelled BY <1>4 DEF Cancelled, Run
<1>5. CASE CreateCancelled \/ CreateFails BY <1>5 DEF CreateCancelled, CreateFails, SkipOrStop, Run
<1>6. CASE Keep BY <1>6 DEF Keep, Run
<1>7. CASE Rollback BY <1>7 DEF Rollback, Run
<1>8. CASE RollbackErase BY <1>8 DEF RollbackErase, Run
<1>9. CASE Complete
  <2>1. Run /\ job.status = "running" /\ job' = [job EXCEPT !.status = "completed"] BY <1>9 DEF Complete, Run
  <2> QED BY <2>1
<1>10. CASE Break BY <1>10 DEF Break, Run
<1>11. CASE CancelWaiting BY <1>11 DEF CancelWaiting
<1>12. CASE Retry BY <1>12 DEF Retry
<1>13. CASE DeleteRows BY <1>13 DEF DeleteRows
<1>14. CASE Crash BY <1>14 DEF Crash, Here, IdleWorker
<1>15. CASE (List \/ DropRows) /\ Clutter BY <1>15 DEF Clutter, Run
<1> QED BY <1>1, <1>2, <1>3, <1>4, <1>5, <1>6, <1>7, <1>8, <1>9, <1>10, <1>11, <1>12, <1>13, <1>14, <1>15
        DEF Next, Run, Cleanup, vars, List, DropRows, EraseStale, Write, Rename, Create, KeepFails,
            SourceErase, SourceMark, SourcePurge, ImagesDone, Trim, TrimMark,
            DeleteRead, DeleteList, DeleteErase, DeleteCheck, DeleteFails,
            Tick, Scan, SweepErase, SweepMark, Expire

(* The files of the table keep their shape *)
LEMMA RowsNext ==
  ASSUME Base, [Next]_vars
  PROVE  Rows'
<1>0. FilesAge /\ Rows /\ file \in [Files -> File] /\ file' \in [Files -> File]
      /\ job.run \in Nat /\ job'.run \in Nat
  BY EveryFileAges, FilesTyped, JobTyped, BoundAssumption DEF Base, Shape, Typed, TypeOK
<1>1. ASSUME NEW f \in Files, file'[f].kind = "none" PROVE file'[f] = Absent'
  <2>1. Started(f) => file'[f].kind # "none"
    BY DEF Started, Base, Typed, TypeOK, Worker, Absent
  <2>2. file[f].kind = "none" /\ file'[f] = file[f] BY <1>0, <1>1, <2>1 DEF FilesAge, Aged
  <2> QED BY <1>0, <2>2 DEF Rows, Absent
<1>2. ASSUME NEW f \in Files, file'[f].expired PROVE file'[f].kind # "result"
  <2>1. Started(f) => ~file'[f].expired BY DEF Started, Absent
  <2>2. CASE file[f].kind = "none" BY <1>0, <1>2, <2>1, <2>2 DEF FilesAge
  <2>3. CASE file[f].kind # "none" BY <1>0, <1>2, <2>3 DEF FilesAge, Aged, Rows
  <2> QED BY <2>2, <2>3
<1>3. ASSUME NEW f \in Files PROVE file'[f].run <= job'.run
  <2>1. file'[f].run \in {file[f].run, job.run}
    BY <1>0 DEF FilesAge, Aged, Started, Absent
  <2>2. file[f].run \in Nat /\ file[f].run <= job.run BY <1>0 DEF File, Rows
  <2> QED BY <1>0, <2>1, <2>2, JobAges
<1>4. ASSUME job'.status = "gone", NEW f \in Files PROVE file'[f].row = "none"
  <2>1. CASE DeleteRows BY <1>0, <2>1 DEF DeleteRows, Forget, File
  <2>2. CASE job.status = "gone"
    <3>1. file[f].row = "none" /\ ~Create BY <1>0, <2>2 DEF Rows, Create
    <3>2. Started(f) => file'[f].row = "none" BY DEF Started, Absent
    <3> QED BY <1>0, <3>1, <3>2 DEF FilesAge, Aged, Live
  <2> QED BY <1>4, <2>1, <2>2, JobAges
<1> QED BY <1>1, <1>2, <1>3, <1>4 DEF Rows

(* What is known of a file that somebody is at stays known *)
LEMMA Kinds ==
  ASSUME Base, [Next]_vars, NEW f \in Files, file[f].kind # "none"
  PROVE  /\ file'[f].kind = file[f].kind
         /\ file[f].expired => file'[f].expired
         /\ file[f].doomed => file'[f].doomed
         /\ file[f].row = "none" /\ ~Create => file'[f].row = "none"
BY EveryFileAges DEF FilesAge, Aged, Live

(* The files that a worker has still to remove *)
LEMMA StaleFiles ==
  ASSUME Typed, [Next]_vars
  PROVE  \/ worker'.todo = {}
         \/ List \/ DropRows
         \/ worker'.todo \subseteq worker.todo /\ (worker'.pc = "erase" => Here("erase") /\ ~Create)
<1>0. worker \in Worker BY DEF Typed, TypeOK
<1> DEFINE G == worker'.todo \subseteq worker.todo /\ (worker'.pc = "erase" => Here("erase") /\ ~Create)
<1>1. worker' = IdleWorker => worker'.todo = {} BY DEF IdleWorker
<1>2. worker' = worker => G BY DEF Here, Create
<1>3. ASSUME NEW pc, pc # "erase", Goto(pc) PROVE G BY <1>0, <1>3 DEF Goto, Worker
<1>4. Advance => G BY <1>0 DEF Advance, Worker
<1>5. CASE Claim BY <1>5 DEF Claim, IdleWorker
<1>6. CASE EraseStale BY <1>0, <1>6 DEF EraseStale, Here, Create, Worker
<1>7. CASE Write \/ ImagesDone
  <2>1. worker'.todo = worker.todo /\ worker'.pc \in {"loading", "next"}
    BY <1>0, <1>7 DEF Write, ImagesDone, Worker, Here
  <2> QED BY <2>1
<1>8. CASE Keep BY <1>0, <1>1, <1>8 DEF Keep, End, Worker
<1>9. CASE Complete BY <1>1, <1>9 DEF Complete, IdleWorker
<1>10. CASE WriteFails \/ CreateCancelled \/ CreateFails
  BY <1>1, <1>4, <1>10 DEF WriteFails, CreateCancelled, CreateFails, SkipOrStop, Stopped, Bailed, End
<1>11. CASE Create BY <1>3, <1>4, <1>11 DEF Create
<1>12. CASE Rename \/ KeepFails \/ SourceErase \/ SourceMark \/ Trim
  BY <1>3, <1>12 DEF Rename, KeepFails, SourceErase, SourceMark, Trim
<1>13. CASE Cancelled \/ Rollback \/ RollbackErase \/ SourcePurge \/ Break \/ TrimMark
  BY <1>1, <1>3, <1>4, <1>13 DEF Cancelled, Rollback, RollbackErase, SourcePurge, Break, TrimMark, Bailed, End
<1> QED BY <1>1, <1>2, <1>5, <1>6, <1>7, <1>8, <1>9, <1>10, <1>11, <1>12, <1>13
        DEF Next, Run, Cleanup, vars, CancelWaiting, Retry,
            DeleteRead, DeleteList, DeleteErase, DeleteCheck, DeleteRows, DeleteFails,
            Tick, Scan, SweepErase, SweepMark, Expire, Crash

LEMMA BatchesNext ==
  ASSUME Base, [Next]_vars
  PROVE  Batches'
<1>0. /\ Typed /\ Batches /\ Rows
      /\ worker.todo \subseteq Files /\ deletion.todo \subseteq Files /\ sweep.todo \subseteq Files
      /\ file \in [Files -> File]
      /\ \A f \in Files : Live(f) => file[f].kind # "none"
  BY FirstIsFile DEF Base, Shape, Typed, TypeOK, Rows, Live, Absent
<1>1. \A f \in worker'.todo : file'[f].kind # "none" /\ (worker'.pc = "erase" => file'[f].row = "none")
  <2>1. CASE worker'.todo = {} BY <2>1
  <2>2. CASE worker'.todo \subseteq worker.todo /\ (worker'.pc = "erase" => Here("erase") /\ ~Create)
    BY <1>0, <2>2, Kinds DEF Batches
  <2>3. CASE List
    BY <1>0, <2>1, <2>3 DEF List, ListByJob, Typed, TypeOK, Worker, Goto, Here, Batches
  <2>4. CASE DropRows
    <3>1. worker'.todo \subseteq worker.todo BY <1>0, <2>4 DEF DropRows, Goto, Typed, TypeOK, Worker
    <3>2. CASE worker'.pc = "erase"
      <4>1. Forget(Files) BY <1>0, <2>4, <3>2 DEF DropRows, Typed, TypeOK, Worker, Here
      <4> QED BY <1>0, <3>1, <4>1, Kinds DEF Batches, Forget, File
    <3>3. CASE worker'.pc # "erase"
      BY <1>0, <3>1, <3>3, Kinds DEF Batches
    <3> QED BY <3>2, <3>3
  <2> QED BY <1>0, <2>1, <2>2, <2>3, <2>4, StaleFiles
<1>2. \A f \in deletion'.todo : file'[f].kind # "none" /\ file'[f].doomed
  <2>1. CASE deletion'.todo \subseteq deletion.todo BY <1>0, <2>1, Kinds DEF Batches
  <2>2. CASE DeleteList
    <3>1. PICK S \in {ListByJob, {}} :
            /\ deletion' = [deletion EXCEPT !.todo = S, !.pc = IF S = {} THEN "check" ELSE "erase"]
            /\ file' = [f \in Files |-> IF f \in S THEN [file[f] EXCEPT !.doomed = TRUE] ELSE file[f]]
      BY <2>2 DEF DeleteList
    <3>2. deletion'.todo = S BY <1>0, <3>1 DEF Typed, TypeOK, Deletion
    <3>3. S \subseteq Files /\ \A f \in S : Live(f) BY DEF ListByJob
    <3> QED BY <1>0, <3>1, <3>2, <3>3, Kinds DEF File
  <2>3. CASE DeleteErase \/ DeleteCheck \/ DeleteFails \/ DeleteRows \/ DeleteRead \/ Crash
    <3>1. deletion \in Deletion BY <1>0 DEF Typed, TypeOK
    <3>2. CASE DeleteErase BY <3>1, <3>2, <2>1 DEF DeleteErase, Deletion
    <3>3. CASE DeleteCheck BY <3>1, <3>3, <2>1 DEF DeleteCheck, NoDeletion, Deletion
    <3>4. CASE DeleteFails \/ DeleteRows \/ DeleteRead \/ Crash
      <4>1. deletion' = NoDeletion => deletion'.todo = {} BY DEF NoDeletion
      <4>2. DeleteRead => deletion'.todo = {} BY DEF DeleteRead, NoDeletion
      <4> QED BY <3>4, <4>1, <4>2 DEF DeleteFails, DeleteRows, Crash
    <3> QED BY <2>3, <3>2, <3>3, <3>4
  <2> QED BY <2>1, <2>2, <2>3
          DEF Next, Run, Cleanup, vars, Claim, List, DropRows, EraseStale, Write, Rename, WriteFails, Cancelled,
              Create, CreateCancelled, CreateFails, Keep, KeepFails, Rollback, RollbackErase, SourceErase, SourceMark,
              SourcePurge, ImagesDone, Complete, Break, Trim, TrimMark, CancelWaiting, Retry,
              Tick, Scan, SweepErase, SweepMark, Expire
<1>3. \A f \in sweep'.todo : file'[f].kind # "none" /\ file'[f].expired
  <2>1. CASE sweep'.todo \subseteq sweep.todo BY <1>0, <2>1, Kinds DEF Batches
  <2>2. CASE Scan
    <3>1. sweep'.todo = {} \/ sweep'.todo \in Expired BY <2>2 DEF Scan, IdleSweep
    <3>2. sweep'.todo \subseteq Due BY <3>1 DEF Expired
    <3>3. Due \subseteq Files /\ \A f \in Due : Live(f) /\ file[f].expired BY DEF Due
    <3> QED BY <1>0, <3>2, <3>3, Kinds
  <2>3. CASE Tick \/ SweepErase \/ SweepMark \/ Crash
    <3>1. sweep \in Sweep BY <1>0 DEF Typed, TypeOK
    <3>2. ASSUME NEW f, SweepPast(f) PROVE sweep'.todo \subseteq sweep.todo
      BY <3>1, <3>2 DEF SweepPast, IdleSweep, Sweep
    <3>3. sweep' = IdleSweep => sweep'.todo = {} BY DEF IdleSweep
    <3>4. CASE Tick BY <2>1, <3>1, <3>4 DEF Tick, Sweep
    <3>5. CASE SweepErase BY <2>1, <3>1, <3>2, <3>5 DEF SweepErase, Sweep
    <3>6. CASE SweepMark BY <2>1, <3>2, <3>6 DEF SweepMark
    <3>7. CASE Crash BY <3>3, <3>7 DEF Crash
    <3> QED BY <2>3, <3>4, <3>5, <3>6, <3>7
  <2> QED BY <2>1, <2>2, <2>3
          DEF Next, Run, Cleanup, vars, Claim, List, DropRows, EraseStale, Write, Rename, WriteFails, Cancelled,
              Create, CreateCancelled, CreateFails, Keep, KeepFails, Rollback, RollbackErase, SourceErase, SourceMark,
              SourcePurge, ImagesDone, Complete, Break, Trim, TrimMark, CancelWaiting, Retry,
              DeleteRead, DeleteList, DeleteErase, DeleteCheck, DeleteRows, DeleteFails, Expire
<1> QED BY <1>1, <1>2, <1>3 DEF Batches, Here

LEMMA RunningNext ==
  ASSUME Base, [Next]_vars
  PROVE  Running'
<1>0. /\ worker \in Worker /\ job \in [plan : Plans, status : Status, run : 0..MaxRuns, cluttered : BOOLEAN]
      /\ Running
  BY DEF Base, Shape, Typed, TypeOK
<1>1. worker' = IdleWorker => Running' BY DEF Running, Done, IdleWorker
<1>2. CASE ~Run
  <2>1. worker' = worker \/ worker' = IdleWorker
    BY <1>2 DEF Next, Cleanup, vars, CancelWaiting, Retry,
            DeleteRead, DeleteList, DeleteErase, DeleteCheck, DeleteRows, DeleteFails,
            Tick, Scan, SweepErase, SweepMark, Expire, Crash
  <2> QED BY <1>0, <1>1, <1>2, <2>1, JobAges DEF Running, Done, Here
<1>a. Clutter => job'.status = job.status BY <1>0 DEF Clutter
<1>3. CASE worker.pc \notin Done /\ job'.status = job.status BY <1>0, <1>3 DEF Running
<1>4. CASE Claim BY <1>0, <1>4 DEF Claim, Running
<1>5. CASE Complete BY <1>1, <1>5 DEF Complete, Running, Done, IdleWorker
<1>6. CASE Trim BY <1>0, <1>6 DEF Trim, Goto, Running, Done, Worker
<1>7. CASE TrimMark BY <1>1, <1>7 DEF TrimMark
<1> QED BY <1>1, <1>2, <1>a, <1>3, <1>4, <1>5, <1>6, <1>7
        DEF Run, List, DropRows, EraseStale, Write, Rename, WriteFails, Cancelled,
            Create, CreateCancelled, CreateFails, Keep, KeepFails, Rollback, RollbackErase, SourceErase, SourceMark,
            SourcePurge, ImagesDone, Break, Done, Here, End, Stopped, Bailed, SkipOrStop

(* What the worker knows of its file survives what the others do *)
LEMMA WorkerWaits ==
  ASSUME Base, [Next]_vars, ~Run, worker' = worker
  PROVE  WorkerAtFile'
<1>0. WorkerAtFile /\ ~Create /\ ~Rename /\ IsNote' = IsNote
  BY JobAges DEF Base, Shape, Run, IsNote
<1>1. CASE worker.pc \notin AtFile BY <1>1 DEF WorkerAtFile, AtFile, Here
<1>2. CASE worker.pc \in AtFile
  <2> DEFINE f == worker.file
  <2>1. f \in Files /\ file[f].kind # "none" BY <1>0, <1>2 DEF WorkerAtFile
  <2>2. /\ file'[f].kind = file[f].kind /\ file'[f].run = file[f].run
        /\ file[f].expired => file'[f].expired
        /\ file[f].doomed => file'[f].doomed
        /\ ~Live(f) => file'[f].expired = file[f].expired /\ file'[f].doomed = file[f].doomed
        /\ \/ file'[f].row = file[f].row
           \/ file'[f].row = "none" /\ job'.status = "gone"
           \/ Live(f) /\ file'[f].row = "marked" /\ file[f].expired
        /\ file'[f].disk = file[f].disk \/ file[f].expired \/ file[f].doomed
    BY <1>0, <2>1, EveryFileAges DEF FilesAge, Aged, Removing, Started, Run
  <2>3. /\ job'.run = job.run
        /\ job.status = "gone" => job'.status = "gone"
        /\ job.status = "completed" => job'.status \in {"completed", "gone"}
        /\ job'.plan = job.plan
    BY JobAges
  <2>4. CASE worker.pc \in {"loading", "loaded"}
    <3>1. ~Live(f) /\ ~file[f].expired /\ ~file[f].doomed /\ file[f].row = "none"
      BY <1>0, <2>4 DEF WorkerAtFile, New, Here, Live
    <3> QED BY <1>0, <2>1, <2>2, <2>3, <2>4, <3>1 DEF WorkerAtFile, New, Here
  <2>5. CASE worker.pc \in {"asr", "asr.mark", "asr.purge"}
    BY <1>0, <2>1, <2>2, <2>3, <2>5 DEF WorkerAtFile, Here, Live, Written
  <2>6. CASE worker.pc \in {"kept", "rollback", "rollback.erase", "trim", "trim.mark"}
    BY <1>0, <2>1, <2>2, <2>3, <2>6 DEF WorkerAtFile, Here, Live
  <2> QED BY <1>2, <2>4, <2>5, <2>6 DEF AtFile
<1> QED BY <1>1, <1>2

LEMMA WorkerAtFileNext ==
  ASSUME Base, [Next]_vars
  PROVE  WorkerAtFile'
<1>0. /\ WorkerAtFile /\ worker \in Worker /\ IsNote' = IsNote /\ file \in [Files -> File] /\ Busy
      /\ Fresh # {} => First(Fresh) \in Files
      /\ job \in [plan : Plans, status : Status, run : 0..MaxRuns, cluttered : BOOLEAN]
  BY JobAges, FirstIsFile DEF Base, Shape, IsNote, Typed, TypeOK
<1>1. ASSUME worker'.pc \notin AtFile PROVE WorkerAtFile' BY <1>1 DEF WorkerAtFile, AtFile, Here
<1>2. worker' = IdleWorker => WorkerAtFile' BY <1>1 DEF IdleWorker, AtFile
<1>3. Advance \/ Goto("next") => WorkerAtFile' BY <1>0, <1>1 DEF Advance, Goto, Worker, AtFile
<1>4. CASE ~Run
  <2>1. worker' = worker \/ worker' = IdleWorker
    BY <1>4 DEF Next, Cleanup, vars, CancelWaiting, Retry,
            DeleteRead, DeleteList, DeleteErase, DeleteCheck, DeleteRows, DeleteFails,
            Tick, Scan, SweepErase, SweepMark, Expire, Crash
  <2> QED BY <1>2, <1>4, <2>1, WorkerWaits
<1>5. CASE Claim BY <1>1, <1>5 DEF Claim, IdleWorker, AtFile
<1>6. CASE List \/ DropRows \/ EraseStale
  <2>1. worker'.pc \in {"next", "drop", "erase"}
    BY <1>0, <1>6 DEF List, DropRows, EraseStale, Goto, Worker, Here
  <2> QED BY <1>1, <2>1 DEF AtFile
<1>7. CASE Write
  <2> DEFINE f == First(Fresh)
  <2>1. /\ file' = [file EXCEPT ![f] = [Absent EXCEPT !.kind = worker.kind, !.disk = "part", !.run = job.run]]
        /\ worker' = [worker EXCEPT !.file = f, !.pc = "loading"]
        /\ worker.left > 0 /\ job' = job /\ f \in Files
    BY <1>0, <1>7 DEF Write
  <2>2. worker'.pc = "loading" /\ worker'.file = f /\ worker'.kind = worker.kind /\ worker'.left = worker.left
    BY <1>0, <2>1 DEF Worker
  <2>3. file'[f] = [Absent EXCEPT !.kind = worker.kind, !.disk = "part", !.run = job.run]
    BY <1>0, <2>1
  <2>4. worker.kind # "none" BY <1>0 DEF Worker
  <2>5. /\ file'[f].kind = worker.kind /\ file'[f].disk = "part" /\ file'[f].row = "none"
        /\ file'[f].expired = FALSE /\ file'[f].doomed = FALSE /\ file'[f].run = job.run
    BY <2>3 DEF Absent
  <2>6. worker'.left > 0 BY <2>1, <2>2
  <2>7. New(worker.file, "part")' BY <2>1, <2>2, <2>5 DEF New
  <2> QED BY <2>1, <2>2, <2>4, <2>5, <2>6, <2>7 DEF WorkerAtFile, Here
<1>8. CASE Rename
  <2>1. file' = [file EXCEPT ![worker.file].disk = "full"] /\ job' = job
        /\ worker' = [worker EXCEPT !.pc = "loaded"] /\ Here("loading")
    BY <1>8 DEF Rename, Goto
  <2>2. worker'.pc = "loaded" /\ worker'.file = worker.file /\ worker'.kind = worker.kind /\ worker'.left = worker.left
    BY <1>0, <2>1 DEF Worker
  <2>3. worker.file \in Files /\ file[worker.file].kind # "none" /\ New(worker.file, "part") /\ worker.left > 0
    BY <1>0, <2>1 DEF WorkerAtFile, Here, AtFile
  <2>4. file'[worker.file] = [file[worker.file] EXCEPT !.disk = "full"] BY <1>0, <2>1, <2>3
  <2>5. file[worker.file] \in File BY <1>0, <2>3
  <2> QED BY <2>1, <2>2, <2>3, <2>4, <2>5 DEF WorkerAtFile, New, Here, File
<1>9. CASE WriteFails \/ CreateCancelled \/ CreateFails
  BY <1>2, <1>3, <1>9 DEF WriteFails, CreateCancelled, CreateFails, SkipOrStop, Stopped, Bailed, End
<1>10. CASE Create
  <2>1. /\ file' = [file EXCEPT ![worker.file].row = "live"] /\ job' = job /\ Here("loaded")
        /\ job.status # "gone"
    BY <1>10 DEF Create
  <2>2. worker.file \in Files /\ file[worker.file].kind # "none" /\ New(worker.file, "full") /\ worker.left > 0
    BY <1>0, <2>1 DEF WorkerAtFile, Here, AtFile
  <2>3. file[worker.file] \in File /\ file'[worker.file] = [file[worker.file] EXCEPT !.row = "live"]
    BY <1>0, <2>1, <2>2
  <2>4. file'[worker.file].kind = worker.kind /\ file'[worker.file].row = "live" /\ file'[worker.file].disk = "full"
    BY <2>2, <2>3 DEF New, File
  <2>5. CASE Goto("asr") /\ worker.kind = "source"
    <3>1. worker'.pc = "asr" /\ worker'.file = worker.file /\ worker'.kind = worker.kind /\ worker'.left = worker.left
      BY <1>0, <2>5 DEF Goto, Worker
    <3> QED BY <2>2, <2>4, <2>5, <3>1 DEF WorkerAtFile, Here, Live, Written
  <2>6. CASE Goto("kept") /\ worker.kind = "media" /\ ~IsNote
    <3>1. worker'.pc = "kept" /\ worker'.file = worker.file /\ worker'.kind = worker.kind
      BY <1>0, <2>6 DEF Goto, Worker
    <3> QED BY <1>0, <2>2, <2>4, <2>6, <3>1 DEF WorkerAtFile, Here
  <2> QED BY <1>3, <1>10, <2>5, <2>6 DEF Create
<1>11. CASE Keep
  <2>1. worker' = IdleWorker \/ worker'.pc = "next" BY <1>0, <1>11 DEF Keep, End, Worker
  <2> QED BY <1>1, <1>2, <2>1 DEF AtFile
<1>12. CASE KeepFails \/ Rollback \/ SourceErase \/ SourceMark \/ Trim
  <2> DEFINE f == worker.file
  <2>1. f \in Files /\ file[f].kind # "none" /\ ~Create
    BY <1>0, <1>12 DEF WorkerAtFile, Here, AtFile, KeepFails, Rollback, SourceErase, SourceMark, Trim, Create
  <2>2. file'[f].kind = file[f].kind BY <2>1, Kinds
  <2>3. CASE KeepFails \/ Rollback
    <3>1. worker' = IdleWorker
          \/ worker'.pc = "rollback" \/ (worker'.pc = "rollback.erase" /\ Forget({f}))
      BY <1>0, <2>3 DEF KeepFails, Rollback, Goto, Bailed, End, Worker
    <3>2. worker' = IdleWorker \/ (worker'.file = f /\ worker'.kind = worker.kind)
      BY <1>0, <2>3 DEF KeepFails, Rollback, Goto, Bailed, End, Worker
    <3>3. file[f].kind = "media" /\ worker.kind = "media" /\ ~IsNote
      BY <1>0, <2>3 DEF KeepFails, Rollback, WorkerAtFile, Here
    <3>4. Forget({f}) => file'[f].row = "none" BY <1>0, <2>1 DEF Forget, File
    <3> QED BY <1>0, <1>2, <2>1, <2>2, <3>1, <3>2, <3>3, <3>4 DEF WorkerAtFile, Here
  <2>4. CASE SourceErase \/ SourceMark
    <3>1. worker'.pc \in {"asr.mark", "asr.purge"} /\ worker'.file = f /\ worker'.kind = worker.kind
          /\ worker'.left = worker.left
      BY <1>0, <2>4 DEF SourceErase, SourceMark, Goto, Worker
    <3>2. file[f].kind = "source" /\ worker.kind = "source" /\ worker.left > 0
      BY <1>0, <2>4 DEF SourceErase, SourceMark, WorkerAtFile, Here
    <3> QED BY <2>1, <2>2, <3>1, <3>2 DEF WorkerAtFile, Here
  <2>5. CASE Trim
    <3>1. worker'.pc = "trim.mark" /\ worker'.file = f /\ job' = job
      BY <1>0, <2>5 DEF Trim, Goto, Worker
    <3> QED BY <1>0, <2>1, <2>2, <2>5, <3>1 DEF WorkerAtFile, Here, Trim
  <2> QED BY <1>12, <2>3, <2>4, <2>5
<1>13. CASE Complete
  <2>1. ASSUME job.plan = "transcribe", NEW f \in Files, file[f].kind = "media",
               worker' = [IdleWorker EXCEPT !.pc = "trim", !.file = f]
        PROVE  WorkerAtFile'
    <3>1. worker'.pc = "trim" /\ worker'.file = f BY <2>1 DEF IdleWorker
    <3>2. job' = [job EXCEPT !.status = "completed"] /\ file' = file BY <1>13 DEF Complete
    <3>3. job'.status = "completed" /\ job'.plan = "transcribe" BY <1>0, <2>1, <3>2
    <3> QED BY <2>1, <3>1, <3>2, <3>3 DEF WorkerAtFile, Here
  <2> QED BY <1>2, <1>13, <2>1 DEF Complete
<1>14. CASE ImagesDone
  <2>1. worker'.pc = "next" BY <1>0, <1>14 DEF ImagesDone, Here, Worker
  <2> QED BY <1>1, <2>1 DEF AtFile
<1>15. CASE Cancelled \/ RollbackErase \/ SourcePurge \/ Break \/ TrimMark
  BY <1>2, <1>3, <1>15 DEF Cancelled, RollbackErase, SourcePurge, Break, TrimMark, Bailed, End
<1> QED BY <1>4, <1>5, <1>6, <1>7, <1>8, <1>9, <1>10, <1>11, <1>12, <1>13, <1>14, <1>15 DEF Run

(* A file that is listed stays on disk until it is withdrawn *)
LEMMA ListedNext ==
  ASSUME Base, [Next]_vars
  PROVE  ListedFilesExist'
<1> SUFFICES ASSUME NEW f \in Files, Live(f)' PROVE Written(f)' \/ Withdrawn(f)'
  BY DEF ListedFilesExist
<1>0. FilesAge /\ WorkerAtFile /\ Batches /\ Rows /\ ListedFilesExist /\ Rows'
  BY EveryFileAges, RowsNext DEF Base, Shape
<1>1. job'.status # "gone" BY <1>0 DEF Rows, Live
<1>2. file[f].kind # "none"
  <2>1. Started(f) => file'[f].row = "none" BY DEF Started, Absent
  <2> QED BY <1>0, <2>1 DEF FilesAge, Rows, Absent, Live
<1>3. Aged(f) BY <1>0, <1>2 DEF FilesAge
<1>4. CASE Create /\ f = worker.file
  BY <1>0, <1>3, <1>4 DEF Create, WorkerAtFile, New, Here, Aged, Written, Live
<1>5. CASE ~(Create /\ f = worker.file)
  <2>1. Live(f) BY <1>3, <1>5 DEF Aged, Live
  <2>2. CASE Withdrawn(f) BY <1>1, <1>3, <2>2, JobAges DEF Withdrawn, Aged
  <2>3. CASE ~Withdrawn(f)
    <3>1. Written(f) BY <1>0, <2>1, <2>3 DEF ListedFilesExist
    <3>2. ~Removing(f)
      <4>1. ~file[f].expired /\ ~file[f].doomed /\ file[f].kind # "source" BY <2>3 DEF Withdrawn
      <4>2. ~(f \in worker.todo /\ Here("erase")) BY <1>0, <2>1 DEF Batches, Live
      <4>3. ASSUME f = worker.file PROVE worker.pc \notin {"loading", "loaded", "rollback.erase", "asr", "trim"}
        <5>1. worker.pc \notin {"loading", "loaded", "rollback.erase"}
          BY <1>0, <2>1, <4>3 DEF WorkerAtFile, New, Here, Live
        <5>2. worker.pc # "asr" BY <1>0, <4>1, <4>3 DEF WorkerAtFile
        <5>3. worker.pc # "trim" BY <1>0, <2>1, <2>3, <4>3 DEF WorkerAtFile, Withdrawn, Rows, Live
        <5> QED BY <5>1, <5>2, <5>3
      <4> QED BY <4>1, <4>2, <4>3 DEF Removing
    <3> QED BY <1>3, <3>1, <3>2 DEF Aged, Written
  <2> QED BY <2>2, <2>3
<1> QED BY <1>4, <1>5

LEMMA BaseNext ==
  ASSUME Base, [Next]_vars
  PROVE  Base'
BY TypedNext, RowsNext, BatchesNext, RunningNext, WorkerAtFileNext, ListedNext DEF Base, Shape

LEMMA BaseInit == Init => Base
<1> SUFFICES ASSUME Init PROVE Base OBVIOUS
<1>1. /\ worker = IdleWorker /\ deletion = NoDeletion /\ sweep = IdleSweep
      /\ job.run = 0 /\ job.status = "waiting" /\ \A f \in Files : file[f] = Absent
  BY DEF Init
<1>2. WorkerAtFile BY <1>1 DEF WorkerAtFile, IdleWorker, Here, AtFile
<1>3. Running BY <1>1 DEF Running, Done, IdleWorker
<1>4. Batches BY <1>1 DEF Batches, IdleWorker, NoDeletion, IdleSweep
<1>5. Rows BY <1>1 DEF Rows, Absent
<1>6. ListedFilesExist BY <1>1 DEF ListedFilesExist, Live, Absent
<1> QED BY <1>2, <1>3, <1>4, <1>5, <1>6, TypedInit DEF Base, Shape

(* A file that the table lists is on disk unless it was withdrawn, for any *)
(* plans and bounds and whatever cannot be removed.                        *)
THEOREM ListedExist == Spec => []ListedFilesExist
<1>1. Base /\ [Next]_vars => Base' BY BaseNext
<1>2. Base => ListedFilesExist BY DEF Base, Shape
<1> QED BY <1>1, <1>2, BaseInit, PTL DEF Spec

(* The source that the provider fetches stays where it is while it works.  *)
THEOREM SourceStays == Spec => []SourceIsThere
<1>1. Base /\ [Next]_vars => Base' BY BaseNext
<1>2. Base => SourceIsThere
  BY DEF Base, Shape, WorkerAtFile, SourceIsThere, Here
<1> QED BY <1>1, <1>2, BaseInit, PTL DEF Spec

-----------------------------------------------------------------------------
(* A file that is listed was listed before, or was registered just now *)
LEMMA LiveBefore ==
  ASSUME Base, [Next]_vars, NEW f \in Files, Live(f)'
  PROVE  /\ Live(f) \/ (Create /\ f = worker.file /\ file[f].run = job.run)
         /\ file'[f].run = file[f].run /\ file[f].kind # "none"
<1>0. FilesAge /\ WorkerAtFile /\ Rows BY EveryFileAges DEF Base, Shape
<1>1. file[f].kind # "none"
  <2>1. Started(f) => file'[f].row = "none" BY DEF Started, Absent
  <2> QED BY <1>0, <2>1 DEF FilesAge, Rows, Absent, Live
<1>2. Create /\ f = worker.file => file[f].run = job.run
  BY <1>0 DEF Create, WorkerAtFile, New
<1> QED BY <1>0, <1>1, <1>2 DEF FilesAge, Aged, Live

(* Only the files of the last run are listed, unless something failed.     *)
LEMMA CleanedNext ==
  ASSUME Base, Cleaned, [Next]_vars
  PROVE  Cleaned'
<1> SUFFICES ASSUME ~job'.cluttered,
                    job'.status = "completed" \/ worker'.pc \notin {"idle", "list", "drop"},
                    NEW f \in Files, Live(f)'
             PROVE  file'[f].run = job'.run
  BY DEF Cleaned
<1>0. /\ worker \in Worker /\ job \in [plan : Plans, status : Status, run : 0..MaxRuns, cluttered : BOOLEAN]
      /\ file \in [Files -> File]
  BY DEF Base, Typed, TypeOK
<1>1. /\ Live(f) \/ (Create /\ f = worker.file /\ file[f].run = job.run)
      /\ file'[f].run = file[f].run
  BY LiveBefore
<1>2. CASE Claim
  <2>1. job'.status = "running" /\ worker'.pc = "list" BY <1>0, <1>2 DEF Claim, IdleWorker
  <2> QED BY <2>1
<1>3. CASE List
  <2>1. ~Clutter BY <1>0 DEF Clutter
  <2>2. worker'.pc = "next" => ListByJob = {}
    BY <1>0, <1>3, <2>1 DEF List, Goto, Worker
  <2>3. worker'.pc \in {"next", "drop"} /\ job' = job /\ ~Create
    BY <1>0, <1>3, <2>1 DEF List, Goto, Worker, Create, Here
  <2>4. CASE worker'.pc = "next" BY <1>1, <2>2, <2>3, <2>4 DEF ListByJob
  <2>5. CASE worker'.pc = "drop"
    <3>1. job.status = "completed" /\ ~job.cluttered BY <2>3, <2>5
    <3> QED BY <1>0, <1>1, <2>3, <3>1 DEF Cleaned
  <2> QED BY <2>3, <2>4, <2>5
<1>4. CASE DropRows
  <2>1. ~Clutter BY <1>0 DEF Clutter
  <2>2. Forget(Files) BY <1>4, <2>1 DEF DropRows
  <2> QED BY <1>0, <2>2 DEF Forget, File, Live
<1>5. ASSUME ~Claim, ~List, ~DropRows
      PROVE  /\ job'.run = job.run /\ ~job.cluttered
             /\ job.status = "completed" \/ worker.pc \notin {"idle", "list", "drop"}
  <2>1. job'.run = job.run /\ ~job.cluttered BY <1>5, JobAges
  <2>2. ASSUME Run PROVE worker.pc \notin {"idle", "list", "drop"} \/ Break
    BY <1>5, <2>2 DEF Here, Run, EraseStale, Write, Rename, WriteFails, Cancelled,
       Create, CreateCancelled, CreateFails, Keep, KeepFails, Rollback, RollbackErase, SourceErase, SourceMark,
       SourcePurge, ImagesDone, Complete, Trim, TrimMark
  <2>3. CASE Break
    <3>1. worker'.pc = "idle" BY <2>3 DEF Break, End, IdleWorker
    <3>2. job'.status = "completed" => job.status = "completed"
      BY <1>0, <2>3 DEF Break, End
    <3> QED BY <2>1, <3>1, <3>2
  <2>4. CASE ~Run
    <3>1. worker' = worker \/ (Crash /\ worker'.pc = "idle")
      BY <2>4 DEF IdleWorker, Crash, Next, Cleanup, vars, CancelWaiting, Retry,
            DeleteRead, DeleteList, DeleteErase, DeleteCheck, DeleteRows, DeleteFails,
            Tick, Scan, SweepErase, SweepMark, Expire
    <3>2. job'.status = "completed" => job.status = "completed"
      BY <1>0, <2>4 DEF Next, Cleanup, vars, CancelWaiting, Retry, Crash,
            DeleteRead, DeleteList, DeleteErase, DeleteCheck, DeleteRows, DeleteFails,
            Tick, Scan, SweepErase, SweepMark, Expire
    <3> QED BY <2>1, <3>1, <3>2
  <2> QED BY <2>1, <2>2, <2>3, <2>4
<1> QED BY <1>0, <1>1, <1>2, <1>3, <1>4, <1>5 DEF Cleaned

(* A completed job lists the files of its last run only, whatever became   *)
(* of the runs before, if the last one could delist what they had left.    *)
THEOREM OneRun == Spec => []OneRunIsListed
<1>1. Base /\ Cleaned /\ [Next]_vars => Base' /\ Cleaned' BY BaseNext, CleanedNext
<1>2. Base /\ Cleaned => OneRunIsListed BY DEF OneRunIsListed, Cleaned
<1>3. Init => Cleaned BY DEF Init, Cleaned, IdleWorker, Live, Absent
<1> QED BY <1>1, <1>2, <1>3, BaseInit, PTL DEF Spec

-----------------------------------------------------------------------------
(* With every file removable, what is marked is not on disk any more *)
LEMMA DiskBefore ==
  ASSUME Base, [Next]_vars, NEW f \in Files, file[f].kind # "none", file[f].disk = "none"
  PROVE  file'[f].disk = "none"
<1>1. Aged(f) BY EveryFileAges DEF FilesAge
<1>2. Rename /\ f = worker.file => file[f].disk = "part"
  BY DEF Rename, Base, Shape, WorkerAtFile, New
<1> QED BY <1>1, <1>2 DEF Aged

(* Where a worker goes, but for the actions named *)
LEMMA WorkerGoes ==
  ASSUME Typed, Run
  PROVE  /\ worker'.pc = "list" => Claim
         /\ worker'.pc = "drop" => List
         /\ worker'.pc = "erase" => DropRows \/ EraseStale
         /\ worker'.pc = "loading" => Write
         /\ worker'.pc = "loaded" => Rename
         /\ worker'.pc \in {"asr.mark", "asr.purge", "trim.mark"} => SourceErase \/ SourceMark \/ Trim
         /\ worker'.pc = "rollback.erase" => Rollback
<1>0. worker \in Worker BY DEF Typed, TypeOK
<1> DEFINE Elsewhere == worker'.pc \notin {"list", "drop", "erase", "loading", "loaded", "asr.mark", "asr.purge",
                                          "trim.mark", "rollback.erase"}
<1>1. worker' = IdleWorker => Elsewhere BY DEF IdleWorker
<1>2. Advance => Elsewhere BY <1>0 DEF Advance, Worker
<1>3. ASSUME NEW pc, Goto(pc) PROVE worker'.pc = pc BY <1>0, <1>3 DEF Goto, Worker
<1>4. CASE Claim \/ ImagesDone BY <1>0, <1>4 DEF Claim, ImagesDone, IdleWorker, Worker, Here
<1>5. CASE DropRows BY <1>0, <1>5 DEF DropRows, Goto, Worker
<1>6. CASE List BY <1>0, <1>6 DEF List, Goto, Worker
<1>7. CASE EraseStale BY <1>0, <1>7 DEF EraseStale, Here, Worker
<1>8. CASE Write BY <1>0, <1>8 DEF Write, Worker
<1>9. CASE WriteFails \/ CreateCancelled \/ CreateFails
  BY <1>1, <1>2, <1>9 DEF WriteFails, CreateCancelled, CreateFails, SkipOrStop, Stopped, Bailed, End
<1>10. CASE Keep BY <1>0, <1>1, <1>10 DEF Keep, End, Worker
<1>11. CASE Complete BY <1>1, <1>11 DEF Complete, IdleWorker
<1>12. CASE Rename \/ SourceErase \/ SourceMark \/ Trim
  BY <1>3, <1>12 DEF Rename, SourceErase, SourceMark, Trim
<1>13. CASE Create \/ KeepFails BY <1>2, <1>3, <1>13 DEF Create, KeepFails
<1>14. CASE Cancelled \/ RollbackErase \/ SourcePurge \/ Break \/ TrimMark
  BY <1>1, <1>2, <1>14 DEF Cancelled, RollbackErase, SourcePurge, Break, TrimMark, Bailed, End
<1>15. CASE Rollback BY <1>1, <1>3, <1>15 DEF Rollback, Bailed, End
<1> QED BY <1>4, <1>5, <1>6, <1>7, <1>8, <1>9, <1>10, <1>11, <1>12, <1>13, <1>14, <1>15 DEF Run

LEMMA ErasuresNext ==
  ASSUME Stuck = {}, Base, Erasures, [Next]_vars
  PROVE  Erasures'
<1>0. /\ worker \in Worker /\ sweep \in Sweep /\ file \in [Files -> File] /\ TypeOK /\ SweepOK
      /\ Batches /\ WorkerAtFile
      /\ (sweep.todo # {} => First(sweep.todo) \in sweep.todo) /\ sweep.todo \subseteq Files
  BY FirstIsFile DEF Base, Shape, Typed, TypeOK, SweepOK
<1>1. sweep'.pc = "mark" => file'[First(sweep'.todo)].disk = "none"
  <2>1. CASE sweep' = sweep
    <3>1. sweep.pc = "mark" => First(sweep.todo) \in Files /\ file[First(sweep.todo)].kind # "none"
      BY <1>0 DEF SweepOK, Batches
    <3> QED BY <2>1, <3>1, DiskBefore DEF Erasures, First
  <2>2. CASE SweepErase
    <3> DEFINE f == First(sweep.todo)
    <3>1. f \in Files BY <1>0, <2>2 DEF SweepErase, SweepOK
    <3>2. ASSUME sweep'.pc = "mark"
          PROVE  file' = Erased(f) /\ sweep'.todo = sweep.todo
      BY <1>0, <2>2, <3>2 DEF SweepErase, SweepPast, IdleSweep, Sweep
    <3>3. file' = Erased(f) => file'[f].disk = "none" BY <1>0, <3>1 DEF Erased, File
    <3> QED BY <3>2, <3>3 DEF First
  <2>3. CASE Tick \/ Scan \/ SweepMark \/ Crash
    <3>1. CASE Tick BY <1>0, <3>1 DEF Tick, Sweep
    <3>2. CASE Scan BY <3>2 DEF Scan, IdleSweep
    <3>3. ASSUME NEW f, SweepPast(f) PROVE sweep'.pc # "mark" BY <1>0, <3>3 DEF SweepPast, IdleSweep, Sweep
    <3>4. CASE SweepMark BY <3>3, <3>4 DEF SweepMark
    <3>5. CASE Crash BY <3>5 DEF Crash, IdleSweep
    <3> QED BY <2>3, <3>1, <3>2, <3>4, <3>5
  <2> QED BY <2>1, <2>2, <2>3
        DEF Next, Run, Cleanup, vars, Claim, List, DropRows, EraseStale, Write, Rename, WriteFails, Cancelled,
            Create, CreateCancelled, CreateFails, Keep, KeepFails, Rollback, RollbackErase, SourceErase, SourceMark,
            SourcePurge, ImagesDone, Complete, Break, Trim, TrimMark, CancelWaiting, Retry,
            DeleteRead, DeleteList, DeleteErase, DeleteCheck, DeleteRows, DeleteFails, Expire
<1>2. ASSUME worker'.pc = "drop", NEW f \in Files, Live(f)' PROVE f \in worker'.todo
  <2>1. ~Create BY <1>0, <1>2 DEF Create, Goto, Advance, Worker
  <2>2. Live(f) BY <1>2, <2>1, LiveBefore
  <2>3. CASE worker' = worker BY <1>2, <2>2, <2>3 DEF Erasures, Here
  <2>4. CASE List BY <1>0, <1>2, <2>2, <2>4 DEF List, ListByJob, Goto, Worker
  <2>5. Run => List BY <1>0, <1>2, WorkerGoes DEF Base
  <2>6. CASE Crash BY <1>2, <2>6 DEF Crash, IdleWorker
  <2> QED BY <1>2, <2>3, <2>4, <2>5, <2>6
        DEF Next, Cleanup, vars, CancelWaiting, Retry,
            DeleteRead, DeleteList, DeleteErase, DeleteCheck, DeleteRows, DeleteFails,
            Tick, Scan, SweepErase, SweepMark, Expire
<1>3. ASSUME trouble' = 0, worker'.pc \in {"asr.mark", "asr.purge", "trim.mark"}
      PROVE  file'[worker'.file].disk = "none"
  <2>0. trouble = 0 /\ ~Fails
    BY <1>0, <1>3, TroubleTyped, BoundAssumption DEF Base, TypeOK, Fails
  <2>1. worker.pc \in {"asr", "asr.mark", "asr.purge", "trim", "trim.mark"} => worker.file \in Files /\ file[worker.file].kind # "none"
    BY <1>0 DEF WorkerAtFile, AtFile
  <2>2. CASE worker' = worker BY <1>3, <2>0, <2>1, <2>2, DiskBefore DEF Erasures
  <2>3. CASE SourceErase \/ Trim
    <3>1. file' = Erased(worker.file) /\ worker'.file = worker.file /\ worker.file \in Files
      BY <1>0, <2>0, <2>1, <2>3 DEF SourceErase, Trim, RemoveAnyway, Goto, Worker, Here
    <3> QED BY <1>0, <3>1 DEF Erased, File
  <2>4. CASE SourceMark
    <3>1. worker'.file = worker.file /\ worker.pc = "asr.mark" BY <1>0, <2>4 DEF SourceMark, Goto, Worker, Here
    <3> QED BY <2>0, <2>1, <3>1, DiskBefore DEF Erasures
  <2>5. Run => SourceErase \/ Trim \/ SourceMark BY <1>3, WorkerGoes DEF Base
  <2>6. CASE Crash BY <1>3, <2>6 DEF Crash, IdleWorker
  <2> QED BY <1>3, <2>2, <2>3, <2>4, <2>5, <2>6
        DEF Next, Cleanup, vars, CancelWaiting, Retry,
            DeleteRead, DeleteList, DeleteErase, DeleteCheck, DeleteRows, DeleteFails,
            Tick, Scan, SweepErase, SweepMark, Expire
<1> QED BY <1>1, <1>2, <1>3 DEF Erasures, Here

(* The statements that change the row of a file *)
LEMMA RowsChange ==
  ASSUME Base, [Next]_vars, NEW f \in Files, file[f].kind # "none", file'[f].row # file[f].row
  PROVE  \/ DropRows \/ Rollback \/ SourcePurge \/ DeleteRows
         \/ SourceMark \/ TrimMark \/ SweepMark \/ Create
<1>0. /\ file \in [Files -> File] /\ (Fresh # {} => First(Fresh) \in Fresh) /\ WorkerAtFile
  BY FirstIsFile DEF Base, Shape, Typed, TypeOK
<1>1. ASSUME NEW g, file' = Erased(g) \/ RemoveAnyway(g) PROVE FALSE
  BY <1>0, <1>1 DEF Erased, RemoveAnyway, File
<1>2. ~Write BY <1>0 DEF Write, Fresh
<1>3. ~Rename BY <1>0 DEF Rename, File
<1>4. ~DeleteList
  <2>1. ASSUME NEW S, file' = [g \in Files |-> IF g \in S THEN [file[g] EXCEPT !.doomed = TRUE] ELSE file[g]]
        PROVE FALSE
    BY <1>0, <2>1 DEF File
  <2> QED BY <2>1 DEF DeleteList
<1>5. ASSUME NEW g \in Files, Expire(g) PROVE FALSE
  <2>1. file' = [file EXCEPT ![g].expired = TRUE] BY <1>5 DEF Expire
  <2> QED BY <1>0, <2>1 DEF File
<1>6. file' # [file EXCEPT ![worker.file].lost = TRUE] BY <1>0 DEF File
<1> QED BY <1>1, <1>2, <1>3, <1>4, <1>5, <1>6
        DEF Next, Run, Cleanup, vars, Claim, List, EraseStale, WriteFails, Cancelled,
            CreateCancelled, CreateFails, Keep, KeepFails, RollbackErase, SourceErase, ImagesDone, Complete, Break, Trim,
            CancelWaiting, Retry, DeleteRead, DeleteErase, DeleteCheck, DeleteFails,
            Tick, Scan, SweepErase, Crash

(* Nothing is on disk that is neither listed nor about to be *)
LEMMA RememberedNext ==
  ASSUME Stuck = {}, Base, Remembered, [Next]_vars
  PROVE  Remembered'
<1> SUFFICES ASSUME trouble' = 0, job'.status # "gone", NEW f \in Files, file'[f].disk # "none"
             PROVE  Live(f)' \/ InHand(f)' \/ file'[f].lost
  BY ErasuresNext DEF Remembered, NothingIsForgotten
<1>0. /\ worker \in Worker /\ file \in [Files -> File] /\ FilesAge
      /\ Batches /\ WorkerAtFile /\ Rows /\ TypeOK /\ SweepOK
      /\ trouble = 0 /\ ~Fails /\ job.status # "gone"
      /\ Erasures /\ NothingIsForgotten
  BY EveryFileAges, TroubleTyped, JobAges, BoundAssumption
     DEF Base, Shape, Typed, TypeOK, SweepOK, Remembered, Fails
<1>1. CASE Started(f)
  <2>1. worker' = [worker EXCEPT !.file = f, !.pc = "loading"]
    BY <1>0, <1>1 DEF Started, Write, Worker
  <2> QED BY <1>0, <2>1 DEF InHand, Worker
<1>2. CASE ~Started(f)
  <2>1. file[f].kind # "none" /\ Aged(f)
    BY <1>0, <1>2 DEF FilesAge, Rows, Absent
  <2>2. file[f].disk # "none" BY <2>1, DiskBefore
  <2>3. Live(f) \/ InHand(f) \/ file[f].lost BY <1>0, <2>2 DEF NothingIsForgotten
  <2>4. ASSUME NEW g \in Files, RemoveAnyway(g) \/ file' = Erased(g) PROVE g # f
    <3>1. file' = Erased(g) BY <1>0, <2>4 DEF RemoveAnyway
    <3> QED BY <1>0, <3>1 DEF Erased, File
  <2>5. ASSUME Live(f), file'[f].row # "live" PROVE InHand(f)'
    <3>1. file'[f].row # file[f].row BY <2>5 DEF Live
    <3>2. CASE DropRows
      <4>1. f \in worker.todo BY <1>0, <2>5, <3>2 DEF Erasures, DropRows
      <4>2. worker'.pc = "erase" /\ worker'.todo = worker.todo
        BY <1>0, <3>1, <3>2 DEF DropRows, Goto, Worker
      <4> QED BY <4>1, <4>2 DEF InHand, Here
    <3>3. CASE Rollback
      <4>1. Forget({worker.file}) /\ Goto("rollback.erase") BY <1>0, <3>3 DEF Rollback
      <4>2. f = worker.file BY <1>0, <3>1, <4>1 DEF Forget
      <4> QED BY <1>0, <4>1, <4>2 DEF Goto, Worker, InHand
    <3>4. ~SourcePurge BY <1>0, <2>5, <3>1 DEF SourcePurge, Forget, Live
    <3>5. ASSUME NEW g, file[g].disk = "none", MarkDeleted(g) PROVE FALSE
      BY <1>0, <2>2, <3>1, <3>5 DEF MarkDeleted
    <3>6. ~SourceMark /\ ~TrimMark BY <1>0, <3>1, <3>5 DEF SourceMark, TrimMark, Erasures, Here
    <3>7. ~SweepMark BY <1>0, <3>1, <3>5 DEF SweepMark, Erasures
    <3>8. ~DeleteRows BY <1>0 DEF DeleteRows, TypeOK
    <3>9. CASE Create
      <4>1. worker.file \in Files /\ ~Live(worker.file)
        BY <1>0, <3>9 DEF Create, WorkerAtFile, New, Here, AtFile, Live
      <4> QED BY <1>0, <2>5, <3>1, <3>9, <4>1 DEF Create
    <3> QED BY <2>1, <3>1, <3>2, <3>3, <3>4, <3>6, <3>7, <3>8, <3>9, RowsChange
  <2>6. ASSUME InHand(f), ~Live(f) PROVE Live(f)' \/ InHand(f)' \/ file'[f].lost
    <3>1. CASE worker' = worker BY <2>6, <3>1 DEF InHand, Here
    <3>2. CASE Run /\ Here("erase")
      <4> DEFINE g == First(worker.todo)
      <4>1. EraseStale
        BY <3>2 DEF Here, Run, Claim, List, DropRows, Write, Rename, WriteFails, Cancelled,
           Create, CreateCancelled, CreateFails, Keep, KeepFails, Rollback, RollbackErase, SourceErase, SourceMark,
           SourcePurge, ImagesDone, Complete, Break, Trim, TrimMark
      <4>2. g \in Files /\ worker.todo \subseteq Files BY <1>0, <4>1, FirstIsFile DEF EraseStale, TypeOK, Here
      <4>3. g # f /\ f \in worker.todo BY <2>4, <2>6, <3>2, <4>1, <4>2 DEF EraseStale, InHand, Here
      <4>4. worker'.pc = "erase" /\ worker'.todo = worker.todo \ {g}
        BY <1>0, <4>1, <4>3 DEF EraseStale, Here, Worker
      <4> QED BY <4>3, <4>4 DEF InHand, Here
    <3>3. CASE Run /\ ~Here("erase")
      <4>1. f = worker.file /\ worker.pc \in {"loading", "loaded", "rollback.erase"}
        BY <2>6, <3>3 DEF InHand
      <4>2. Rename \/ WriteFails \/ Cancelled \/ Create \/ CreateCancelled \/ CreateFails \/ RollbackErase
        BY <3>3, <4>1 DEF Here, Run, Claim, List, DropRows, EraseStale, Write,
           Keep, KeepFails, Rollback, SourceErase, SourceMark,
           SourcePurge, ImagesDone, Complete, Break, Trim, TrimMark
      <4>3. CASE Rename
        BY <1>0, <4>1, <4>3 DEF Rename, Goto, Worker, InHand
      <4>4. CASE Create
        BY <1>0, <4>1, <4>4 DEF Create, Live, File
      <4>5. ~WriteFails /\ ~Cancelled /\ ~RollbackErase
        BY <2>4, <4>1 DEF WriteFails, Cancelled, RollbackErase
      <4>6. ~CreateFails BY <1>0 DEF CreateFails
      <4>7. CASE CreateCancelled
        <5>1. file' = [file EXCEPT ![f].lost = TRUE] BY <2>4, <4>1, <4>7 DEF CreateCancelled
        <5> QED BY <1>0, <5>1 DEF File
      <4> QED BY <4>2, <4>3, <4>4, <4>5, <4>6, <4>7
    <3> QED BY <1>0, <3>1, <3>2, <3>3
        DEF Next, Cleanup, vars, CancelWaiting, Retry,
            DeleteRead, DeleteList, DeleteErase, DeleteCheck, DeleteRows, DeleteFails,
            Tick, Scan, SweepErase, SweepMark, Expire, Crash
  <2> QED BY <2>1, <2>3, <2>5, <2>6 DEF Live, Aged
<1> QED BY <1>1, <1>2

LEMMA RememberedInit == Init => Remembered
BY DEF Init, Remembered, Erasures, NothingIsForgotten, IdleWorker, IdleSweep, Here, Absent

(* If every file can be removed and nothing fails, nothing stays on disk   *)
(* that the table does not list, whoever cancels the job and when: but for *)
(* the video of a run cancelled while it inserts the row.                  *)
THEOREM NothingForgotten ==
  ASSUME Stuck = {}
  PROVE  Spec => []NothingIsForgotten
<1>1. Base /\ Remembered /\ [Next]_vars => Base' /\ Remembered' BY BaseNext, RememberedNext
<1>2. Base /\ Remembered => NothingIsForgotten BY DEF Remembered
<1> QED BY <1>1, <1>2, BaseInit, RememberedInit, PTL DEF Spec

-----------------------------------------------------------------------------
(* As long as the job is not run again, a deletion is alone with its files *)
LEMMA AloneNext ==
  ASSUME Stuck = {}, Base, Alone, [Next]_vars
  PROVE  Alone'
<1>0. /\ worker \in Worker /\ file \in [Files -> File] /\ deletion \in Deletion
      /\ job \in [plan : Plans, status : Status, run : 0..MaxRuns, cluttered : BOOLEAN]
      /\ (deletion.pc = "erase" => deletion.todo # {})
      /\ (deletion.todo # {} => First(deletion.todo) \in deletion.todo) /\ deletion.todo \subseteq Files
      /\ Batches /\ WorkerAtFile /\ Running /\ Rows
      /\ trouble \in Nat /\ trouble' \in Nat /\ trouble <= trouble'
      /\ job.run \in Nat /\ job'.run \in Nat /\ deletion.run \in Nat
  BY FirstIsFile, TroubleTyped, JobTyped, BoundAssumption DEF Base, Shape, Typed, TypeOK, Deletion
<1>1. CASE deletion' = NoDeletion BY <1>0, <1>1 DEF Alone, NoDeletion
<1>2. CASE DeleteRead
  BY <1>0, <1>2 DEF DeleteRead, NoDeletion, Alone, Finished, Running
<1>3. ASSUME ~Create PROVE \A f \in Files : Live(f)' => Live(f) /\ (file[f].disk = "none" => file'[f].disk = "none")
  BY <1>3, LiveBefore, DiskBefore
<1>4. CASE DeleteList
  <2>1. PICK S \in {ListByJob, {}} :
          /\ IF S = ListByJob THEN Works ELSE Fails
          /\ deletion' = [deletion EXCEPT !.todo = S, !.pc = IF S = {} THEN "check" ELSE "erase"]
    BY <1>4 DEF DeleteList
  <2>2. deletion'.todo = S /\ deletion'.pc = (IF S = {} THEN "check" ELSE "erase") /\ deletion'.run = deletion.run
    BY <1>0, <2>1 DEF Deletion
  <2>3. worker' = worker /\ job' = job /\ deletion.pc = "list" BY <1>4 DEF DeleteList
  <2>4. ~Create BY <2>3, WorkerActs DEF Run, Base
  <2>5. ASSUME trouble' = 0, NEW f \in Files, Live(f)' PROVE f \in S
    <3>1. Live(f) BY <1>3, <2>4, <2>5
    <3>2. S = ListByJob BY <1>0, <2>1, <2>5 DEF Fails
    <3> QED BY <3>1, <3>2 DEF ListByJob
  <2> QED BY <1>0, <2>2, <2>3, <2>5 DEF Alone
<1>5. CASE DeleteErase
  <2> DEFINE g == First(deletion.todo)
  <2>1. g \in Files /\ file' = Erased(g) /\ worker' = worker /\ job' = job /\ deletion.pc = "erase"
    BY <1>0, <1>5 DEF DeleteErase
  <2>2. deletion'.todo = deletion.todo \ {g} /\ deletion'.run = deletion.run
        /\ deletion'.pc = (IF deletion.todo = {g} THEN "check" ELSE "erase")
    BY <1>0, <1>5 DEF DeleteErase, Deletion
  <2>3. ASSUME NEW f \in Files, Live(f)' PROVE Live(f) /\ (f = g \/ file[f].disk = "none" => file'[f].disk = "none")
    BY <1>0, <2>1, <2>3 DEF Erased, File, Live
  <2> QED BY <1>0, <2>1, <2>2, <2>3 DEF Alone
<1>6. CASE DeleteCheck
  <2>1. CASE deletion' = [deletion EXCEPT !.pc = "rows"]
    <3>1. deletion'.pc = "rows" /\ deletion'.run = deletion.run /\ deletion'.todo = deletion.todo BY <1>0, <2>1 DEF Deletion
    <3>2. job' = job /\ worker' = worker /\ file' = file /\ trouble' = trouble /\ deletion.pc = "check"
      BY <1>6 DEF DeleteCheck
    <3> QED BY <1>0, <3>1, <3>2 DEF Alone, Live
  <2> QED BY <1>1, <1>6, <2>1 DEF DeleteCheck
<1>7. CASE deletion' = deletion
  <2>1. CASE deletion.pc = "free"
    <3>1. deletion.run <= job'.run BY <1>0, <2>1, JobAges DEF Alone
    <3> QED BY <1>7, <2>1, <3>1 DEF Alone
  <2>2. CASE deletion.pc # "free"
    <3>1. job'.status # "gone"
      <4>1. ~DeleteRows BY <1>7, <2>2 DEF DeleteRows, NoDeletion
      <4> QED BY <2>2, <4>1, JobAges DEF Alone
    <3>2. CASE job'.run # deletion.run
      BY <1>0, <1>7, <2>2, <3>1, <3>2, JobAges DEF Alone
    <3>3. CASE job'.run = deletion.run
      <4>1. job.run = deletion.run /\ job.status # "running" /\ worker.pc \in Done
        <5>1. job.run = deletion.run BY <1>0, <3>3, JobAges DEF Alone
        <5> QED BY <2>2, <5>1 DEF Alone
      <4>2. ~Claim
        <5>1. Claim => job'.run = job.run + 1 BY <1>0 DEF Claim
        <5> QED BY <1>0, <3>3, <4>1, <5>1
      <4>3. job'.status # "running" /\ worker'.pc \in Done
        <5>1. CASE Run
          <6>1. Trim \/ TrimMark
            BY <4>1, <4>2, <5>1 DEF Here, Done, Run, List, DropRows, EraseStale, Write, Rename, WriteFails, Cancelled,
               Create, CreateCancelled, CreateFails, Keep, KeepFails, Rollback, RollbackErase, SourceErase, SourceMark,
               SourcePurge, ImagesDone, Complete, Break
          <6> QED BY <1>0, <4>1, <6>1 DEF Trim, TrimMark, Goto, IdleWorker, Done, Worker
        <5>2. CASE ~Run
          <6>1. ~Crash BY <1>7, <2>2 DEF Crash, NoDeletion
          <6> QED BY <1>0, <2>2, <1>7, <4>1, <5>2, <6>1
              DEF Next, Cleanup, vars, CancelWaiting, Retry,
                  DeleteRead, DeleteList, DeleteErase, DeleteCheck, DeleteRows, DeleteFails,
                  Tick, Scan, SweepErase, SweepMark, Expire, NoDeletion
        <5> QED BY <5>1, <5>2
      <4>4. ~Create BY <4>1 DEF Create, Here, Done
      <4> QED BY <1>0, <1>3, <1>7, <2>2, <3>1, <3>3, <4>1, <4>3, <4>4 DEF Alone
    <3> QED BY <3>2, <3>3
  <2> QED BY <2>1, <2>2
<1> QED BY <1>1, <1>2, <1>4, <1>5, <1>6, <1>7
        DEF Next, Run, Cleanup, vars, Claim, List, DropRows, EraseStale, Write, Rename, WriteFails, Cancelled,
            Create, CreateCancelled, CreateFails, Keep, KeepFails, Rollback, RollbackErase, SourceErase, SourceMark,
            SourcePurge, ImagesDone, Complete, Break, Trim, TrimMark, CancelWaiting, Retry,
            DeleteRows, DeleteFails, Tick, Scan, SweepErase, SweepMark, Expire, Crash

(* If every file can be removed, a deletion that nothing disturbs leaves   *)
(* none of the job's files on disk, but for such a video.                  *)
THEOREM DeletionTakesFiles ==
  ASSUME Stuck = {}
  PROVE  Spec => DeletionsTakeTheFiles
<1> DEFINE I == Base /\ Remembered /\ Alone
<1>1. I /\ [Next]_vars => I' BY BaseNext, RememberedNext, AloneNext
<1>2. Init => I
  BY BaseInit, RememberedInit DEF Init, Alone, NoDeletion
<1>3. I /\ [Next]_vars =>
        [CleanDeletion => \A f \in Files : file'[f].disk = "none" \/ file[f].lost]_vars
  <2> SUFFICES ASSUME I, [Next]_vars,
                      deletion.pc = "rows", job'.status = "gone", job.run = deletion.run, trouble = 0,
                      NEW f \in Files
               PROVE  file'[f].disk = "none" \/ file[f].lost
    BY DEF CleanDeletion
  <2>1. job.status # "gone" /\ DeleteRows BY JobAges DEF Alone
  <2>2. worker.pc \in Done BY DEF Alone
  <2>3. file[f].disk = "none" \/ file[f].lost
    <3>1. Live(f) => file[f].disk = "none" BY DEF Alone
    <3>2. ~InHand(f) BY <2>2 DEF InHand, Done, Here
    <3> QED BY <2>1, <3>1, <3>2 DEF Remembered, NothingIsForgotten
  <2>4. file \in [Files -> File] BY DEF Base, Typed, TypeOK
  <2> QED BY <2>1, <2>3, <2>4 DEF DeleteRows, Forget, File
<1> QED BY <1>1, <1>2, <1>3, PTL DEF Spec, DeletionsTakeTheFiles

-----------------------------------------------------------------------------
(* The results of a run are not delisted until the next run *)
LEMMA MadeStays ==
  ASSUME Base, [Next]_vars, job'.run = job.run, ~DropRows, ~DeleteRows
  PROVE  /\ ~(Create /\ worker.kind = "result") => Made' = Made
         /\ Create /\ worker.kind = "result" =>
              Made' = Made \cup {worker.file} /\ worker.file \notin Made
<1>0. /\ file \in [Files -> File] /\ FilesAge /\ WorkerAtFile /\ Rows /\ Batches /\ SweepOK
      /\ (sweep.todo # {} => First(sweep.todo) \in sweep.todo)
      /\ worker \in Worker
  BY EveryFileAges, FirstIsFile DEF Base, Shape, Typed, TypeOK, SweepOK
<1>1. ASSUME NEW f \in Files, Live(f)', file'[f].kind = "result", file'[f].run = job.run
      PROVE  f \in Made \/ (Create /\ worker.kind = "result" /\ f = worker.file)
  <2>1. file[f].kind # "none" BY <1>1, LiveBefore
  <2>2. file[f].kind = "result" BY <1>1, <2>1, Kinds
  <2>3. Create /\ f = worker.file => file[f].kind = worker.kind
    BY <1>0 DEF Create, WorkerAtFile, New
  <2> QED BY <1>1, <2>2, <2>3, LiveBefore DEF Made
<1>2. ASSUME NEW f \in Made PROVE Live(f)' /\ file'[f].kind = "result" /\ file'[f].run = job.run
  <2>1. f \in Files /\ Live(f) /\ file[f].kind = "result" /\ file[f].run = job.run BY DEF Made
  <2>2. file'[f].kind = "result" /\ file'[f].run = job.run BY <1>0, <2>1 DEF FilesAge, Aged
  <2>3. ASSUME file'[f].row # file[f].row PROVE FALSE
    <3>1. ~Rollback
      <4>1. Rollback => file[worker.file].kind = "media" BY <1>0 DEF Rollback, WorkerAtFile, Here
      <4> QED BY <1>0, <2>1, <2>3, <4>1 DEF Rollback, Forget
    <3>2. ~SourcePurge BY <1>0, <2>1, <2>3 DEF SourcePurge, Forget
    <3>3. ASSUME NEW g \in Files, file[g].kind # "result", MarkDeleted(g) PROVE FALSE
      BY <1>0, <2>1, <2>3, <3>3 DEF MarkDeleted
    <3>4. ~SourceMark
      <4>1. SourceMark => worker.file \in Files /\ file[worker.file].kind = "source"
        BY <1>0 DEF SourceMark, WorkerAtFile, Here, AtFile
      <4> QED BY <2>3, <3>3, <4>1 DEF SourceMark
    <3>5. ~TrimMark
      <4>1. TrimMark => worker.file \in Files /\ file[worker.file].kind = "media"
        BY <1>0 DEF TrimMark, WorkerAtFile, Here, AtFile
      <4> QED BY <2>3, <3>3, <4>1 DEF TrimMark
    <3>6. ~SweepMark
      <4>1. SweepMark => First(sweep.todo) \in Files /\ file[First(sweep.todo)].expired
        BY <1>0, FirstIsFile DEF SweepMark, SweepOK, Batches, Base, Typed
      <4> QED BY <1>0, <2>3, <3>3, <4>1 DEF SweepMark, Rows
    <3>7. ~Create
      <4>1. Create => ~Live(worker.file) BY <1>0 DEF Create, WorkerAtFile, New, Live
      <4> QED BY <1>0, <2>1, <2>3, <4>1 DEF Create
    <3> QED BY <2>1, <2>3, <3>1, <3>2, <3>4, <3>5, <3>6, <3>7, RowsChange
  <2> QED BY <2>1, <2>2, <2>3 DEF Live
<1>3. ASSUME Create, worker.kind = "result"
      PROVE  /\ worker.file \in Files /\ worker.file \notin Made
             /\ file'[worker.file].row = "live" /\ file'[worker.file].kind = "result" /\ file'[worker.file].run = job.run
  <2>1. worker.file \in Files /\ New(worker.file, "full") /\ file'[worker.file] = [file[worker.file] EXCEPT !.row = "live"]
    BY <1>0, <1>3 DEF Create, WorkerAtFile, Here, AtFile
  <2>2. file[worker.file] \in File BY <1>0, <2>1
  <2>3. file'[worker.file].kind = "result" /\ file'[worker.file].run = job.run /\ file'[worker.file].row = "live"
    BY <1>3, <2>1, <2>2 DEF New, File
  <2>4. worker.file \notin Made BY <2>1 DEF Made, New, Live
  <2> QED BY <2>1, <2>3, <2>4
<1>4. Made' = {f \in Files : Live(f)' /\ file'[f].kind = "result" /\ file'[f].run = job.run} BY DEF Made
<1>5. Made \subseteq Files BY DEF Made
<1>6. CASE Create /\ worker.kind = "result"
  <2>1. \A f \in Made' : f \in Made \cup {worker.file} BY <1>1, <1>4
  <2>2. \A f \in Made \cup {worker.file} : f \in Made' BY <1>2, <1>3, <1>4, <1>5, <1>6 DEF Live
  <2> QED BY <1>3, <1>6, <2>1, <2>2
<1>7. CASE ~(Create /\ worker.kind = "result")
  <2>1. \A f \in Made' : f \in Made BY <1>1, <1>4, <1>7
  <2>2. \A f \in Made : f \in Made' BY <1>2, <1>4, <1>5
  <2> QED BY <1>7, <2>1, <2>2
<1> QED BY <1>6, <1>7

LEMMA MadeFinite ==
  ASSUME Typed
  PROVE  IsFiniteSet(Made) /\ Cardinality(Made) \in Nat /\ Cardinality({}) = 0
<1>1. IsFiniteSet(Files) BY FS_Interval, BoundAssumption DEF Files
<1>2. Made \subseteq Files BY DEF Made
<1> QED BY <1>1, <1>2, FS_Subset, FS_CardinalityType, FS_EmptySet

(* A step of the others leaves a run that goes on alone *)
LEMMA OthersStep ==
  ASSUME Base, [Next]_vars, ~Run
  PROVE  /\ worker' = worker \/ worker' = IdleWorker
         /\ job'.run = job.run /\ job'.plan = job.plan
         /\ job'.status \in {"running", "completed"} => job.status = job'.status /\ ~DeleteRows
<1>1. worker' = worker \/ worker' = IdleWorker
  BY DEF Next, Cleanup, vars, CancelWaiting, Retry,
            DeleteRead, DeleteList, DeleteErase, DeleteCheck, DeleteRows, DeleteFails,
            Tick, Scan, SweepErase, SweepMark, Expire, Crash
<1>2. job \in [plan : Plans, status : Status, run : 0..MaxRuns, cluttered : BOOLEAN] BY DEF Base, Typed, TypeOK
<1>3. ~DeleteRows /\ job'.status \in {"running", "completed"} => job.status = job'.status
  BY <1>2 DEF Next, Cleanup, vars, CancelWaiting, Retry,
            DeleteRead, DeleteList, DeleteErase, DeleteCheck, DeleteFails,
            Tick, Scan, SweepErase, SweepMark, Expire, Crash
<1>4. DeleteRows => job'.status = "gone" BY <1>2 DEF DeleteRows
<1> QED BY <1>1, <1>3, <1>4, JobAges

(* Statements of a run on the job *)
LEMMA RunsJob ==
  ASSUME Base, [Next]_vars, Run, ~Claim
  PROVE  /\ job'.run = job.run /\ job'.plan = job.plan /\ ~DeleteRows
         /\ job'.status = "running" => job.status = "running"
         /\ job'.status = "completed" =>
              \/ job.status = "completed" /\ worker.pc \in Done
              \/ Complete
              \/ Keep /\ job.plan = "download"
<1>0. job \in [plan : Plans, status : Status, run : 0..MaxRuns, cluttered : BOOLEAN] /\ Running BY DEF Base, Shape, Typed, TypeOK
<1>1. DeleteRows => worker' = worker BY DEF DeleteRows
<1>2. ~DeleteRows BY <1>1, WorkerActs DEF Base
<1>3. CASE job' = job \/ Clutter BY <1>0, <1>2, <1>3 DEF Clutter, Running
<1>4. ASSUME NEW st \in {"waiting", "ended", "running"}, End(st)
      PROVE  /\ job'.run = job.run /\ job'.plan = job.plan
             /\ job'.status = "running" => job.status = "running"
             /\ job'.status = "completed" => job.status = "completed" /\ worker.pc \in Done
  BY <1>0, <1>4 DEF End, Running
<1>5. CASE Keep
  BY <1>0, <1>2, <1>3, <1>5 DEF Keep, End
<1>6. CASE Complete
  <2>1. job' = [job EXCEPT !.status = "completed"] BY <1>6 DEF Complete
  <2> QED BY <1>0, <1>2, <1>6, <2>1
<1> QED BY <1>2, <1>3, <1>4, <1>5, <1>6
        DEF Run, List, DropRows, EraseStale, Write, Rename, WriteFails, Cancelled,
            Create, CreateCancelled, CreateFails, KeepFails, Rollback, RollbackErase, SourceErase, SourceMark,
            SourcePurge, ImagesDone, Break, Trim, TrimMark, Stopped, Bailed, SkipOrStop

LEMMA CountedNext ==
  ASSUME Base, Counted, [Next]_vars
  PROVE  Counted'
<1>0. /\ worker \in Worker /\ job \in [plan : Plans, status : Status, run : 0..MaxRuns, cluttered : BOOLEAN]
      /\ Running /\ Rows /\ file \in [Files -> File] /\ WorkerAtFile /\ job.run \in Nat
      /\ worker.left \in Nat /\ Cardinality(Made) \in Nat /\ Results \in Nat \ {0} /\ Cardinality({}) = 0
  BY MadeFinite, BoundAssumption, CountAssumption DEF Base, Shape, Typed, TypeOK, Worker
<1> DEFINE Count == IF worker.kind = "result" THEN Cardinality(Made) + worker.left = Results ELSE Made = {}
<1>1. worker'.pc \in {"list", "drop"} => worker'.kind = "media"
  <2>1. CASE Run /\ worker'.pc = "list"
    <3>1. Claim BY <2>1, WorkerGoes DEF Base
    <3> QED BY <3>1 DEF Claim, IdleWorker
  <2>2. CASE Run /\ worker'.pc = "drop"
    <3>1. List BY <2>2, WorkerGoes DEF Base
    <3> QED BY <1>0, <3>1 DEF List, Goto, Here, Worker, Counted
  <2>3. CASE ~Run BY <2>3, OthersStep DEF Counted, IdleWorker
  <2> QED BY <2>1, <2>2, <2>3
<1>2. ASSUME worker'.pc \notin Done, job'.status = "running"
      PROVE  Count'
  <2>0. worker' # IdleWorker BY <1>2 DEF IdleWorker, Done
  <2>1. CASE ~Run
    <3>1. worker' = worker /\ job'.run = job.run /\ job.status = "running" /\ ~DeleteRows
      BY <1>2, <2>0, <2>1, OthersStep
    <3>2. Made' = Made BY <2>1, <3>1, MadeStays DEF Run
    <3> QED BY <1>2, <3>1, <3>2 DEF Counted
  <2>2. CASE Claim
    <3>1. file' = file /\ job'.run = job.run + 1 BY <1>0, <2>2 DEF Claim
    <3>2. worker'.kind = "media" BY <2>2 DEF Claim, IdleWorker
    <3>3. ASSUME NEW f \in Files PROVE file[f].run # job.run + 1
      BY <1>0 DEF Rows, File
    <3> QED BY <3>1, <3>2, <3>3 DEF Made
  <2>3. CASE DropRows
    <3>1. worker'.kind = "media" BY <1>0, <2>3 DEF DropRows, Goto, Here, Worker, Counted
    <3>2. CASE Forget(Files) BY <1>0, <3>1, <3>2 DEF Forget, File, Made, Live
    <3>3. CASE file' = file
      <4>0. job.status = "running" BY <1>0, <1>2, <2>3 DEF DropRows, Clutter
      <4>1. Made = {} BY <2>3, <4>0 DEF Counted, DropRows, Here, Done
      <4>2. job'.run = job.run BY <2>3, JobAges DEF DropRows, Claim, Here
      <4> QED BY <3>1, <3>3, <4>1, <4>2 DEF Made, Live
    <3> QED BY <2>3, <3>2, <3>3 DEF DropRows
  <2>4. CASE Run /\ ~Claim /\ ~DropRows
    <3>1. job'.run = job.run /\ job.status = "running" /\ ~DeleteRows BY <1>2, <2>4, RunsJob
    <3>2. worker.pc \notin Done
      <4>1. ~Trim /\ ~TrimMark BY <1>0, <1>2, <2>0 DEF Trim, TrimMark, Goto, Done, Worker
      <4> QED BY <2>4, <4>1 DEF Done, Here, Run, List, EraseStale, Write, Rename, WriteFails, Cancelled,
            Create, CreateCancelled, CreateFails, Keep, KeepFails, Rollback, RollbackErase, SourceErase, SourceMark,
            SourcePurge, ImagesDone, Complete, Break
    <3>3. Count BY <3>1, <3>2 DEF Counted
    <3>4. CASE Create /\ worker.kind = "result"
      <4>1. Made' = Made \cup {worker.file} /\ worker.file \notin Made
        BY <2>4, <3>1, <3>4, MadeStays
      <4>2. Cardinality(Made') = Cardinality(Made) + 1
        BY <4>1, MadeFinite, FS_AddElement DEF Base
      <4>3. worker.left > 0 BY <1>0, <3>4 DEF Create, WorkerAtFile, Here
      <4>4. worker'.kind = "result" /\ worker'.left = worker.left - 1
        BY <1>0, <3>4 DEF Create, Advance, Worker
      <4> QED BY <1>0, <3>3, <3>4, <4>2, <4>3, <4>4
    <3>5. CASE ~(Create /\ worker.kind = "result")
      <4>1. Made' = Made BY <2>4, <3>1, <3>5, MadeStays
      <4>2. CASE worker'.kind = worker.kind /\ worker'.left = worker.left
        BY <3>3, <4>1, <4>2
      <4>3. ASSUME Advance, worker.kind # "result" PROVE Count'
        <5>1. Made' = {} BY <3>3, <4>1, <4>3
        <5>2. worker'.kind = worker.kind \/ (worker'.kind = "result" /\ worker'.left = Results)
          BY <1>0, <4>3 DEF Advance, Worker
        <5> QED BY <1>0, <4>3, <5>1, <5>2
      <4>4. CASE Keep \/ ImagesDone
        <5>1. worker.kind = "media"
          BY <1>0, <4>4 DEF Keep, ImagesDone, WorkerAtFile, Here
        <5>2. worker'.kind = "source" \/ (worker'.kind = "result" /\ worker'.left = Results)
          BY <1>0, <2>0, <4>4 DEF Keep, ImagesDone, End, Worker
        <5> QED BY <1>0, <3>3, <4>1, <5>1, <5>2
      <4>5. CASE List \/ EraseStale \/ Write
        <5>1. worker'.kind = worker.kind /\ worker'.left = worker.left
          BY <1>0, <4>5 DEF List, EraseStale, Write, Goto, Worker
        <5> QED BY <4>2, <5>1
      <4>6. ASSUME NEW pc, Goto(pc) PROVE Count'
        <5>1. worker'.kind = worker.kind /\ worker'.left = worker.left BY <1>0, <4>6 DEF Goto, Worker
        <5> QED BY <4>2, <5>1
      <4>7. CASE Create BY <3>5, <4>3, <4>6, <4>7 DEF Create
      <4>8. CASE WriteFails \/ CreateCancelled \/ CreateFails
        BY <2>0, <4>3, <4>8 DEF WriteFails, CreateCancelled, CreateFails, SkipOrStop, Stopped, Bailed, End
      <4>9. CASE SourcePurge
        BY <1>0, <4>3, <4>9 DEF SourcePurge, WorkerAtFile, Here
      <4>10. CASE Rename \/ KeepFails \/ SourceErase \/ SourceMark \/ Trim
        BY <4>6, <4>10 DEF Rename, KeepFails, SourceErase, SourceMark, Trim
      <4>11. CASE Cancelled \/ Rollback \/ RollbackErase \/ Break \/ TrimMark
        BY <2>0, <4>6, <4>11 DEF Cancelled, Rollback, RollbackErase, Break, TrimMark, Bailed, End
      <4>12. CASE Complete
        <5>1. job' = [job EXCEPT !.status = "completed"] BY <4>12 DEF Complete
        <5> QED BY <1>0, <1>2, <5>1
      <4> QED BY <2>4, <4>4, <4>5, <4>7, <4>8, <4>9, <4>10, <4>11, <4>12 DEF Run
    <3> QED BY <3>4, <3>5
  <2> QED BY <2>1, <2>2, <2>3, <2>4
<1>3. ASSUME job'.status = "completed", job'.plan # "download"
      PROVE  Cardinality(Made') = Results
  <2>1. job'.plan = job.plan BY JobAges
  <2>2. CASE ~Run
    <3>1. job.status = "completed" /\ job'.run = job.run /\ ~DeleteRows BY <1>3, <2>2, OthersStep
    <3>2. Made' = Made BY <2>2, <3>1, MadeStays DEF Run
    <3> QED BY <1>3, <2>1, <3>1, <3>2 DEF Counted, ResultsAreComplete, Made
  <2>3. ~Claim BY <1>0, <1>3 DEF Claim
  <2>4. CASE Run
    <3>1. job'.run = job.run /\ ~DeleteRows BY <2>3, <2>4, RunsJob
    <3>2. CASE job.status = "completed" /\ worker.pc \in Done
      <4>1. ~DropRows /\ ~Create BY <3>2 DEF DropRows, Create, Here, Done
      <4>2. Made' = Made BY <3>1, <4>1, MadeStays
      <4> QED BY <1>3, <2>1, <3>2, <4>2 DEF Counted, ResultsAreComplete, Made
    <3>3. CASE Complete
      <4>1. ~DropRows /\ ~Create BY <3>3 DEF DropRows, Create, Here, Complete
      <4>2. Made' = Made BY <3>1, <4>1, MadeStays
      <4>3. Cardinality(Made) + worker.left = Results /\ worker.left = 0
        BY <3>3 DEF Complete, Counted, Here, Done
      <4> QED BY <1>0, <4>2, <4>3
    <3> QED BY <1>3, <2>1, <2>3, <2>4, <3>2, <3>3, RunsJob
  <2> QED BY <2>2, <2>4
<1> QED BY <1>1, <1>2, <1>3 DEF Counted, ResultsAreComplete, Made, Live

(* A completed job lists all the results of its last run.                  *)
THEOREM AllResults == Spec => []ResultsAreComplete
<1>1. Base /\ Counted /\ [Next]_vars => Base' /\ Counted' BY BaseNext, CountedNext
<1>2. Counted => ResultsAreComplete BY DEF Counted
<1>3. Init => Counted BY DEF Init, Counted, ResultsAreComplete, IdleWorker, Done
<1> QED BY <1>1, <1>2, <1>3, BaseInit, PTL DEF Spec

=============================================================================
