------------------------------ MODULE JobFiles ------------------------------
(***************************************************************************)
(* The files of one job: the rows of the table files against the data      *)
(* directory.  A file has a row and a place on disk, which are changed one *)
(* after the other by a run of the job, by the request that deletes it and *)
(* by the hourly cleanup; any of them may fail or die in between.          *)
(*                                                                         *)
(* Each action is one statement or one file operation.                     *)
(*                                                                         *)
(* Abstractions.  The job is what JobQueue makes of it: it waits, is run   *)
(* by at most one worker, ends (failed or cancelled), completes or is      *)
(* deleted; one request at a time deletes it.  Names are random and never  *)
(* used twice: the files are numbered as they are written, and the loops   *)
(* take them in that order.  The work directory of ffmpeg (audio.mp3,      *)
(* segments) has no rows.  Media stands for the video or an image; the     *)
(* music of a note is one more of them that may fail.                      *)
(***************************************************************************)
EXTENDS Naturals, FiniteSets

CONSTANTS
  Plans,       \* what the job may have to do
  Images,      \* the images of a note; a video is one
  Segments,    \* the audio segments that the provider fetches by URL
  Results,     \* the result files of a run
  Limit,       \* the batch of the cleanup
  Stuck,       \* the files that the system does not let anybody remove
  MaxFiles,    \* bound: files ever written
  MaxRuns,     \* bound: runs of the job
  MaxTroubles  \* bound: crashes and operations that fail

ASSUME PlanAssumption  == Plans \subseteq {"download", "transcribe", "full", "note"}
ASSUME CountAssumption == Images \in Nat \ {0} /\ Segments \in Nat
                           /\ Results \in Nat \ {0} /\ Limit \in Nat \ {0}
ASSUME BoundAssumption == MaxFiles \in Nat /\ MaxRuns \in Nat /\ MaxTroubles \in Nat

VARIABLES
  job,       \* the plan of the job, its status; histories: the number of its runs and
             \* whether the last one could not delist what the others had left
  file,      \* the table and the directory, by file
  worker,    \* the run under way
  deletion,  \* a request that deletes the job
  sweep,     \* cleanup.Service
  trouble    \* crashes and failures so far

vars == <<job, file, worker, deletion, sweep, trouble>>

Files == 1..MaxFiles
NoFile == 0

-----------------------------------------------------------------------------
(* State *)

Status == {"waiting", "running", "completed", "ended", "gone"}
Finished == {"completed", "ended"}

(* disk: absent, its .part, or complete under its name                     *)
(* row: absent, live, or marked (deleted_at)                               *)
(* run, doomed, lost: histories; the run that wrote it, listed by a        *)
(* deletion, cancelled while it was to get its row                         *)
File == [kind    : {"none", "media", "source", "result"},
         disk    : {"none", "part", "full"},
         row     : {"none", "live", "marked"},
         expired : BOOLEAN,
         run     : 0..MaxRuns,
         doomed  : BOOLEAN,
         lost    : BOOLEAN]

Absent == [kind |-> "none", disk |-> "none", row |-> "none", expired |-> FALSE,
           run |-> 0, doomed |-> FALSE, lost |-> FALSE]

(* pc: what the worker does next; file: the file it is at; todo: the stale *)
(* files of earlier runs; kind, left: what it produces and how many more   *)
Worker == [pc   : {"idle", "list", "drop", "erase", "next", "loading", "loaded", "kept", "asr",
                   "asr.mark", "asr.purge", "rollback", "rollback.erase", "trim", "trim.mark"},
           file : 0..MaxFiles,
           todo : SUBSET Files,
           kind : {"media", "source", "result"},
           left : Nat]

IdleWorker == [pc |-> "idle", file |-> NoFile, todo |-> {}, kind |-> "media", left |-> 0]

(* run: a history, the runs there had been when it listed the files *)
Deletion == [pc : {"free", "list", "erase", "check", "rows"}, todo : SUBSET Files, run : 0..MaxRuns]
NoDeletion == [pc |-> "free", todo |-> {}, run |-> 0]

(* full: the batch had as many files as it may have *)
Sweep == [pc : {"idle", "scan", "erase", "mark"}, todo : SUBSET Files, full : BOOLEAN]
IdleSweep == [pc |-> "idle", todo |-> {}, full |-> FALSE]

Live(f) == file[f].row = "live"
Written(f) == file[f].disk = "full"
Fresh == {f \in Files : file[f].kind = "none"}
First(S) == CHOOSE f \in S : \A g \in S : f <= g

IsNote == job.plan = "note"
Here(pc) == worker.pc = pc

Works == UNCHANGED trouble
Fails == trouble < MaxTroubles /\ trouble' = trouble + 1

(* Repository.ListByJob: all rows but the marked ones *)
ListByJob == {f \in Files : Live(f)}

(* Storage.Remove: a file that is not there counts as removed *)
Removable(f) == f \notin Stuck \/ file[f].disk = "none"
Erased(f) == [file EXCEPT ![f].disk = IF f \in Stuck THEN @ ELSE "none"]

(* A Remove whose error the caller ignores *)
RemoveAnyway(f) ==
  \/ Works /\ file' = Erased(f)
  \/ Fails /\ UNCHANGED file

(* DELETE FROM files *)
Forget(S) == file' = [f \in Files |-> IF f \in S THEN [file[f] EXCEPT !.row = "none"] ELSE file[f]]

(* Repository.MarkDeleted: UPDATE files SET deleted_at ... WHERE deleted_at IS NULL *)
MarkDeleted(f) == file' = [file EXCEPT ![f].row = IF @ = "live" THEN "marked" ELSE @]

-----------------------------------------------------------------------------
(* A run of the job: Worker.process, processNote and Transcriber.Run       *)

Goto(pc) == worker' = [worker EXCEPT !.pc = pc]

(* The run is over and leaves the job in status, unless it was deleted *)
End(status) ==
  /\ worker' = IdleWorker
  /\ job' = [job EXCEPT !.status = IF @ = "running" THEN status ELSE @]

(* RetryLater, Fail or CancelOwned *)
Stopped == \E status \in {"waiting", "ended"} : End(status)

(* An error that process returns as it is: the job is cancelled if the run *)
(* was, and keeps its status if something failed                           *)
Bailed == End("ended") \/ (trouble' > 0 /\ End("running"))

Claim ==
  /\ Here("idle") /\ job.status = "waiting" /\ job.run < MaxRuns
  /\ job' = [job EXCEPT !.status = "running", !.run = @ + 1, !.cluttered = FALSE]
  /\ worker' = [IdleWorker EXCEPT !.pc = "list", !.left = IF IsNote THEN Images ELSE 1]
  /\ UNCHANGED <<file, deletion, sweep, trouble>>

(* Mutants: the stale files are not looked for; or removed even if there are none *)
ListNothing ==
  /\ Here("list") /\ Goto("next")
  /\ Works /\ UNCHANGED <<job, file, deletion, sweep>>

ListUnchecked ==
  /\ Here("list") /\ worker' = [worker EXCEPT !.todo = ListByJob, !.pc = "drop"]
  /\ Works /\ UNCHANGED <<job, file, deletion, sweep>>

Clutter == job' = [job EXCEPT !.cluttered = TRUE]

(* The stale files are listed; a run whose work is not resolved ends before *)
List ==
  /\ Here("list")
  /\ \/ Works /\ worker' = [worker EXCEPT !.todo = ListByJob,
                                          !.pc = IF ListByJob = {} THEN "next" ELSE "drop"]
           /\ UNCHANGED job
     \/ Fails /\ Goto("next") /\ Clutter
  /\ UNCHANGED <<file, deletion, sweep>>

(* Mutants: the files are removed even if their rows stay; only the rows are removed *)
DropAnyway ==
  /\ Here("drop") /\ Goto("erase")
  /\ (Works /\ Forget(Files)) \/ (Fails /\ UNCHANGED file)
  /\ UNCHANGED <<job, deletion, sweep>>

DropRowsOnly ==
  /\ Here("drop") /\ Forget(Files)
  /\ worker' = [worker EXCEPT !.pc = "next", !.todo = {}]
  /\ Works /\ UNCHANGED <<job, deletion, sweep>>

(* DeleteFilesByJob; when it fails, the files are kept *)
DropRows ==
  /\ Here("drop")
  /\ \/ Works /\ Forget(Files) /\ Goto("erase") /\ UNCHANGED job
     \/ Fails /\ UNCHANGED file /\ worker' = [worker EXCEPT !.pc = "next", !.todo = {}] /\ Clutter
  /\ UNCHANGED <<deletion, sweep>>

EraseStale ==
  /\ Here("erase")
  /\ LET f == First(worker.todo) IN
       /\ RemoveAnyway(f)
       /\ worker' = [worker EXCEPT !.todo = @ \ {f},
                                   !.pc = IF worker.todo = {f} THEN "next" ELSE @]
  /\ UNCHANGED <<job, deletion, sweep>>

(* A target is chosen and its .part written; a statement on the job has    *)
(* just succeeded when it is for media                                     *)
Write ==
  /\ Here("next") /\ worker.left > 0 /\ Fresh # {}
  /\ worker.kind = "media" => job.status = "running"
  /\ LET f == First(Fresh) IN
       /\ file' = [file EXCEPT ![f] = [Absent EXCEPT !.kind = worker.kind, !.disk = "part", !.run = job.run]]
       /\ worker' = [worker EXCEPT !.file = f, !.pc = "loading"]
  /\ Works /\ UNCHANGED <<job, deletion, sweep>>

(* The .part gets its name *)
Rename ==
  /\ Here("loading")
  /\ file' = [file EXCEPT ![worker.file].disk = "full"]
  /\ Goto("loaded")
  /\ Works /\ UNCHANGED <<job, deletion, sweep>>

(* One more is done; the sources give way to the results *)
Advance ==
  worker' = IF worker.kind = "source" /\ worker.left = 1
              THEN [worker EXCEPT !.pc = "next", !.file = NoFile, !.kind = "result", !.left = Results]
              ELSE [worker EXCEPT !.pc = "next", !.file = NoFile, !.left = @ - 1]

(* Mutants: the results of a note are skipped, too; a source is used although it failed *)
SkipResults == IF IsNote THEN Advance /\ UNCHANGED job ELSE Stopped
UseFailedSource == IF worker.kind = "source" THEN Goto("asr") /\ UNCHANGED job ELSE Stopped

(* The image of a note is skipped when it fails; nothing else is *)
SkipOrStop ==
  IF IsNote /\ worker.kind = "media" THEN Advance /\ UNCHANGED job
  ELSE IF IsNote THEN Bailed
  ELSE Stopped

(* The download or the writing fails, and removes what it had written *)
WriteFails ==
  /\ Here("loading")
  /\ IF worker.kind = "media" THEN Works ELSE Fails
  /\ file' = Erased(worker.file)
  /\ SkipOrStop
  /\ UNCHANGED <<deletion, sweep>>

(* The context of a video's run was cancelled during the download *)
Cancelled ==
  /\ Here("loaded") /\ ~IsNote /\ worker.kind = "media"
  /\ RemoveAnyway(worker.file)
  /\ End("ended")
  /\ UNCHANGED <<deletion, sweep>>

(* Repository.Create, by the row's foreign key only while the job exists *)
Create ==
  /\ Here("loaded") /\ job.status # "gone"
  /\ file' = [file EXCEPT ![worker.file].row = "live"]
  /\ CASE worker.kind = "source" -> Goto("asr")
       [] worker.kind = "media" /\ ~IsNote -> Goto("kept")
       [] OTHER -> Advance
  /\ Works /\ UNCHANGED <<job, deletion, sweep>>

(* Create runs under jobCtx, which a user may cancel at any time: it fails *)
(* although nothing is wrong.  An image, a source and a result are then    *)
(* removed, and a video is not.                                            *)
CreateCancelled ==
  /\ Here("loaded")
  /\ IF worker.kind = "media" /\ ~IsNote
       THEN Works /\ file' = [file EXCEPT ![worker.file].lost = TRUE]
       ELSE RemoveAnyway(worker.file)
  /\ IF worker.kind = "media" /\ IsNote THEN SkipOrStop ELSE End("ended")
  /\ UNCHANGED <<deletion, sweep>>

(* The statement fails: the same, but the error is not a cancellation *)
CreateFails ==
  /\ Here("loaded")
  /\ IF job.status = "gone" THEN Works ELSE Fails
  /\ IF worker.kind = "media" /\ ~IsNote THEN UNCHANGED file ELSE file' = Erased(worker.file)
  /\ SkipOrStop
  /\ UNCHANGED <<deletion, sweep>>

(* FinishStep and, for a download, CompleteDownload; else the transcription *)
Keep ==
  /\ Here("kept") /\ job.status = "running"
  /\ IF job.plan = "download"
       THEN End("completed")
       ELSE /\ worker' = [worker EXCEPT !.pc = "next", !.file = NoFile,
                                        !.kind = IF Segments = 0 THEN "result" ELSE "source",
                                        !.left = IF Segments = 0 THEN Results ELSE Segments]
            /\ UNCHANGED job
  /\ Works /\ UNCHANGED <<file, deletion, sweep>>

(* ... which the run may be cancelled under, or the job gone; or they fail *)
KeepFails ==
  /\ Here("kept")
  /\ Works \/ Fails
  /\ Goto("rollback")
  /\ UNCHANGED <<job, file, deletion, sweep>>

(* rollbackFile: DeleteFileRecord, and only then Remove *)
Rollback ==
  /\ Here("rollback")
  /\ \/ Works /\ Forget({worker.file}) /\ Goto("rollback.erase") /\ UNCHANGED job
     \/ Fails /\ UNCHANGED file /\ Bailed
  /\ UNCHANGED <<deletion, sweep>>

RollbackErase ==
  /\ Here("rollback.erase")
  /\ RemoveAnyway(worker.file)
  /\ Bailed
  /\ UNCHANGED <<deletion, sweep>>

(* The provider has answered, one way or the other: the source is removed, *)
(* its row marked, and the marked rows of sources deleted                  *)
SourceErase ==
  /\ Here("asr")
  /\ RemoveAnyway(worker.file)
  /\ Goto("asr.mark")
  /\ UNCHANGED <<job, deletion, sweep>>

SourceMark ==
  /\ Here("asr.mark")
  /\ \/ Works /\ MarkDeleted(worker.file)
     \/ Fails /\ UNCHANGED file
  /\ Goto("asr.purge")
  /\ UNCHANGED <<job, deletion, sweep>>

SourcePurge ==
  /\ Here("asr.purge")
  /\ \/ Works /\ Forget({f \in Files : file[f].kind = "source" /\ file[f].row = "marked"})
     \/ Fails /\ UNCHANGED file
  /\ Advance
  /\ UNCHANGED <<job, deletion, sweep>>

(* FinishStep of a note's images, if there are any *)
ImagesDone ==
  /\ Here("next") /\ IsNote /\ worker.kind = "media" /\ worker.left = 0
  /\ \E f \in Files : file[f].kind = "media" /\ file[f].run = job.run /\ file[f].row # "none"
  /\ worker' = [worker EXCEPT !.kind = "result", !.left = Results]
  /\ Works /\ UNCHANGED <<job, file, deletion, sweep>>

(* CompleteTranscription *)
Complete ==
  /\ Here("next") /\ worker.kind = "result" /\ worker.left = 0 /\ job.status = "running"
  /\ job' = [job EXCEPT !.status = "completed"]
  /\ IF job.plan = "transcribe"
       THEN \E f \in Files :
              /\ file[f].kind = "media" /\ file[f].run = job.run
              /\ worker' = [IdleWorker EXCEPT !.pc = "trim", !.file = f]
       ELSE worker' = IdleWorker
  /\ Works /\ UNCHANGED <<file, deletion, sweep>>

(* An error or a cancellation between two files; a note returns the errors *)
(* of its results as they are                                              *)
Break ==
  /\ Here("next") \/ Here("list")
  /\ \/ Works /\ End("ended")
     \/ Works /\ ~(IsNote /\ worker.kind = "result") /\ End("waiting")
     \/ Fails /\ End("running")
  /\ UNCHANGED <<file, deletion, sweep>>

(* The text alone was asked for: the video is removed, then marked *)
Trim ==
  /\ Here("trim")
  /\ RemoveAnyway(worker.file)
  /\ Goto("trim.mark")
  /\ UNCHANGED <<job, deletion, sweep>>

TrimMark ==
  /\ Here("trim.mark")
  /\ \/ Works /\ MarkDeleted(worker.file)
     \/ Fails /\ UNCHANGED file
  /\ worker' = IdleWorker
  /\ UNCHANGED <<job, deletion, sweep>>

Run ==
  \/ Claim \/ List \/ DropRows \/ EraseStale
  \/ Write \/ Rename \/ WriteFails \/ Cancelled
  \/ Create \/ CreateCancelled \/ CreateFails
  \/ Keep \/ KeepFails \/ Rollback \/ RollbackErase
  \/ SourceErase \/ SourceMark \/ SourcePurge
  \/ ImagesDone \/ Complete \/ Break \/ Trim \/ TrimMark

-----------------------------------------------------------------------------
(* Requests *)

CancelWaiting ==
  /\ job.status = "waiting"
  /\ job' = [job EXCEPT !.status = "ended"]
  /\ UNCHANGED <<file, worker, deletion, sweep, trouble>>

Retry ==
  /\ job.status = "ended"
  /\ job' = [job EXCEPT !.status = "waiting"]
  /\ UNCHANGED <<file, worker, deletion, sweep, trouble>>

(* Mutant: the handler leaves the files to nobody *)
DeleteReadOnly ==
  /\ deletion.pc = "free" /\ job.status \in Finished
  /\ deletion' = [NoDeletion EXCEPT !.pc = "check", !.run = job.run]
  /\ UNCHANGED <<job, file, worker, sweep, trouble>>

(* DELETE /jobs/{id}: the handler reads the status, lists the files (and   *)
(* takes an error for an empty list), removes them one by one, reads the   *)
(* status again (Service.Delete) and deletes the job with all its rows     *)
DeleteRead ==
  /\ deletion.pc = "free" /\ job.status \in Finished
  /\ deletion' = [NoDeletion EXCEPT !.pc = "list", !.run = job.run]
  /\ UNCHANGED <<job, file, worker, sweep, trouble>>

DeleteList ==
  /\ deletion.pc = "list"
  /\ \E S \in {ListByJob, {}} :
       /\ IF S = ListByJob THEN Works ELSE Fails
       /\ deletion' = [deletion EXCEPT !.todo = S, !.pc = IF S = {} THEN "check" ELSE "erase"]
       /\ file' = [f \in Files |-> IF f \in S THEN [file[f] EXCEPT !.doomed = TRUE] ELSE file[f]]
  /\ UNCHANGED <<job, worker, sweep>>

DeleteErase ==
  /\ deletion.pc = "erase"
  /\ LET f == First(deletion.todo) IN
       /\ Removable(f) /\ file' = Erased(f)
       /\ deletion' = [deletion EXCEPT !.todo = @ \ {f},
                                       !.pc = IF deletion.todo = {f} THEN "check" ELSE @]
  /\ Works /\ UNCHANGED <<job, worker, sweep>>

DeleteCheck ==
  /\ deletion.pc = "check"
  /\ deletion' = IF job.status \in Finished THEN [deletion EXCEPT !.pc = "rows"] ELSE NoDeletion
  /\ UNCHANGED <<job, file, worker, sweep, trouble>>

DeleteRows ==
  /\ deletion.pc = "rows"
  /\ job' = [job EXCEPT !.status = "gone"]
  /\ Forget(Files)
  /\ deletion' = NoDeletion
  /\ Works /\ UNCHANGED <<worker, sweep>>

(* A removal or a statement fails, or the client hangs up, and the request *)
(* ends with it                                                            *)
DeleteFails ==
  /\ deletion.pc \in {"erase", "check", "rows"}
  /\ deletion' = NoDeletion
  /\ Works /\ UNCHANGED <<job, file, worker, sweep>>

-----------------------------------------------------------------------------
(* cleanup.Service.Once *)

Due == {f \in Files : Live(f) /\ file[f].expired}

(* Repository.Expired returns Limit of them, or all if there are fewer *)
Expired == {S \in SUBSET Due : Cardinality(S) = Limit \/ (S = Due /\ Cardinality(S) < Limit)}

Tick ==
  /\ sweep.pc = "idle"
  /\ sweep' = [sweep EXCEPT !.pc = "scan"]
  /\ UNCHANGED <<job, file, worker, deletion, trouble>>

Scan ==
  /\ sweep.pc = "scan"
  /\ \/ /\ Works
        /\ \E S \in Expired :
             sweep' = IF S = {} THEN IdleSweep
                      ELSE [pc |-> "erase", todo |-> S, full |-> Cardinality(S) = Limit]
     \/ Fails /\ sweep' = IdleSweep
  /\ UNCHANGED <<job, file, worker, deletion>>

(* The batch without f; a full batch is followed by another one *)
SweepPast(f) ==
  sweep' = IF sweep.todo # {f} THEN [sweep EXCEPT !.todo = @ \ {f}, !.pc = "erase"]
           ELSE [IdleSweep EXCEPT !.pc = IF sweep.full THEN "scan" ELSE "idle"]

(* Mutant: the first file that cannot be removed ends the cleanup *)
SweepEraseOrStop ==
  /\ sweep.pc = "erase"
  /\ LET f == First(sweep.todo) IN
       \/ /\ Removable(f) /\ file' = Erased(f)
          /\ sweep' = [sweep EXCEPT !.pc = "mark"]
       \/ ~Removable(f) /\ UNCHANGED file /\ sweep' = IdleSweep
  /\ Works /\ UNCHANGED <<job, worker, deletion>>

SweepErase ==
  /\ sweep.pc = "erase"
  /\ LET f == First(sweep.todo) IN
       \/ /\ Removable(f) /\ file' = Erased(f) /\ Works
          /\ sweep' = [sweep EXCEPT !.pc = "mark"]
       \/ /\ IF Removable(f) THEN Fails ELSE Works
          /\ UNCHANGED file
          /\ SweepPast(f)
  /\ UNCHANGED <<job, worker, deletion>>

SweepMark ==
  /\ sweep.pc = "mark"
  /\ LET f == First(sweep.todo) IN
       /\ \/ Works /\ MarkDeleted(f)
          \/ Fails /\ UNCHANGED file
       /\ SweepPast(f)
  /\ UNCHANGED <<job, worker, deletion>>

Cleanup == Tick \/ Scan \/ SweepErase \/ SweepMark

-----------------------------------------------------------------------------
(* Media and sources have an expiry, results have none *)
Expire(f) ==
  /\ Live(f) /\ ~file[f].expired /\ file[f].kind # "result"
  /\ file' = [file EXCEPT ![f].expired = TRUE]
  /\ UNCHANGED <<job, worker, deletion, sweep, trouble>>

(* The process dies and starts again; the queue's recovery finds the job   *)
(* or, while its lease has not expired, does not                           *)
Crash ==
  /\ Fails
  /\ worker' = IdleWorker /\ deletion' = NoDeletion /\ sweep' = IdleSweep
  /\ job' \in {job, [job EXCEPT !.status = IF @ = "running" THEN "waiting" ELSE @],
                    [job EXCEPT !.status = IF @ = "running" THEN "ended" ELSE @]}
  /\ UNCHANGED file

Init ==
  /\ job \in [plan : Plans, status : {"waiting"}, run : {0}, cluttered : {FALSE}]
  /\ file = [f \in Files |-> Absent]
  /\ worker = IdleWorker
  /\ deletion = NoDeletion
  /\ sweep = IdleSweep
  /\ trouble = 0

Next ==
  \/ Run
  \/ CancelWaiting \/ Retry
  \/ DeleteRead \/ DeleteList \/ DeleteErase \/ DeleteCheck \/ DeleteRows \/ DeleteFails
  \/ Cleanup
  \/ \E f \in Files : Expire(f)
  \/ Crash

Spec == Init /\ [][Next]_vars

(* The goroutines go on, and time passes *)
FairSpec ==
  /\ Spec /\ WF_vars(Run)
  /\ WF_vars(Tick) /\ WF_vars(Scan) /\ WF_vars(SweepErase) /\ WF_vars(SweepMark)
  /\ \A f \in Files : WF_vars(Expire(f))

-----------------------------------------------------------------------------
(* Properties *)

(* Rows, places and goroutines hold only values the program can store, and *)
(* a loop over files has one to go on with.                                *)
TypeOK ==
  /\ job \in [plan : Plans, status : Status, run : 0..MaxRuns, cluttered : BOOLEAN]
  /\ file \in [Files -> File]
  /\ worker \in Worker /\ deletion \in Deletion /\ sweep \in Sweep
  /\ worker.pc \in {"drop", "erase"} => worker.todo # {}
  /\ deletion.pc = "erase" => deletion.todo # {}
  /\ sweep.pc \in {"erase", "mark"} => sweep.todo # {}
  /\ trouble \in 0..MaxTroubles

(* A file that a link may be gone from: it has expired, it was for the     *)
(* provider only, only the text was asked for, or a deletion listed it     *)
Withdrawn(f) ==
  \/ file[f].expired \/ file[f].doomed
  \/ file[f].kind = "source"
  \/ file[f].kind = "media" /\ job.plan = "transcribe" /\ job.status = "completed"

(* Whatever fails or dies, a file that the table lists is on disk, unless  *)
(* it was withdrawn: a run forgets its files before it removes them.       *)
ListedFilesExist == \A f \in Files : Live(f) => Written(f) \/ Withdrawn(f)

(* A completed job lists the files of its last run only, and not the       *)
(* copies that a run left which died, failed or was cancelled: unless the  *)
(* last one could not delist these at its beginning.                       *)
OneRunIsListed ==
  job.status = "completed" /\ ~job.cluttered =>
    \A f \in Files : Live(f) => file[f].run = job.run

(* A completed job lists all the results of its last run, whatever failed. *)
ResultsAreComplete ==
  job.status = "completed" /\ job.plan # "download" =>
    Cardinality({f \in Files : Live(f) /\ file[f].kind = "result" /\ file[f].run = job.run}) = Results

(* The provider can fetch the source while it transcribes: nobody removes  *)
(* it before its expiry, unless the job itself is deleted.                 *)
SourceIsThere ==
  Here("asr") /\ job.status # "gone" =>
    LET f == worker.file IN
      file[f].expired \/ file[f].doomed \/ (Live(f) /\ Written(f) /\ file[f].kind = "source")

(* The run under way still has to register or to remove the file *)
InHand(f) ==
  \/ f = worker.file /\ worker.pc \in {"loading", "loaded", "rollback.erase"}
  \/ f \in worker.todo /\ Here("erase")

(* Nothing stays on disk that the table does not list, as long as nothing  *)
(* fails and the job exists, whoever cancels, retries or deletes it: but   *)
(* for a video whose run is cancelled just when its row is to be inserted. *)
NothingIsForgotten ==
  trouble = 0 /\ job.status # "gone" =>
    \A f \in Files : file[f].disk # "none" => Live(f) \/ InHand(f) \/ file[f].lost

(* A deletion leaves none of the job's files on disk, if nothing failed    *)
(* and the job was not run again since the request read its status: but    *)
(* for such a video, which no row leads to.                                *)
CleanDeletion == deletion.pc = "rows" /\ job'.status = "gone" /\ job.run = deletion.run /\ trouble = 0

DeletionsTakeTheFiles ==
  [][CleanDeletion => \A f \in Files : file'[f].disk = "none" \/ file[f].lost]_vars

(* A file that expires is delisted, and removed if it is not the failure   *)
(* of something else, even when others, fewer than a batch, cannot be.     *)
ExpiredFilesAreRemoved ==
  \A f \in Files \ Stuck :
    Live(f) /\ file[f].kind # "result" ~>
      ~Live(f) /\ (trouble = 0 /\ job.status # "gone" => file[f].disk = "none")

=============================================================================
