# LuxuryVideoTool: the verification project

LuxuryVideoTool (DouyinCapture) is a Go server that takes a shared link, resolves the work behind it,
downloads its media, optionally transcribes the speech with a paid ASR provider, and serves the results
to a web page and a Flutter client. This directory holds TLA+ models of the server, the TLC
configurations that check them on small instances, and TLAPS proofs of what matters most for every value
of the constants. All paths below are relative to `services/api_go/internal/` unless they say otherwise.

## 1. Inventory

| Component | State it keeps | Operations | Interacts with |
|---|---|---|---|
| Job queue and worker (`jobs/worker.go`, `jobs/repository_sqlite.go`) | `jobs` rows (status, attempt_count, lease_owner, lease_expires_at, retry_at), the goroutine of each loop, the map `stops` | ClaimNext, process, processNote, Heartbeat, SetStage..., Complete..., RetryLater, Fail, CancelOwned, Recover, FailExhaustedQueued | resolver, downloader, transcriber, files; the job service through the table and `Worker.Cancel` |
| Job service (`jobs/service.go`) | none of its own: requests in flight | CreateInfo, CreateDownload, Delete, Cancel, Retry | the table; `Worker.Cancel`; the resolver (info jobs) |
| Job steps (`job_steps`) | a row per step of an attempt | BeginStep, FinishStep | written by the worker, read by the job details |
| Transcriber (`jobs/transcription.go`) | audio and segment files of one run | Run, registerAudio, writeResult | ffmpeg, ASR service, files |
| ASR service (`asr/`) | `asr_calls` rows, the budget mutex, the runtime settings | TranscribeSegment (budget, primary, fallback), Submit/SetProviderTask/Complete/Fail | providers over HTTP; `Recover` reads its rows |
| Files (`files/`) | `files` rows and the directory tree | Create, ListByJob, Expired, MarkDeleted, NewTarget, WriteAtomic, Remove | worker, cleanup, deletion, downloads |
| Cleanup (`cleanup/`) | none | Once, every hour | files |
| Media (`media/`) | temporary files | Download, ExtractMP3, SplitMP3 | worker, transcriber |
| Resolver (`resolver/`) | `works` rows (a cache), the ttwid cookie in memory and in a file, a headless browser | Resolve, FindFresh, Save, TtwidManager.Get | worker, info requests; the website |
| Authentication (`auth/`) | `users`, `refresh_tokens` | Login, Refresh, Logout, Revoke..., ResetPassword, ChangePassword, SetUserActive, ValidateAccess | every request |
| HTTP API (`httpapi/`) | the login limiter's windows | the handlers, loginLimiter.Allow | all of the above |
| Runtime settings, audit, results, config, database, admin command, web page, Flutter client, scripts | see PROJECT.json | | |

### What is hard here

* Two worker loops, a heartbeat goroutine per run, request handlers and a start-up sequence all update
  the same `jobs` row, each with its own WHERE clause. SQLite has one connection, so a statement is
  atomic, and nothing larger is: what a goroutine read is stale one statement later.
* A run is stopped by cancelling a Go context. Who cancelled it (user, heartbeat, SIGTERM) is lost, and
  where an error is formatted with `%v` the cancellation itself is lost.
* The process may stop at any statement. Recovery runs once, when the worker starts.
* Files exist twice, as a row and on disk, and the two are changed one after the other.
* Transcription costs money: a replay bills again, a budget is checked against estimates.
* Sessions are created from what was read some statements earlier, and so are jobs: the look-up of an
  idempotency key and the insertion are two statements.
* Callers of the resolver meet at a mutex that is held while a browser runs, and at the row of a work
  that each of them may be about to insert or to overwrite.

The hazards are listed one by one, with their lines, in `PROJECT.json`.

### What makes each component correct

* Queue: one runner per job; a runner owns its row; nobody else moves it; finished stays finished;
  attempts are bounded and counted; a cancel stops no other job; every job ends, and a job that does not
  is the trace of a fault or of one of the errors that `process` returns without an outcome.
* Files: a row that is served has its file; nothing stays on disk for ever without a row.
* ASR: the stored calls of a period never exceed the budget by more than one segment; no provider task
  that is recorded as open is paid for twice without somebody being asked; a completed job has lost
  nothing of what was said.
* Requests: a key makes one job, and its answer is what was asked for; nobody else writes a job that a
  request resolves, and such a job ends.
* Resolver: one browser at a time; the file of the cookie is never older than the memory; a work has one
  row, whose id is its own for good; every call ends.
* Login limiter: no minute, but for what may be late at its two ends, lets through more than the limit
  twice, and nobody is refused for what was long ago.
* Authentication: a refresh token is exchanged at most once; nobody is signed in after a revocation,
  a reset or a deactivation.

## 2. Plan

In order of importance. Finished modules are described in section 3.

1. `JobLifecycle`, `JobQueue`, `JobQueueProofs` (done): the queue, its abstract specification, the proofs.
2. `DeviceLogins`, `AuthSessions`, `AuthSessionsProofs` (done): the sessions, what they promise to a
   device, the proofs.
3. `JobFiles`, `JobFilesProofs` (done): the files of a job on disk and in the table, through runs,
   crashes, cleanup and deletion, and the proofs of its safety properties.
4. `AsrCalls`, `AsrCallsProofs` (done): the segments, the budget, the fallback, recovery.
5. `JobRequests`, `JobRequestsProofs` (done): the create requests of one key and the info jobs.
6. `Ttwid`, `Resolver`, `WorksTable`, `ResolverProofs` (done): the cookie, the calls of the resolver
   over it, the abstract table of works, the proofs and the refinement.
7. `LoginLimiter`, `LoginLimiterProofs` (done): the windows of the login limiter; with `Sums`, which the
   proofs about the limit and about the budget share.
8. Not begun: the retry delays, `job_steps`, merging the texts of the segments.

What is proved is in section 5: every safety property that a run checks.

## 3. The modules

### JobLifecycle: what the queue promises

The state diagram of a job with the number of its runs: accepted, started at most `MaxAttempts` times,
put back only if it may start again, ended, withdrawn while it waits, retried with a fresh count,
purged. It knows nothing of workers, leases or crashes.

### JobQueue: the table, the loops, the requests, the process

| State | Code |
|---|---|
| `row[j]` | the row of a job: `status`, `action`, `attempt` (attempt_count), `owner` (lease_owner), `lease` (lease_expires_at: none, live, expired), `due` (retry_at <= now), `tasks` (calls of the job with an open provider task); `spoilt` is a history: the run or the request met a shell, or could not write a result of a note, and left the row as it was |
| `wk[w]` | the goroutine of a loop: where `process` stands, its job, whether jobCtx is live and who cancelled it, the class of the error it ends with |
| `stops[j]` | `Worker.stops`, by the worker whose cancel function is registered |
| `info`, `deleting` | CreateInfo and Delete requests between two statements |
| `phase` | down, the three statements of the start-up, running, stopping |
| `budget` | what is left of the bounds on crashes, faults and retries |

One action stands for one statement with the code up to the next one. `Claim`, `Register` and the
stages (`Resolved` ... `FinishNote`) are the successful path of `process`, `processNote` and
`Transcriber.Run`; `Break` is an error that goes through `failed`/`finishFailed`, and `Settle` the
statement of `failedWith` for its class. `Bail` is an error returned as it is after a cancellation, a lost
lease or a failing statement. Two more errors are returned as they are though nothing is wrong with the
database: `ResolvedShell`, when the detail API answers with an empty shell, whose id is empty, so that
SetResolved breaks the foreign key of work_id (`jobs/worker.go:140`), and `NoteUnwritten`, when a result of
a note cannot be composed or written (`jobs/worker.go:328-346`). Both mark the row as `spoilt`. `InfoShell`
is the shell in CreateInfo. None of the three costs a fault of the bound. `Unregister` and `Finish`
are the deferred calls. `Heartbeat` and `HeartbeatFault` are the heartbeat goroutine. The requests are
`Submit...`, `Info...`, `CancelWaiting`, `CancelRunning`, `Retry`, `DeleteCheck`, `DeleteRow`. `Boot`,
`RecoverAsr`, `RecoverLeases`, `FailExhaustedQueued`, `Stop`, `Crash` and `Exit` are the process.

Abstractions. There is no clock: the environment expires a lease and lets a retry fall due. A lease may
expire under a live worker whose heartbeats are late. `full` and `transcribe` take one path through the
queue. `created_at` is the identifier's rank. Columns that no WHERE clause reads are left out.

### DeviceLogins: what the session store promises

A login on a device happens once, and once signed out it stays so. It knows nothing of refresh tokens.

### AuthSessions: users, refresh tokens, requests

| State | Code |
|---|---|
| `user[u]` | the row of a user: `active`, `pw` (password_hash); `reset` is a history: the password of the last reset that has finished |
| `session[s]` | a row of refresh_tokens: `state` (revoked_at), `expired` (expires_at <= now), `owner` (user_id), `next` (replaced_by); `root`, `pw`, `swept` are histories of the login the session goes back to |
| `held` | the sessions whose tokens a client has received |
| `req[r]` | a request between two statements: which statement is next, with which token, for which user |

`LoginCheck`, `LoginCreate`, `LoginRecord` and `LoginUndo` are Service.Login; `RefreshRead`,
`RefreshPurge` and `RefreshRotate` are Service.Refresh with the transaction of RotateSession;
`Authenticate` and `SessionCheck` are ValidateAccess, after which `Logout`, `RevokeOwn` or
`ChangeWrite`, `ChangeSweep` runs. `RevokeAny`, `ResetWrite`, `ResetSweep`, `Enable`, `Disable` and
`DisableSweep` are the administrators. `Abort` is a request that ends between two statements: an error,
a client that goes away (the statements run under the request's context) or a crash.

Abstractions. A password is the number of the update that set it; a password that does not verify
changes nothing. A token is the session it names. A session's expiry is compared with the time at
which the request began, so `RefreshRotate` does not look at it again, as in the code. The creation of
users, the last-seen column and the audit entries are left out: no request decides on them.

### JobFiles: the table and the directory

| State | Code |
|---|---|
| `job` | the row of the job as far as files depend on it: what it may have to do (`plan`), its status; histories: the number of its runs, and whether the last one could not delist what the others had left (`cluttered`) |
| `file[f]` | `disk`: nothing, the `.part`, or the file under its name; `row`: none, live or marked (`deleted_at`); `kind`: media (video, image), source (the audio a provider fetches by URL) or result; `expired` (expires_at <= now); `run`, `doomed` and `lost` are histories: who wrote it, whether a deletion listed it, whether its run was cancelled while its row was inserted |
| `worker` | the run under way: where `process`, `processNote` or `Transcriber.Run` stands, the file it is at, the stale files it still has to remove, what it produces and how many more |
| `deletion` | a `DELETE /jobs/{id}` between two operations, with the list it read |
| `sweep` | `cleanup.Service.Once` between two operations, with its batch |
| `trouble` | what is left of the bound on crashes and failures |

One action is one statement or one file operation, since anything may fail or die between two. `List`,
`DropRows` and `EraseStale` clear what an earlier run left; `Write`, `Rename` and `Create` make a file,
with `WriteFails`, `Cancelled`, `CreateCancelled` (a user's cancel between the check at
`jobs/worker.go:179` and the INSERT, which fails with its context: no failure of anything, and possible
at any time) and `CreateFails` (the statement fails); `Keep`, `KeepFails`, `Rollback` and `RollbackErase` are
the end of a video; `SourceErase`, `SourceMark` and `SourcePurge` follow the provider's answer;
`ImagesDone` and `Complete` end what they are named for; `Trim` and `TrimMark` remove the video when
only the text was asked for. `Break` is any error or cancellation between two files. `DeleteRead` ...
`DeleteRows` are the handler with `Service.Delete`, `Tick` ... `SweepMark` the cleanup.

Abstractions. Names are random and never repeat, so a file is a number. What `JobQueue` proves of the
queue is taken over: one run at a time. The job's status is reduced to waiting, running, completed,
ended (failed or cancelled) and gone. There is no clock: media and sources may expire at any time, even
while they are used. The batch of the cleanup is any batch of the right size, so the order of the query
does not matter. `Stuck` are files that the operating system does not let anybody remove. One deletion
is under way at a time. The music of a note (one more medium that may fail) and the work files of ffmpeg
(which have no rows) are left out. A run that is over is forgotten at once, the job row's lease and
retries are in `JobQueue`.

### AsrCalls: the calls of speech recognition

| State | Code |
|---|---|
| `calls[c]` | a row of asr_calls: job, segment, status, `task` (provider_task_id is set), cost, day (started_at); `excused` is a history: the statement that was to end the row failed, or the owner asked for a retry since |
| `jobs[j]` | the job, reduced to waiting, transcribing, completed, failed and gone |
| `worker[w]` | where `Transcriber.Run` and `asr.Service` stand: segment, call, provider, the provider that is left |
| `day` | the clock, as far as the daily budget sees it |

`Take`, `NextSegment` are the loop over the segments that `SplitMP3` makes (`Start`, `Segments`, `End`);
`Lock`, `CheckBudget`, `Refuse`, `Create`, `Submit`, `Report`, `CallFails`, `Complete`, `CompleteFails`,
`FallBack`, `Settle` are `TranscribeSegment`, which holds `budgetMu` from `Lock` to the end; `Recover`,
`Retry` and `Delete` are the statements of the jobs repository that read or remove the calls. Money is
counted in estimates of one segment. Keys are a choice each time they are read.

### JobRequests: POST /jobs

| State | Code |
|---|---|
| `table[k]` | the row of jobs that has the key: number, contents, status, `leased` (lease_owner); `left` is a history: its request was cut off, or was given a shell, and left it as it was |
| `request[c]` | a request between two statements of CreateInfo or CreateDownload; `raced` is a history |

`Find`, `Create`, `CreateFails`, `FindAgain` are the two look-ups around the insertion; `Resolve`, `Fail`,
`CompleteInfo`, `CompleteShell` (the statement breaks the foreign key of a shell) and `Read` the rest of
CreateInfo; `Cut`, `CutInsert` and `Crash` what may end a request;
`Claim`, `Done`, `Cancel`, `Retry` and `Delete` what the queue and its owner do to the row meanwhile.

### Ttwid, Resolver and WorksTable: the resolver

`Ttwid` is TtwidManager: the cookie in memory, in the file (which `OpenFile` truncates before `WriteFile`
fills it), the callers of `Get` and the browsers that run. `Resolver` extends it: `call[c]` is a call of
Service.Resolve with the pc of its next statement or request, and `works[w]` the row of the table works.
`Ask`, `FindFresh`, `Expand`, `GetCookie`, `CookieReady`, `CookieFailed`, `DetailFails`, `DetailAnswers`,
`ReadPage`, `ReadSharePage` are the paths of Douyin.Resolve; `AnswerShell`, `Save`, `ReadBack` what the
service makes of the result. What the website says is a choice among `Objects` and `Pages`; which script
of a page wins, when a shell is passed over, and what a list of images does to a video are modelled by
what the code makes of them (`Parsed`, `WorksOn`). `WorksTable` is what the jobs rely on: a work has at
most one row, the row keeps its id, and is never replaced by an empty shell.

### LoginLimiter: the windows of POST /auth/login

`windows[k]` is the window of an address or an account with its age, `cleanup` the time of the last
cleanup, `attempt[c]` a handler between `time.Now()` and the second call of `Allow`, `allowed` a history
of what was let through. Times are ages, so that the model has no clock that grows: `Tick` makes
everything older, and `Delay` bounds how long an attempt waits for the mutex with the time it took before.
It is at most a minute: the mutex is held for one pass over a map of bounded size.

An attempt is counted when it was made, which may be `Delay` before it was let through. So a window may
begin that much before the cleanup that makes room for it, or be joined that much after the next has
begun, and the bound holds for `Stretch`, a minute less twice the delay. For a whole minute it does not: with a
limit of 3 and a delay of one tick, two attempts of the first window, the three of a second that a late
attempt begins after somebody else's cleanup, and two late ones that join the third make seven. The
delay is that of a mutex, so that the difference does not matter in practice.

## 4. What is checked

| Run | Instance | Question | Result |
|---|---|---|---|
| `queue_one_job` | 1 job, 2 workers, 2 attempts, 1 crash or SIGTERM, 1 fault, 1 retry, quick restarts | who touches a row, how often it runs, what strands it, refinement of `JobLifecycle` | holds, 0.9 million states |
| `queue_live` | 2 jobs, 1 worker, 2 attempts, 1 crash, restart after the leases expired | every queued job ends or is spoilt; a registered cancel function is that of a run of its own job | holds, 0.33 million states |
| `queue_in_progress` | 1 job, 1 worker, 1 crash, restart within the lease | no job is in progress for ever | violated |
| `queue_cancel_download` | 1 job, 1 worker | a cancelled download ends cancelled | violated |
| `auth_sessions` | 1 user, 3 sessions, 2 requests, 1 update, 1 abort | one successor per token, revocations that reach it, refinement of `DeviceLogins` | holds, 0.8 million states |
| `auth_reset` | 2 sessions, no abort | a reset of the password leaves nobody signed in | violated |
| `job_files` | 6 files, 2 runs, a transcription or a note, 1 crash or failure | listed files exist, nothing is forgotten, results are complete and of one run, deletions take the files | holds, 10.3 million states |
| `job_files_live` | 4 files, one of them stuck, batches of 2, 1 crash or failure | the cleanup removes what expires | holds, 0.23 million states |
| `asr_calls` | 2 workers, 2 jobs of 2 and 1 segments, 3 calls, 2 days | the budget, the replay of open tasks, the segments, an end to every run | holds, 0.56 million states |
| `job_requests` | 2 requests, 1 key, 2 contents, 3 jobs | one job for a key, answers that fit, info jobs that are left alone and end | holds, 48 thousand states |
| `resolver` | 2 callers, 3 cookies, 1 work, 2 rows, 2 attempts | one browser, the file, the rows and their ids, an end to every call, refinement of `WorksTable` | holds, 0.17 million states |
| `login_limiter` | 2 attempts, 2 addresses, 1 account, a limit of 2, a map of 3, a minute of 3 ticks | at most twice the limit; refusals have a reason | holds, 1.2 million states up to symmetry |

The violated properties are sentences of the repository's documents that the code does not keep; each is
a finding in `PROJECT.json` with the sentence and the line. The counterexample of `queue_in_progress` is a
shell, after which the process runs on and the job does not. With its two other ways, a crash during a
request for information and a restart before the lease has expired, `NoJobStaysInProgress` is
violated just so.

Bounds. Two workers are the most the server starts (`NewWorker` caps Concurrency at 2) and one job is
where they meet: claims are exclusive, so a second job matters only for the stops map, the order of
claims and the liveness of one loop serving two jobs; that is `queue_live`. Two attempts
distinguish the first, the last and the exhausted attempt. One crash, one fault and one retry each reach
every recovery and error path. Once, larger instances were explored with the same results: one job with
two workers, three attempts and two crashes, faults and retries (11 million states), two jobs with two
workers, two attempts and a retry (18 million).

Sessions. One user, because every statement of the store names one user and the sweeps of different
users touch different rows. Three sessions are a login, its successor and a second login (or a second
successor, which is what a missing check would create). Two requests meet at every pair of statements; a
third would repeat one of them. One update of the account and one abort reach every sweep that is overtaken or
not done.

Files. Two runs, because a run inherits files only from earlier ones, and the run before is as good as
any. Six files are the media, source and result of two runs of a transcription, or the image and the
result of a note with two to spare for repeated attempts. One image, segment and result each, because
the code treats the second like the first; a batch of one, so that a batch is full and another follows.
One crash or failure reaches every error path; `NothingIsForgotten` and `DeletionsTakeTheFiles` speak of
behaviours without any (`trouble = 0`), but with any cancellation, the others hold with it. Of a video whose
run is cancelled while its row is inserted these two say nothing (`lost`). `OneRunIsListed` excludes only
a last run that could not delist the files of the others. The
liveness run has three images, of which one cannot be removed, and batches of two: a full batch always
contains it, which is what would starve the others.

Calls. Two workers meet at the mutex; a job of two segments has a last one that is shorter than the rest
and a first that overlaps it, which is where a boundary could be lost. Three rows suffice for two
segments and a fallback. A daily budget of 2 and a monthly one of 3 are both reached, on different days;
a call may turn out to cost twice its estimate.

Requests. One key, since keys do not interact; two requests race for it; two contents are the same and
another; three jobs are the one that is raced for, one that replaces it after a deletion, and one more.

Resolver. One work, since rows of different works meet only in drawing ids; two callers, the one inside
Get and the one that waits; three cookies are the one in memory, the one in the file and a new one; two
rows, so that a second insertion would have another id. Two attempts are the first and the last.

Limiter. Two attempts, one of which is late; a minute of three ticks has a beginning, a middle and an end
that a delay of one can cross; a map of three is full once both addresses and the account are in it, so
that the attempt that finds it full is refused. Two addresses, so that the attempt of one cleans up the
window of the other while an attempt of that is late. The attempts are alike, and so are the addresses:
nothing names one of them, so their symmetry is sound.

`CHECK_DEADLOCK FALSE`: the number of jobs is finite and a crash leaves the bound spent, so a server
with nothing left to do stops. Likewise for the sessions: once all are used, expired or revoked and the bounds
are spent, no request changes anything.

Also reachable in these models, and worth a reviewer's attention, though no run is spent on them:

* A result of a note that cannot be written (a full disk) strands its job like a shell,
  in postprocessing: `NoteUnwritten`. The results of a transcription go through `failed`. `EveryJobEnds`
  lets a spoilt job stay as it is; its lease runs out, and the recovery of a later process starts it again.
* `stops` is keyed by the job, and the deferred delete of a run removes whatever entry is there. A run that
  put its job back (RetryLater) waits for its heartbeat before it deletes; if the other loop has claimed
  the job by then, the entry of that run goes, and it cannot be cancelled any more (`jobs/worker.go:116`).
  `CancelHitsItsJob` says of the entries that are there whose they are, not that every run has one.
* SIGTERM cancels the contexts of the running jobs; one that is resolving or transcribing is then stored as
  `cancelled` (`jobs/worker.go:132`, `421`), though `DouyinCapture_Product_Technical_Design.md:633` says of the
  state that the job was cancelled by its user or an administrator. The next process does not take it up.
* A failed or cancelled info job that its user retries is queued and claimed like the others
  (`jobs/repository_sqlite.go:563`), and a worker downloads the images of a note for it. The comment at
  `jobs/worker.go:217` takes it that such jobs do not come there.
* A claim whose SELECT fails (`jobs/repository_sqlite.go:442`, `ClaimUnread`) leaves a row that nobody runs.
* A cancel that comes between the claim and the registration of the cancel function is refused, and the
  job goes on (`jobs/worker.go:114`).
* A request that is cut off during CreateInfo, too, leaves the job `resolving` for ever, as a crash does
  and a shell: no recovery finds a row without a lease, and no cancel, retry or deletion takes it up
  (`jobs/repository_sqlite.go:594`). `InfoJobsEnd` excludes the cut and the shell
  (`left`), and shows that there is no third way.
* The loser of a race for an idempotency key, if it is not of action info, is answered with the job of
  the winner without a comparison of their contents (`jobs/service.go:66`); `AnswersFitTheRequest`
  excludes just this (`raced`).
* The budget is a sum over stored calls: deleting a job gives its cost back. `BudgetIsKept` speaks of
  the stored calls.
* `Recover` knows only tasks whose number was stored. A request to SiliconFlow, or a task submitted
  when the process stops before the number is stored, is made again by the next run. `NoBlindReplay`
  speaks of recorded tasks only. A poll that fails ends the call as failed though the task may go on;
  the retry submits it again.
* An empty shell is answered without a row of its own (`resolver/service.go:39`); whoever refers to its id
  fails at the foreign key. `AnswersAreRows` speaks of the answers that are rows.
* A page may lead to another work than the link named, and its object is saved under its own id. An
  older call may overwrite the row with what it read before a newer one did.
* The comment on the cookie speaks of 65 days, the constant of 300 days left (`resolver/ttwid.go:30`);
  the model takes the constant.
* An account gets twice the limit in a minute that is half in one window and half in the next, and a
  limit of its own apart from the address; `docs/api/README.md:75` speaks of one limit for the pair.
* `FinishStep("cancelled")` violates the CHECK of `job_steps.status`; the error is ignored and the step
  stays `running` (`jobs/worker.go:254`).
* Delete reads the status and deletes the row in two statements; a retry in between makes it delete a
  job that waits (`jobs/service.go:96`).
* A login that read the account as active stores its session after SetUserActive has revoked them all
  (`auth/service.go:57`, `226`), as for the reset; every use of that session is refused while the account is inactive.
* A deletion or a cleanup that stops after it removed a file and before it changed the row leaves a
  listed file that is not there. `ListedFilesExist` excludes expired files and files a deletion listed
  (`Withdrawn`); the order is the opposite of what the comment at `jobs/worker.go:226` asks of the runs.
* Delete reads the status, and lists the files one statement later. If the failed job is retried in
  between, the list holds files of the new run; they are removed from disk under it, and the second
  reading of the status refuses the deletion (`httpapi/router.go:847`). These files are `doomed`, which
  `ListedFilesExist` and `SourceIsThere` exclude. If the job has ended again by then it is deleted, and
  files the list did not hold stay on disk; `DeletionsTakeTheFiles` excludes it (`job.run = deletion.run`).
* A video whose row cannot be inserted stays on disk (`jobs/worker.go:189`), where images, sources and
  results are removed again: because a user cancels its run after the check at line 179 (`CreateCancelled`;
  Create runs under jobCtx), a statement fails (`CreateFails`) or the process dies. No row leads to it, so the
  deletion of the job leaves it, though `docs/api/README.md:69` says that a deletion takes the media, too.
  `NothingIsForgotten` and `DeletionsTakeTheFiles` except just the video of the cancel (`lost`).
* A deletion takes a failed listing for an empty one (`httpapi/router.go:853`): the rows go, the files stay.
  It is a failure (`trouble`), which `DeletionsTakeTheFiles` excludes.
* A whole batch of files that cannot be removed keeps the cleanup busy for ever (`cleanup/cleanup.go:25`);
  `ExpiredFilesAreRemoved` is checked with fewer.
* A refresh that overtakes a logout leaves its successor signed in, and one that overtakes a password
  change signs the changing device out. `LogoutEndsTheLogin` and `ChangeKeepsTheDevice` exclude just
  these two cases (`~Rotated`).

### Fairness

`FairSpec` adds weak fairness to a loop's claim and to the statements of `process` (goroutines that the
Go scheduler runs, over calls that all carry a timeout), to the clock behind retry_at, to the start-up
statements, to the exit after SIGTERM, and to the statements of an info request; strong fairness to the
end of the transcription (an audio file has finitely many segments, so the loop over them ends). Nothing
is assumed of users, crashes, faults or the expiry of leases while a process is up; a lease of a dead
process does expire.

`EveryJobEnds` needs `QuickRestart = FALSE` (a restart finds the old leases expired) and no failing
statement: a statement of the worker that fails after the claim strands the run as a quick restart does.
It lets a job stay active that is spoilt. What a stage answers is the environment's choice, a shell
included: `WF` of the statements of an info request is of the disjunction of its three ends
(`InfoCompleted`, `InfoFailed`, `InfoShell`), and the `Serving` of `JobRequests` holds `CompleteShell`.

`JobFiles` has weak fairness of the run (a goroutine whose calls carry timeouts), of each statement of the
cleanup (a goroutine behind a ticker) and of time, by which media and sources expire. Nothing is assumed
of requests, failures and crashes.

`AsrCalls` has weak fairness of what a run does by itself, failing included (every call of a provider has
a timeout), not of the success of a provider; and strong fairness of the mutex, which Go's sync.Mutex
grants in its starvation mode: a waiter of a millisecond is served in its turn. `Resolver` has the same,
with the deadlines of the requests, of the browser and of the polling; `JobRequests` weak fairness of the
statements of a request. No run assumes that a user or a website does anything. `LoginLimiter` needs none.

## 5. What is proved

`JobQueueProofs` proves, for every set of jobs and workers and every value of the bounds, type
correctness, `LeaseDiscipline`, `AttemptsBounded`, `OneRunner`, `RunnerOwnsItsJob`,
`FinishedStaysFinished`, `AttemptsCountClaims`, `NoInterference`, `CancelHitsItsJob`,
`AbandonedOnlyByFaults`, and that the queue implements `JobLifecycle`.
The assumptions are the named `ASSUME`s of `JobQueue`.

The argument. `RunnerOwnsItsJob` (a worker that holds a job owns its lease and finds it in the status of
its stage) is the heart, and it is not inductive alone. `IInv` adds that the rows are well formed
(`Types`, with the discipline of the leases: an owner only in an active status), that a goroutine has a
job exactly when it is not idle and holds nothing while the process is down (`Working`), that two
workers never hold the same job (`OneRunner`: needed so that the statement of one worker cannot disturb
the row of another), and that pending requests refer to rows that exist (`RequestsKnown`). Every action
is first summarised by what it does to one row (`RowStep`) and to one worker (`Outcome`), or as one of
the start-up and shut-down steps (`Served`, `Restarted`, `Halted`); invariance and the action properties are
then proved from the summaries, not from the thirty-odd actions. The lease guard makes a bystander's
row safe (lemma `Bystander`). For `AbandonedOnlyByFaults` it is not enough that somebody is on each
active job: `Mindful` says that this worker owns the row and still has a statement to run that ends it,
so that the guard on the owner will not turn that statement into a no-op. A spoilt row is one that a
worker has left without such a statement: it stays spoilt until it is claimed or requeued (`SpoiltRow`).

`AuthSessionsProofs` proves, for every set of users, sessions and requests, type correctness,
`OneLivePerLogin`, `SweepsReachSuccessors`, `RotationsAreRecorded`, `LogoutEndsTheLogin`,
`ChangeKeepsTheDevice`, and that the store implements `DeviceLogins`. A step can do one of three things
to the sessions: end some (`Ends`), store one login (`SignedIn`) or replace a live session by its
successor (`Rotates`). The invariants are proved from these three. They need what keeps a chain of
rotations a chain: a live session has no successor (`LiveIsLast`), a session that is not its own root
has a predecessor and the root exists (`Linked`), rows not yet stored are blank (`Blank`).

`JobFilesProofs` proves every safety property of `JobFiles`, for any plans, counts, batches and bounds:
type correctness, `ListedFilesExist`, `SourceIsThere`, `OneRunIsListed` and `ResultsAreComplete`, and, if
every file can be removed (`Stuck = {}`), `NothingIsForgotten` and `DeletionsTakeTheFiles`, with runs that
are cancelled at any moment. Every step is
first summarised by what it does to one file (`FilesAge`): a file is new, or it keeps its kind and run,
loses its row or its place only for a named reason, and gets a row only by `Create`. The invariants then
say why no such reason applies. `Shape` says what each goroutine knows of the files it is at: a file
being written has no row and has not expired, the stale files being removed have no rows, a batch of the
cleanup has expired, a batch of a deletion is doomed. On it rest `Cleaned` (after the stale files are
gone only files of this run are listed), `Erasures` (what is marked is not on disk), `Alone` (while the
job is not run again, a deletion meets no run) and `Counted` (results made and to be made add up).

`AsrCallsProofs` proves type correctness, `Serial` (one worker at a time is between the check of the
budget and the end of its call), `NoBlindReplay`, `BudgetIsKept` and `NothingSaidIsLost`, for every number
of workers, jobs and calls, any audio and any budget. The invariant adds to `Serial` that a worker runs a job of its
own (`Owned`), that the call under way is a row of that job (`Called`), and that of the calls of a job
that a worker runs only the one under way may be open and not excused (`Settled`). A crash leaves such a
call behind with a job that is still transcribing, and `Recover` looks for exactly that.

For the budget the invariant (`Budgeted`) says that the sums exceed it by less than what the call under way
may still grow by: only a call whose worker is in the service can become dearer, `Serial` makes it the
only one, and its estimate was in the sum, or not yet stored, when the budget was checked. That the check
and the insertion are two statements is why this needs the mutex; midnight between them only begins an
empty day. For what is heard, a run has every segment it has left behind (`Behind`), and the call under
way is for the segment it is at (`OwnCall`); that the segments of a finished run leave
out nothing that takes no longer than the overlap is arithmetic (`SegmentAt`, `SegmentsCover`).

How far a run is from its end is a number (`Ahead`): 18 for each segment that is left, and less by what
has been done in this one. `RunsAreFinite` says that every step of a run makes it smaller, a step of anyone
else leaves it, and a crash ends the run. The one step that goes back in the program is the fallback, from
the end of the first call to another check of the budget; the check is followed by a second provider only,
since one is left only as long as the first has its turn (`Orderly`). So a run sends a segment twice at most.

`Sums` is about `SumFunctionOnSet` of the community modules, which is a fold, for which the library has no
theorems. Induction needs an operator as a parameter; instead the sum is shown to be the number of coins
when `f[x]` of them lie on each `x` (`SumCountsCoins`): a smallest set on which the two differ, which exists
because the subsets of a finite set are well founded, would differ on less. What the proofs then need
follows from the theorems on cardinalities: a sum over more is not less, one element changes it by what it
changes, moving the elements keeps it (`SumOfMore`, `SumOfOneChanged`, `SumOfMoved`).

`LoginLimiterProofs` proves type correctness, `AtMostTwiceTheLimit` and `RefusedForAReason`, for any sets of
attempts, addresses and accounts and any limit, capacity, minute and delay of up to a minute. `Good` relates the window
of one key to the history of that key. What was allowed from the window's beginning on, give or take the
delay, is what the window counts (`CountsNoLess`, `CountsNoMore`); a stretch that reaches among the ages
that a late attempt may have leaves room for one more window (`RoomForOne`), which is what keeps the bound
inductive: when a window is over, all of such a stretch lies within it and is at most the limit, and a new
window adds at most the limit again. `CleanedInTime` bounds the age of what a cleanup has left, and with it
how long a full map can refuse. There is one lemma for each thing that can happen to a key: it is cleaned
up, a window begins, it goes on, time passes.

`JobRequestsProofs` proves type correctness, `OneJobForAKey`, `AnswersFitTheRequest` and
`ResolvingIsUndisturbed` for any number of requests, keys and contents. Numbers are never given twice
(`Numbered`), a request's job is the row of its key or gone (`Traced`), what is not raced fits (`Fits`),
and no two requests resolve the same job (`Alone`). That the last two are inductive is the point: `Fail`
has no guard on the status or the owner, and is safe only because nothing else can touch the row.

`ResolverProofs` proves every safety property of `Resolver` for any callers, cookies, works and rows and
whatever the website says: type correctness, `OneBrowser`, `FileFollowsMemory`, `AnswersAreRows`, and that
the resolver implements `WorksTable` (`RowsArePermanent`), which with one work the run cannot show for the
uniqueness of ids. The cookie is independent of the rest and proved first: at most one call is inside Get
(`Serial`), and while one writes the file its cookie is the one in memory (`FileKeepsUp`). `Good` then
says of each call what it knows: the work it looks up, that what it saves has an identifier, that the row it
answers has the id of the row of its work. It survives the saves of others because `Upserted` keeps ids.
`CallsAreFinite` gives every call a number of steps that are left (`Ahead`), which each of its steps makes
smaller: the detail API is asked a bounded number of times, Get is gone through once, and a page leads to
one other page at most. It rests on a call being in Get only where it waits for its cookie (`Orderly`).

Model-checked only: the liveness properties (`EveryJobEnds`, `EveryRunEnds`, `EveryCallEnds`, `InfoJobsEnd`,
`ExpiredFilesAreRemoved`; liveness is out of the prover's reach), and everything the violation runs refute.
For `EveryRunEnds` and `EveryCallEnds` the theorems show one half, that nobody goes on for ever; that
nobody stands still for ever, because the mutex is handed on, is the half that the runs show.
The only recursion is that of the sums; no induction over data is left out.

## 6. Not modelled, and why

* Parsing of pages and links, the request signature (`abogus`, `sm3`), formatting of results: computation
  on bytes without state or interaction. What `SafeClient` admits is a check on one address.
* `job_steps`: a log that the worker writes and the details of a job show; nothing decides on it.
* The runtime settings are read in `AsrCalls` (keys and budget); storing them is one statement each.
* The audit log, listings and statistics: nothing decides on what they read.
* Configuration and migrations: run once, before anything is concurrent.
* The web page and the Flutter client: they poll the API; the server must be right whatever they send.
* The work files of ffmpeg and the bytes of a download: they are in `JobFiles` as far as files stay behind.
