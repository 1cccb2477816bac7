# A verification of the Digital Human Factory backend

TLA+ models of the parts of this repository whose correctness depends on the
order in which things happen: the Avatar Registry over PostgreSQL, the Google
Drive storage provider, the diagnostic jobs over Redis and Celery, and the health
endpoints. TLC checks the models on small instances; TLAPS proves safety
properties of each of the seven for every value of their constants.

Paths below are relative to `src/` unless they name a `.tla` or `.cfg` file.

## 1. The system

The repository is the first stages of a video factory: a FastAPI application
(`apps/api`), a Celery worker (`workers/job_worker`), a web interface
(`apps/web`), and libraries: `core/avatars` (the registry of avatars),
`services/storage` (the storage provider on Google Drive), `packages/shared`
(settings, database engine, Celery application, error vocabulary).

| Component | State it keeps | Operations | Interacts with |
|---|---|---|---|
| Avatar Registry (`core/avatars/dhf_avatars`) | table `avatars`: slug, name, status, metadata, version | POST, GET, PATCH, DELETE `/avatars` | PostgreSQL, two sessions for each PATCH or DELETE |
| Folder resolution (`google_drive.py:136-201`, `cache.py`) | `FolderIdCache` and the creation lock of each process; the folders of Drive | `_resolve_path` with and without `create_missing` | Drive API, through `with_retry` |
| File operations (`google_drive.py:203-492`, `drive_api.py`) | files and upload sessions of Drive, the local destination of a download | upload, download, delete, copy, move, list, exists, get_metadata | Drive API, folder resolution |
| Sync of a directory (`google_drive.py:494-549`) | the lists of its report | `sync` | local files, `get_metadata` and `upload` |
| Connection status (`google_drive.py:235-305`) | `_status_cache`, `_status_lock`, the credentials loaded once | `get_status(force)` | Drive API, the credential file |
| Diagnostic jobs (`routers/jobs.py`, `celery_app.py`, `worker/`) | markers, queue and results in Redis | POST and GET `/jobs/diagnostic`, the task itself | Redis, Celery, a thread for each publish |
| Health and system status (`routers/health.py`, `system_status.py`) | none of its own; pings in the queue, a subprocess | GET `/health/*`, `/status/system` | every other component |
| Retry (`retry.py`) | the attempt counter of a call | `with_retry` | every Drive call |
| Error vocabulary (`errors.py`, `status.py`) | none | `sanitize_error` | every component |
| Web interface (`apps/web/src`) | caches of the pages | polling, forms | the API |

What is hard in it:

* **Concurrency.** One event loop runs many handlers, which interleave at every
  `await`. Several processes share PostgreSQL, Redis and Drive and nothing else;
  the locks of the storage provider are local to a process.
* **Stale reads.** `service.py` decides on a row it read in an earlier session;
  `google_drive.py` acts on an id it looked up in an earlier call; the folder
  cache is never invalidated; the status cache is served until it is old.
* **Lost answers.** A POST to Drive that timed out is repeated although it may
  still be executed; a COMMIT or a publish may take effect without its
  acknowledgement; a thread runs on after `wait_for` gave up on it.
* **Abandoned work.** A timeout abandons a thread that waits for a pong and a
  subprocess that hangs; a failed `gather` abandons the other checks. All of them
  run on.
* **Deaths.** Of the API in the middle of anything, of a worker that holds an
  acknowledged job, of the Redis container, which has no volume.

What makes each component correct, and where that is stated:

| Component | Correctness | Stated as |
|---|---|---|
| Avatar Registry | behaves as if each call ran alone at one instant | `ImplementsStore` (`AvatarStore`) |
| | slugs are unique; no lost update; a row goes through its stages one by one | `SlugUnique`, `ChecksHoldAtCommit`, `StageBehindVersion`, `RowLifecycle` |
| | every request is answered | `EveryRequestAnswered` |
| Folder resolution | an id never stands for another path | `FoldersNamePaths`, `CacheIsASubtree` |
| | folders are duplicated only where the design allows it | `DuplicatesExplained` |
| | reading never creates; official folders are never created | `OnlyUploadersCreate` |
| | one creator at a time in a process | `CreatorsTakeTurns` |
| | the creation lock always passes on | `EveryResolutionEnds` |
| File operations | for a lone caller, each operation is one atomic call on the contents of its path | `ImplementsFileStore` (`FileStore`) |
| | an upload that returned is visible; a name is not duplicated | `UploadIsVisible`, `NamesTaken` |
| | only the scratch folder is trashed; a local copy is whole | `OnlyScratchIsTrashed`, `LocalCopyIntact` |
| Sync of a directory | the report names each file once; what it reports is in Drive | `ReportIsComplete`, `ReportedIsMirrored` |
| | no lookup or upload that fails stops the others | `SyncReports` |
| Connection status | CONNECTED was true recently; the cache moves forward; a check ends | `ConnectedIsTrue`, `CacheMovesForward`, `EveryCheckEnds` |
| Diagnostic jobs | a 202 stays queryable and is not lost; SUCCESS is final unless two workers had the job at once | `AcceptedIsQueryable`, `AcceptedIsNotLost`, `SuccessIsFinal` |
| | submissions are answered, accepted jobs finish | `SubmissionsAreAnswered`, `AcceptedFinishes` |
| Health and system status | the verdict on the worker is true | `WorkerVerdictIsTrue` |
| | every request is answered, or PostgreSQL alone keeps it waiting | `EveryStatusAnswered` |
| | no process, no waiting thread and no check but that of PostgreSQL is left behind | `NoOrphanProcess`, `NothingLeftBehind` |

`PROJECT.json` lists the hazards behind these properties, each at the line of
code where it bites.

## 2. The modules

| Module | Models | Used by |
|---|---|---|
| `AvatarSchemas` | rows, stages, calls and answers of the registry | the next two |
| `AvatarRegistry` | the handlers, one action for each database round trip | |
| `AvatarStore` | the abstract specification: atomic calls | |
| `AvatarRegistryProperties` | invariants, `IInv`, the refinement mapping | `MCAvatarRegistry`, proofs |
| `AvatarRegistryProofs`, `AvatarRefinementProofs` | safety; refinement | |
| `DriveFolders`, `DriveFoldersProperties`, `MCDriveFolders`, `DriveFoldersProofs` | folder resolution | |
| `DriveFiles`, `DriveFilesProperties`, `MCDriveFiles`, `DriveFilesProofs` | file operations | `DriveSync` |
| `FileStore` | the abstract specification: atomic operations on the contents of paths | |
| `DriveFilesRefinement` | the mapping of `DriveFiles` to `FileStore` | `MCDriveFiles` |
| `DriveSync`, `DriveSyncProperties`, `MCDriveSync`, `DriveSyncProofs` | `sync()`, composed with `DriveFiles` | |
| `DriveStatus`, `DriveStatusProperties`, `DriveStatusProofs` | `get_status()` | |
| `DiagnosticJobs`, `DiagnosticJobsProperties`, `DiagnosticJobsProofs` | diagnostic jobs | |
| `SystemStatus`, `SystemStatusProperties`, `MCSystemStatus`, `SystemStatusProofs` | health endpoints | |

A definition that begins with the comment "Mutant:" is not part of the model. It
is a plausible bug, and exchanging it for the definition after it makes TLC
report the property `PROJECT.json` names: the check that a property can fail.

### Avatar Registry

`avatars` is the committed table, `pc[r]` where the handler of request `r` is
suspended, `current[r]` the row `service.py` read, `record[r]` the row its
statement returned in a transaction that is still open. Following a PATCH:

1. `UpdateCheck`: `service.update_avatar` reads the row (first session), compares
   the version and the transition, and returns early when nothing changes.
2. `UpdateWrite`: `UPDATE ... WHERE id AND version RETURNING` (second session), when
   no other open transaction holds the row; `UpdateMiss` when it matches nothing.
3. `UpdateCommit` publishes the record; `ExplainMiss` tells a missing row from a
   stale version with a query of its own.

Creation is pre-check, INSERT (which waits for a transaction that holds the
slug, then meets the UNIQUE index), COMMIT, and `session.refresh`, which reads
the row again and raises if it is gone. PostgreSQL is READ COMMITTED.
`DatabaseError`, `CommitUnacknowledged` and `Crash` may strike at every step.
name and metadata, treated alike by the code, are one field. `AvatarStore` says
what clients may rely on: each call takes effect at one instant and is answered
from the rows of that instant, except that a creation is answered by what its
row has become.

### Folder resolution

`drive` maps an id to its folder record, `cache[p]` is the `FolderIdCache` of
process `p`, `lock[p]` the queue of `_path_create_lock` (an `asyncio.Lock` is
FIFO). A task's local variables are `path`, `creating`, `depth` (segments
resolved), `parent` and `attempt`. It suspends at the lock (`"start"`), the token
(`"token"`), `list_children` (`"list"`) and `create_folder` (`"create"`); `Advance` is
all that runs between two awaits: it walks the cache as far as it goes. A call
succeeds, fails transiently (`Transient`: retried up to `MaxRetries`), is refused
(`Refused`), or times out (`CreateTimesOut`), in which case Drive may execute it
at any later moment (`ExecuteLate`). `Remove` is a person deleting a folder,
`Restart` the death of a process. Drive never reuses an id and allows several
folders of one name; a query returns any of them first.

### File operations

`file` maps an id to its place, content and state (live, trashed, purged),
`sessions` are the resumable uploads, `inAir` the requests whose answer will not
be read. An operation is its lookup (`Find`) and then its calls: `Initiate` and
the PUT for an upload, `Open`, chunks and `os.replace` for a download
(`Complete`), one request for trash, purge, copy and move. A PUT repeated on a
session that is complete returns the file it made; a retried PUT sends the
whole content again. The folders of a path are taken as resolved.

`FileStore` is what callers rely on: a path holds each content so many times, an
operation takes effect at one instant on one of them, or raises without effect. Under the
mapping of `DriveFilesRefinement` the lookup of an operation, the opening of a
session and the retries are stutters, and the request that is answered is the
instant. With a second caller, or with an answer lost, that is false, as
section 5 and the properties about lost answers say.

### Sync of a directory

`DriveSync` extends `DriveFiles`: a syncer is one of its tasks, whose lookups and
uploads are the actions of `DriveFiles`, run beside tasks that upload to the same
folder (`Others`). `stage` says what the syncer awaits, `listed` and `todo` are the
files found at the start (`rglob` is sorted at once) and those to come; their order
does not matter to anything. `SyncTakes` reads a file (it may be gone, which
`is_file` skips silently, or unreadable), `SyncCompares` decides on the metadata,
`SyncCalls` is every further call together with what `sync()` does when it
returns or raises (`Follows`), so that no exception escapes between them. `SyncEnds` is
the return with the report, or what `is_file()` raises, outside the try, before the turn
of a file.

A digest is the content. The content that is sent is read while it is sent, so
`Edit`, a person writing or removing a local file, changes what a running upload
sends; a body that cannot be read, or whose length is not the one announced, is a
refused request, which a death does not leave on its way either (`Dies`). A body made
of two versions of a file is not modelled. `touched` is a
history variable: the files that others, or requests of earlier uploads that
arrive late, have changed on either side since their turn. `gone` in `report` is
history as well.

### Connection status

`complete` is the history: the times at which the official tree was complete.
A status carries the time its request came in (`arrived`), as `checked_at` is
computed before anything is awaited. `source` holds what the two settings
of `auth.py` yield; inline JSON goes before the file (`LoadCredentials`), a
`CredentialLoadError` is kept for the life of the process, any other exception is
not (`LoadRaises`) and leaves `get_status()` (`CheckRaises`). Every operation of the
provider loads the credentials too (`Operation`). `ServeCached`, `ServeConnecting`,
`CheckRaises`, `CheckLocally` and `CheckBegins` are the branches before the first await,
`CheckSucceeds`, `CheckFails` and `Cancelled` the ways the check under the lock
ends.

### Diagnostic jobs

`SetMarker` (or `SetFails`) is the SETEX of a submission, `Publish` and
`PublishFails` its thread, `Accept`, `GiveUp` and `Cleanup` the handler that waits
for the thread. `Take`, `ReportStarted`, `Finish` and `Store` are a worker: Celery
acknowledges early, so a message that was taken is not given again, but a
publish whose answer is lost is repeated. Before each of its two reports a worker reads what is stored, leaves a SUCCESS alone
(`ReportStarted`, `Finish`), and writes in a later step (`Store`), as Celery does;
`doubled` remembers the jobs two workers had at once. `Lookup` and `Read` are the two
halves of a GET. Keys expire (`ExpireMarker`, `ExpireResult`: `result_expires` equals the
time to live of the marker and is set later), and the API, workers and Redis
die (`ApiCrash`, `WorkerCrash`, `RedisReset`).

### Health and system status

A request (`Begin`) starts its checks together; `task[r][c]` is how far check `c`
is, or what it reported. `Answer` is the response, `GatherRaises` the first
exception, after which the other checks go on by themselves. Checks that await a
single call are `RemoteEnds`, checks that await nothing end in `Begin`. All the calls
are bounded (`Bounded`) but that of PostgreSQL, whose engine has a timeout for the
connection only.

The worker's check waits for a place in the thread pool (`StartThread`), then for
a thread that publishes a ping and waits for its result (`Publish`, `GetResult`,
`GetExpires`, `RedisFails`). A worker stores the pong or a FAILURE of the task, which
`result.get()` raises, or is lost with the ping (`RunPing`). `WorkerCheckExpires` is the outer `wait_for`: the thread
runs on, while its place goes to the next check. `SanitizeError` decides the verdict. The GPU's check is
`GpuStarts`, `GpuReads`, or `GpuExpires` (kill) and `GpuReaped`; `NvidiaEnds` is
the process. `Restart` is the death of the API, which leaves Redis as it is.

## 3. What TLC checks

| Run | Instance | Shows |
|---|---|---|
| `avatar_edit` | 3 requests, 2 ids, 1 slug, 1 datum, 3 stages, expected versions 1 and 2 | the safety properties and the inductive invariant of the registry |
| `avatar_store` | 2 requests, 2 ids, 1 slug, 2 data, 2 stages, expected version 1 | the registry implements the atomic store; every request is answered |
| `folders_one_process` | 2 tasks of one process, 6 paths, 3 new ids, 1 retry, 1 lost POST, 1 removal | ids name their paths, duplicates are explained, the cache is a subtree, only uploaders create |
| `folders_two_processes` | 2 tasks of one process and 1 of another, 1 path, 3 new ids, 1 retry | each process may add one duplicate and no more; every resolution ends |
| `folders_duplicated` (violation) | as the first, 2 paths, no removal | a single process duplicates a folder |
| `files_alone` | 1 caller, all operations, 3 files, 2 folders, 2 contents, 2 uploads, 1 retry | the operations implement `FileStore`; trash only in scratch |
| `files_transfers` | 1 caller uploading and downloading, 4 files, 2 names, 3 uploads, 1 retry, 2 lost answers | uploads and downloads survive retries, late requests and deaths |
| `files_trashed` (violation) | 2 callers, 1 file, 2 folders | a file outside the scratch folder is trashed |
| `sync` | 1 syncer and 1 uploader, 2 names in 1 folder, 2 ids, 2 contents, 2 uploads, 1 retry, 1 lost answer, 1 edit | the report of a sync is complete and true, and no call that fails keeps it from its report |
| `jobs` | 1 job, 2 workers, 2 pollers, 2 repeats, 2 deaths, 1 reset | what a 202 and a SUCCESS promise; liveness |
| `status` | 2 requests, 2 official folders, another one, time to live 2, clock to 3, any content of both sources | what CONNECTED promises; every check ends |
| `system` | a dashboard and a look at the worker, 2 pings, 1 thread, PostgreSQL and Redis as the other checks, 1 restart | the verdict on the worker is true, nothing is left behind, nothing but PostgreSQL holds a request up |

Why the bounds are enough to be interesting:

* **Avatars.** A race over one row needs two writers, and a third request to
  delete or recreate the slug between them; two ids let two creations of one slug
  race. Three stages and expected versions 1 and 2 let a row be written
  twice: an avatar advances from draft to the last stage, and an edit is repeated with
  the version it had before the first write or before the second, when an advance is
  still allowed. In `avatar_edit` every edit is thus an advance; edits of the data
  are in `avatar_store`, where a row is written once. Two stages suffice for a
  forbidden delete and a forbidden step back, three for a step too far. Versions are
  bounded because a write needs an expected version.
* **Folders.** The six paths contain two that share a prefix, one whose last name
  is also a middle name elsewhere, a missing official folder, a name that is not
  official and the root itself. Three new ids leave room for one duplicate at
  either depth. The cache entries of two depths are enough for an entry whose parent
  was replaced.
* **Files.** Two folders give moves in, out and within the scratch folder, and three
  files a path with two copies of a content beside another path. `MaxSessions` counts
  uploads, so in `files_transfers` three of them follow one another, with two of their
  PUTs applied late. Two lost answers matter: an upload whose own PUT was applied
  late can be overtaken by the late PUT of an earlier upload, which `UploadIsVisible`
  excepts (`Overtaken`); a bound of one would hide it.
* **Sync.** Two names make one file's failure and another's success; two ids and
  two contents let the uploader replace, or duplicate, what was looked up; `MaxSessions`
  of 2 is one upload of each task or two of the syncer. One edit may fall before,
  between or after the steps of a file's turn, and one lost PUT may arrive in
  the turn of the other file.
* **Jobs.** Jobs share nothing but the workers, so one job with two workers (a
  repeated message runs on both, at once or one after the other) and two pollers (one that saw SUCCESS, one that
  reads late) contains the races of one id. Two deaths let a job be lost, and the API
  die as well.
* **Status.** Two requests make one check and one bystander; a time to live of 2
  with a clock to 3 lets an answer be fresh, age, and expire.
* **System.** Two requests compete for one thread, and the second ping may be
  answered for the first if results were mixed up. Of the remote checks PostgreSQL
  is the one that may never end and Redis one that may raise; OpenAI and the storage are
  further members of a set whose size the proofs leave open. The dashboard of the run
  does without the checks that await nothing: what they may do, raise, Redis does too. The pings are bounded, so a request
  beyond the second waits for a thread until its check expires.

Symmetry is used over requests, ids, slots, names, contents and callers, only in
runs without liveness properties and where the configuration treats the members
alike. `SyncReports` is an action property (each step of a sync lowers a bound
on what is left, and a step is always enabled), so it needs neither fairness nor
the loss of symmetry.

`IInv`, where a run checks it, is the inductive invariant of the proofs, and its
first conjunct contains the type invariant of the module. `NamesTaken` says only as
much as its theorem can for any number of callers: with one caller, as in the run, one
file and one more for each answer lost. That two callers who upload to one path add at
most one file each rests on the theorem `UploadsTakeNames`. The invariants of the sync (`SyncIInv`, `AttemptsFit`) were
checked on instances like that of `sync` before they were proved: on that one, with
two retries, lost answers and edits of a single file, with two syncers, and
with tasks beside the sync that download and look up (`AttemptsFit`: delete as
well); they are not repeated
there, as the theorems about them do not need a run.

Deadlock checking is on except in `jobs`, where a finished job whose keys have
expired leaves nothing to do.

### Fairness

* Avatars: weak fairness of the steps that wait for nothing (the event loop
  resumes every handler), strong fairness of the statements that may wait for a row
  or a slug: PostgreSQL queues the waiters of a lock, so a writer whose row is
  free again and again is served. No fairness of `Submit`, `Deliver` or of
  failures. A transaction that holds a lock always ends, by its commit, or by the
  failure of its connection.
* Folders: weak fairness of the steps of a task that is resolving, its failures
  included. The lock's queue is explicit, so nothing stronger is needed.
* Status: weak fairness of the end of a check. `httpx` timeouts bound each connection,
  write and read, and `MaxRetries` the attempts; that a server does not send its answer
  byte by byte for ever is taken for granted.
* System: weak fairness of `Proceed(r)` for each request (the event loop goes on
  with what can go on; the calls to Redis, OpenAI and Drive and the waits for a worker
  and for `nvidia-smi` have timeouts, and a process that was killed ends) and of
  `Get(p)`, whose timeout is Celery's. None of PostgreSQL: `db.py:29-33` gives a timeout
  for the connection alone, so the ping of a pooled connection or `SELECT 1`
  (`health.py:84-85`) may wait for ever, and `EveryStatusAnswered` says that nothing else
  does. None of workers, of
  Redis, of an `apply_async` that hangs, or of an `nvidia-smi` that nobody killed. That a
  killed process ends excludes one in an uninterruptible wait of the driver, for
  which the second `communicate()` would wait as well.
* Jobs: weak fairness of the handler, whose waits have timeouts, and of the
  workers. None of the thread, which nothing bounds, and none of expiries or deaths:
  `AcceptedFinishes` allows for both, and for a Redis that lost its data.

## 4. What TLAPS proves

All proofs hold for every value of the constants that satisfies the named
assumptions of the modules (`SchemaAssumption`, `CallAssumption`,
`FolderAssumption`, `FileAssumption`, `SyncAssumption`, `StatusAssumption`,
`JobAssumption`, `SystemAssumption`), which say that markers such
as `None` are not members of the sets they complete, that paths are sequences of
names, that ids and bounds are what their names say, and that there are finitely many
processes, at least one, and finitely many tasks that use files (`DuplicatesExplained`
and `NamesTaken` count them). Some theorems have a hypothesis more, such as `Alone`;
each is explained below.

**Avatar Registry** (`AvatarRegistryProofs`). `IInv` is inductive:
`InvariantHolds`. `SlugUnique` and `ChecksHoldAtCommit` are not inductive by
themselves: the first needs to know that no open transaction is about to publish
a slug in use (`PendingSlugsOK`, `LocksOK`), the second that a row which was read
at the expected version is still that row, gone, or at a later version
(`ReadOK`), since versions only grow and ids are not reused (`IssuedOK`). From
it follow `TypeCorrect`, `SlugsAreUnique`, `StagesAreVersioned`, `NoLostUpdate` and,
as an action property, `LifecycleRespected`.

`AvatarRefinementProofs` proves `RegistryImplementsStore`: under the mapping of
`AvatarRegistryProperties` (a handler is pending until its effect is committed,
"created" while it reads its row back) the initial state is the store's, and
each step is a step of the store or a stutter. A commit is the instant of an
update or delete, and what makes the store's guards true at that instant is
`ReadOK` and `PendingOK`; a miss takes effect at the query that explains it.

**Diagnostic jobs** (`DiagnosticJobsProofs`). `JobInvariant` proves `IInv`, whose
parts follow a submission: nothing is known of a job whose thread never ran
(`ControlOK`), a handler that may still accept has set the marker (`MarkerKept`),
once the thread has published somebody has the job (`PublishedKept`), and without a second
worker nothing is about to be written over a SUCCESS (`WritesOK`). From it:
`JobTypes`, `AcceptedStaysQueryable`, `AcceptedStaysSomewhere`, `SuccessStays`.

**Connection status** (`DriveStatusProofs`). `StatusInvariant` proves `IInv`: the
history knows the present (`HistoryOK`), a cached CONNECTED was true after its
check was asked for (`CacheOK`), and nobody else answers from an older check while
one is under way (`CheckOK`). From it: `StatusTypes`, `ConnectedWasTrue`, and the
action property `CacheNeverGoesBack`.

**Folder resolution** (`DriveFoldersProofs`). `FolderInvariant` proves `IInv`, which
has five parts.

* `WalksFit`. That an id names its path (`FoldersNamePaths`) is preserved because a
  child that Drive returns has its parent's path and one name more, so the argument
  needs that walks stay within their paths (`WalkOK`), that ids and paths of folders
  never change, and that a POST which is executed late names a folder somebody asked
  for (`InAirOK`). `LockOK` describes the queue of the lock: each creator is in it
  once, and at its head when it goes on. From it: `FolderTypes`, `IdsNamePaths`,
  `OneCreator`, and the action property `ReadersNeverCreate`.
* `NamesCounted`, for `NoUnexplainedDuplicate`. The folders of a name are counted
  together with those who may still add one: `Creators`, the tasks whose POST is
  next, and `Requests`, the POSTs given up. When a task sets out to create, its
  listing showed no sibling; the lock allows one creator for each process, and a
  request given up has a number of its own. So, where there is no sibling, the sum
  is within `Cardinality(Processes) + lost`, and it stays there: a POST that is executed
  moves from one set to another, and one that is given up raises `lost` by the one
  it adds.
* `TreeOK`: the parent of a folder has the path above and is there as long as it is.
* `MadeOnce`: one process that has lost no request has one folder for each path, and
  a task about to create one finds none, which the lock keeps true while it waits.
  `OneProcessNoDuplicates` is the claim of `STORAGE_GOOGLE_DRIVE.md:66-67` that section
  5 disputes, under the condition that makes it true.
* `CacheClosed`: a cache that knows a folder knows the path to it. With `TreeOK` and
  `MadeOnce` the folder cached for the path above is the parent, as it is the
  only one of its path: `OneProcessCachesASubtree`.

`Alone`, the hypothesis of the last two, says that there is one process. With two,
each may cache its own duplicate of a parent and `CacheIsASubtree` fails.

**File operations** (`DriveFilesProofs`). `FileInvariant` proves `IInv`, whose parts
serve one theorem or two each; a part that needs a hypothesis has it as its premise.

* `CallsFit` (with `CallsOK`, `FewRequests`): tasks, requests in the air and sessions
  name what Drive has, through every retry and late request. A part file is renamed
  only when it is whole, and a death or a failure leaves the part file and never the
  destination: `FileTypes`, `LocalCopies`.
* `SessionsInPlace` and `NamesCounted`, for `UploadsTakeNames`: like the folders, the
  files of a path are counted with those to come, `Uploaders` (callers who found none
  and have not sent theirs) and `Pending` (sessions with a PUT in the air that would
  make one). A caller that finds none starts the count at the number of callers
  and lost answers at most, since every one to come belongs to a caller or to an
  answer lost. It supposes that nothing is copied or moved
  (`NothingMoves`): those do not look at their destination, by design.
* `UploadsIntact`, for `UploadsAreVisible`: a PUT that was applied before its answer
  was lost is the last thing that happened to its file. It supposes one caller that
  transfers files (`Alone`, `TransfersOnly`): another one may replace what was
  sent, and a late trash request may remove it. The exception (`Overtaken`) needs two
  lost answers.
* `Undisturbed`, for `AloneTrashesScratch` and `AloneImplementsStore`: what a lookup
  returned stays true until the operation ends. Both suppose one caller and no lost
  answer (`Alone`, `MaxLost = 0`); section 5 shows the first false with two callers.

The refinement is proved step by step: `MapInit`, and `MapNext` with a lemma for each kind
of step. `FileStore` counts the copies of each content at a path, so a
step's effect on the mapped state is an equation between cardinalities: a file that
is new, replaced, taken away or moved adds or takes one copy. Lookups, sessions and
retries change no file that is at a path, so they are stutters.

**Sync of a directory** (`DriveSyncProofs`). `FilesAccounted` says that each file
listed is to come, has its turn, or is in exactly one list. `SyncInvariant` proves
it inductive over the composition with `DriveFiles`, where the steps of other tasks
must not change the syncer's `pc`; from it `ReportsAreComplete`.

`ReportedFilesAreMirrored` rests on `SyncIInv`: no two tasks share a session
(`SendsFit`), the syncer awaits the call its stage says, for its current file, with the
digest or the content of the local file (`SyncAsks`), files stay where they are
(`FilesStay`), and a PUT of the current file that is on its way or was applied has the
local content unless the file was touched (`PutsMirror`). When a PUT is answered, the
file is mirrored by what it did now or by what an earlier attempt did, and from then
on every step of another that takes content away marks the file as touched. It
supposes that the tasks beside the sync transfer files (`TransfersOnly`). Without that
it is false: TLC finds a sync that looks a file up, another task that moves
it to the trash while a duplicate of equal content stays at the path (so nothing
seems to have been taken away), and a PUT that updates the file in the trash.

`SyncSpendsAttempts` is the part of `SyncReports` a prover can treat: each step of a
sync lowers `AttemptsLeft`, which is a natural number. Its invariant `AttemptsFit` says
that only a call that is awaited has been tried, and `MaxRetries` times at most. It
supposes a finite set of places. That a step is always enabled is left to TLC.

**Health and system status** (`SystemStatusProofs`). `SystemInvariant` proves `IInv`:
each check is in a step of its own (`StepsOK`), a ping has no result before it is sent
nor while it is queued (`PingsOK`), and an outcome a thread leaves has the cause it
claims (`OutcomesOK`: a pong was stored by a worker, an exception that is no timeout is
Redis's or was stored as a FAILURE). From it: `WorkerVerdicts`, `NoOrphans`.

**Only model-checked.** Every safety invariant and action property that a passing run
checks is a theorem, but for the half of `SyncReports` that says a step is enabled. Liveness
(`EveryRequestAnswered`, `EveryResolutionEnds`, `EveryCheckEnds`,
`SubmissionsAreAnswered`, `AcceptedFinishes`, `EveryStatusAnswered`,
`NothingLeftBehind`) and `ENABLED` are beyond the prover.

## 5. What the models disagree with

* **A single process duplicates a folder** (`folders_duplicated`, property
  `NoLocalDuplicates`). `docs/STORAGE_GOOGLE_DRIVE.md:66-67` says "A criação é
  serializada dentro de cada processo para evitar duplicatas locais". The lock
  does serialise resolutions, but `create_folder` retries its POST after a
  transport error without listing again (`drive_api.py:86-98`), so a POST that timed
  out and was executed is followed by a second one.
* **A file outside the scratch folder is trashed** (`files_trashed`, property
  `OnlyScratchIsTrashed`). `google_drive.py:7-8` says "delete() sem
  allow_permanent=True só age dentro de SCRATCH_PREFIX". `delete()` checks the path,
  looks the file up and trashes it by id in a later call (`google_drive.py:404-425`);
  a `move()` between the two takes the file elsewhere and leaves its id valid. With
  one caller at a time the property holds (`files_alone`).

These have no run of their own:

* **One check can cost the whole dashboard.** `schemas/dhf_schemas/system_status.py:3-6`
  promises ERROR for a check that was tried and failed. Some checks may raise instead,
  and `gather` then answers with an error for all. We found three: `check_render_engine`
  when its path may not be read (`Path.exists()` raises `PermissionError`),
  `check_redis` when its client cannot be made or closed, and `get_status()`
  when the service account is rejected by an exception other than those
  `auth.py:43,53` expects, as JSON that is a bare number or a private key that is
  encrypted (`TypeError`). `SystemStatus` takes the three from reading the code
  (`Unguarded`, `FirstSteps`); no property claims that there are no others.
* **A PostgreSQL that does not answer keeps the dashboard waiting.** The engine has a
  timeout for the connection only (`db.py:29-33`). If the server hangs after that,
  `check_postgres` (`health.py:84-85`) has no answer, and neither `/status/system` nor
  `/health/ready` does.
* **A file can end the sync.** The comment at `google_drive.py:525` says "um arquivo falho
  não derruba o sync inteiro". `is_file()` (507) is outside the try: a `PermissionError` or
  an error of the medium leaves `sync()` with no report of what it had uploaded by then
  (`SyncEnds`, `"aborted"`). Inside the try the comment is true, and `SyncReports`
  says so.
* **A SUCCESS may be taken back.** A GET looks for the marker (`jobs.py:79`) and reads the
  state later (96). If marker and result expire between the two it answers PENDING, though
  an earlier one answered SUCCESS. And if a repeated message gives a job to two workers
  at once, one may write STARTED or FAILURE over the SUCCESS of the other, as Celery reads
  what is stored and then writes. `SuccessIsFinal` excludes both.
* **Abandoned pings stay in the queue.** Without a worker, each look at the dashboard
  adds one that nobody waits for; nothing expires them. The thread ends
  (`NothingLeftBehind`), the message does not.

## 6. What is not modelled

* Pages of a listing: `list_children` reads all of them, and a model of one page
  is a model of their union taken at one instant. Drive is taken to be
  consistent after a write; in reality a listing may lag behind.
* Lengths and digests of files: a content stands for both.
* `list()`, which reads one listing and changes nothing, and the creation of
  folders within a sync, which `DriveFolders` models for the same calls.
* The cache of the web pages (`Avatars.tsx:76`): it is local to a browser, and the
  registry accepts any version a client may send.
* The wording of errors: `sanitize_error` is modelled where its code decides
  something, in the check of the worker.
* The length of delays and of timeouts: a call may time out at any moment.
* Cancellation of a resolution or an upload: nothing in the repository cancels
  one. Cancellation of `get_status()` (which holds a lock) and of
  a download (which cleans up in code of its own) is modelled.
* Cancellation of the checks of `SystemStatus`: `check_gpu` reaps `nvidia-smi` after a
  `TimeoutError` only (`system_status.py:104-112`), so one that was cancelled would leave
  it behind. Nothing in the repository cancels one, and `gather` cancels nothing when a
  check raises.
* A person who renames or moves a folder in Drive. `FoldersNamePaths` is about
  Drive as the code changes it, with folders a person removes: an id that was
  cached before a rename would stand for the old path.
* A write of the result backend that timed out and is executed after a later one.
* The refresh of the access token, beyond that it may raise; parsing of the
  service account; settings, logging, schemas, wiring of routers, migrations after
  the first, containers, pipelines. They have no state that a step of another
  component could disturb.

## 7. The plan

1. An abstract folder store (a path has an id, once given never taken back) that
   a single process without lost requests implements, from `MadeOnce` and
   `CacheClosed`.
2. Bounds that each step lowers, as `AttemptsLeft` of a sync, for the other operations
   whose end is only model-checked: a resolution, a handler of the registry.
3. `DriveFolders` and `DriveFiles` composed: an upload whose folder is duplicated
   while it runs.
4. The cache of the web pages: an edit after a version conflict.
