# go-vss: specifications, model checks and proofs

go-vss drives the Windows Volume Shadow Copy Service from Go without cgo: it
creates sets of shadow copies, reads them, lists and deletes them, enumerates
them for backup manifests and finds what changed since the last backup in the
NTFS change journal. This directory holds TLA+ modules that model it, TLC
configurations that check them on small instances and proofs that TLAPS
checks. `PROJECT.json` relates every definition to the lines it models.

## Inventory

| Component | Source | State | Operations | Module |
|---|---|---|---|---|
| Incremental chain | `usn.go`, `usn_windows.go` | captured cursor of a snapshot; the journal of the live volume; the engine's manifest and cursor | `captureLiveUSNCursor`, `USNJournal`, `USNChangesSince` | `UsnChain`, `BackupContract`, `UsnChainProofs` |
| `vssdemo usn` | `cmd/vssdemo/main.go` | the cursor the operator writes down | prints the shadow device's cursor | `VssDemoUsn` |
| Session | `create_windows.go`, `async_windows.go`, `bc_windows.go`, `options.go`, `vss.go` | components object, worker, IDs and snapshots, writer statuses, `closed` under `mu` | `CreateSet`, `awaitAsync`, `Close`, `Degraded` | `VssSession`, `SessionContract`, `VssSessionProofs`, `SetHandles` |
| COM worker | `worker_windows.go` | one locked OS thread, two channels, process-wide security | `newWorker`, `do`, `stop` | `ComWorker`, `ComExecutor`, `ComWorkerProofs` |
| Registry of copies | `vss.go`, `list_windows.go`, `enum_windows.go`, `types_windows.go` | none of its own: the machine's copies | `List`, `Verify`, `Attach`, `Delete` | `ShadowCopies`, `ShadowCopiesProofs` |
| Walk | `walk.go`, `walk_windows.go` | recursion | `Walk` with `WalkFunc`, `SkipDir`, excludes | `SnapshotWalk`, `SnapshotWalkProofs` |
| Exclude rules | `exclude.go`, `walk.go` | none | `Matches`, `SystemExcludes`, `subtreeExcluded` | `ExcludeRules`, `ManifestExcludes`, `ManifestExcludesProofs` |
| Extents, geometry | `extents*.go` | `geomCache`, process-wide | `VolumeGeometry`, `FileExtents` | `VolumeQueries`, `VolumeQueriesProofs` (the cache also in `ShadowCopies`) |
| Volumes | `volume*.go` | none | `EnumerateVolumes`, `DiskExtents` | `VolumeQueries`, `VolumeQueriesProofs` |
| Path validation | `path.go` | none | `validateVolumeRelativePath` | `ExcludeRules`, `ManifestExcludes`, `ManifestExcludesProofs` |
| File access | `fs_windows.go` | none | `Open`, `OpenRaw`, `FS` | reads of `ShadowCopies` |
| Writer metadata | `writermeta_windows.go` | none | `collectExcludeRules`, statuses | `ManifestExcludes`, `ManifestExcludesProofs`; the statuses in `VssSession` |
| Wrappers, GUIDs, privileges, errors, stubs | the rest | none | | not modelled |

How they interact. `CreateSet` starts a worker, and every COM call of the
session runs on its thread; asynchronous calls are polled by `awaitAsync` under
a context and a deadline. Between `PrepareForBackup` and `DoSnapshotSet` the
session captures each volume's journal position; the cursor goes into the
`Snapshot`, from where `USNChangesSince` takes it as the upper bound of its
read of the *live* journal. `Verify` and `Attach` call `List`, which uses a
worker and a components object of its own. Reads (`Open`, `Walk`, extents) are
plain Win32 calls on a device name and know nothing of the session. `Walk` calls
back into the caller for every entry, after holding it against exclude rules:
those the writers declared, which `CreateSet` collects, and the engine's own.
All workers of a process share one setting of COM security.

Where it is hard:

* the live volume changes while a backup runs: records are written, purged, the
  journal is deleted and recreated between any two calls;
* Windows deletes shadow copies when the diff area fills up, and recycles their
  device names;
* a lookup by file ID may fail for a file that is there;
* asynchronous operations fail, never answer, or finish just before they are
  cancelled; writers fail or time out at any moment;
* `Close` may be called from several goroutines, and the process may die between
  any two steps, persistent copies outliving it;
* the engine crashes between making its manifest and its cursor durable;
* `Walk` meets unreadable directories, links out of the snapshot, callbacks that
  answer `SkipDir` or an error, a context that is done at any moment;
* one decision about an entry depends on texts from four places: the writer's
  declaration, the name the volume was given by, the walk's argument, the names found;
* a live file, its volume's disks and the list of copies change between two replies of
  one query;
* workers that start at once race for the process-wide COM security, and one that
  fails must neither leave its apartment open nor its caller waiting.

What makes each component correct:

* *chain*: no change is ever lost to all later backups, but by a failed lookup; a read
  that returns no error is complete up to its bound, and does not go past it; a durable
  manifest is true of the volume at the capture or at the freeze;
* *session*: whatever fails, no writer stays quiesced and no transient copy stays;
  a set is complete or is not returned, and path, ID and cursor of each
  of its snapshots belong together; calls return in bounded time; the COM
  thread and object are used while they live and torn down once;
* *registry*: `Verify` vouches for the reads before it; a deleted copy is gone;
  persistent copies outlive sessions;
* *COM worker*: functions run in a live apartment under settled security, in order
  and once; every caller returns and every thread ends;
* *walk*: a nil error means that nothing is missing but what the rules, the
  callback and its errors account for; the order depends on the tree alone; the
  walk does not leave the snapshot;
* *excludes*: an entry is left out exactly if a rule means it; one sick writer costs
  no other writer's rules; no accepted root leads out of the snapshot;
* *volumes*: extents are the file's, all of it and in the right unit; negotiations and
  pagings end, as long as the replies are to what was asked; every volume is listed.

## Modules

### UsnChain, BackupContract, VssDemoUsn

`UsnChain` is one NTFS volume and one backup engine. Files are reference numbers;
contents a few values and `Absent`. The live volume is `live`; its journal is
`jid`, `active`, `first`, `nextUsn` and `recs`. `Change`, `Wrap`, `DeleteJournal`,
`CreateJournal` and `Evict` are Windows, at any time. `captureLiveUSNCursor` and
`DoSnapshotSet` are the two steps of `createSet` the chain depends on, with
writes possible in between; the capture may fail and yields the zero cursor.

`USNChangesSince` is `BeginRead` (handles, query, the validation switch
`CursorRejected` in its order of cases), `ReadBatch` (one
`FSCTL_READ_USN_JOURNAL` and the scan of its buffer, with the stop at the bound,
the limit on distinct files, `nextStart` and its two breaks), `ReadUnusable`
(purged, malformed or unsupported records), `ReadJournalGone`, `ReadCanceled`,
and `Resolve`, one ID at a time, since an eviction may come between two. A lookup has
two outcomes for a file that is there: `pathByID` may fail all the same, and any failure
sets `Deleted`. `failed` and `dropped` are history variables for that: the lookups of this
run that failed though the living snapshot held the file, and the files that the durable
manifest lacks for that reason.
The engine is the protocol of `src/README.md:118-136`: `ApplyChanges` or
`FullWalk`, `Verify` after the last read, `CommitManifest`, `saveCursor`; it may
`Crash` anywhere, and only `manifest` and `cursor` survive. `base` is a history
variable: the volume at the capture.

`BackupContract` is the abstract specification, without journal, cursor or
session: a backup looks at the volume at the capture and at the freeze and commits a
manifest that is, file by file, what the snapshot holds or an old entry that
was right at the capture, or lacks a file in `dropped`. `UsnChain` implements it with
`mode` mapped from `pc`.

`VssDemoUsn` replaces `saveCursor` by what an operator does who follows the
output of `vssdemo usn`.

### VssSession, SessionContract

`pc` is the place in `createSet` or `winSet.close`. An asynchronous operation is
started by `StartAsync`, which may fail at once; `AwaitCheck` is the head of
`awaitAsync`'s loop (context, deadline), `AwaitWait` is the wait for one slice and
the status query. `left` counts the slices until the deadline. The service is
`async`, `writers`, `shadows`: `AsyncFinishes` creates the copies of
`DoSnapshotSet` also when the requester is about to cancel, `AsyncFails`, writers
that answer or time out, evictions. The error path is `AbortBackup`, `Release`,
`StopFailed`; the end of a session `BackupComplete` (through the same wait),
`DeleteSnapshots`, `Release`, `StopClosed`. `CallClose` and `LockAndClose` are
goroutines at `SnapshotSet.Close` and its mutex. `failedIn`, `releases` and
`stops` are history variables. The status query is best effort, and `statusRead` is what it
got an answer for: `FailedWriterListed` says that of those no failed writer is
missing from `Degraded`, and no healthy one is there.

`SessionContract` is a session seen from the machine and from the caller: a phase, the
copies, whether a writer is held. Copies of all volumes come to be at one moment,
`Return` needs all of them, `Fail` and a `Finish` without error need that nothing is left, and
persistent copies leave by `Evict` only. `VssSession` implements it with `phase` mapped from
`pc`, `closed` and `closeErr`. It is also the link to `ShadowCopies`, whose
`CreateSet`, `Close` and `Die` are a session's outcomes.

### SetHandles

`SetHandles` is the other side of `createSet`: what it makes of the volumes asked for.
`ResolveVolume`, `AddToSnapshotSet`, `CaptureCursor`, `DoSnapshotSet` and
`GetSnapshotProperties` are its loops, one iteration a step, each of which appends to a slice
or writes at an index; the last one joins the slices by index alone
(`create_windows.go:213-222`). Volumes are written to meanwhile, every call may fail, a
capture may yield no cursor, and several paths may lie on one volume, for which VSS may give a
copy of its own or an error. `SnapshotsMatch` says that what was joined belongs together.

### ComWorker, ComExecutor

`ComWorker` is any number of workers. `caller` is where the goroutine that owns one is
(in `newWorker`, at the send or the receive of `do`, after `stop`), `thread` where the
worker's own goroutine is. The channel of functions has no buffer, so `Send` moves both;
`ready` holds one answer; `stop` closes `quit` and does not wait. `EnterOnce` and
`InitSecurity` are the `sync.OnceValue` around `CoInitializeSecurity`, whose first
answer, an error included, is the answer to every later worker. Other code of
the process may set the security first (`OthersInitSecurity`), which the code accepts.

`ComExecutor` is what that is for: a session opens after one verdict of the process,
its calls are served one at a time, once, before they return. `ComWorker` implements it
with `state` mapped from `caller` and `served` from `ran`.

### ShadowCopies

The copies of a machine, by ID (`state`, `dev`, `keep`, `maker`), and processes with one
set and one call each. `CreateSet` is reduced to its outcomes, one of which leaves the persistent copies of
a failed call behind (`CreateSetLeaves`); the inside is `VssSession`. `VerifyCalled`/`AttachCalled`, `Query`, `ListNext` and the
`...Returns` actions are `List` in rounds of `Batch` up to `MaxSnapshots`, the
enumerator holding what existed at the query. `DeleteReturns` has the three
outcomes of `DeleteSnapshots`: one deletion, not found, success with nothing deleted. `Read`
and `VolumeGeometry` lead through the device name to whatever copy has it now;
`misread` remembers whether that was another copy than the one asked for, and
`misreadBefore` what it was when `Verify` was called.

### SnapshotWalk

The tree is `parent` and `kind`, siblings numbered in `readDir`'s order; below a
directory link is what the link leads to. The Go stack is `frames`; `ReadDir`,
`Entry` and `LastEntry` are the parts of `walkDir`. `fn` answers nil, `SkipDir` or an
error to every call, nondeterministically, and any directory may be unreadable.
A rule has a directory, recursion and a set of names, or every name; `RuleSets` is the
sets of rules a walk may be given. `Path(n)` is the least set that has `n` and
the parents of its members, a definition TLAPS can use where a recursive operator
would be out of its reach.

### ExcludeRules, ManifestExcludes

`ExcludeRules` has the operators on texts: `normWinPath`, the scope of a rule,
`specMatchesAll`, `SystemExcludes`, `validateVolumeRelativePath`. A text is a sequence of
characters, a drive with its colon or an environment variable being one of
them. Beside them stands what a rule *means*, on the segments of a path and with a
wildcard defined by how its characters can be laid on a name, without loops.

`ManifestExcludes` follows one entry from the declaration to the decision.
`CountWriters` to `Collected` are `collectExcludeRules`, writer by writer and rule
by rule, each call of which may fail for the writers of `sick`: `WriterFails` where the
error says which writer it is, `WriterNameFails` where `GetIdentity` is what fails and the
error says nothing of whose it is (`named` is the writers that an error names); `ReadRule` includes
`ruleFromFiledesc` and `expandEnv`, which keeps a text it cannot expand. `StartWalk`
is the head of `Snapshot.Walk` with the validation of its argument and
`EffectiveRoot`; `NextEntry`, `PruneDir` and `KeepDir` go down to the entry; from `MatchEntry`
on it is `matchExclude`, rule after rule, and the loop of `matchSpec` with its
variables `pi`, `ni`, `star`, `mark`, one iteration a step. The recursion over
siblings and the callback are `SnapshotWalk`'s.

### VolumeQueries

One goroutine asks one kind of question, again and again, while the system changes.
`AskFileExtents` to `PageFails` are `FileExtents` of a snapshot or a live volume:
the cluster size from `geomCache` under `cacheKey` (a copy's ID, a volume's name,
or the device for a `Snapshot` put together by hand), the open, and
`fileExtentsUnder` reply by reply. `Replies` is what
`FSCTL_GET_RETRIEVAL_POINTERS` may answer: runs from the beginning of the run the VCN is
in or from the VCN itself, at most `PageSize` of them (`RightReplies`), and the two malformed
kinds the code refuses (`RefusePage`). Two more it takes: a reply that would have been right for an earlier
question and ends at the VCN asked for or before (`StalePage`; the code holds the runs against
the reply's own start only), and a success without a run (`EmptyPage`). `astray` remembers
that one of them was taken, and `again` changes with every question that is asked on. `MoreDisks` is the growth of the buffer in `DiskExtents`,
`FindVolume` the loop of `EnumerateVolumes` with `firstMountPoint`. Copies are
deleted and their device name given to the next one; a live file gets another
layout between any two steps.

## Runs

Passing runs:

| Run | Instance | What it shows |
|---|---|---|
| `usn_safety` | 2 files (symmetric), 2 contents, 3 records, 2 journals, limit 2 | `NoChangeLost`, `ReadIsComplete`, `ImplementsContract` and `ReadAdvances` under every interleaving of writes, journal events, evictions, failed lookups, crashes |
| `usn_live` | 2 files, 2 records, 1 journal, limit 1, fairness | `BackupEnds`, `Converges`; the limit on changed files is below the number of files, so that reads are given up with `ErrTooManyChanges` |
| `vss_session` | 2 volumes, 2 writers, 2 closing goroutines, 2 slices, fairness | `NothingLeftBehind`, `AllOrNothing`, `ComUsedWhileAlive`, `CloseMeansTornDown`, `FailedWriterListed`, `ImplementsSession`, `CallsReturn`: `CreateSet` and `Close` return |
| `set_handles` | 3 paths on 2 volumes, sets of up to 3, 2 records a journal | `SnapshotsMatch` |
| `copies_shared` | 2 processes, 2 IDs, 1 device name, batches of 1, cap 2 | `VerifyVouches`, `DeleteMeansGone`, `PersistentOutlivesSessions` with names recycled at once |
| `walk_safety` | every tree of 3 entries below the root, at most one rule | `NothingMissing`, `Deterministic`, `StaysInside` |
| `com_worker` | 3 workers, 2 calls each, fairness | `CallsRunInsideCom`, `ThreadsLeaveNothing`, `ImplementsExecutor`, and that callers return and threads end |
| `exclude_rules` | five families of cases, below | `DecisionIsRight`, `RootStaysInside`, `CollectIsHonest`, and that every decision is reached |
| `volume_queries` | 2 copies on one device name, 5 layouts, 2 cluster sizes, 1 run a reply, up to 3 extents with stale replies, up to 3 disks, up to 3 volumes against a bound of 2 | `ExactExtents`, `ExtentsOfTheMoment`, `EnumeratesAll`, and that every call ends |

Runs that find what a comment or a document says violated (`findings` in
`PROJECT.json` quotes it):

| Run | What happens |
|---|---|
| `demo_cursor` | the cursor that `vssdemo usn` tells the operator to persist skips changes |
| `walk_skipdir` | `SkipDir` for an unreadable directory ends the whole walk with nil |
| `exclude_root` | a snapshot of a directory is walked as if that directory were the root of its volume: rules match entries they do not cover |

Some points show in the models and are stated as the code has them, without a run of
their own:

* An eviction while IDs are resolved turns existing files into `Deleted` ones, with a nil
  error. An engine that calls `Verify` after its last read catches it;
  `ImplementsContract` is about such an engine. A lookup that fails while the snapshot
  lives does the same (`src/usn_windows.go:340-346` takes every error for a deletion, where `src/usn.go:49-51`
  says that the file no longer exists), and `Verify` does not catch it: the manifest loses the
  file, the cursor moves past its record, and no incremental reports it again until it
  changes or a full `Walk` is made. `NoChangeLost`, `ReadIsComplete`, `ImplementsContract` and
  `Converges` except these files (`dropped`), and say that nothing else is lost with them.
* A journal that is deleted between the query and a read gives an error that is not
  `ErrJournalReset`.
* A file touched only between the capture and the freeze is in the snapshot and not among
  this run's changes; the next run reports it (`BackupContract` allows it,
  `NoChangeLost` bounds it).
* A persistent set of a `CreateSet` that failed after `DoSnapshotSet` stays on the
  machine: `NothingLeftBehind` is about transient copies.
* A failed status query hides a failed writer; `FailedWriterListed` is about the
  writers whose status was read.
* `Close` after a failed `BackupComplete` does not abort, and reports the error.
* `List` stops at its cap and returns a part of the copies with a nil error, which
  `src/vss.go:263` does not say. `Attach` answers `ErrSnapshotNotFound` for a copy beyond the
  cap, and `Verify` refuses a set with one in it.
* The error of a writer whose `GetIdentity` failed names no writer, neither by index nor by
  name; all of that writer's rules are missing then. `CollectIsHonest` says that a writer
  of whom some rules are there and others not is named.
* `FileExtents` never holds a reply against the VCN it asked for. A stale `ERROR_MORE_DATA`
  reply is taken, its extents are listed twice and the question is asked again, without an
  end if the file system goes on answering so; a success without a run ends the list early.
  `CallsEnd` and `ExactExtents` except them in their premises, and fail without.
* A link given as the root of a walk is traversed, so `StaysInside` has a premise on
  the root.
* A walk root with a trailing separator is accepted and doubles the separator in every
  path; a rule for the bare drive `C:`, not recursive, never matches a file in its root;
  a variable that cannot be expanded leaves a rule that covers nothing, without
  an error. The first two are premises in `Grounded` of `DecisionIsRight`, and so is that
  rule paths and the root have no separator in front or doubled: `normWinPath` only
  strips them at the end, so that a rule for `C:\\a` matches nothing.
* Extents of a live file may mix several of its versions, as documented, and an end of
  file at a later reply ends the list without an error: `ExtentsOfTheMoment` says that
  each reply's extents were true when they were read, and no more. A reply that starts
  before the VCN asked for, because the run it is in begins there now, lists clusters twice.
* `EnumerateVolumes` stops at its bound without an error.
* The geometry of a live volume is cached under its name for the life of the process, so
  that a volume formatted anew with another cluster size would be read with the old one.
  The model has no reformatting.

Why the bounds are enough. The chain's hazards need one file that differs, a
second one that does not, a record below and one above the bound, and a
journal before and after a recreation: two files, three records, two journals.
The session's need a writer that fails beside one that does not, a
volume that is added before one that is not, a second closer, and a deadline after at
least one full slice. The registry's need a name given to a second copy,
a second process and a second round of `List`; sets of several copies and a cap that cuts the list
are in the theorems only. The
walk's need an entry beside, above and below a directory that is skipped,
pruned or unreadable: three entries. A worker's need one that sets the security up, one
that waits for it and one that comes later: three workers, and a second call after the
first. A slip of an index needs a volume before and one after it and two paths of one volume: three
paths, with cursors that tell the moments before and after a write. The families of `MCManifestExcludes` each exhaust one question: every
wildcard of up to four characters against every name of up to four (several stars,
trailing stars, a backtrack over each); rules in their spellings against entries of
up to three names and of each kind, beneath roots in theirs; two writers, either of which may fail, with
the system's rules; mount points and roots, given or not; every root
argument of up to four characters. The extents need a layout with one run, one that
a defragmentation merges, holes first, in between and last, cluster 0 of the volume, an
empty file, and more replies than one, with `MaxExtents` for as many extents as stale replies may
pile up to; the bounds of the buffer and of the list
need one more than fits. `CHECK_DEADLOCK FALSE` stands in the
configurations of systems that end (a set is closed, a walk returns, all IDs are used
up) or whose bounds stop them.

Fairness. `UsnChain`: weak fairness of the engine and the library, which are
sequential code that keeps running; none for the volume, the context, crashes or the
schedule of backups. So `Converges` assumes, in its premise, that the volume
falls quiet and that backups go on completing; what it concludes holds from some moment on for
good. In both properties the journal of an instance ends at `MaxUsn`; that the number of reads does not depend on
how far it grows is `ReadAdvances`, an action property without fairness that is also proved. `VssSession`: weak fairness of the library
and strong fairness of the mutex for each goroutine (Go's mutex hands over to a
starving waiter); none for the VSS service, so that `CallsReturn`
holds against a service that never answers. `ComWorker`: weak fairness of the worker's
thread and of the owner's goroutine once it has called; nobody has to call `do` or `stop`.
It assumes that COM calls and the function itself return: a wedged one blocks its
worker, and only `awaitAsync` bounds what it waits for. `ManifestExcludes` and
`VolumeQueries`: weak fairness of the one goroutine, none for the system around it; `CallsEnd` leaves out
behaviours in which stale replies come for ever.

## Proofs

Each of the proof modules proves for every value of the constants that an invariant
`IInv` holds, one lemma per action, and derives the properties from it. The same
`IInv` were checked by TLC first. `Induction` has the facts about numbers that
`VolumeQueriesProofs` and `ManifestExcludesProofs` need, among them an induction over a
*set* of numbers, from the library's well-founded order: the induction theorems that take
an operator cannot be used.

| Module | Theorems |
|---|---|
| `UsnChainProofs` | `TypeCorrect`, `NothingLost` (`NoChangeLost`), `ReadsAreComplete` (`ReadIsComplete`), `ContractHolds` (`ImplementsContract`), `ReadsAdvance` (`ReadAdvances`) |
| `ComWorkerProofs` | `WorkerTypeCorrect`, `InsideCom` (`CallsRunInsideCom`), `NothingLeft` (`ThreadsLeaveNothing`), `ExecutorHolds` (`ImplementsExecutor`) |
| `VssSessionProofs` | `SessionTypeCorrect`, `UsedWhileAlive` (`ComUsedWhileAlive`), `TornDown` (`CloseMeansTornDown`), `AllOrNone` (`AllOrNothing`), `NothingStays` (`NothingLeftBehind`), `FailedListed` (`FailedWriterListed`), `SessionHolds` (`ImplementsSession`) |
| `ShadowCopiesProofs` | `CopiesTypeCorrect`, `VerifyIsWorthIt` (`VerifyVouches`), `DeletedStaysGone` (`DeleteMeansGone`), `PersistentOutlive` (`PersistentOutlivesSessions`) |
| `SnapshotWalkProofs` | `WalkTypeCorrect`, `NothingIsMissing` (`NothingMissing`), `OrderIsFixed` (`Deterministic`), `NeverLeaves` (`StaysInside`) |
| `VolumeQueriesProofs` | `TypeCorrect`, `Exact` (`ExactExtents`), `Enumerates` (`EnumeratesAll`), `OfTheMoment` (`ExtentsOfTheMoment`) |
| `ManifestExcludesProofs` | `ExcludesTypeCorrect`, `CollectsHonestly` (`CollectIsHonest`), `RootInside` (`RootStaysInside`), `DecidesRightly` (`DecisionIsRight`) |

`SnapshotWalkProofs` is about trees of any size and shape and any set of rules, where the run
has three entries and one rule.

### The chain

The theorems rest on the assumptions of the module: `Absent \in Contents`, natural
bounds, a positive `ShadowPage`.

`NoChangeLost` alone is not inductive: it says nothing of a run under way. `IInv`
adds, along the phases of a run,

* `JournalOK`: records lie between `first` and `nextUsn`;
* `TakenFromJournal`: cursor and bound are positions this volume's journal has had, so that
  a matching ID means a position that was reached;
* `CoveredBy(F, M, c)`: from a usable position `c` the records tell every file outside `F` in
  which `M` differs from the volume; held by the manifest from the cursor, and by
  what the capture and the freeze saw from the bound as well (`LooksCovered`).
  This is why the manifest may be older or newer than the cursor, and why a cursor
  captured *before* the freeze is safe;
* `ReadWillBeComplete`, `ReadInProgress`: what was out of date at the capture is below the
  bound and ahead of the read or aggregated, unless the read will be refused;
* `DeletedIsAccounted`, `StagedIsHonest`, `ManifestIsHonest`: while the snapshot lives, a
  file reported as `Deleted` is not in it or is in `failed`, so what `Verify` lets through
  is right for one of the two looks or missing by a failed lookup;
* `DroppedIsAbsent`: a dropped file is indeed missing from the manifest, and stays in
  `dropped` until a run that looks it up, or a full `Walk`, answers for it.

`ReadsAdvance` needs of all this only that records are natural positions: a turn that goes on has
`nextStart` past `start` and below the bound by the two breaks of the loop.

`VolumeStep` proves that the volume preserves all of it; one lemma per action of the
library and the engine does the rest, and `InvStep` puts them together.

### The COM worker

Assumption: `MaxCalls \in Nat`. `ThreadsLeaveNothing` says nothing while a thread lives, so `IInv` has the pairs of
places the two goroutines can be in together (`Paired`: starting, serving, ended, with
what the channels hold and how many calls are served), the count of the
apartment by place, and `OnceKept`: one thread at a time is inside the `OnceValue`, a worker past
it has a verdict, and a verdict `ok` means that the security is set. `ExecutorHolds`
maps `Send` to a stutter and `RunFn` to `Serve`; that a call was asked for and not yet
served when its function runs is what `Serving` adds.

### The session

Assumptions: at least one volume, `MaxSlices \in Nat`, `Nobody` no goroutine. While an operation is
awaited `pc` says only that; `Place` is where the session is in its course,
and the parts of `IInv` follow it: what lives (`Alive`), who holds the mutex (`Guarded`), which
copies and snapshots there are (`Complete`), that there are none before the snapshot is made
and why a copy that is left is left (`Accounted`),
where writers can be quiesced (`Quiet`), what the statuses mean (`Statuses`). The race of a
cancellation with a late completion is in `AwaitCheck`, `AsyncFinishes` and `AbortBackup`:
`Accounted` lets copies exist at every place of the error path up to the release.
`SessionHolds` is the refinement: most steps are silent because neither `Phase` nor what
the machine has changes, a writer that answers is `Hold` or `LetGo`, and `Snapshot`
needs `Accounted` for its guard.

### The registry

Assumptions: `CopiesAssumption`, a positive `Batch` and a natural cap among them. `VerifyVouches` needs the reason why a
misread cannot be vouched for: the copy asked of is gone (`Misreads`), it never returns and
keeps its name (`Moves` in every step), and a list asked for after that does not have it as
created (`Vouching`). That sets and lists, also one that is older than the end of the call it
serves, have the name a copy has for as long as it exists (`SetsNamed`, `ListsNamed`) is part of it.

### The walk

Assumptions: `N \in Nat` and `RuleSets \subseteq SUBSET Rules`. `Stack` says that the calls
lead down from the root argument and that what remains in each lies after the one
below it; `Accounted` that every entry is accounted for or still `ToCome`, which at the
end, with an empty stack, is `NothingMissing`; `Ordered` that what is reported precedes
what is to come. The lemmas on `Path` are proved from its definition as an intersection;
`LeastExists`, that a set of numbers has the minimum `Entry` takes, from the well-founded
order of the naturals.

### The volumes

Assumptions (`QueryAssumption`): cluster sizes, the page size and the bounds are positive
numbers, layouts are sequences of clusters and holes, and `Live` is no copy.
`ExactExtents` speaks of the end of a call alone. What leads there is

* `There`, `CacheTrue`, `HandlesOK`: a copy that is gone never returns, so an
  entry of the cache is right of the copy whose ID it is under, and a file that is open is
  open on the copy asked of for as long as the device name leads to it. This is what the
  cache key is for: under the device name (the mutant `DeviceKey`) `CacheTrue` fails when
  the name is recycled;
* all of it under the premise of `ExactExtents` that no stale or empty reply was taken
  (`astray`);
* `PagesOK` with `ExactTo(out, vcn)`: the extents so far are those of the clusters below
  `vcn`, and `vcn` is where a run ends, so a reply can neither start before it nor
  repeat part of a run. The lemmas `RunIsContiguous` and `InSomeRun` say what runs are,
  `AppendRuns` what `appendRuns` makes of them, `GenuineIsTrue` and `PageIsExact` what a reply
  adds;
* `FoundOK`: the volumes found so far are those with a path among the names
  passed, by an increasing map onto them; that the bound cannot cut the list short is a
  counting argument.

`OfTheMoment` needs nothing but the reply itself, which is its point: on a live volume
no more than that is true.

### The excludes

Assumptions: `UpperAssumption`, that folding turns no other character into a separator, a
dot, a wildcard or a drive, and `CaseAssumption`, that a case is well-formed: a file
system hands out no name that is empty, a dot name, or has a separator, a drive or a
wildcard in it. `DecisionIsRight` has the premise `Grounded` besides; most of the run's
cases satisfy it, and `exclude_root` shows what becomes of one that does not.
Texts, declarations and names may be of any length.

* `CollectIsHonest` speaks of the end of the collection. `KeptSoFar` says it of the
  declarations before `NextPlace`, the one read next: the rules so far come from places in
  the order of declaration, and what is missing is the rest of a writer in `errs`, who is in
  `named` if any of his rules is there: `WriterNameFails` comes before his first.
  `KeepsOn` is the step past a place that yields no rule, `KeepsRule` the one that
  takes a rule up. The failures inside a writer are why the invariant speaks of places and
  not of writers.
* `RootStaysInside` is inductive, but that `validateVolumeRelativePath` establishes it is
  a theorem about texts. The code splits its argument at backslashes and looks for bad
  parts; `Segments` goes from left to right. `SegmentsStep` says what one more character does,
  and `SegmentsType`, `SegmentsOfBackslashed`, `SegmentsOfConcat`, `SegmentsOfName` and
  `SegmentsLie` are inductions over the prefixes of a text with it. `SegmentsLie` says that a segment lies
  between two cuts, `BetweenCuts` that `SplitAt` has what lies there, and
  `ValidatedIsClean` joins the two: an accepted argument has clean segments, and they are the
  argument's own.

* `DecisionIsRight` relates the code's two string algorithms to what a rule means, and its
  proof has three parts.
  *The match.* `From(pat, nam, a, b)` says that the rest of the pattern can be laid on
  the rest of the name, and `Loop` is the invariant of `matchSpec`: the whole matches
  exactly if the rest does from where the loop is, or if the last star can be made
  longer (`LaterStar`). Going back to the *last* star only is right because whatever an
  earlier star could do for the match the last one can, which is `LastStarWins`; the
  lemmas `LoopLiteral`, `LoopStar`, `LoopStuck`, `LoopBacktrack` and `LoopEnds` are the
  branches of the loop. A name that contained `*` would break `LoopLiteral`, since the code
  tries the literal comparison first; no Windows file name does.
  *The scope.* The code compares texts, the definition segments. A text is `Normal` as
  `normWinPath` leaves tidy ones, and for those `NormalMeans` says that
  equality of the texts, and being a prefix up to a separator, are equality and prefix
  of the segments. `EntryNormal` and `TidyNorm` say that the paths of the walk and of the
  rules become normal, and `ScopeMeans`
  carries this to the two halves of `ExcludeRule.Matches` and `subtreeExcluded`.
  *The walk.* `Trail` holds next to `IInv`: the path held against the rules is the entry's
  own (`FullIs`), the rules before `k` have not hit (`Passed`), the loop is at `k`
  (`Looping`), and at the end the first rule that hits or prunes is the one reported
  (`Decided`). `PrunedCovers` closes the gap between the code and the definition: a
  directory that is pruned on the way hides the entry only if its rule covers the entry.

Model-checked only: liveness, which is out of the prover's reach.

## Assumptions and limits

* A journal record is written together with its change. Data written through a
  mapping or a long-open handle may be recorded later; when is up to NTFS.
* NTFS checks the journal ID of a read request, answers with records in order,
  and with the next USN in every reply.
* The volume does not go back in time: a volume rolled back to an image keeps its
  journal ID and reuses USNs, which no check of the code can see.
* Directory renames and paths are left out; `src/README.md:147` leaves
  them to the engine.
* Synchronous COM calls return; `Cancel` ends an operation at once; `AbortBackup`
  returns the writers to their stable state; releasing the components object
  deletes transient copies. IDs are never used twice.
* Volume names, file names, reasons, attributes, times and metadata are data, except in
  `ManifestExcludes`, where names and paths are sequences of a few characters. Case
  folding is a function `Upper` on characters, as the code uses it.
* NTFS answers a request for retrieval pointers with runs of the file as it is at that
  moment, though perhaps in answer to an earlier question, or with no run at all.
* Why a lookup by file ID fails is left open (`Resolve` may always choose it), but a lookup that
  succeeds finds the file of that ID.
* A behaviour of `VolumeQueries` asks one kind of question; the calls share nothing but
  `geomCache`, whose sharing by several handles is in it and in `ShadowCopies`.
* Not modelled: COM wrappers and GUID passing (memory layout), privileges, error
  classification, the stubs off Windows, the subcommands of `vssdemo` that call one function
  and print.

## Plan

The order is by how much a failure would cost a user: lost changes, a machine with
stuck writers, wrong data read, an incomplete manifest.

1. Done: `UsnChain` with `BackupContract`, `ComWorker` with `ComExecutor`, `VssSession` with
   `SessionContract`, `ShadowCopies`, `SnapshotWalk`, each with its proofs; `VssDemoUsn`; `ExcludeRules` with
   `ManifestExcludes`; `VolumeQueries`.
2. Done: every safety invariant and every action property of the passing runs is a theorem.
