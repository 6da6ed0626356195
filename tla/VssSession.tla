----------------------------- MODULE VssSession -----------------------------
(***************************************************************************)
(* One requester session: CreateSet, from the new COM thread to the        *)
(* returned set or the error path, the bounded waits of awaitAsync, and    *)
(* Close from several goroutines, against a VSS service whose asynchronous *)
(* operations finish, fail or never answer, whose writers fail or time     *)
(* out, and whose shadow copies may be evicted.  COM calls return.         *)
(***************************************************************************)
EXTENDS Integers, FiniteSets

CONSTANTS
    Volumes,        \* the volumes of the set
    Writers,        \* the VSS writers of the machine
    Closers,        \* goroutines that may call Close
    MaxSlices,      \* bound: how many waits of one slice fit in a timeout
    Nobody          \* the holder of a free mutex

ASSUME SessionAssumption == Volumes # {} /\ MaxSlices \in Nat /\ Nobody \notin Closers

VARIABLES
    persistent, noWriters,  \* config, fixed for the session
    pc,         \* where createSet, or winSet.close, is
    op,         \* the operation awaitAsync waits for
    left,       \* slices left before its deadline
    ctxDone,    \* the context of CreateSet is done
    worker,     \* the COM thread
    bc,         \* the IVssBackupComponents object
    added,      \* volumes added to the snapshot set
    snaps,      \* set.snaps
    statusRead, \* set.writers
    degraded,   \* those of them that failed
    closeErr,   \* firstErr # nil
    closed, mu, \* SnapshotSet.closed and the holder of SnapshotSet.mu
    closers,    \* where each goroutine that closes is
    async,      \* service: the operation's state
    writers,    \* service: the writers
    shadows,    \* service: volumes that have a shadow copy of this set
    evicted,    \* service: volumes whose shadow copy was evicted
    stuck,      \* service: shadow copies that could not be deleted
    failedIn,   \* history: writers that had failed when the snapshot was made
    releases, stops     \* history: how often each was done

cfgVars     == <<persistent, noWriters>>
setVars     == <<added, snaps, statusRead, degraded>>
closeVars   == <<closed, mu, closers>>
serviceVars == <<writers, shadows, evicted, stuck, failedIn>>
endVars     == <<worker, bc, releases, stops>>
vars == <<cfgVars, pc, op, left, ctxDone, setVars, closeErr, closeVars, async, serviceVars, endVars>>

Ops == {"GatherWriterMetadata", "PrepareForBackup", "DoSnapshotSet",
        "GatherWriterStatus", "BackupComplete"}

Creating == {"newWorker", "createComponents", "initialize", "GatherWriterMetadata", "resolve",
             "start", "add", "PrepareForBackup", "DoSnapshotSet", "GatherWriterStatus",
             "properties"}
Failing  == {"AbortBackup", "releaseFailed", "stopFailed"}
Closing  == {"BackupComplete", "DeleteSnapshots", "release", "stop"}
Awaiting == {"check", "wait"}

TypeOK ==
    /\ persistent \in BOOLEAN /\ noWriters \in BOOLEAN
    /\ pc \in {"idle", "open", "failed", "closed", "crashed"}
              \cup Creating \cup Failing \cup Closing \cup Awaiting
    /\ op \in Ops \cup {"none"} /\ left \in 0..MaxSlices /\ ctxDone \in BOOLEAN
    /\ worker \in {"none", "running", "stopped"} /\ bc \in {"none", "live", "released"}
    /\ added \subseteq Volumes /\ snaps \subseteq Volumes
    /\ statusRead \subseteq Writers /\ degraded \subseteq Writers
    /\ closeErr \in BOOLEAN /\ closed \in BOOLEAN /\ mu \in Closers \cup {Nobody}
    /\ closers \in [Closers -> {"out", "locking", "closing", "returned"}]
    /\ async \in {"none", "pending", "finished", "failed", "cancelled"}
    /\ writers \in [Writers -> {"stable", "prepared", "frozen", "waiting", "failed"}]
    /\ shadows \subseteq Volumes /\ evicted \subseteq Volumes /\ stuck \subseteq Volumes
    /\ failedIn \subseteq Writers
    /\ releases \in Nat /\ stops \in Nat

Init ==
    /\ persistent \in BOOLEAN /\ noWriters \in BOOLEAN
    /\ pc = "idle" /\ op = "none" /\ left = 0 /\ ctxDone = FALSE
    /\ worker = "none" /\ bc = "none"
    /\ added = {} /\ snaps = {} /\ statusRead = {} /\ degraded = {}
    /\ closeErr = FALSE /\ closed = FALSE /\ mu = Nobody
    /\ closers = [c \in Closers |-> "out"]
    /\ async = "none" /\ writers = [w \in Writers |-> "stable"]
    /\ shadows = {} /\ evicted = {} /\ stuck = {} /\ failedIn = {}
    /\ releases = 0 /\ stops = 0

-----------------------------------------------------------------------------
(* createSet. *)

\* Mutant: the status of the writers is queried before the snapshot is made.
StatusFirst(o) ==
    CASE o = "GatherWriterMetadata" -> "resolve"
      [] o = "PrepareForBackup"     -> "GatherWriterStatus"
      [] o = "GatherWriterStatus"   -> "DoSnapshotSet"
      [] o = "DoSnapshotSet"        -> "properties"
      [] o = "BackupComplete"       -> "DeleteSnapshots"

\* Where the session goes when an operation is over.
Succeeded(o) ==
    CASE o = "GatherWriterMetadata" -> "resolve"
      [] o = "PrepareForBackup"     -> "DoSnapshotSet"
      [] o = "DoSnapshotSet"        -> IF noWriters THEN "properties" ELSE "GatherWriterStatus"
      [] o = "GatherWriterStatus"   -> "properties"
      [] o = "BackupComplete"       -> "DeleteSnapshots"

\* The status query is best effort and Close goes on after a failed
\* BackupComplete; any other failure leads to the error path.
Failed(o) ==
    CASE o = "GatherWriterStatus" -> "properties"
      [] o = "BackupComplete"     -> "DeleteSnapshots"
      [] OTHER                    -> "AbortBackup"

Create ==
    /\ pc = "idle" /\ pc' = "newWorker"
    /\ UNCHANGED <<cfgVars, op, left, ctxDone, setVars, closeErr, closeVars, async, serviceVars, endVars>>

\* Before newWorker, or inside it, an error leaves nothing behind.
NewWorker ==
    /\ pc = "newWorker"
    /\ \/ pc' = "failed" /\ UNCHANGED worker
       \/ pc' = "createComponents" /\ worker' = "running"
    /\ UNCHANGED <<cfgVars, op, left, ctxDone, setVars, closeErr, closeVars, async, serviceVars,
                   bc, releases, stops>>

\* Without a components object there is nothing to abort or release.
CreateComponents ==
    /\ pc = "createComponents"
    /\ \/ pc' = "stopFailed" /\ UNCHANGED bc
       \/ pc' = "initialize" /\ bc' = "live"
    /\ UNCHANGED <<cfgVars, op, left, ctxDone, setVars, closeErr, closeVars, async, serviceVars,
                   worker, releases, stops>>

\* Synchronous calls that succeed or lead to the error path:
\* InitializeForBackup, SetContext, SetBackupState; resolving and
\* pre-flighting every volume; StartSnapshotSet.
Synchronous ==
    /\ \/ pc = "initialize" /\ pc' \in {"AbortBackup", IF noWriters THEN "resolve"
                                                       ELSE "GatherWriterMetadata"}
       \/ pc = "resolve" /\ pc' \in {"AbortBackup", "start"}
       \/ pc = "start" /\ pc' \in {"AbortBackup", "add"}
    /\ UNCHANGED <<cfgVars, op, left, ctxDone, setVars, closeErr, closeVars, async, serviceVars, endVars>>

\* Mutant: a volume that cannot be added is left out of the set.
AddWhatFits ==
    /\ pc = "add"
    /\ IF added = Volumes
       THEN pc' = (IF noWriters THEN "DoSnapshotSet" ELSE "PrepareForBackup") /\ UNCHANGED added
       ELSE \/ pc' = "DoSnapshotSet" /\ UNCHANGED added
            \/ pc' = "add" /\ \E v \in Volumes \ added : added' = added \cup {v}
    /\ UNCHANGED <<cfgVars, op, left, ctxDone, snaps, statusRead, degraded, closeErr, closeVars,
                   async, serviceVars, endVars>>

AddToSnapshotSet ==
    /\ pc = "add"
    /\ IF added = Volumes
       THEN pc' = (IF noWriters THEN "DoSnapshotSet" ELSE "PrepareForBackup") /\ UNCHANGED added
       ELSE \/ pc' = "AbortBackup" /\ UNCHANGED added
            \/ pc' = "add" /\ \E v \in Volumes \ added : added' = added \cup {v}
    /\ UNCHANGED <<cfgVars, op, left, ctxDone, snaps, statusRead, degraded, closeErr, closeVars,
                   async, serviceVars, endVars>>

\* The call that starts an asynchronous operation: an error, or an object to
\* await.
StartAsync ==
    /\ pc \in Ops
    /\ \/ /\ pc' = Failed(pc) /\ closeErr' = (closeErr \/ pc = "BackupComplete")
          /\ UNCHANGED <<op, left, async>>
       \/ /\ pc' = "check" /\ op' = pc /\ left' = MaxSlices /\ async' = "pending"
          /\ UNCHANGED closeErr
    /\ UNCHANGED <<cfgVars, ctxDone, setVars, closeVars, serviceVars, endVars>>

-----------------------------------------------------------------------------
(* awaitAsync: every exit releases the async object. *)

AwaitFails ==
    /\ pc' = Failed(op) /\ closeErr' = (closeErr \/ op = "BackupComplete")
    /\ op' = "none" /\ left' = 0 /\ async' = "none"
    /\ UNCHANGED <<statusRead, degraded>>

\* After the status operation createSet reads the writers one by one and
\* leaves out those whose status it cannot get.
AwaitSucceeds ==
    /\ pc' = Succeeded(op)
    /\ op' = "none" /\ left' = 0 /\ async' = "none" /\ UNCHANGED closeErr
    /\ IF op = "GatherWriterStatus"
       THEN \E got \in SUBSET Writers :
                /\ statusRead' = got
                /\ degraded' = {w \in got : writers[w] = "failed"}
       ELSE UNCHANGED <<statusRead, degraded>>

\* Mutant: the deadline is computed anew in every round.
DeadlinePerRound ==
    /\ pc = "check"
    /\ IF left = 0 \/ (ctxDone /\ op # "BackupComplete")
       THEN AwaitFails
       ELSE /\ pc' = "wait" /\ left' = MaxSlices
            /\ UNCHANGED <<closeErr, op, async, statusRead, degraded>>
    /\ UNCHANGED <<cfgVars, ctxDone, added, snaps, closeVars, serviceVars, endVars>>

\* Mutant: a deadline reached exactly does not count as passed.
DeadlineOffByOne ==
    /\ pc = "check"
    /\ IF left < 0 \/ (ctxDone /\ op # "BackupComplete")
       THEN AwaitFails
       ELSE pc' = "wait" /\ UNCHANGED <<closeErr, op, left, async, statusRead, degraded>>
    /\ UNCHANGED <<cfgVars, ctxDone, added, snaps, closeVars, serviceVars, endVars>>

\* The head of the loop.  A done context or a passed deadline cancels the
\* operation, which may have finished since the last status.  Close waits for
\* BackupComplete under context.Background().
AwaitCheck ==
    /\ pc = "check"
    /\ IF left = 0 \/ (ctxDone /\ op # "BackupComplete")
       THEN AwaitFails
       ELSE pc' = "wait" /\ UNCHANGED <<closeErr, op, left, async, statusRead, degraded>>
    /\ UNCHANGED <<cfgVars, ctxDone, added, snaps, closeVars, serviceVars, endVars>>

\* Wait for one slice, then QueryStatus; either may fail.
AwaitWait ==
    /\ pc = "wait"
    /\ \/ AwaitFails
       \/ async = "finished" /\ AwaitSucceeds
       \/ /\ async = "pending" /\ pc' = "check" /\ left' = left - 1
          /\ UNCHANGED <<closeErr, op, async, statusRead, degraded>>
    /\ UNCHANGED <<cfgVars, ctxDone, added, snaps, closeVars, serviceVars, endVars>>

-----------------------------------------------------------------------------
(* createSet, the end: properties of every snapshot, or the error path. *)

GetSnapshotProperties ==
    /\ pc = "properties"
    /\ IF snaps = added
       THEN pc' = "open" /\ UNCHANGED snaps
       ELSE \/ pc' = "AbortBackup" /\ UNCHANGED snaps
            \/ /\ pc' = "properties"
               /\ \E v \in (added \cap shadows) \ snaps : snaps' = snaps \cup {v}
    /\ UNCHANGED <<cfgVars, op, left, ctxDone, added, statusRead, degraded, closeErr, closeVars,
                   async, serviceVars, endVars>>

\* Mutant: the error path releases the session without aborting it.
NoAbort ==
    /\ pc = "AbortBackup" /\ pc' = "releaseFailed"
    /\ UNCHANGED <<writers, cfgVars, op, left, ctxDone, setVars, closeErr, closeVars, async,
                   shadows, evicted, stuck, failedIn, worker, bc, releases, stops>>

\* AbortBackup unwinds the writers; with nothing to abort it does nothing.
AbortBackup ==
    /\ pc = "AbortBackup" /\ pc' = "releaseFailed"
    /\ writers' = [w \in Writers |-> "stable"]
    /\ UNCHANGED <<cfgVars, op, left, ctxDone, setVars, closeErr, closeVars, async, shadows, evicted,
                   stuck, failedIn, worker, bc, releases, stops>>

\* Releasing the components object auto-releases transient copies.
Release ==
    /\ \/ pc = "releaseFailed" /\ pc' = "stopFailed"
       \/ pc = "release" /\ pc' = "stop"
    /\ bc' = "released" /\ releases' = releases + 1
    /\ shadows' = IF persistent THEN shadows ELSE shadows \cap stuck
    /\ UNCHANGED <<cfgVars, op, left, ctxDone, setVars, closeErr, closeVars, async, writers, evicted,
                   stuck, failedIn, worker, stops>>

StopFailed ==
    /\ pc = "stopFailed" /\ pc' = "failed"
    /\ worker' = "stopped" /\ stops' = stops + 1
    /\ UNCHANGED <<cfgVars, op, left, ctxDone, setVars, closeErr, closeVars, async, serviceVars, bc,
                   releases>>

-----------------------------------------------------------------------------
(* SnapshotSet.Close and winSet.close. *)

CallClose(c) ==
    /\ (pc = "open" \/ closed) /\ pc # "crashed"
    /\ closers[c] = "out" /\ closers' = [closers EXCEPT ![c] = "locking"]
    /\ UNCHANGED <<cfgVars, pc, op, left, ctxDone, setVars, closeErr, closed, mu, async, serviceVars,
                   endVars>>

\* Mutant: the mutex guards only the flag.
LockFlagOnly(c) ==
    /\ closers[c] = "locking" /\ mu = Nobody /\ pc # "crashed"
    /\ IF closed
       THEN /\ closers' = [closers EXCEPT ![c] = "returned"]
            /\ UNCHANGED <<pc, closed, mu>>
       ELSE /\ closed' = TRUE /\ UNCHANGED mu
            /\ closers' = [closers EXCEPT ![c] = "closing"]
            /\ pc' = IF noWriters THEN "DeleteSnapshots" ELSE "BackupComplete"
    /\ UNCHANGED <<cfgVars, op, left, ctxDone, setVars, closeErr, async, serviceVars, endVars>>

\* Mutant: the flag is not tested.
LockNoFlag(c) ==
    /\ closers[c] = "locking" /\ mu = Nobody /\ pc # "crashed"
    /\ closed' = TRUE /\ mu' = c
    /\ closers' = [closers EXCEPT ![c] = "closing"]
    /\ pc' = IF noWriters THEN "DeleteSnapshots" ELSE "BackupComplete"
    /\ UNCHANGED <<cfgVars, op, left, ctxDone, setVars, closeErr, async, serviceVars, endVars>>

\* Close under the mutex: a second call returns nil, the first keeps the
\* mutex until winSet.close returns.
LockAndClose(c) ==
    /\ closers[c] = "locking" /\ mu = Nobody /\ pc # "crashed"
    /\ IF closed
       THEN /\ closers' = [closers EXCEPT ![c] = "returned"]
            /\ UNCHANGED <<pc, closed, mu>>
       ELSE /\ closed' = TRUE /\ mu' = c
            /\ closers' = [closers EXCEPT ![c] = "closing"]
            /\ pc' = IF noWriters THEN "DeleteSnapshots" ELSE "BackupComplete"
    /\ UNCHANGED <<cfgVars, op, left, ctxDone, setVars, closeErr, async, serviceVars, endVars>>

\* Mutant: the set is deleted whatever its configuration.
DeleteAlways ==
    /\ pc = "DeleteSnapshots" /\ pc' = "release"
    /\ shadows' = {} /\ UNCHANGED <<stuck, closeErr>>
    /\ UNCHANGED <<cfgVars, op, left, ctxDone, setVars, closeVars, async, writers, evicted, failedIn,
                   endVars>>

\* A persistent set survives Close.  A transient one is deleted; copies that
\* are gone already are not an error, survivors are.
DeleteSnapshots ==
    /\ pc = "DeleteSnapshots" /\ pc' = "release"
    /\ \/ persistent /\ UNCHANGED <<shadows, stuck, closeErr>>
       \/ ~persistent /\ shadows' = {} /\ UNCHANGED <<stuck, closeErr>>
       \/ /\ ~persistent
          /\ \E survivors \in SUBSET shadows : shadows' = survivors /\ stuck' = survivors
          /\ closeErr' = TRUE
    /\ UNCHANGED <<cfgVars, op, left, ctxDone, setVars, closeVars, async, writers, evicted, failedIn,
                   endVars>>

StopClosed(c) ==
    /\ pc = "stop" /\ closers[c] = "closing"
    /\ pc' = "closed" /\ worker' = "stopped" /\ stops' = stops + 1
    /\ closers' = [closers EXCEPT ![c] = "returned"] /\ mu' = Nobody
    /\ UNCHANGED <<cfgVars, op, left, ctxDone, setVars, closeErr, closed, async, serviceVars, bc,
                   releases>>

-----------------------------------------------------------------------------
(* The VSS service, at any time. *)

\* A writer answers PrepareForBackup, then the freeze of DoSnapshotSet.
WriterAnswers(w) ==
    /\ async = "pending"
    /\ \/ op = "PrepareForBackup" /\ writers[w] = "stable"
          /\ \E s \in {"prepared", "failed"} : writers' = [writers EXCEPT ![w] = s]
       \/ op = "DoSnapshotSet" /\ writers[w] = "prepared"
          /\ \E s \in {"frozen", "failed"} : writers' = [writers EXCEPT ![w] = s]
    /\ UNCHANGED <<cfgVars, pc, op, left, ctxDone, setVars, closeErr, closeVars, async, shadows,
                   evicted, stuck, failedIn, endVars>>

\* A quiesced writer that hears nothing gives up by itself.
WriterTimesOut(w) ==
    /\ writers[w] \in {"prepared", "frozen", "waiting"}
    /\ writers' = [writers EXCEPT ![w] = "failed"]
    /\ UNCHANGED <<cfgVars, pc, op, left, ctxDone, setVars, closeErr, closeVars, async, shadows,
                   evicted, stuck, failedIn, endVars>>

\* An operation finishes once every writer it involves has answered.
AsyncFinishes ==
    /\ async = "pending" /\ async' = "finished"
    /\ CASE op = "PrepareForBackup" ->
              /\ \A w \in Writers : writers[w] # "stable"
              /\ UNCHANGED <<writers, shadows, failedIn>>
         [] op = "DoSnapshotSet" ->
              /\ \A w \in Writers : writers[w] # "prepared"
              /\ writers' = [w \in Writers |-> IF writers[w] = "frozen" THEN "waiting" ELSE writers[w]]
              /\ shadows' = added
              /\ failedIn' = {w \in Writers : writers[w] = "failed"}
         [] op = "BackupComplete" ->
              /\ writers' = [w \in Writers |-> "stable"]
              /\ UNCHANGED <<shadows, failedIn>>
         [] OTHER -> UNCHANGED <<writers, shadows, failedIn>>
    /\ UNCHANGED <<cfgVars, pc, op, left, ctxDone, setVars, closeErr, closeVars, evicted, stuck, endVars>>

AsyncFails ==
    /\ async = "pending" /\ async' \in {"failed", "cancelled"}
    /\ UNCHANGED <<cfgVars, pc, op, left, ctxDone, setVars, closeErr, closeVars, serviceVars, endVars>>

Evict(v) ==
    /\ v \in shadows
    /\ shadows' = shadows \ {v} /\ evicted' = evicted \cup {v}
    /\ UNCHANGED <<cfgVars, pc, op, left, ctxDone, setVars, closeErr, closeVars, async, writers, stuck,
                   failedIn, endVars>>

\* The caller's context is cancelled or expires.
CtxDone ==
    /\ ~ctxDone /\ ctxDone' = TRUE
    /\ UNCHANGED <<cfgVars, pc, op, left, setVars, closeErr, closeVars, async, serviceVars, endVars>>

\* The process dies: its COM references go, and transient copies with them.
Crash ==
    /\ pc \notin {"idle", "failed", "closed", "crashed"}
    /\ pc' = "crashed" /\ op' = "none" /\ left' = 0 /\ async' = "none"
    /\ shadows' = IF persistent THEN shadows ELSE shadows \cap stuck
    /\ UNCHANGED <<cfgVars, ctxDone, setVars, closeErr, closeVars, writers, evicted, stuck, failedIn,
                   endVars>>

-----------------------------------------------------------------------------
Library == NewWorker \/ CreateComponents \/ Synchronous \/ AddToSnapshotSet \/ StartAsync
           \/ AwaitCheck \/ AwaitWait \/ GetSnapshotProperties \/ AbortBackup \/ Release
           \/ StopFailed \/ DeleteSnapshots \/ \E c \in Closers : StopClosed(c)

Service == (\E w \in Writers : WriterAnswers(w) \/ WriterTimesOut(w))
           \/ AsyncFinishes \/ AsyncFails \/ \E v \in Volumes : Evict(v)

Next == Create \/ Library \/ (\E c \in Closers : CallClose(c) \/ LockAndClose(c))
        \/ Service \/ CtxDone \/ Crash

Spec == Init /\ [][Next]_vars

\* The library's code runs, and a free mutex is given to every goroutine that
\* waits for it.  Nothing is asked of the service: a wedged writer is the case
\* the timeouts are for.
FairSpec == Spec /\ WF_vars(Library) /\ \A c \in Closers : SF_vars(LockAndClose(c))

-----------------------------------------------------------------------------
(* Properties. *)

Quiesced(w) == writers[w] \in {"prepared", "frozen", "waiting"}

\* A CreateSet that failed, and a Close without error, leave no writer quiesced
\* and no transient copy behind, whichever step failed, whatever had been
\* started and though it may have finished just before it was cancelled.
NothingLeftBehind ==
    pc = "failed" \/ (pc = "closed" /\ ~closeErr) =>
        /\ \A w \in Writers : ~Quiesced(w)
        /\ ~persistent => shadows = {}

\* A set that CreateSet returns has a copy of every volume asked for, unless it
\* was evicted since.
AllOrNothing == pc = "open" => snaps = Volumes /\ shadows \cup evicted = Volumes

\* Whatever happens inside, the session keeps the promise of SessionContract:
\* copies appear together and only while the set is made, persistent ones go by
\* eviction alone, and each way out of CreateSet and Close is a clean one.
Phase ==
    IF pc \in {"idle", "open", "failed", "crashed"} THEN pc
    ELSE IF pc = "closed" THEN IF closeErr THEN "closedWithError" ELSE "closed"
    ELSE IF closed THEN "closing" ELSE "making"

SomeWriterHeld == \E w \in Writers : Quiesced(w)

Contract == INSTANCE SessionContract
    WITH keep <- persistent, phase <- Phase, copies <- shadows, lost <- evicted, held <- SomeWriterHeld

ImplementsSession == Contract!Spec

\* The COM object and its thread are used only while they live, and are
\* released and stopped once, however many goroutines close the set
\* (a second close of the quit channel panics, a later call hangs).
ComUsedWhileAlive ==
    /\ pc \in (Creating \ {"newWorker"}) \cup Failing \cup Closing \cup Awaiting => worker = "running"
    /\ pc \in {"AbortBackup", "BackupComplete", "DeleteSnapshots"} \cup Awaiting => bc = "live"
    /\ releases <= 1 /\ stops <= 1

\* A set that is open lists as degraded every writer that had failed when the
\* snapshot was made and whose status could be read, and accuses no other.
FailedWriterListed ==
    pc = "open" =>
        /\ failedIn \cap statusRead \subseteq degraded
        /\ \A w \in degraded : writers[w] = "failed"

\* Every call of Close that has returned, a second one included, finds the
\* session torn down.
CloseMeansTornDown ==
    \A c \in Closers : closers[c] = "returned" => pc \in {"closed", "crashed"}

\* "A wedged writer must produce a diagnosable timeout, not a hang": CreateSet
\* returns and Close returns though the service may never answer.
CallsReturn ==
    /\ pc = "newWorker" ~> pc \in {"open", "failed", "crashed"} \/ closed
    /\ \A c \in Closers : closers[c] = "locking" ~> closers[c] = "returned" \/ pc = "crashed"
=============================================================================
