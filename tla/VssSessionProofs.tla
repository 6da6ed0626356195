-------------------------- MODULE VssSessionProofs --------------------------
(***************************************************************************)
(* Proofs about VssSession: the invariant IInv, whose parts follow the     *)
(* session from place to place, and the safety properties it implies.      *)
(***************************************************************************)
EXTENDS VssSession, TLAPS

\* Where the session is, an operation awaited counting as its place.
Place == IF pc \in Awaiting THEN op ELSE pc

\* An operation is awaited in awaitAsync only, and a session without writers
\* has none of the operations that concern them.
Places ==
    /\ pc \in Awaiting => op \in Ops
    /\ pc \notin Awaiting => op = "none" /\ async = "none"
    /\ pc = "wait" => left > 0
    /\ noWriters => Place \notin {"GatherWriterMetadata", "PrepareForBackup", "GatherWriterStatus",
                                  "BackupComplete"}

\* What there is of the thread and the object, and that neither was given up.
Alive ==
    /\ Place \in (Creating \ {"newWorker"}) \cup Failing \cup Closing \cup {"open"} => worker = "running"
    /\ Place \in {"idle", "newWorker", "createComponents"} => bc = "none"
    /\ Place \in (Creating \ {"newWorker", "createComponents"})
                 \cup {"AbortBackup", "releaseFailed", "open", "BackupComplete", "DeleteSnapshots", "release"}
          => bc = "live"
    /\ Place \notin {"stopFailed", "failed", "stop", "closed", "crashed"} => releases = 0
    /\ Place \notin {"failed", "closed", "crashed"} => stops = 0
    /\ releases <= 1 /\ stops <= 1

\* The flag and the mutex: who waits for it waits at an open set or for the
\* goroutine that closes it.
Guarded ==
    /\ Place \in Closing \cup {"closed"} => closed
    /\ closed => Place \in Closing \cup {"closed", "crashed"}
    /\ \A c \in Closers : closers[c] # "out" => closed \/ pc \in {"open", "crashed"}
    /\ closed /\ mu = Nobody => pc \in {"closed", "crashed"}
    /\ CloseMeansTornDown

\* The snapshot has been made.
Made == \/ Place \in {"GatherWriterStatus", "properties", "open"}
        \/ Place = "DoSnapshotSet" /\ async = "finished"

Complete ==
    /\ Place \in {"PrepareForBackup", "DoSnapshotSet", "GatherWriterStatus", "properties", "open"}
          => added = Volumes
    /\ Made => shadows \cup evicted = Volumes
    /\ Place = "open" => snaps = Volumes

\* There are no copies before the snapshot is made, and those that are left have
\* a reason.
Accounted ==
    /\ Place \in Creating \cup {"idle"} /\ ~Made => shadows = {} /\ evicted = {}
    /\ ~closed \/ ~closeErr => stuck = {}
    /\ Place \in {"stopFailed", "failed"} /\ ~persistent => shadows = {}
    /\ Place \in {"stop", "closed"} /\ ~persistent /\ ~closeErr => shadows = {}

\* The session was aborted, or it was closed with success or is about to be.
Unwound ==
    \/ Place \in {"releaseFailed", "stopFailed", "failed"}
    \/ Place = "BackupComplete" /\ async = "finished"
    \/ Place \in {"DeleteSnapshots", "release", "stop", "closed"} /\ ~closeErr

\* Writers are quiesced between their preparation and the abort or the
\* completion of the backup only.
Quiet ==
    /\ noWriters \/ Place \in {"idle", "newWorker", "createComponents"}
          => \A w \in Writers : writers[w] = "stable"
    /\ Unwound => \A w \in Writers : ~Quiesced(w)

\* Nothing is read of the writers' statuses before the snapshot is made, and a
\* writer that has failed stays failed while the set is open.
Statuses ==
    /\ Place \in (Creating \ {"properties"}) \cup {"idle"} => statusRead = {} /\ degraded = {}
    /\ Made => \A w \in failedIn : writers[w] = "failed"
    /\ Place \in {"properties", "open"} =>
          /\ failedIn \cap statusRead \subseteq degraded
          /\ \A w \in degraded : writers[w] = "failed"

IInv == TypeOK /\ Places /\ Alive /\ Guarded /\ Complete /\ Accounted /\ Quiet /\ Statuses

-----------------------------------------------------------------------------

USE DEF Ops, Creating, Failing, Closing, Awaiting, cfgVars, setVars, closeVars, serviceVars, endVars

LEMMA SucceededPlaces ==
    ASSUME NEW o \in Ops
    PROVE  /\ Succeeded(o) \in {"resolve", "DoSnapshotSet", "GatherWriterStatus", "properties", "DeleteSnapshots"}
           /\ Succeeded(o) = "DeleteSnapshots" <=> o = "BackupComplete"
BY DEF Succeeded

LEMMA CreateStep ==
    ASSUME IInv, Create
    PROVE  IInv'
<1>1. TypeOK /\ Places /\ Alive /\ Guarded /\ Complete /\ Accounted /\ Quiet /\ Statuses
    BY DEF IInv
<1>2. TypeOK'
    BY <1>1 DEF Create, TypeOK
<1>3. Places'
    BY <1>1, <1>2 DEF Create, Places, Place
<1>4. Alive'
    BY <1>1, <1>2 DEF Create, Places, Alive, Place
<1>5. Guarded'
    BY <1>1, <1>2 DEF Create, Places, Guarded, Place, CloseMeansTornDown
<1>6. Complete'
    BY <1>1, <1>2 DEF Create, Places, Complete, Place, Made
<1>7. Accounted'
    BY <1>1, <1>2 DEF Create, Places, Accounted, Guarded, Place, Made
<1>8. Quiet'
    BY <1>1, <1>2 DEF Create, Places, Quiet, Place, Quiesced, Unwound
<1>9. Statuses'
    BY <1>1, <1>2 DEF Create, Places, Statuses, Complete, Place, Made
<1>. QED
    BY <1>2, <1>3, <1>4, <1>5, <1>6, <1>7, <1>8, <1>9 DEF IInv

LEMMA NewWorkerStep ==
    ASSUME IInv, NewWorker
    PROVE  IInv'
<1>1. TypeOK /\ Places /\ Alive /\ Guarded /\ Complete /\ Accounted /\ Quiet /\ Statuses
    BY DEF IInv
<1>2. TypeOK'
    BY <1>1 DEF NewWorker, TypeOK
<1>3. Places'
    BY <1>1, <1>2 DEF NewWorker, Places, Place
<1>4. Alive'
    BY <1>1, <1>2 DEF NewWorker, Places, Alive, Place
<1>5. Guarded'
    BY <1>1, <1>2 DEF NewWorker, Places, Guarded, Place, CloseMeansTornDown
<1>6. Complete'
    BY <1>1, <1>2 DEF NewWorker, Places, Complete, Place, Made
<1>7. Accounted'
    BY <1>1, <1>2 DEF NewWorker, Places, Accounted, Guarded, Place, Made
<1>8. Quiet'
    BY <1>1, <1>2 DEF NewWorker, Places, Quiet, Place, Quiesced, Unwound
<1>9. Statuses'
    BY <1>1, <1>2 DEF NewWorker, Places, Statuses, Complete, Place, Made
<1>. QED
    BY <1>2, <1>3, <1>4, <1>5, <1>6, <1>7, <1>8, <1>9 DEF IInv

LEMMA CreateComponentsStep ==
    ASSUME IInv, CreateComponents
    PROVE  IInv'
<1>1. TypeOK /\ Places /\ Alive /\ Guarded /\ Complete /\ Accounted /\ Quiet /\ Statuses
    BY DEF IInv
<1>2. TypeOK'
    BY <1>1 DEF CreateComponents, TypeOK
<1>3. Places'
    BY <1>1, <1>2 DEF CreateComponents, Places, Place
<1>4. Alive'
    BY <1>1, <1>2 DEF CreateComponents, Places, Alive, Place
<1>5. Guarded'
    BY <1>1, <1>2 DEF CreateComponents, Places, Guarded, Place, CloseMeansTornDown
<1>6. Complete'
    BY <1>1, <1>2 DEF CreateComponents, Places, Complete, Place, Made
<1>7. Accounted'
    BY <1>1, <1>2 DEF CreateComponents, Places, Accounted, Guarded, Place, Made
<1>8. Quiet'
    BY <1>1, <1>2 DEF CreateComponents, Places, Quiet, Place, Quiesced, Unwound
<1>9. Statuses'
    BY <1>1, <1>2 DEF CreateComponents, Places, Statuses, Complete, Place, Made
<1>. QED
    BY <1>2, <1>3, <1>4, <1>5, <1>6, <1>7, <1>8, <1>9 DEF IInv

LEMMA SynchronousStep ==
    ASSUME IInv, Synchronous
    PROVE  IInv'
<1>1. TypeOK /\ Places /\ Alive /\ Guarded /\ Complete /\ Accounted /\ Quiet /\ Statuses
    BY DEF IInv
<1>2. TypeOK'
    BY <1>1 DEF Synchronous, TypeOK
<1>3. Places'
    BY <1>1, <1>2 DEF Synchronous, Places, Place
<1>4. Alive'
    BY <1>1, <1>2 DEF Synchronous, Places, Alive, Place
<1>5. Guarded'
    BY <1>1, <1>2 DEF Synchronous, Places, Guarded, Place, CloseMeansTornDown
<1>6. Complete'
    BY <1>1, <1>2 DEF Synchronous, Places, Complete, Place, Made
<1>7. Accounted'
    BY <1>1, <1>2 DEF Synchronous, Places, Accounted, Guarded, Place, Made
<1>8. Quiet'
    BY <1>1, <1>2 DEF Synchronous, Places, Quiet, Place, Quiesced, Unwound
<1>9. Statuses'
    BY <1>1, <1>2 DEF Synchronous, Places, Statuses, Complete, Place, Made
<1>. QED
    BY <1>2, <1>3, <1>4, <1>5, <1>6, <1>7, <1>8, <1>9 DEF IInv

LEMMA AddToSnapshotSetStep ==
    ASSUME IInv, AddToSnapshotSet
    PROVE  IInv'
<1>1. TypeOK /\ Places /\ Alive /\ Guarded /\ Complete /\ Accounted /\ Quiet /\ Statuses
    BY DEF IInv
<1>2. TypeOK'
    BY <1>1 DEF AddToSnapshotSet, TypeOK
<1>3. Places'
    BY <1>1, <1>2 DEF AddToSnapshotSet, Places, Place
<1>4. Alive'
    BY <1>1, <1>2 DEF AddToSnapshotSet, Places, Alive, Place
<1>5. Guarded'
    BY <1>1, <1>2 DEF AddToSnapshotSet, Places, Guarded, Place, CloseMeansTornDown
<1>6. Complete'
    BY <1>1, <1>2 DEF AddToSnapshotSet, Places, Complete, Place, Made
<1>7. Accounted'
    BY <1>1, <1>2 DEF AddToSnapshotSet, Places, Accounted, Guarded, Place, Made
<1>8. Quiet'
    BY <1>1, <1>2 DEF AddToSnapshotSet, Places, Quiet, Place, Quiesced, Unwound
<1>9. Statuses'
    BY <1>1, <1>2 DEF AddToSnapshotSet, Places, Statuses, Complete, Place, Made
<1>. QED
    BY <1>2, <1>3, <1>4, <1>5, <1>6, <1>7, <1>8, <1>9 DEF IInv

LEMMA StartAsyncStep ==
    ASSUME IInv, StartAsync
    PROVE  IInv'
<1>1. TypeOK /\ Places /\ Alive /\ Guarded /\ Complete /\ Accounted /\ Quiet /\ Statuses
    BY DEF IInv
<1>a. closeErr' \in BOOLEAN
    BY <1>1, Zenon DEF StartAsync, Failed, TypeOK
<1>2. TypeOK'
    BY <1>1, <1>a, SessionAssumption DEF StartAsync, Failed, TypeOK
<1>3. Places'
    BY <1>1, <1>2, <1>a DEF StartAsync, Failed, Places, Place
<1>4. Alive'
    BY <1>1, <1>2, <1>a DEF StartAsync, Failed, Places, Alive, Place
<1>5. Guarded'
    BY <1>1, <1>2, <1>a DEF StartAsync, Failed, Places, Guarded, Place, CloseMeansTornDown
<1>6. Complete'
    BY <1>1, <1>2, <1>a DEF StartAsync, Failed, Places, Complete, Place, Made
<1>7. Accounted'
    BY <1>1, <1>2, <1>a DEF StartAsync, Failed, Places, Accounted, Guarded, Place, Made
<1>8. Quiet'
    BY <1>1, <1>2, <1>a DEF StartAsync, Failed, Places, Quiet, Place, Quiesced, Unwound
<1>9. Statuses'
    BY <1>1, <1>2, <1>a DEF StartAsync, Failed, Places, Statuses, Complete, Place, Made
<1>. QED
    BY <1>2, <1>3, <1>4, <1>5, <1>6, <1>7, <1>8, <1>9 DEF IInv

LEMMA AwaitCheckStep ==
    ASSUME IInv, AwaitCheck
    PROVE  IInv'
<1>1. TypeOK /\ Places /\ Alive /\ Guarded /\ Complete /\ Accounted /\ Quiet /\ Statuses
    BY DEF IInv
<1>a. closeErr' \in BOOLEAN
    BY <1>1, Zenon DEF AwaitCheck, AwaitFails, Failed, TypeOK
<1>2. TypeOK'
    BY <1>1, <1>a, SessionAssumption DEF AwaitCheck, AwaitFails, Failed, TypeOK
<1>3. Places'
    BY <1>1, <1>2, <1>a DEF AwaitCheck, AwaitFails, Failed, TypeOK, Places, Place
<1>4. Alive'
    BY <1>1, <1>2, <1>a DEF AwaitCheck, AwaitFails, Failed, Places, Alive, Place
<1>5. Guarded'
    BY <1>1, <1>2, <1>a
       DEF AwaitCheck, AwaitFails, Failed, Places, Guarded, Place, CloseMeansTornDown
<1>6. Complete'
    BY <1>1, <1>2, <1>a DEF AwaitCheck, AwaitFails, Failed, Places, Complete, Place, Made
<1>7. Accounted'
    BY <1>1, <1>2, <1>a DEF AwaitCheck, AwaitFails, Failed, Places, Accounted, Guarded, Place, Made
<1>8. Quiet'
    BY <1>1, <1>2, <1>a DEF AwaitCheck, AwaitFails, Failed, Places, Quiet, Place, Quiesced, Unwound
<1>9. Statuses'
    BY <1>1, <1>2, <1>a DEF AwaitCheck, AwaitFails, Failed, Places, Statuses, Complete, Place, Made
<1>. QED
    BY <1>2, <1>3, <1>4, <1>5, <1>6, <1>7, <1>8, <1>9 DEF IInv

LEMMA AwaitWaitStep ==
    ASSUME IInv, AwaitWait
    PROVE  IInv'
<1>1. TypeOK /\ Places /\ Alive /\ Guarded /\ Complete /\ Accounted /\ Quiet /\ Statuses
    BY DEF IInv
<1>a. closeErr' \in BOOLEAN
    BY <1>1, Zenon DEF AwaitWait, AwaitFails, AwaitSucceeds, Succeeded, Failed, TypeOK
<1>2. TypeOK'
  <2>1. CASE AwaitFails
    BY <2>1, <1>1, <1>a, SessionAssumption
       DEF AwaitWait, AwaitFails, AwaitSucceeds, Succeeded, Failed, TypeOK, Places
  <2>2. CASE async = "finished" /\ AwaitSucceeds
    BY <2>2, <1>1, <1>a, SessionAssumption
       DEF AwaitWait, AwaitFails, AwaitSucceeds, Succeeded, Failed, TypeOK, Places
  <2>3. CASE async = "pending" /\ pc' = "check"
    BY <2>3, <1>1, <1>a, SessionAssumption
       DEF AwaitWait, AwaitFails, AwaitSucceeds, Succeeded, Failed, TypeOK, Places
  <2>. QED
    BY <2>1, <2>2, <2>3, <1>1 DEF AwaitWait
<1>3. Places'
    BY <1>1, <1>2, <1>a DEF AwaitWait, AwaitFails, AwaitSucceeds, Succeeded, Failed, Places, Place
<1>4. Alive'
    BY <1>1, <1>2, <1>a
       DEF AwaitWait, AwaitFails, AwaitSucceeds, Succeeded, Failed, Places, Alive, Place
<1>5. Guarded'
    BY <1>1, <1>2, <1>a
       DEF AwaitWait, AwaitFails, AwaitSucceeds, Succeeded, Failed, Places, Guarded, Place,
           CloseMeansTornDown
<1>6. Complete'
    BY <1>1, <1>2, <1>a
       DEF AwaitWait, AwaitFails, AwaitSucceeds, Succeeded, Failed, Places, Complete, Place,
           Made
<1>7. Accounted'
    BY <1>1, <1>2, <1>a
       DEF AwaitWait, AwaitFails, AwaitSucceeds, Succeeded, Failed, Places, Accounted, Guarded,
           Place, Made
<1>8. Quiet'
  <2>1. CASE AwaitFails
    BY <2>1, <1>1, <1>2, <1>a, SessionAssumption
       DEF AwaitWait, AwaitFails, AwaitSucceeds, Succeeded, Failed, TypeOK, Places, Quiet, Place,
           Quiesced, Unwound
  <2>2. CASE async = "finished" /\ AwaitSucceeds
    BY <2>2, <1>1, <1>2, <1>a, SessionAssumption, SucceededPlaces
       DEF AwaitWait, AwaitFails, AwaitSucceeds, Failed, TypeOK, Places, Quiet, Place, Quiesced,
           Unwound
  <2>3. CASE async = "pending" /\ pc' = "check"
    BY <2>3, <1>1, <1>2, <1>a, SessionAssumption
       DEF AwaitWait, AwaitFails, AwaitSucceeds, Succeeded, Failed, TypeOK, Places, Quiet, Place,
           Quiesced, Unwound
  <2>. QED
    BY <2>1, <2>2, <2>3, <1>1 DEF AwaitWait
<1>9. Statuses'
    BY <1>1, <1>2, <1>a
       DEF AwaitWait, AwaitFails, AwaitSucceeds, Succeeded, Failed, Places, Statuses, Complete,
           Place, Made
<1>. QED
    BY <1>2, <1>3, <1>4, <1>5, <1>6, <1>7, <1>8, <1>9 DEF IInv

LEMMA GetSnapshotPropertiesStep ==
    ASSUME IInv, GetSnapshotProperties
    PROVE  IInv'
<1>1. TypeOK /\ Places /\ Alive /\ Guarded /\ Complete /\ Accounted /\ Quiet /\ Statuses
    BY DEF IInv
<1>2. TypeOK'
    BY <1>1 DEF GetSnapshotProperties, TypeOK
<1>3. Places'
    BY <1>1, <1>2 DEF GetSnapshotProperties, Places, Place
<1>4. Alive'
    BY <1>1, <1>2 DEF GetSnapshotProperties, Places, Alive, Place
<1>5. Guarded'
    BY <1>1, <1>2 DEF GetSnapshotProperties, Places, Guarded, Place, CloseMeansTornDown
<1>6. Complete'
    BY <1>1, <1>2 DEF GetSnapshotProperties, Places, Complete, Place, Made
<1>7. Accounted'
    BY <1>1, <1>2 DEF GetSnapshotProperties, Places, Accounted, Guarded, Place, Made
<1>8. Quiet'
    BY <1>1, <1>2 DEF GetSnapshotProperties, Places, Quiet, Place, Quiesced, Unwound
<1>9. Statuses'
    BY <1>1, <1>2 DEF GetSnapshotProperties, Places, Statuses, Complete, Place, Made
<1>. QED
    BY <1>2, <1>3, <1>4, <1>5, <1>6, <1>7, <1>8, <1>9 DEF IInv

LEMMA AbortBackupStep ==
    ASSUME IInv, AbortBackup
    PROVE  IInv'
<1>1. TypeOK /\ Places /\ Alive /\ Guarded /\ Complete /\ Accounted /\ Quiet /\ Statuses
    BY DEF IInv
<1>2. TypeOK'
    BY <1>1 DEF AbortBackup, TypeOK
<1>3. Places'
    BY <1>1, <1>2 DEF AbortBackup, Places, Place
<1>4. Alive'
    BY <1>1, <1>2 DEF AbortBackup, Places, Alive, Place
<1>5. Guarded'
    BY <1>1, <1>2 DEF AbortBackup, Places, Guarded, Place, CloseMeansTornDown
<1>6. Complete'
    BY <1>1, <1>2 DEF AbortBackup, Places, Complete, Place, Made
<1>7. Accounted'
    BY <1>1, <1>2 DEF AbortBackup, Places, Accounted, Guarded, Place, Made
<1>8. Quiet'
    BY <1>1, <1>2 DEF AbortBackup, Places, Quiet, Place, Quiesced, Unwound
<1>9. Statuses'
    BY <1>1, <1>2 DEF AbortBackup, Places, Statuses, Complete, Place, Made
<1>. QED
    BY <1>2, <1>3, <1>4, <1>5, <1>6, <1>7, <1>8, <1>9 DEF IInv

LEMMA ReleaseStep ==
    ASSUME IInv, Release
    PROVE  IInv'
<1>1. TypeOK /\ Places /\ Alive /\ Guarded /\ Complete /\ Accounted /\ Quiet /\ Statuses
    BY DEF IInv
<1>2. TypeOK'
    BY <1>1 DEF Release, TypeOK
<1>3. Places'
    BY <1>1, <1>2 DEF Release, Places, Place
<1>4. Alive'
    BY <1>1, <1>2 DEF Release, Places, Alive, Place
<1>5. Guarded'
    BY <1>1, <1>2 DEF Release, Places, Guarded, Place, CloseMeansTornDown
<1>6. Complete'
    BY <1>1, <1>2 DEF Release, Places, Complete, Place, Made
<1>7. Accounted'
    BY <1>1, <1>2 DEF Release, Places, Accounted, Guarded, Place, Made
<1>8. Quiet'
    BY <1>1, <1>2 DEF Release, Places, Quiet, Place, Quiesced, Unwound
<1>9. Statuses'
    BY <1>1, <1>2 DEF Release, Places, Statuses, Complete, Place, Made
<1>. QED
    BY <1>2, <1>3, <1>4, <1>5, <1>6, <1>7, <1>8, <1>9 DEF IInv

LEMMA StopFailedStep ==
    ASSUME IInv, StopFailed
    PROVE  IInv'
<1>1. TypeOK /\ Places /\ Alive /\ Guarded /\ Complete /\ Accounted /\ Quiet /\ Statuses
    BY DEF IInv
<1>2. TypeOK'
    BY <1>1 DEF StopFailed, TypeOK
<1>3. Places'
    BY <1>1, <1>2 DEF StopFailed, Places, Place
<1>4. Alive'
    BY <1>1, <1>2 DEF StopFailed, Places, Alive, Place
<1>5. Guarded'
    BY <1>1, <1>2 DEF StopFailed, Places, Guarded, Place, CloseMeansTornDown
<1>6. Complete'
    BY <1>1, <1>2 DEF StopFailed, Places, Complete, Place, Made
<1>7. Accounted'
    BY <1>1, <1>2 DEF StopFailed, Places, Accounted, Guarded, Place, Made
<1>8. Quiet'
    BY <1>1, <1>2 DEF StopFailed, Places, Quiet, Place, Quiesced, Unwound
<1>9. Statuses'
    BY <1>1, <1>2 DEF StopFailed, Places, Statuses, Complete, Place, Made
<1>. QED
    BY <1>2, <1>3, <1>4, <1>5, <1>6, <1>7, <1>8, <1>9 DEF IInv

LEMMA DeleteSnapshotsStep ==
    ASSUME IInv, DeleteSnapshots
    PROVE  IInv'
<1>1. TypeOK /\ Places /\ Alive /\ Guarded /\ Complete /\ Accounted /\ Quiet /\ Statuses
    BY DEF IInv
<1>2. TypeOK'
  <2>1. pc' = "release" /\ shadows' \subseteq Volumes /\ stuck' \subseteq Volumes /\ closeErr' \in BOOLEAN
    BY <1>1 DEF DeleteSnapshots, TypeOK
  <2>. QED
    BY <1>1, <2>1 DEF DeleteSnapshots, TypeOK
<1>3. Places'
    BY <1>1, <1>2 DEF DeleteSnapshots, Places, Place
<1>4. Alive'
    BY <1>1, <1>2 DEF DeleteSnapshots, Places, Alive, Place
<1>5. Guarded'
    BY <1>1, <1>2 DEF DeleteSnapshots, Places, Guarded, Place, CloseMeansTornDown
<1>6. Complete'
    BY <1>1, <1>2 DEF DeleteSnapshots, Places, Complete, Place, Made
<1>7. Accounted'
    BY <1>1, <1>2 DEF DeleteSnapshots, Places, Accounted, Guarded, Place, Made
<1>8. Quiet'
    BY <1>1, <1>2 DEF DeleteSnapshots, Places, Quiet, Place, Quiesced, Unwound
<1>9. Statuses'
    BY <1>1, <1>2 DEF DeleteSnapshots, Places, Statuses, Complete, Place, Made
<1>. QED
    BY <1>2, <1>3, <1>4, <1>5, <1>6, <1>7, <1>8, <1>9 DEF IInv

LEMMA StopClosedStep ==
    ASSUME IInv, NEW c \in Closers, StopClosed(c)
    PROVE  IInv'
<1>1. TypeOK /\ Places /\ Alive /\ Guarded /\ Complete /\ Accounted /\ Quiet /\ Statuses
    BY DEF IInv
<1>2. TypeOK'
    BY <1>1 DEF StopClosed, TypeOK
<1>3. Places'
    BY <1>1, <1>2 DEF StopClosed, Places, Place
<1>4. Alive'
    BY <1>1, <1>2 DEF StopClosed, Places, Alive, Place
<1>5. Guarded'
    BY <1>1, <1>2 DEF StopClosed, Places, Guarded, Place, CloseMeansTornDown
<1>6. Complete'
    BY <1>1, <1>2 DEF StopClosed, Places, Complete, Place, Made
<1>7. Accounted'
    BY <1>1, <1>2 DEF StopClosed, Places, Accounted, Guarded, Place, Made
<1>8. Quiet'
    BY <1>1, <1>2 DEF StopClosed, Places, Quiet, Place, Quiesced, Unwound
<1>9. Statuses'
    BY <1>1, <1>2 DEF StopClosed, Places, Statuses, Complete, Place, Made
<1>. QED
    BY <1>2, <1>3, <1>4, <1>5, <1>6, <1>7, <1>8, <1>9 DEF IInv

LEMMA CallCloseStep ==
    ASSUME IInv, NEW c \in Closers, CallClose(c)
    PROVE  IInv'
<1>1. TypeOK /\ Places /\ Alive /\ Guarded /\ Complete /\ Accounted /\ Quiet /\ Statuses
    BY DEF IInv
<1>2. TypeOK'
    BY <1>1 DEF CallClose, TypeOK
<1>3. Places'
    BY <1>1, <1>2 DEF CallClose, Places, Place
<1>4. Alive'
    BY <1>1, <1>2 DEF CallClose, Places, Alive, Place
<1>5. Guarded'
    BY <1>1, <1>2 DEF CallClose, Places, Guarded, Place, CloseMeansTornDown
<1>6. Complete'
    BY <1>1, <1>2 DEF CallClose, Places, Complete, Place, Made
<1>7. Accounted'
    BY <1>1, <1>2 DEF CallClose, Places, Accounted, Guarded, Place, Made
<1>8. Quiet'
    BY <1>1, <1>2 DEF CallClose, Places, Quiet, Place, Quiesced, Unwound
<1>9. Statuses'
    BY <1>1, <1>2 DEF CallClose, Places, Statuses, Complete, Place, Made
<1>. QED
    BY <1>2, <1>3, <1>4, <1>5, <1>6, <1>7, <1>8, <1>9 DEF IInv

LEMMA LockAndCloseStep ==
    ASSUME IInv, NEW c \in Closers, LockAndClose(c)
    PROVE  IInv'
<1>1. TypeOK /\ Places /\ Alive /\ Guarded /\ Complete /\ Accounted /\ Quiet /\ Statuses
    BY DEF IInv
<1>a. ~closed => pc = "open"
    BY <1>1, SessionAssumption DEF LockAndClose, Guarded, TypeOK
<1>2. TypeOK'
  <2>1. CASE closed
    BY <2>1, <1>1, <1>a DEF LockAndClose, TypeOK
  <2>2. CASE ~closed
    BY <2>2, <1>1, <1>a DEF LockAndClose, TypeOK
  <2>. QED
    BY <2>1, <2>2, <1>1 DEF LockAndClose
<1>3. Places'
    BY <1>1, <1>2, <1>a DEF LockAndClose, Places, Place
<1>4. Alive'
    BY <1>1, <1>2, <1>a DEF LockAndClose, Places, Alive, Place
<1>5. Guarded'
    BY <1>1, <1>2, <1>a, SessionAssumption
       DEF LockAndClose, TypeOK, Places, Guarded, Place, CloseMeansTornDown
<1>6. Complete'
    BY <1>1, <1>2, <1>a DEF LockAndClose, Places, Complete, Place, Made
<1>7. Accounted'
    BY <1>1, <1>2, <1>a DEF LockAndClose, Places, Accounted, Guarded, Place, Made
<1>8. Quiet'
    BY <1>1, <1>2, <1>a DEF LockAndClose, Places, Quiet, Place, Quiesced, Unwound
<1>9. Statuses'
    BY <1>1, <1>2, <1>a DEF LockAndClose, Places, Statuses, Complete, Place, Made
<1>. QED
    BY <1>2, <1>3, <1>4, <1>5, <1>6, <1>7, <1>8, <1>9 DEF IInv

LEMMA WriterAnswersStep ==
    ASSUME IInv, NEW w \in Writers, WriterAnswers(w)
    PROVE  IInv'
<1>1. TypeOK /\ Places /\ Alive /\ Guarded /\ Complete /\ Accounted /\ Quiet /\ Statuses
    BY DEF IInv
<1>2. TypeOK'
    BY <1>1 DEF WriterAnswers, TypeOK
<1>3. Places'
    BY <1>1, <1>2 DEF WriterAnswers, Places, Place
<1>4. Alive'
    BY <1>1, <1>2 DEF WriterAnswers, Places, Alive, Place
<1>5. Guarded'
    BY <1>1, <1>2 DEF WriterAnswers, Places, Guarded, Place, CloseMeansTornDown
<1>6. Complete'
    BY <1>1, <1>2 DEF WriterAnswers, Places, Complete, Place, Made
<1>7. Accounted'
    BY <1>1, <1>2 DEF WriterAnswers, Places, Accounted, Guarded, Place, Made
<1>8. Quiet'
    BY <1>1, <1>2 DEF WriterAnswers, Places, Quiet, Place, Quiesced, Unwound
<1>9. Statuses'
    BY <1>1, <1>2 DEF WriterAnswers, Places, Statuses, Complete, Place, Made
<1>. QED
    BY <1>2, <1>3, <1>4, <1>5, <1>6, <1>7, <1>8, <1>9 DEF IInv

LEMMA WriterTimesOutStep ==
    ASSUME IInv, NEW w \in Writers, WriterTimesOut(w)
    PROVE  IInv'
<1>1. TypeOK /\ Places /\ Alive /\ Guarded /\ Complete /\ Accounted /\ Quiet /\ Statuses
    BY DEF IInv
<1>2. TypeOK'
    BY <1>1 DEF WriterTimesOut, TypeOK
<1>3. Places'
    BY <1>1, <1>2 DEF WriterTimesOut, Places, Place
<1>4. Alive'
    BY <1>1, <1>2 DEF WriterTimesOut, Places, Alive, Place
<1>5. Guarded'
    BY <1>1, <1>2 DEF WriterTimesOut, Places, Guarded, Place, CloseMeansTornDown
<1>6. Complete'
    BY <1>1, <1>2 DEF WriterTimesOut, Places, Complete, Place, Made
<1>7. Accounted'
    BY <1>1, <1>2 DEF WriterTimesOut, Places, Accounted, Guarded, Place, Made
<1>8. Quiet'
    BY <1>1, <1>2 DEF WriterTimesOut, Places, Quiet, Place, Quiesced, Unwound
<1>9. Statuses'
    BY <1>1, <1>2 DEF WriterTimesOut, Places, Statuses, Complete, Place, Made
<1>. QED
    BY <1>2, <1>3, <1>4, <1>5, <1>6, <1>7, <1>8, <1>9 DEF IInv

LEMMA AsyncFinishesStep ==
    ASSUME IInv, AsyncFinishes
    PROVE  IInv'
<1>1. TypeOK /\ Places /\ Alive /\ Guarded /\ Complete /\ Accounted /\ Quiet /\ Statuses
    BY DEF IInv
<1>2. TypeOK'
    BY <1>1 DEF AsyncFinishes, TypeOK
<1>3. Places'
    BY <1>1, <1>2 DEF AsyncFinishes, Places, Place
<1>4. Alive'
    BY <1>1, <1>2 DEF AsyncFinishes, Places, Alive, Place
<1>5. Guarded'
    BY <1>1, <1>2 DEF AsyncFinishes, Places, Guarded, Place, CloseMeansTornDown
<1>6. Complete'
    BY <1>1, <1>2 DEF AsyncFinishes, TypeOK, Places, Complete, Place, Made
<1>7. Accounted'
    BY <1>1, <1>2 DEF AsyncFinishes, Places, Accounted, Guarded, Place, Made
<1>8. Quiet'
    BY <1>1, <1>2 DEF AsyncFinishes, Places, Quiet, Place, Quiesced, Unwound
<1>9. Statuses'
    BY <1>1, <1>2 DEF AsyncFinishes, Places, Statuses, Complete, Place, Made
<1>. QED
    BY <1>2, <1>3, <1>4, <1>5, <1>6, <1>7, <1>8, <1>9 DEF IInv

LEMMA AsyncFailsStep ==
    ASSUME IInv, AsyncFails
    PROVE  IInv'
<1>1. TypeOK /\ Places /\ Alive /\ Guarded /\ Complete /\ Accounted /\ Quiet /\ Statuses
    BY DEF IInv
<1>2. TypeOK'
    BY <1>1 DEF AsyncFails, TypeOK
<1>3. Places'
    BY <1>1, <1>2 DEF AsyncFails, Places, Place
<1>4. Alive'
    BY <1>1, <1>2 DEF AsyncFails, Places, Alive, Place
<1>5. Guarded'
    BY <1>1, <1>2 DEF AsyncFails, Places, Guarded, Place, CloseMeansTornDown
<1>6. Complete'
    BY <1>1, <1>2 DEF AsyncFails, Places, Complete, Place, Made
<1>7. Accounted'
    BY <1>1, <1>2 DEF AsyncFails, Places, Accounted, Guarded, Place, Made
<1>8. Quiet'
    BY <1>1, <1>2 DEF AsyncFails, Places, Quiet, Place, Quiesced, Unwound
<1>9. Statuses'
    BY <1>1, <1>2 DEF AsyncFails, Places, Statuses, Complete, Place, Made
<1>. QED
    BY <1>2, <1>3, <1>4, <1>5, <1>6, <1>7, <1>8, <1>9 DEF IInv

LEMMA EvictStep ==
    ASSUME IInv, NEW v \in Volumes, Evict(v)
    PROVE  IInv'
<1>1. TypeOK /\ Places /\ Alive /\ Guarded /\ Complete /\ Accounted /\ Quiet /\ Statuses
    BY DEF IInv
<1>2. TypeOK'
    BY <1>1 DEF Evict, TypeOK
<1>3. Places'
    BY <1>1, <1>2 DEF Evict, Places, Place
<1>4. Alive'
    BY <1>1, <1>2 DEF Evict, Places, Alive, Place
<1>5. Guarded'
    BY <1>1, <1>2 DEF Evict, Places, Guarded, Place, CloseMeansTornDown
<1>6. Complete'
    BY <1>1, <1>2 DEF Evict, Places, Complete, Place, Made
<1>7. Accounted'
    BY <1>1, <1>2 DEF Evict, Places, Accounted, Guarded, Place, Made
<1>8. Quiet'
    BY <1>1, <1>2 DEF Evict, Places, Quiet, Place, Quiesced, Unwound
<1>9. Statuses'
    BY <1>1, <1>2 DEF Evict, Places, Statuses, Complete, Place, Made
<1>. QED
    BY <1>2, <1>3, <1>4, <1>5, <1>6, <1>7, <1>8, <1>9 DEF IInv

LEMMA CtxDoneStep ==
    ASSUME IInv, CtxDone
    PROVE  IInv'
<1>1. TypeOK /\ Places /\ Alive /\ Guarded /\ Complete /\ Accounted /\ Quiet /\ Statuses
    BY DEF IInv
<1>2. TypeOK'
    BY <1>1 DEF CtxDone, TypeOK
<1>3. Places'
    BY <1>1, <1>2 DEF CtxDone, Places, Place
<1>4. Alive'
    BY <1>1, <1>2 DEF CtxDone, Places, Alive, Place
<1>5. Guarded'
    BY <1>1, <1>2 DEF CtxDone, Places, Guarded, Place, CloseMeansTornDown
<1>6. Complete'
    BY <1>1, <1>2 DEF CtxDone, Places, Complete, Place, Made
<1>7. Accounted'
    BY <1>1, <1>2 DEF CtxDone, Places, Accounted, Guarded, Place, Made
<1>8. Quiet'
    BY <1>1, <1>2 DEF CtxDone, Places, Quiet, Place, Quiesced, Unwound
<1>9. Statuses'
    BY <1>1, <1>2 DEF CtxDone, Places, Statuses, Complete, Place, Made
<1>. QED
    BY <1>2, <1>3, <1>4, <1>5, <1>6, <1>7, <1>8, <1>9 DEF IInv

LEMMA CrashStep ==
    ASSUME IInv, Crash
    PROVE  IInv'
<1>1. TypeOK /\ Places /\ Alive /\ Guarded /\ Complete /\ Accounted /\ Quiet /\ Statuses
    BY DEF IInv
<1>2. TypeOK'
    BY <1>1, SessionAssumption DEF Crash, TypeOK
<1>3. Places'
    BY <1>1, <1>2 DEF Crash, Places, Place
<1>4. Alive'
    BY <1>1, <1>2 DEF Crash, Places, Alive, Place
<1>5. Guarded'
    BY <1>1, <1>2 DEF Crash, Places, Guarded, Place, CloseMeansTornDown
<1>6. Complete'
    BY <1>1, <1>2 DEF Crash, Places, Complete, Place, Made
<1>7. Accounted'
    BY <1>1, <1>2 DEF Crash, Places, Accounted, Guarded, Place, Made
<1>8. Quiet'
    BY <1>1, <1>2 DEF Crash, Places, Quiet, Place, Quiesced, Unwound
<1>9. Statuses'
    BY <1>1, <1>2 DEF Crash, Places, Statuses, Complete, Place, Made
<1>. QED
    BY <1>2, <1>3, <1>4, <1>5, <1>6, <1>7, <1>8, <1>9 DEF IInv

LEMMA StutterStep ==
    ASSUME IInv, UNCHANGED vars
    PROVE  IInv'
<1>1. TypeOK /\ Places /\ Alive /\ Guarded /\ Complete /\ Accounted /\ Quiet /\ Statuses
    BY DEF IInv
<1>2. TypeOK'
    BY <1>1 DEF vars, TypeOK
<1>3. Places'
    BY <1>1, <1>2 DEF vars, Places, Place
<1>4. Alive'
    BY <1>1, <1>2 DEF vars, Places, Alive, Place
<1>5. Guarded'
    BY <1>1, <1>2 DEF vars, Places, Guarded, Place, CloseMeansTornDown
<1>6. Complete'
    BY <1>1, <1>2 DEF vars, Places, Complete, Place, Made
<1>7. Accounted'
    BY <1>1, <1>2 DEF vars, Places, Accounted, Guarded, Place, Made
<1>8. Quiet'
    BY <1>1, <1>2 DEF vars, Places, Quiet, Place, Quiesced, Unwound
<1>9. Statuses'
    BY <1>1, <1>2 DEF vars, Places, Statuses, Complete, Place, Made
<1>. QED
    BY <1>2, <1>3, <1>4, <1>5, <1>6, <1>7, <1>8, <1>9 DEF IInv

-----------------------------------------------------------------------------

LEMMA InvInit ==
    ASSUME Init
    PROVE  IInv
<1>1. TypeOK
  <2>1. persistent \in BOOLEAN /\ noWriters \in BOOLEAN
    BY DEF Init
  <2>2. closers \in [Closers -> {"out", "locking", "closing", "returned"}]
    BY DEF Init
  <2>3. writers \in [Writers -> {"stable", "prepared", "frozen", "waiting", "failed"}]
    BY DEF Init
  <2>4. left \in 0..MaxSlices /\ releases \in Nat /\ stops \in Nat
    BY SessionAssumption DEF Init
  <2>. QED
    BY <2>1, <2>2, <2>3, <2>4 DEF Init, TypeOK
<1>2. Place = "idle" /\ ~Made
    BY DEF Init, Place, Made
<1>3. Places /\ Alive
    BY <1>2 DEF Init, Places, Alive
<1>4. Guarded
    BY <1>2 DEF Init, Guarded, CloseMeansTornDown
<1>5. Complete /\ Accounted
    BY <1>2, SessionAssumption DEF Init, Complete, Accounted
<1>6. Quiet
    BY <1>2 DEF Init, Quiet, Unwound
<1>7. Statuses
    BY <1>2 DEF Init, Statuses
<1>. QED
    BY <1>1, <1>3, <1>4, <1>5, <1>6, <1>7 DEF IInv

LEMMA InvStep ==
    ASSUME IInv, [Next]_vars
    PROVE  IInv'
<1>1. CASE Library
    BY <1>1, NewWorkerStep, CreateComponentsStep, SynchronousStep, AddToSnapshotSetStep,
       StartAsyncStep, AwaitCheckStep, AwaitWaitStep, GetSnapshotPropertiesStep, AbortBackupStep,
       ReleaseStep, StopFailedStep, DeleteSnapshotsStep, StopClosedStep DEF Library
<1>2. CASE Service
    BY <1>2, WriterAnswersStep, WriterTimesOutStep, AsyncFinishesStep, AsyncFailsStep, EvictStep
       DEF Service
<1>3. CASE \E c \in Closers : CallClose(c) \/ LockAndClose(c)
    BY <1>3, CallCloseStep, LockAndCloseStep
<1>4. CASE Create \/ CtxDone \/ Crash
    BY <1>4, CreateStep, CtxDoneStep, CrashStep
<1>5. CASE UNCHANGED vars
    BY <1>5, StutterStep
<1>. QED
    BY <1>1, <1>2, <1>3, <1>4, <1>5 DEF Next

\* IInv is invariant: createSet, its error path, winSet.close and whatever the
\* service and the writers do keep it.
THEOREM InvHolds == Spec => []IInv
<1>1. Init => IInv
    BY InvInit
<1>2. IInv /\ [Next]_vars => IInv'
    BY InvStep
<1>. QED
    BY <1>1, <1>2, PTL DEF Spec

\* The variables of a session keep their types; in particular the wait of
\* awaitAsync never goes past its deadline.
THEOREM SessionTypeCorrect == Spec => []TypeOK
<1>1. IInv => TypeOK
    BY DEF IInv, TypeOK
<1>. QED
    BY <1>1, InvHolds, PTL

\* The COM thread and the components object are used while they live, and are
\* stopped and released at most once, however many goroutines call Close
\* (worker.stop, backupComponents.Release).
THEOREM UsedWhileAlive == Spec => []ComUsedWhileAlive
<1>1. IInv => ComUsedWhileAlive
    BY DEF IInv, TypeOK, Places, Alive, Place, ComUsedWhileAlive
<1>. QED
    BY <1>1, InvHolds, PTL

\* Whoever returns from SnapshotSet.Close finds the session torn down.
THEOREM TornDown == Spec => []CloseMeansTornDown
<1>1. IInv => CloseMeansTornDown
    BY DEF IInv, Guarded, CloseMeansTornDown
<1>. QED
    BY <1>1, InvHolds, PTL

\* A set that CreateSet returns has a copy of every volume asked for, or it was
\* evicted since.
THEOREM AllOrNone == Spec => []AllOrNothing
<1>1. IInv => AllOrNothing
    BY DEF IInv, Places, Complete, Made, Place, AllOrNothing
<1>. QED
    BY <1>1, InvHolds, PTL

\* A CreateSet that failed, and a Close without error, leave no writer quiesced
\* and no transient copy (the error path of createSet, winSet.close).
THEOREM NothingStays == Spec => []NothingLeftBehind
<1>1. IInv => NothingLeftBehind
    BY DEF IInv, Places, Accounted, Quiet, Unwound, Place, NothingLeftBehind
<1>. QED
    BY <1>1, InvHolds, PTL

\* An open set lists every writer known to have failed, and no other (Degraded).
THEOREM FailedListed == Spec => []FailedWriterListed
<1>1. IInv => FailedWriterListed
    BY DEF IInv, Places, Statuses, Place, FailedWriterListed
<1>. QED
    BY <1>1, InvHolds, PTL

-----------------------------------------------------------------------------
(* The refinement of SessionContract. *)

LEMMA HeldIsBoolean == SomeWriterHeld \in BOOLEAN /\ SomeWriterHeld' \in BOOLEAN
BY DEF SomeWriterHeld

LEMMA HeldUnchanged ==
    ASSUME UNCHANGED writers
    PROVE  UNCHANGED SomeWriterHeld
BY DEF SomeWriterHeld, Quiesced

LEMMA NobodyHeld ==
    ASSUME \A w \in Writers : ~Quiesced(w)
    PROVE  SomeWriterHeld = FALSE
BY DEF SomeWriterHeld

\* What the places of an awaited session have to do with the flag.
LEMMA MakingOpen ==
    ASSUME IInv
    PROVE  /\ Place \in Creating \cup Failing => Phase = "making"
           /\ Place = "open" => Phase = "open"
           /\ Place \in Closing => Phase = "closing"
BY DEF IInv, Places, Guarded, Place, Phase

\* Steps inside CreateSet and Close that the contract does not see.
LEMMA Silent ==
    ASSUME IInv, UNCHANGED <<persistent, closed, writers, shadows, evicted>>,
           pc \notin {"idle", "open", "failed", "crashed", "closed"},
           pc' \notin {"idle", "open", "failed", "crashed", "closed"}
    PROVE  UNCHANGED Contract!vars
<1>1. Phase' = Phase
    BY DEF Phase
<1>. QED
    BY <1>1, HeldUnchanged DEF Contract!vars

LEMMA ContractInit == Init => Contract!Init
<1>. SUFFICES ASSUME Init
              PROVE  Contract!Init
    OBVIOUS
<1>1. \A w \in Writers : ~Quiesced(w)
    BY DEF Init, Quiesced
<1>2. Phase = "idle"
    BY DEF Init, Phase
<1>. QED
    BY <1>1, <1>2, NobodyHeld DEF Init, Contract!Init

LEMMA CreateSetRefines ==
    ASSUME IInv,
           Create \/ NewWorker \/ CreateComponents \/ Synchronous \/ AddToSnapshotSet \/ GetSnapshotProperties
    PROVE  [Contract!Next]_(Contract!vars)
<1>1. CASE Create
  <2>1. Phase = "idle" /\ Phase' = "making"
    BY <1>1 DEF IInv, Guarded, Create, Place, Phase
  <2>. QED
    BY <1>1, <2>1, HeldUnchanged DEF Create, Contract!Next, Contract!Begin, Contract!Move
<1>2. CASE NewWorker /\ pc' = "failed"
  <2>1. Phase = "making" /\ Phase' = "failed"
    BY <1>2, MakingOpen DEF NewWorker, Place, Phase
  <2>2. shadows = {} /\ \A w \in Writers : ~Quiesced(w)
    BY <1>2 DEF NewWorker, IInv, Accounted, Quiet, Place, Made, Quiesced
  <2>. QED
    BY <1>2, <2>1, <2>2, NobodyHeld, HeldUnchanged
       DEF NewWorker, Contract!Next, Contract!Fail, Contract!Move, Contract!NothingLeft
<1>3. CASE NewWorker /\ pc' # "failed"
    BY <1>3, Silent DEF NewWorker
<1>4. CASE CreateComponents \/ Synchronous \/ AddToSnapshotSet
  <2>1. pc \notin {"idle", "open", "failed", "crashed", "closed"}
        /\ pc' \notin {"idle", "open", "failed", "crashed", "closed"}
    BY <1>4 DEF CreateComponents, Synchronous, AddToSnapshotSet
  <2>2. UNCHANGED <<persistent, closed, writers, shadows, evicted>>
    BY <1>4 DEF CreateComponents, Synchronous, AddToSnapshotSet
  <2>. QED
    BY <2>1, <2>2, Silent
<1>5. CASE GetSnapshotProperties /\ pc' = "open"
  <2>1. Phase = "making" /\ Phase' = "open"
    BY <1>5, MakingOpen DEF GetSnapshotProperties, Place, Phase
  <2>2. shadows \cup evicted = Volumes
    BY <1>5 DEF GetSnapshotProperties, IInv, Complete, Made, Place
  <2>. QED
    BY <1>5, <2>1, <2>2, HeldUnchanged
       DEF GetSnapshotProperties, Contract!Next, Contract!Return, Contract!Move
<1>6. CASE GetSnapshotProperties /\ pc' # "open"
    BY <1>6, Silent DEF GetSnapshotProperties
<1>. QED
    BY <1>1, <1>2, <1>3, <1>4, <1>5, <1>6

LEMMA AwaitRefines ==
    ASSUME IInv, StartAsync \/ AwaitCheck \/ AwaitWait
    PROVE  UNCHANGED Contract!vars
<1>1. pc \notin {"idle", "open", "failed", "crashed", "closed"}
    BY DEF StartAsync, AwaitCheck, AwaitWait
<1>2. \A o \in Ops : Failed(o) \in {"properties", "DeleteSnapshots", "AbortBackup"}
    BY DEF Failed
<1>3. pc \in Awaiting => op \in Ops
    BY DEF IInv, Places
<1>4. pc' \notin {"idle", "open", "failed", "crashed", "closed"}
  <2>1. CASE StartAsync
    BY <2>1, <1>2 DEF StartAsync
  <2>2. CASE AwaitCheck
    BY <2>2, <1>2, <1>3 DEF AwaitCheck, AwaitFails
  <2>3. CASE AwaitWait
    BY <2>3, <1>2, <1>3, SucceededPlaces DEF AwaitWait, AwaitFails, AwaitSucceeds
  <2>. QED
    BY <2>1, <2>2, <2>3
<1>5. UNCHANGED <<persistent, closed, writers, shadows, evicted>>
    BY DEF StartAsync, AwaitCheck, AwaitWait
<1>. QED
    BY <1>1, <1>4, <1>5, Silent

LEMMA ErrorPathRefines ==
    ASSUME IInv, AbortBackup \/ StopFailed
    PROVE  Contract!Next
<1>1. CASE AbortBackup
  <2>1. \A w \in Writers : ~Quiesced(w)'
    BY <1>1 DEF AbortBackup, Quiesced
  <2>2. SomeWriterHeld' = FALSE
    BY <2>1 DEF SomeWriterHeld
  <2>3. Phase' = Phase
    BY <1>1 DEF AbortBackup, Phase
  <2>. QED
    BY <1>1, <2>2, <2>3 DEF AbortBackup, Contract!Next, Contract!LetGo
<1>2. CASE StopFailed
  <2>1. Phase = "making" /\ Phase' = "failed"
    BY <1>2, MakingOpen DEF StopFailed, Place, Phase
  <2>2. \A w \in Writers : ~Quiesced(w)
    BY <1>2 DEF StopFailed, IInv, Quiet, Unwound, Place
  <2>3. persistent \/ shadows = {}
    BY <1>2 DEF StopFailed, IInv, Accounted, Place
  <2>. QED
    BY <1>2, <2>1, <2>2, <2>3, NobodyHeld, HeldUnchanged
       DEF StopFailed, Contract!Next, Contract!Fail, Contract!Move, Contract!NothingLeft
<1>. QED
    BY <1>1, <1>2

LEMMA ReleaseRefines ==
    ASSUME IInv, Release \/ DeleteSnapshots
    PROVE  [Contract!Next]_(Contract!vars)
<1>1. Phase' = Phase
    BY DEF Release, DeleteSnapshots, Phase
<1>2. UNCHANGED <<persistent, closed, writers, evicted>>
    BY DEF Release, DeleteSnapshots
<1>3. CASE persistent
  <2>1. shadows' = shadows
    BY <1>3 DEF Release, DeleteSnapshots
  <2>. QED
    BY <2>1, <1>1, <1>2, HeldUnchanged DEF Contract!vars
<1>4. CASE ~persistent
  <2>1. \/ Phase = "making" /\ shadows' = {}
        \/ Phase = "closing" /\ shadows' \subseteq shadows
    <3>1. CASE Release /\ pc = "releaseFailed"
      <4>1. Phase = "making"
        BY <3>1, MakingOpen DEF Place
      <4>2. stuck = {}
        BY <3>1 DEF IInv, Guarded, Accounted, Place
      <4>. QED
        BY <3>1, <4>1, <4>2, <1>4 DEF Release
    <3>2. CASE Release /\ pc = "release"
      <4>1. Phase = "closing"
        BY <3>2, MakingOpen DEF Place
      <4>. QED
        BY <3>2, <4>1, <1>4 DEF Release
    <3>3. CASE DeleteSnapshots
      <4>1. Phase = "closing"
        BY <3>3, MakingOpen DEF DeleteSnapshots, Place
      <4>. QED
        BY <3>3, <4>1, <1>4 DEF DeleteSnapshots
    <3>. QED
      BY <3>1, <3>2, <3>3 DEF Release
  <2>. QED
    BY <2>1, <1>1, <1>2, <1>4, HeldUnchanged DEF Contract!Next, Contract!Discard
<1>. QED
    BY <1>3, <1>4

LEMMA CloseRefines ==
    ASSUME IInv, NEW c \in Closers, StopClosed(c) \/ CallClose(c) \/ LockAndClose(c)
    PROVE  [Contract!Next]_(Contract!vars)
<1>1. CASE StopClosed(c)
  <2>1. Phase = "closing" /\ Phase' = IF closeErr THEN "closedWithError" ELSE "closed"
    BY <1>1, MakingOpen DEF StopClosed, Place, Phase
  <2>2. ~closeErr => /\ \A w \in Writers : ~Quiesced(w)
                     /\ persistent \/ shadows = {}
    BY <1>1 DEF StopClosed, IInv, Quiet, Unwound, Accounted, Place
  <2>. QED
    BY <1>1, <2>1, <2>2, NobodyHeld, HeldUnchanged
       DEF StopClosed, Contract!Next, Contract!Finish, Contract!Move, Contract!NothingLeft
<1>2. CASE CallClose(c) \/ (LockAndClose(c) /\ closed)
  <2>1. Phase' = Phase
    BY <1>2 DEF CallClose, LockAndClose, Phase
  <2>. QED
    BY <1>2, <2>1, HeldUnchanged DEF CallClose, LockAndClose, Contract!vars
<1>3. CASE LockAndClose(c) /\ ~closed
  <2>1. pc = "open"
    BY <1>3 DEF LockAndClose, IInv, Guarded
  <2>2. Phase = "open" /\ Phase' = "closing"
    BY <1>3, <2>1 DEF LockAndClose, Phase
  <2>. QED
    BY <1>3, <2>2, HeldUnchanged DEF LockAndClose, Contract!Next, Contract!Close, Contract!Move
<1>. QED
    BY <1>1, <1>2, <1>3

LEMMA WritersRefine ==
    ASSUME IInv, NEW w \in Writers, WriterAnswers(w) \/ WriterTimesOut(w)
    PROVE  [Contract!Next]_(Contract!vars)
<1>1. Phase' = Phase /\ UNCHANGED <<persistent, shadows, evicted>>
    BY DEF WriterAnswers, WriterTimesOut, Phase
<1>2. CASE ~SomeWriterHeld'
    BY <1>1, <1>2, HeldIsBoolean DEF Contract!Next, Contract!LetGo
<1>3. CASE SomeWriterHeld' /\ WriterAnswers(w)
  <2>1. Phase = "making"
    BY <1>3, MakingOpen DEF WriterAnswers, IInv, Places, Place
  <2>. QED
    BY <1>1, <1>3, <2>1, HeldIsBoolean DEF Contract!Next, Contract!Hold
<1>4. CASE SomeWriterHeld' /\ WriterTimesOut(w)
  <2>1. \A v \in Writers : writers'[v] = writers[v] \/ writers'[v] = "failed"
    BY <1>4 DEF WriterTimesOut, IInv, TypeOK
  <2>2. \A v \in Writers : Quiesced(v)' => Quiesced(v)
    BY <2>1 DEF Quiesced
  <2>3. SomeWriterHeld
    BY <1>4, <2>2 DEF SomeWriterHeld
  <2>. QED
    BY <1>1, <1>4, <2>3, HeldIsBoolean DEF Contract!vars
<1>. QED
    BY <1>2, <1>3, <1>4

LEMMA FinishRefines ==
    ASSUME IInv, AsyncFinishes
    PROVE  [Contract!Next]_(Contract!vars)
<1>1. Phase' = Phase /\ UNCHANGED <<persistent, evicted>>
    BY DEF AsyncFinishes, Phase
<1>2. pc \in Awaiting /\ op \in Ops
    BY DEF AsyncFinishes, IInv, Places
<1>3. CASE op = "DoSnapshotSet"
  <2>1. Place = "DoSnapshotSet" /\ ~Made
    BY <1>2, <1>3 DEF AsyncFinishes, Place, Made
  <2>2. Phase = "making" /\ shadows = {} /\ evicted = {} /\ added = Volumes
    BY <2>1, MakingOpen DEF IInv, Accounted, Complete
  <2>3. shadows' = added
        /\ writers' = [w \in Writers |-> IF writers[w] = "frozen" THEN "waiting" ELSE writers[w]]
    BY <1>3 DEF AsyncFinishes
  <2>4. \A w \in Writers : Quiesced(w)' <=> Quiesced(w)
    BY <2>3 DEF Quiesced
  <2>5. SomeWriterHeld' = SomeWriterHeld
    BY <2>4 DEF SomeWriterHeld
  <2>. QED
    BY <1>1, <2>2, <2>3, <2>5 DEF Contract!Next, Contract!Snapshot
<1>4. CASE op = "BackupComplete"
  <2>1. writers' = [w \in Writers |-> "stable"] /\ UNCHANGED shadows
    BY <1>4 DEF AsyncFinishes
  <2>2. \A w \in Writers : ~Quiesced(w)'
    BY <2>1 DEF Quiesced
  <2>3. SomeWriterHeld' = FALSE
    BY <2>2 DEF SomeWriterHeld
  <2>. QED
    BY <1>1, <2>1, <2>3 DEF Contract!Next, Contract!LetGo
<1>5. CASE op \notin {"DoSnapshotSet", "BackupComplete"}
  <2>1. UNCHANGED <<writers, shadows>>
    BY <1>5 DEF AsyncFinishes
  <2>. QED
    BY <1>1, <2>1, HeldUnchanged DEF Contract!vars
<1>. QED
    BY <1>3, <1>4, <1>5

LEMMA CrashRefines ==
    ASSUME IInv, Crash
    PROVE  Contract!Die
<1>1. Phase \in {"making", "open", "closing"} /\ Phase' = "crashed"
    BY DEF Crash, Phase
<1>2. Phase # "closing" => stuck = {}
    BY DEF Crash, IInv, Guarded, Accounted, Place, Phase
<1>3. shadows' \in IF persistent THEN {shadows} ELSE IF Phase = "closing" THEN SUBSET shadows ELSE {{}}
    BY <1>2 DEF Crash
<1>. QED
    BY <1>1, <1>3, HeldUnchanged DEF Crash, Contract!Die

LEMMA StepRefines ==
    ASSUME IInv, [Next]_vars
    PROVE  [Contract!Next]_(Contract!vars)
<1>1. CASE Create \/ Library
    BY <1>1, CreateSetRefines, AwaitRefines, ErrorPathRefines, ReleaseRefines, CloseRefines
       DEF Library
<1>2. CASE \E c \in Closers : CallClose(c) \/ LockAndClose(c)
    BY <1>2, CloseRefines
<1>3. CASE \E w \in Writers : WriterAnswers(w) \/ WriterTimesOut(w)
    BY <1>3, WritersRefine
<1>4. CASE AsyncFinishes
    BY <1>4, FinishRefines
<1>5. ASSUME NEW v \in Volumes, Evict(v)
      PROVE  Contract!Evict(v)
  <2>1. Phase' = Phase
    BY <1>5 DEF Evict, Phase
  <2>. QED
    BY <1>5, <2>1, HeldUnchanged DEF Evict, Contract!Evict
<1>6. CASE AsyncFails \/ CtxDone \/ UNCHANGED vars
  <2>1. UNCHANGED <<persistent, pc, closed, closeErr, writers, shadows, evicted>>
    BY <1>6 DEF AsyncFails, CtxDone, vars
  <2>2. Phase' = Phase
    BY <2>1 DEF Phase
  <2>. QED
    BY <2>1, <2>2, HeldUnchanged DEF Contract!vars
<1>7. CASE Crash
    BY <1>7, CrashRefines DEF Contract!Next
<1>. QED
    BY <1>1, <1>2, <1>3, <1>4, <1>5, <1>6, <1>7 DEF Next, Service, Contract!Next

\* Seen from the machine and from the caller, a session does what SessionContract
\* says, whatever its service, its writers and its goroutines do.
THEOREM SessionHolds == Spec => ImplementsSession
<1>1. Init => Contract!Init
    BY ContractInit
<1>2. IInv /\ [Next]_vars => [Contract!Next]_(Contract!vars)
    BY StepRefines
<1>. QED
    BY <1>1, <1>2, InvHolds, PTL DEF Spec, ImplementsSession, Contract!Spec
=============================================================================
