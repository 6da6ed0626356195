---------------------------- MODULE ShadowCopies ----------------------------
(***************************************************************************)
(* The shadow copies of one machine and the processes that use them:       *)
(* CreateSet reduced to its outcome, List and its three users Verify,      *)
(* Attach and Delete, Close, and reads through device names, which Windows *)
(* recycles.  A process has one snapshot set at a time, one goroutine that *)
(* calls Verify, Attach or Delete and others that read and close; it may   *)
(* die and start again.                                                    *)
(***************************************************************************)
EXTENDS Naturals, FiniteSets

CONSTANTS
    Ids,            \* snapshot IDs, never used twice
    Devices,        \* HarddiskVolumeShadowCopyN
    NoDevice,       \* the device of a copy that is not created yet
    Procs,          \* processes that use the library
    Nobody,         \* the maker of a copy that does not exist yet
    NoId,           \* no call has been made
    Batch,          \* snapshots that one IVssEnumObject::Next returns
    MaxSnapshots    \* where listSnapshots stops

ASSUME CopiesAssumption ==
    NoDevice \notin Devices /\ Nobody \notin Procs /\ NoId \notin Ids
    /\ Batch \in Nat \ {0} /\ MaxSnapshots \in Nat

VARIABLES
    state, dev, keep, maker,    \* VSS: the copies, by ID
    kind, snaps, closed,        \* each process's snapshot set
    pc, op, arg, view, out, result,     \* its call
    geom,                       \* its geomCache, keyed by ID
    misread,                    \* history: a read since the set was made got another copy
    misreadBefore               \* history: misread as it was when Verify was called

copyVars == <<state, dev, keep, maker>>
setVars  == <<kind, snaps, closed>>
callVars == <<pc, op, arg, view, out, result>>
readVars == <<geom, misread, misreadBefore>>
vars == <<copyVars, setVars, callVars, readVars>>

States    == {"absent", "processing", "created", "gone"}
Snapshots == [id : Ids, dev : Devices]
Entries   == [id : Ids, dev : Devices \cup {NoDevice}, state : {"processing", "created"}]

TypeOK ==
    /\ state \in [Ids -> States] /\ dev \in [Ids -> Devices \cup {NoDevice}]
    /\ keep \in [Ids -> BOOLEAN] /\ maker \in [Ids -> Procs \cup {Nobody}]
    /\ kind \in [Procs -> {"none", "making", "own", "attached"}]
    /\ snaps \in [Procs -> SUBSET Snapshots] /\ closed \in [Procs -> BOOLEAN]
    /\ pc \in [Procs -> {"idle", "query", "next", "listed", "delete"}]
    /\ op \in [Procs -> {"none", "Verify", "Attach", "Delete"}] /\ arg \in [Procs -> Ids \cup {NoId}]
    /\ view \in [Procs -> SUBSET Entries] /\ out \in [Procs -> SUBSET Entries]
    /\ result \in [Procs -> {"none", "ok", "notFound"}]
    /\ geom \in [Procs -> SUBSET (Ids \X Ids)]
    /\ misread \in [Procs -> BOOLEAN] /\ misreadBefore \in [Procs -> BOOLEAN]

Init ==
    /\ state = [i \in Ids |-> "absent"] /\ dev = [i \in Ids |-> NoDevice]
    /\ keep = [i \in Ids |-> FALSE] /\ maker = [i \in Ids |-> Nobody]
    /\ kind = [p \in Procs |-> "none"] /\ snaps = [p \in Procs |-> {}]
    /\ closed = [p \in Procs |-> FALSE]
    /\ pc = [p \in Procs |-> "idle"] /\ op = [p \in Procs |-> "none"]
    /\ arg = [p \in Procs |-> NoId] /\ view = [p \in Procs |-> {}] /\ out = [p \in Procs |-> {}]
    /\ result = [p \in Procs |-> "none"]
    /\ geom = [p \in Procs |-> {}]
    /\ misread = [p \in Procs |-> FALSE] /\ misreadBefore = [p \in Procs |-> FALSE]

-----------------------------------------------------------------------------
(* VSS. *)

Exists(i)   == state[i] \in {"processing", "created"}
InUse       == {dev[i] : i \in {j \in Ids : state[j] = "created"}}
MadeBy(p)   == {i \in Ids : maker[i] = p}

\* Diff-area pressure.
Evict(i) ==
    /\ state[i] = "created" /\ state' = [state EXCEPT ![i] = "gone"]
    /\ UNCHANGED <<dev, keep, maker, setVars, callVars, readVars>>

-----------------------------------------------------------------------------
(* CreateSet, seen from the outside (module VssSession has the inside). *)

CreateSet(p, S, persistent) ==
    /\ kind[p] = "none" /\ pc[p] = "idle"
    /\ S # {} /\ \A i \in S : state[i] = "absent"
    /\ state' = [i \in Ids |-> IF i \in S THEN "processing" ELSE state[i]]
    /\ keep'  = [i \in Ids |-> IF i \in S THEN persistent ELSE keep[i]]
    /\ maker' = [i \in Ids |-> IF i \in S THEN p ELSE maker[i]]
    /\ kind'  = [kind EXCEPT ![p] = "making"]
    /\ UNCHANGED <<dev, snaps, closed, callVars, readVars>>

\* Device names that no created copy has.
FreshNames(S) == {name \in [S -> Devices \ InUse] : \A i, j \in S : i # j => name[i] # name[j]}

\* The set is returned.  ID and device of a snapshot come from one property
\* record; what createSet matches by index is in module SetHandles.
CreateSetReturns(p) ==
    LET S == {i \in MadeBy(p) : state[i] = "processing"}
    IN  /\ kind[p] = "making"
        /\ \E name \in FreshNames(S) :
            /\ dev' = [i \in Ids |-> IF i \in S THEN name[i] ELSE dev[i]]
            /\ snaps' = [snaps EXCEPT ![p] = {[id |-> i, dev |-> name[i]] : i \in S}]
        /\ state' = [i \in Ids |-> IF i \in S THEN "created" ELSE state[i]]
        /\ kind' = [kind EXCEPT ![p] = "own"] /\ closed' = [closed EXCEPT ![p] = FALSE]
        /\ UNCHANGED <<keep, maker, callVars, readVars>>

CreateSetFails(p) ==
    /\ kind[p] = "making"
    /\ state' = [i \in Ids |-> IF i \in MadeBy(p) /\ state[i] = "processing" THEN "gone" ELSE state[i]]
    /\ kind' = [kind EXCEPT ![p] = "none"]
    /\ UNCHANGED <<dev, keep, maker, snaps, closed, callVars, readVars>>

\* A persistent set that fails after the snapshot is made stays, with nobody to
\* know of it: the error path aborts and releases, and deletes nothing.
CreateSetLeaves(p) ==
    LET S == {i \in MadeBy(p) : state[i] = "processing"}
    IN  /\ kind[p] = "making" /\ \A i \in S : keep[i]
        /\ \E name \in FreshNames(S) :
            dev' = [i \in Ids |-> IF i \in S THEN name[i] ELSE dev[i]]
        /\ state' = [i \in Ids |-> IF i \in S THEN "created" ELSE state[i]]
        /\ kind' = [kind EXCEPT ![p] = "none"]
        /\ UNCHANGED <<keep, maker, snaps, closed, callVars, readVars>>

\* What VSS does with the copies of a session that ends.
SessionReleased(p) ==
    [i \in Ids |-> IF maker[i] # p \/ keep[i] THEN state[i]
                   ELSE IF Exists(i) THEN "gone" ELSE state[i]]

-----------------------------------------------------------------------------
(* Close, and the end of a process. *)

Forget(p) ==
    /\ op' = [op EXCEPT ![p] = "none"] /\ arg' = [arg EXCEPT ![p] = NoId]
    /\ result' = [result EXCEPT ![p] = "none"]

\* Mutant: an attached set deletes its copy on Close, like a set of its own.
CloseDeletes(p) ==
    /\ kind[p] \in {"own", "attached"} /\ ~closed[p]
    /\ closed' = [closed EXCEPT ![p] = TRUE]
    /\ state' = [i \in Ids |-> IF state[i] = "created" /\ \E s \in snaps[p] : s.id = i
                               THEN "gone" ELSE state[i]]
    /\ UNCHANGED <<dev, keep, maker, kind, snaps, callVars, readVars>>

\* Close: the session of an own set ends, an attached set has none.  Failures
\* of winSet.close are in VssSession.
Close(p) ==
    /\ kind[p] \in {"own", "attached"} /\ ~closed[p]
    /\ closed' = [closed EXCEPT ![p] = TRUE]
    /\ state' = IF kind[p] = "own" THEN SessionReleased(p) ELSE state
    /\ UNCHANGED <<dev, keep, maker, kind, snaps, callVars, readVars>>

\* The program drops a closed set; its next set starts a new history.
Drop(p) ==
    /\ closed[p] /\ pc[p] = "idle"
    /\ kind' = [kind EXCEPT ![p] = "none"] /\ snaps' = [snaps EXCEPT ![p] = {}]
    /\ closed' = [closed EXCEPT ![p] = FALSE]
    /\ misread' = [misread EXCEPT ![p] = FALSE] /\ misreadBefore' = [misreadBefore EXCEPT ![p] = FALSE]
    /\ Forget(p)
    /\ UNCHANGED <<copyVars, pc, view, out, geom>>

\* The process dies; persistent copies stay, one in the making may be lost.
Die(p) ==
    /\ kind[p] # "none" \/ pc[p] # "idle"
    /\ state' = [i \in Ids |-> IF maker[i] = p /\ state[i] = "processing" THEN "gone"
                               ELSE SessionReleased(p)[i]]
    /\ kind' = [kind EXCEPT ![p] = "none"] /\ snaps' = [snaps EXCEPT ![p] = {}]
    /\ closed' = [closed EXCEPT ![p] = FALSE]
    /\ pc' = [pc EXCEPT ![p] = "idle"] /\ Forget(p)
    /\ view' = [view EXCEPT ![p] = {}] /\ out' = [out EXCEPT ![p] = {}]
    /\ geom' = [geom EXCEPT ![p] = {}]
    /\ misread' = [misread EXCEPT ![p] = FALSE] /\ misreadBefore' = [misreadBefore EXCEPT ![p] = FALSE]
    /\ UNCHANGED <<dev, keep, maker>>

-----------------------------------------------------------------------------
(* Reads, plain Win32 through the device name the set remembers. *)

GotData(p, wanted, got) == misread' = [misread EXCEPT ![p] = @ \/ wanted # got]

\* Open, Walk, FS, OpenRaw and the rest: what has that name now is read.
Read(p) ==
    /\ \E s \in snaps[p] : \E i \in Ids :
        /\ state[i] = "created" /\ dev[i] = s.dev
        /\ GotData(p, s.id, i)
    /\ UNCHANGED <<copyVars, setVars, callVars, geom, misreadBefore>>

\* Mutant: geomCache keyed by device name.
GeometryByName(p) ==
    /\ \E s \in snaps[p] :
        LET hits == {g \in geom[p] : dev[g[1]] = s.dev}
        IN  \/ \E g \in hits : GotData(p, s.id, g[2]) /\ UNCHANGED geom
            \/ hits = {} /\ \E i \in Ids :
                /\ state[i] = "created" /\ dev[i] = s.dev
                /\ geom' = [geom EXCEPT ![p] = @ \cup {<<s.id, i>>}]
                /\ GotData(p, s.id, i)
    /\ UNCHANGED <<copyVars, setVars, callVars, misreadBefore>>

\* VolumeGeometry: the cached value of this ID, or a read that is cached.
VolumeGeometry(p) ==
    /\ \E s \in snaps[p] :
        LET hits == {g \in geom[p] : g[1] = s.id}
        IN  \/ \E g \in hits : GotData(p, s.id, g[2]) /\ UNCHANGED geom
            \/ hits = {} /\ \E i \in Ids :
                /\ state[i] = "created" /\ dev[i] = s.dev
                /\ geom' = [geom EXCEPT ![p] = @ \cup {<<s.id, i>>}]
                /\ GotData(p, s.id, i)
    /\ UNCHANGED <<copyVars, setVars, callVars, misreadBefore>>

-----------------------------------------------------------------------------
(* Verify, Attach, Delete. *)

Call(p, name, i, at) ==
    /\ op' = [op EXCEPT ![p] = name] /\ arg' = [arg EXCEPT ![p] = i]
    /\ pc' = [pc EXCEPT ![p] = at] /\ result' = [result EXCEPT ![p] = "none"]

Return(p, how) ==
    /\ pc' = [pc EXCEPT ![p] = "idle"] /\ result' = [result EXCEPT ![p] = how]
    /\ view' = [view EXCEPT ![p] = {}] /\ out' = [out EXCEPT ![p] = {}]
    /\ UNCHANGED <<op, arg>>

\* An error promises nothing: the call leaves no trace.
ReturnError(p) ==
    /\ pc' = [pc EXCEPT ![p] = "idle"] /\ Forget(p)
    /\ view' = [view EXCEPT ![p] = {}] /\ out' = [out EXCEPT ![p] = {}]

\* The flag is read under the mutex, the rest of the call is not.
VerifyCalled(p) ==
    /\ kind[p] \in {"own", "attached"} /\ pc[p] = "idle"
    /\ IF closed[p]
       THEN Forget(p) /\ UNCHANGED <<pc, misreadBefore>>
       ELSE /\ Call(p, "Verify", NoId, "query")
            /\ misreadBefore' = [misreadBefore EXCEPT ![p] = misread[p]]
    /\ UNCHANGED <<copyVars, setVars, view, out, geom, misread>>

AttachCalled(p, i) ==
    /\ kind[p] = "none" /\ pc[p] = "idle" /\ state[i] # "absent"
    /\ Call(p, "Attach", i, "query")
    /\ UNCHANGED <<copyVars, setVars, view, out, readVars>>

DeleteCalled(p, i) ==
    /\ kind[p] # "making" /\ pc[p] = "idle" /\ state[i] # "absent"
    /\ Call(p, "Delete", i, "delete")
    /\ UNCHANGED <<copyVars, setVars, view, out, readVars>>

\* newWorker, createBackupComponents, InitializeForBackup, SetContext or the
\* operation itself fails, or ctx is done.
CallFails(p) ==
    /\ pc[p] \in {"query", "next", "delete"} /\ ReturnError(p)
    /\ UNCHANGED <<copyVars, setVars, readVars>>

\* The enumerator holds what existed at the Query.
Query(p) ==
    /\ pc[p] = "query" /\ pc' = [pc EXCEPT ![p] = "next"]
    /\ view' = [view EXCEPT ![p] = {[id |-> i, dev |-> dev[i], state |-> state[i]] :
                                    i \in {j \in Ids : Exists(j)}}]
    /\ UNCHANGED <<copyVars, setVars, op, arg, out, result, readVars>>

\* One round of listSnapshots: a full batch, or the rest and S_FALSE.
ListNext(p) ==
    /\ pc[p] = "next"
    /\ IF Cardinality(out[p]) < MaxSnapshots
       THEN \E got \in SUBSET view[p] :
                /\ Cardinality(got) = IF Cardinality(view[p]) < Batch THEN Cardinality(view[p]) ELSE Batch
                /\ out' = [out EXCEPT ![p] = @ \cup got]
                /\ view' = [view EXCEPT ![p] = @ \ got]
                /\ pc' = [pc EXCEPT ![p] = IF Cardinality(got) < Batch THEN "listed" ELSE "next"]
       ELSE pc' = [pc EXCEPT ![p] = "listed"] /\ UNCHANGED <<view, out>>
    /\ UNCHANGED <<copyVars, setVars, op, arg, result, readVars>>

\* Mutant: Verify looks for the device name instead of the ID.
VerifyByName(p) ==
    /\ pc[p] = "listed" /\ op[p] = "Verify"
    /\ IF \A s \in snaps[p] : \E e \in out[p] : e.dev = s.dev /\ e.state = "created"
       THEN Return(p, "ok") ELSE ReturnError(p)
    /\ UNCHANGED <<copyVars, setVars, readVars>>

VerifyReturns(p) ==
    /\ pc[p] = "listed" /\ op[p] = "Verify"
    /\ IF \A s \in snaps[p] : \E e \in out[p] : e.id = s.id /\ e.state = "created"
       THEN Return(p, "ok") ELSE ReturnError(p)
    /\ UNCHANGED <<copyVars, setVars, readVars>>

\* Mutant: Attach takes a copy in any state.
AttachAnyState(p) ==
    /\ pc[p] = "listed" /\ op[p] = "Attach"
    /\ LET hits == {e \in out[p] : e.id = arg[p]}
       IN  IF hits = {}
           THEN Return(p, "notFound") /\ UNCHANGED setVars
           ELSE /\ Return(p, "ok")
                /\ kind' = [kind EXCEPT ![p] = "attached"] /\ closed' = [closed EXCEPT ![p] = FALSE]
                /\ snaps' = [snaps EXCEPT ![p] = {[id |-> e.id, dev |-> e.dev] : e \in hits}]
    /\ UNCHANGED <<copyVars, readVars>>

\* A copy that is not listed, or not in the created state, is not found.
AttachReturns(p) ==
    /\ pc[p] = "listed" /\ op[p] = "Attach"
    /\ LET hits == {e \in out[p] : e.id = arg[p] /\ e.state = "created"}
       IN  IF hits = {}
           THEN Return(p, "notFound") /\ UNCHANGED setVars
           ELSE /\ Return(p, "ok")
                /\ kind' = [kind EXCEPT ![p] = "attached"] /\ closed' = [closed EXCEPT ![p] = FALSE]
                /\ snaps' = [snaps EXCEPT ![p] = {[id |-> e.id, dev |-> e.dev] : e \in hits}]
    /\ UNCHANGED <<copyVars, readVars>>

\* Mutant: S_OK is taken for a deletion, whatever the number deleted.
DeleteUncounted(p) ==
    /\ pc[p] = "delete"
    /\ \/ state[arg[p]] = "created" /\ Return(p, "ok") /\ state' = [state EXCEPT ![arg[p]] = "gone"]
       \/ ~Exists(arg[p]) /\ Return(p, "notFound") /\ UNCHANGED state
       \/ Exists(arg[p]) /\ Return(p, "ok") /\ UNCHANGED state
    /\ UNCHANGED <<dev, keep, maker, setVars, readVars>>

\* deleteSnapshotByID: VSS deletes the copy, does not know it, or succeeds
\* without having deleted it, which is an error here.
DeleteReturns(p) ==
    /\ pc[p] = "delete"
    /\ \/ state[arg[p]] = "created" /\ Return(p, "ok") /\ state' = [state EXCEPT ![arg[p]] = "gone"]
       \/ ~Exists(arg[p]) /\ Return(p, "notFound") /\ UNCHANGED state
       \/ Exists(arg[p]) /\ ReturnError(p) /\ UNCHANGED state
    /\ UNCHANGED <<dev, keep, maker, setVars, readVars>>

-----------------------------------------------------------------------------
Next ==
    \/ \E i \in Ids : Evict(i)
    \/ \E p \in Procs :
        \/ \E S \in SUBSET Ids, persistent \in BOOLEAN : CreateSet(p, S, persistent)
        \/ CreateSetReturns(p) \/ CreateSetFails(p) \/ CreateSetLeaves(p)
        \/ Close(p) \/ Drop(p) \/ Die(p)
        \/ Read(p) \/ VolumeGeometry(p) \/ VerifyCalled(p)
        \/ \E i \in Ids : AttachCalled(p, i) \/ DeleteCalled(p, i)
        \/ CallFails(p) \/ Query(p) \/ ListNext(p)
        \/ VerifyReturns(p) \/ AttachReturns(p) \/ DeleteReturns(p)

Spec == Init /\ [][Next]_vars

-----------------------------------------------------------------------------
(* Properties. *)

\* What a successful Verify is good for: everything read before the call, from
\* the device or from geomCache, was read from the copy it was asked of, though
\* copies are evicted, deleted by other processes and their names recycled.
VerifyVouches ==
    \A p \in Procs : op[p] = "Verify" /\ result[p] = "ok" => ~misreadBefore[p]

\* A persistent copy that was created goes by Delete or by eviction, never in a
\* step that closes a set or ends a process, be it the maker's or another.
PersistentOutlivesSessions ==
    [][\A i \in Ids : keep[i] /\ state[i] = "created" /\ state'[i] # "created"
                      => UNCHANGED setVars]_vars

\* After Delete returned nil or ErrSnapshotNotFound the copy is gone for good,
\* whoever deleted it.
DeleteMeansGone ==
    \A p \in Procs : op[p] = "Delete" /\ result[p] \in {"ok", "notFound"} => ~Exists(arg[p])
=============================================================================
