----------------------------- MODULE SetHandles -----------------------------
(***************************************************************************)
(* How createSet puts a Snapshot together: five loops over the volumes     *)
(* asked for, whose results are matched by index alone, while the volumes  *)
(* go on being written to.  Waiting, writers and the error path are in     *)
(* VssSession; here an error ends the session.                             *)
(***************************************************************************)
EXTENDS Integers, Sequences, FiniteSets

CONSTANTS
    Paths,          \* what a caller may name: drive roots, mount points, directories
    Volumes,
    VolumeAt,       \* the volume that resolveVolume finds for each path
    NoVolume,       \* the volume of a snapshot ID that VSS has not given yet
    Ids,            \* snapshot IDs
    MaxVolumes,     \* bound: paths of one set (64 in the code)
    MaxUsn          \* bound: how far a journal grows

ASSUME HandlesAssumption ==
    /\ VolumeAt \in [Paths -> Volumes] /\ NoVolume \notin Volumes
    /\ MaxVolumes \in Nat /\ MaxUsn \in Nat /\ IsFiniteSet(Ids) /\ MaxVolumes <= Cardinality(Ids)

VARIABLES
    volumePaths,    \* the caller's volumes, in his order: paths
    pc, i,          \* the loop createSet is in, and its index
    resolved,       \* a sequence of volumes, one for each path
    snapIDs,        \* the IDs that AddToSnapshotSet returned, a sequence
    usnCursors,     \* the captured cursors, a sequence: volume and next position
    snaps,          \* set.snaps: a sequence of path, ID and cursor
    copyOf,         \* VSS: of which volume the snapshot with an ID is
    usn,            \* the live journals: next position of each volume's
    frozen          \* the same at the moment of the snapshot

libVars == <<volumePaths, pc, i, resolved, snapIDs, usnCursors, snaps>>
vars == <<libVars, copyOf, usn, frozen>>

NoCursor == [volume |-> NoVolume, next |-> 0]

Init ==
    /\ volumePaths \in UNION {[1..n -> Paths] : n \in 1..MaxVolumes}
    /\ pc = "resolve" /\ i = 1 /\ resolved = <<>> /\ snapIDs = <<>>
    /\ usnCursors = <<>> /\ snaps = <<>>
    /\ copyOf = [id \in Ids |-> NoVolume]
    /\ usn = [v \in Volumes |-> 0] /\ frozen = [v \in Volumes |-> 0]

-----------------------------------------------------------------------------
\* An application writes to a volume, which its journal records.
Write(v) ==
    /\ usn[v] < MaxUsn /\ usn' = [usn EXCEPT ![v] = @ + 1]
    /\ UNCHANGED <<libVars, copyOf, frozen>>

Fail == pc' = "failed" /\ UNCHANGED i

\* A loop is over: the next one starts at its first index.
StartLoop(name) == pc' = name /\ i' = 1

\* resolveVolume and IsVolumeSupported; any failure is final.
ResolveVolume ==
    /\ pc = "resolve"
    /\ \/ i > Len(volumePaths) /\ StartLoop("add") /\ UNCHANGED resolved
       \/ i <= Len(volumePaths) /\ Fail /\ UNCHANGED resolved
       \/ /\ i <= Len(volumePaths)
          /\ resolved' = Append(resolved, VolumeAt[volumePaths[i]])
          /\ i' = i + 1 /\ UNCHANGED pc
    /\ UNCHANGED <<volumePaths, snapIDs, usnCursors, snaps, copyOf, usn, frozen>>

\* VSS gives a new ID to the copy of a volume.
VssAdds(v) ==
    \E id \in {j \in Ids : copyOf[j] = NoVolume} :
        copyOf' = [copyOf EXCEPT ![id] = v] /\ snapIDs' = Append(snapIDs, id)

\* Mutant: a volume that cannot be added is left out.
AddOrSkip ==
    /\ pc = "add"
    /\ \/ /\ i > Len(resolved) /\ StartLoop("capture") /\ UNCHANGED <<snapIDs, copyOf>>
          /\ usnCursors' = [k \in 1..Len(resolved) |-> NoCursor]
       \/ /\ i <= Len(resolved) /\ i' = i + 1
          /\ VssAdds(resolved[i]) \/ UNCHANGED <<snapIDs, copyOf>>
          /\ UNCHANGED <<pc, usnCursors>>
    /\ UNCHANGED <<volumePaths, resolved, snaps, usn, frozen>>

\* AddToSnapshotSet for every volume; then the cursors' slice is made.
AddToSnapshotSet ==
    /\ pc = "add"
    /\ \/ /\ i > Len(resolved) /\ StartLoop("capture") /\ UNCHANGED <<snapIDs, copyOf>>
          /\ usnCursors' = [k \in 1..Len(resolved) |-> NoCursor]
       \/ i <= Len(resolved) /\ Fail /\ UNCHANGED <<snapIDs, copyOf, usnCursors>>
       \/ /\ i <= Len(resolved) /\ i' = i + 1
          /\ VssAdds(resolved[i]) /\ UNCHANGED <<pc, usnCursors>>
    /\ UNCHANGED <<volumePaths, resolved, snaps, usn, frozen>>

CursorsOf(v) == {NoCursor, [volume |-> v, next |-> usn[v]]}

\* captureLiveUSNCursor of one volume after the other, none on any failure.
CaptureCursor ==
    /\ pc = "capture"
    /\ \/ i > Len(resolved) /\ StartLoop("DoSnapshotSet") /\ UNCHANGED usnCursors
       \/ /\ i <= Len(resolved) /\ i' = i + 1 /\ UNCHANGED pc
          /\ \E c \in CursorsOf(resolved[i]) : usnCursors' = [usnCursors EXCEPT ![i] = c]
    /\ UNCHANGED <<volumePaths, resolved, snapIDs, snaps, copyOf, usn, frozen>>

\* All volumes of the set are frozen at one moment.
DoSnapshotSet ==
    /\ pc = "DoSnapshotSet"
    /\ \/ Fail /\ UNCHANGED frozen
       \/ StartLoop("properties") /\ frozen' = usn
    /\ UNCHANGED <<volumePaths, resolved, snapIDs, usnCursors, snaps, copyOf, usn>>

\* GetSnapshotProperties by ID; path and cursor come by the ID's index.
GetSnapshotProperties ==
    /\ pc = "properties"
    /\ \/ i > Len(snapIDs) /\ pc' = "open" /\ UNCHANGED <<i, snaps>>
       \/ i <= Len(snapIDs) /\ Fail /\ UNCHANGED snaps
       \/ /\ i <= Len(snapIDs) /\ i' = i + 1 /\ UNCHANGED pc
          /\ snaps' = Append(snaps, [path |-> volumePaths[i], id |-> snapIDs[i],
                                     cursor |-> usnCursors[i]])
    /\ UNCHANGED <<volumePaths, resolved, snapIDs, usnCursors, copyOf, usn, frozen>>

-----------------------------------------------------------------------------
Next ==
    \/ \E v \in Volumes : Write(v)
    \/ ResolveVolume \/ AddToSnapshotSet \/ CaptureCursor \/ DoSnapshotSet \/ GetSnapshotProperties

Spec == Init /\ [][Next]_vars

-----------------------------------------------------------------------------
\* A set that is returned has a snapshot of its own for every path asked for, in
\* the caller's order; each is the copy of the volume its path lies on, and the
\* cursor it brings is of that volume's journal, at or before the freeze: a walk
\* by path and an incremental by cursor go to the right copy.
SnapshotsMatch ==
    pc = "open" =>
        /\ Len(snaps) = Len(volumePaths)
        /\ \A k \in 1..Len(snaps) :
            LET s == snaps[k] IN
            /\ s.path = volumePaths[k] /\ copyOf[s.id] = VolumeAt[s.path]
            /\ s.cursor # NoCursor =>
                   s.cursor.volume = copyOf[s.id] /\ s.cursor.next <= frozen[copyOf[s.id]]
            /\ \A l \in 1..Len(snaps) : snaps[l].id = s.id => l = k
=============================================================================
