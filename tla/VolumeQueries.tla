--------------------------- MODULE VolumeQueries ---------------------------
(***************************************************************************)
(* The questions put to a volume while it, or the list of shadow copies,   *)
(* changes: the byte extents of a file, page after page, in a snapshot or  *)
(* on the live volume (FileExtents), with the cluster size from a cache    *)
(* that lives as long as the process (VolumeGeometry); the disks under a   *)
(* volume, with a buffer that grows (DiskExtents); and the list of the     *)
(* volumes (EnumerateVolumes).  One goroutine asks, one question after     *)
(* another.                                                                *)
(***************************************************************************)
EXTENDS Integers, Sequences, FiniteSets, SequencesExt

CONSTANTS
    Copies,         \* shadow copies; they take turns at one device name
    Device,         \* that device object, and the key of a handle without an ID
    Live,           \* the live volume, and its name
    Sizes,          \* cluster sizes, in bytes
    Layouts,        \* of the file asked about: cluster by cluster its LCN, or Hole
    PageSize,       \* maxExtents of one reply
    MaxExtents,     \* bound: the extents there may be after a reply to an earlier question
    FirstRoom,      \* the extents DiskExtents has room for at first
    MaxDisks,       \* bound: disk extents of the live volume
    maxVolumes,     \* of EnumerateVolumes
    Listed          \* lists of volumes FindFirstVolume and FindNextVolume go through

Hole    == -1
None    == "none"
Volumes == Copies \cup {Live}

ASSUME QueryAssumption ==
    /\ {Device, None} \cap Volumes = {} /\ Device # None /\ Live \notin Copies
    /\ Sizes \subseteq Nat \ {0} /\ PageSize \in Nat \ {0} /\ maxVolumes \in Nat \ {0}
    /\ MaxExtents \in Nat /\ FirstRoom \in Nat /\ MaxDisks \in Nat
    /\ \A layout \in Layouts : layout \in Seq(Nat \cup {Hole})
    /\ << >> \in Listed /\ \A l \in Listed : l \in Seq(Range(l)) /\ \A m \in DOMAIN l : l[m].guid \in BOOLEAN

VARIABLES
    holder,         \* the copy behind the device name; a deleted one never returns
    gone,           \* the copies deleted
    size, file,     \* of each volume: its cluster size, the layout of the file
    disks,          \* the number of disk extents of the live volume
    listed,         \* the volumes of the system
    cache,          \* geomCache
    query,          \* the call, of which volume, and whether the handle has an ID
    pc,
    cs, opened,     \* the cluster size in use; the volume the open file is on
    vcn, out,       \* in.VCN and the extents so far
    again,          \* flips with every reply that has the code ask again: asking is a step
    astray,         \* the call has accepted a reply to something else than it asked
    room, answer,   \* the buffer of DiskExtents and its answer
    found,          \* the volumes found, with their mount points
    next            \* the place in the list

diskVars  == <<holder, gone, size, file, disks, listed>>
fileVars  == <<cs, opened, vcn, out>>
otherVars == <<room, answer, found, next>>
replyVars == <<again, astray>>
vars == <<diskVars, cache, query, pc, fileVars, replyVars, otherVars>>

Keys    == Volumes \cup {Device}
Calls   == {"Snapshot.FileExtents", "Volume.FileExtents", "DiskExtents", "EnumerateVolumes"}

TypeOK ==
    /\ holder \in Copies \cup {None} /\ gone \subseteq Copies /\ holder \notin gone
    /\ size \in [Volumes -> Sizes] /\ file \in [Volumes -> Layouts] /\ disks \in 0..MaxDisks /\ listed \in Listed
    /\ DOMAIN cache \subseteq Keys /\ Range(cache) \subseteq Sizes
    /\ query \in [call : Calls, volume : Volumes, id : BOOLEAN]
    /\ pc \in {"idle", "load", "query", "open", "page", "ioctl", "find", "returned", "failed"}
    /\ cs \in Sizes \cup {0} /\ opened \in Volumes \cup {None} /\ vcn \in Nat
    /\ again \in BOOLEAN /\ astray \in BOOLEAN
    /\ \A n \in DOMAIN out : out[n].FileOffset \in Nat /\ out[n].VolumeOffset \in Nat /\ out[n].Length > 0
    /\ room \in {FirstRoom} \cup 0..MaxDisks /\ answer \in 0..room
    /\ Len(found) <= maxVolumes /\ next \in 1..(Len(listed) + 1)

\* A behaviour asks one of the questions, as often as it likes; what that call
\* does not look at is left out of it.
Init ==
    /\ query \in [call : Calls, volume : {Live}, id : {TRUE}] /\ pc = "idle"
    /\ IF query.call = "Snapshot.FileExtents"
       THEN /\ holder \in Copies \cup {None} /\ size \in [Volumes -> Sizes] /\ file \in [Volumes -> Layouts]
            /\ \E c \in Copies : size[Live] = size[c] /\ file[Live] = file[c]
       ELSE holder = None /\ \E s \in Sizes, layout \in Layouts :
                size = [v \in Volumes |-> s] /\ file = [v \in Volumes |-> layout]
    /\ gone = {} /\ cache = << >>
    /\ disks \in IF query.call = "DiskExtents" THEN 0..MaxDisks ELSE {0}
    /\ listed \in IF query.call = "EnumerateVolumes" THEN Listed ELSE {<< >>}
    /\ cs = 0 /\ opened = None /\ vcn = 0 /\ out = << >> /\ again = FALSE /\ astray = FALSE
    /\ room = FirstRoom /\ answer = 0 /\ found = << >> /\ next = 1

-----------------------------------------------------------------------------
(* What goes on in the system meanwhile. *)

\* Windows hands the device name of a deleted copy out again.
CopyDeleted ==
    /\ holder # None
    /\ holder' = None /\ gone' = gone \cup {holder}
    /\ UNCHANGED <<size, file, disks, listed, cache, query, pc, fileVars, replyVars, otherVars>>

CopyCreated ==
    /\ query.call = "Snapshot.FileExtents" /\ holder = None /\ holder' \in Copies \ gone
    /\ UNCHANGED <<gone, size, file, disks, listed, cache, query, pc, fileVars, replyVars, otherVars>>

\* The file grows, shrinks, is rewritten elsewhere or defragmented.
LiveFileChanges ==
    /\ query.call = "Volume.FileExtents"
    /\ \E layout \in Layouts : file' = [file EXCEPT ![Live] = layout]
    /\ UNCHANGED <<holder, gone, size, disks, listed, cache, query, pc, fileVars, replyVars, otherVars>>

DisksChange ==
    /\ query.call = "DiskExtents"
    /\ disks' \in 0..MaxDisks
    /\ UNCHANGED <<holder, gone, size, file, listed, cache, query, pc, fileVars, replyVars, otherVars>>

-----------------------------------------------------------------------------
(* The calls. *)

\* Every error path returns no extents.
Fail ==
    /\ pc' = "failed" /\ cs' = 0 /\ opened' = None /\ vcn' = 0 /\ out' = << >> /\ again' = FALSE /\ astray' = FALSE
    /\ UNCHANGED <<diskVars, cache, query, otherVars>>

\* A Snapshot of List or CreateSet has an ID, one put together by hand need
\* not; its handle is good when the call begins.
AskFileExtents ==
    /\ pc \in {"idle", "returned", "failed"}
    /\ \/ /\ query.call = "Snapshot.FileExtents" /\ holder # None
          /\ \E id \in BOOLEAN : query' = [query EXCEPT !.volume = holder, !.id = id]
       \/ query.call = "Volume.FileExtents" /\ UNCHANGED query
    /\ pc' = "load"
    /\ cs' = 0 /\ opened' = None /\ vcn' = 0 /\ out' = << >> /\ again' = FALSE /\ astray' = FALSE
    /\ UNCHANGED <<diskVars, cache, otherVars>>

\* Mutant: a snapshot's geometry is cached under its device name.
DeviceKey(q) == IF q.volume = Live THEN Live ELSE Device

cacheKey(q) == IF q.volume = Live \/ q.id THEN q.volume ELSE Device

CacheHit ==
    /\ pc = "load" /\ cacheKey(query) \in DOMAIN cache
    /\ cs' = cache[cacheKey(query)]
    /\ pc' = "open"
    /\ UNCHANGED <<diskVars, cache, query, opened, vcn, out, replyVars, otherVars>>

CacheMiss ==
    /\ pc = "load" /\ cacheKey(query) \notin DOMAIN cache
    /\ pc' = "query"
    /\ UNCHANGED <<diskVars, cache, query, fileVars, replyVars, otherVars>>

\* The volume behind the path a handle opens.
Behind == IF query.volume = Live THEN Live ELSE holder

\* volumeGeometryFromHandle, and what cachedVolumeGeometry stores of it.
QueryGeometry ==
    /\ pc = "query" /\ Behind # None
    /\ cs' = size[Behind]
    /\ cache' = [k \in DOMAIN cache \cup {cacheKey(query)} |->
                    IF k = cacheKey(query) THEN size[Behind] ELSE cache[k]]
    /\ pc' = "open"
    /\ UNCHANGED <<diskVars, query, opened, vcn, out, replyVars, otherVars>>

\* No device, no NTFS, or a geometry of zeros.
GeometryFails ==
    /\ pc = "query" /\ Fail

OpenFile ==
    /\ pc = "open" /\ Behind # None
    /\ opened' = Behind /\ vcn' = 0
    /\ pc' = "page"
    /\ UNCHANGED <<diskVars, cache, query, cs, out, replyVars, otherVars>>

OpenFails ==
    /\ pc = "open" /\ Fail

-----------------------------------------------------------------------------
(* FSCTL_GET_RETRIEVAL_POINTERS and fileExtentsUnder. *)

\* Cluster v ends a run: the next one is elsewhere, or there is none.
EndsRun(layout, v) ==
    v = Len(layout) \/ ~(\/ layout[v] = Hole /\ layout[v + 1] = Hole
                         \/ layout[v] # Hole /\ layout[v + 1] = layout[v] + 1)

\* The VCNs at which the runs of a file end, in order, from VCN v on: as many
\* as one reply holds.
Ends(layout, v) ==
    {ends \in UNION {[1..k -> (v + 1)..Len(layout)] : k \in 1..PageSize} :
        /\ \A n \in DOMAIN ends :
              LET before == IF n = 1 THEN v ELSE ends[n - 1]
              IN  /\ before < ends[n] /\ EndsRun(layout, ends[n])
                  /\ \A m \in (before + 1)..(ends[n] - 1) : ~EndsRun(layout, m)
        /\ Len(ends) = PageSize \/ Last(ends) = Len(layout)}

\* A reply begins with the run that VCN v is in, where the run begins or at v.
Starts(layout, v) ==
    {v} \cup {s \in 0..v : (s = 0 \/ EndsRun(layout, s)) /\ \A n \in (s + 1)..v : ~EndsRun(layout, n)}

\* Runs count clusters: [prevVCN, NextVCN) of the file are at LCN.
RunsOf(layout, start, ends) ==
    [n \in DOMAIN ends |->
        [NextVCN |-> ends[n],
         LCN |-> layout[(IF n = 1 THEN start ELSE ends[n - 1]) + 1]]]

\* The right replies to the question for VCN v.
RightReplies(layout, v) ==
    {[more |-> Last(ends) # Len(layout), start |-> s, runs |-> RunsOf(layout, s, ends)] :
        s \in Starts(layout, v), ends \in Ends(layout, v)}

\* The replies to the question itself: the right ones, and the malformed ones
\* the code refuses, without a run or with a run that does not move on.
Replies(layout, v) ==
    RightReplies(layout, v) \cup
    {[more |-> TRUE, start |-> v, runs |-> << >>],
     [more |-> FALSE, start |-> v, runs |-> <<[NextVCN |-> v, LCN |-> 0]>>]}

\* Replies that are right for an earlier question and end where v is, or before.
\* The code holds the runs of a reply against its own start, never against v.
StaleReplies(layout, v) ==
    {reply \in UNION {RightReplies(layout, u) : u \in 0..(v - 1)} : Last(reply.runs).NextVCN <= v}

PrevVCN(start, runs, n) == IF n = 1 THEN start ELSE runs[n - 1].NextVCN

Monotonic(start, runs) == \A n \in DOMAIN runs : runs[n].NextVCN > PrevVCN(start, runs, n)

ExtentOf(start, runs, n, clusterSize) ==
    [FileOffset   |-> PrevVCN(start, runs, n) * clusterSize,
     VolumeOffset |-> runs[n].LCN * clusterSize,
     Length       |-> (runs[n].NextVCN - PrevVCN(start, runs, n)) * clusterSize]

\* The loop of appendRuns over monotonic runs, which leaves the holes out.
appendRuns(extents, start, runs, clusterSize) ==
    LET upTo[n \in 0..Len(runs)] ==
            IF n = 0 THEN extents
            ELSE IF runs[n].LCN >= 0
                 THEN Append(upTo[n - 1], ExtentOf(start, runs, n, clusterSize)) ELSE upTo[n - 1]
    IN  upTo[Len(runs)]

Readable == opened \in {Live, holder}       \* the copy it was opened on is still there

\* ERROR_HANDLE_EOF: there is nothing at VCN, or nothing any more.
EndOfFile ==
    /\ pc = "page" /\ Readable /\ vcn >= Len(file[opened])
    /\ pc' = "returned"
    /\ UNCHANGED <<diskVars, cache, query, fileVars, replyVars, otherVars>>

\* No forward progress, or errNonMonotonicVCN.
RefusePage ==
    /\ pc = "page" /\ Readable /\ vcn < Len(file[opened])
    /\ \E reply \in Replies(file[opened], vcn) :
          (reply.more /\ reply.runs = << >>) \/ ~Monotonic(reply.start, reply.runs)
    /\ Fail

\* What an accepted reply says is taken over, from VCN start on: that is all, or
\* with ERROR_MORE_DATA the code asks again from the last NextVCN.
TakeFrom(start, reply) ==
    /\ out' = appendRuns(out, start, reply.runs, cs)
    /\ IF reply.more
       THEN vcn' = PrevVCN(start, reply.runs, Len(reply.runs) + 1) /\ again' = ~again /\ UNCHANGED pc
       ELSE pc' = "returned" /\ UNCHANGED <<vcn, again>>
    /\ UNCHANGED <<diskVars, cache, query, cs, opened, otherVars>>

\* Mutant: runs that do not move on are appended.
PageUnchecked ==
    /\ pc = "page" /\ Readable /\ vcn < Len(file[opened])
    /\ \E reply \in Replies(file[opened], vcn) : reply.runs # << >> /\ TakeFrom(reply.start, reply)
    /\ UNCHANGED astray

\* Mutant: a reply without a run is an answer like any other.
PageWithoutRuns ==
    /\ pc = "page" /\ Readable /\ vcn < Len(file[opened])
    /\ \E reply \in Replies(file[opened], vcn) : Monotonic(reply.start, reply.runs) /\ TakeFrom(reply.start, reply)
    /\ UNCHANGED astray

\* Mutant: runs are taken to start where they were asked for.
PageAtRequest ==
    /\ pc = "page" /\ Readable /\ vcn < Len(file[opened])
    /\ \E reply \in Replies(file[opened], vcn) :
          reply.runs # << >> /\ Monotonic(vcn, reply.runs) /\ TakeFrom(vcn, reply)
    /\ UNCHANGED astray

Page ==
    /\ pc = "page" /\ Readable /\ vcn < Len(file[opened])
    /\ \E reply \in Replies(file[opened], vcn) :
          reply.runs # << >> /\ Monotonic(reply.start, reply.runs) /\ TakeFrom(reply.start, reply)
    /\ UNCHANGED astray

\* A reply to an earlier question passes the same checks, and the call goes back
\* to where its runs end.
StalePage ==
    /\ pc = "page" /\ Readable /\ vcn < Len(file[opened])
    /\ \E reply \in StaleReplies(file[opened], vcn) : TakeFrom(reply.start, reply)
    /\ Len(out') <= MaxExtents
    /\ astray' = TRUE

\* So does a reply of success without a run, which ends the call.
EmptyPage ==
    /\ pc = "page" /\ Readable /\ vcn < Len(file[opened])
    /\ pc' = "returned" /\ astray' = TRUE
    /\ UNCHANGED <<diskVars, cache, query, fileVars, again, otherVars>>

\* Any other error of the control code, the loss of the volume among them.
PageFails ==
    /\ pc = "page" /\ Fail

-----------------------------------------------------------------------------
(* DiskExtents and EnumerateVolumes. *)

AskDiskExtents ==
    /\ query.call = "DiskExtents" /\ pc \in {"idle", "returned", "failed"}
    /\ room' = FirstRoom /\ answer' = 0 /\ pc' = "ioctl"
    /\ UNCHANGED <<diskVars, cache, query, fileVars, replyVars, found, next>>

DisksFit ==
    /\ pc = "ioctl" /\ disks <= room
    /\ answer' = disks /\ pc' = "returned"
    /\ UNCHANGED <<diskVars, cache, query, fileVars, replyVars, room, found, next>>

\* Mutant: the count of the reply is taken as it is.
MoreDisksUnchecked ==
    /\ pc = "ioctl" /\ \E count \in 0..MaxDisks : room' = count
    /\ UNCHANGED <<diskVars, cache, query, pc, fileVars, replyVars, answer, found, next>>

\* ERROR_MORE_DATA or ERROR_INSUFFICIENT_BUFFER with a count that is more than
\* there was room for; it need not be the count at the next attempt.
MoreDisks ==
    /\ pc = "ioctl" /\ \E count \in 0..MaxDisks : count > room /\ room' = count
    /\ UNCHANGED <<diskVars, cache, query, pc, fileVars, replyVars, answer, found, next>>

\* Another error, a malformed reply, or a count that there was room for.
DiskExtentsFails ==
    /\ pc = "ioctl" /\ Fail

AskEnumerate ==
    /\ query.call = "EnumerateVolumes" /\ pc \in {"idle", "returned", "failed"}
    /\ found' = << >> /\ next' = 1
    /\ pc' = IF listed = << >> THEN "failed" ELSE "find"
    /\ UNCHANGED <<diskVars, cache, query, fileVars, replyVars, room, answer>>

\* Mutant: a name of another form ends the list.
FindVolumeStops ==
    /\ pc = "find" /\ next <= Len(listed)
    /\ found' = IF listed[next].guid THEN Append(found, listed[next]) ELSE found
    /\ next' = next + 1
    /\ pc' = IF next = Len(listed) \/ ~listed[next].guid THEN "returned" ELSE "find"
    /\ UNCHANGED <<diskVars, cache, query, fileVars, replyVars, room, answer>>

\* The body of the loop: a volume is kept with its first mount point, or with
\* none if it has none or GetVolumePathNamesForVolumeName fails; then the next.
FindVolume ==
    /\ pc = "find" /\ next <= Len(listed)
    /\ \E mount \in {listed[next].mount, ""} :
          found' = IF listed[next].guid
                   THEN Append(found, [name |-> listed[next].name, mount |-> mount]) ELSE found
    /\ next' = next + 1
    /\ pc' = IF next = Len(listed) \/ Len(found') = maxVolumes THEN "returned" ELSE "find"
    /\ UNCHANGED <<diskVars, cache, query, fileVars, replyVars, room, answer>>

FindVolumeFails ==
    /\ pc = "find" /\ Fail

-----------------------------------------------------------------------------

System ==
    \/ CopyDeleted \/ CopyCreated \/ LiveFileChanges \/ DisksChange

Step ==
    \/ CacheHit \/ CacheMiss \/ QueryGeometry \/ GeometryFails \/ OpenFile \/ OpenFails
    \/ EndOfFile \/ RefusePage \/ Page \/ StalePage \/ EmptyPage \/ PageFails
    \/ DisksFit \/ MoreDisks \/ DiskExtentsFails \/ FindVolume \/ FindVolumeFails

Next == System \/ Step \/ AskFileExtents \/ AskDiskExtents \/ AskEnumerate

Spec     == Init /\ [][Next]_vars
FairSpec == Spec /\ WF_vars(Step)       \* the goroutine runs, and its calls of the system return

-----------------------------------------------------------------------------
(* Properties. *)

\* The extents `es` say where the clusters of the layout are, all that say
\* something about these clusters, in clusters of s bytes.
TrueOf(es, layout, s) ==
    \A n \in DOMAIN es :
        LET first == es[n].FileOffset \div s
            count == es[n].Length \div s
        IN  /\ es[n].FileOffset = first * s /\ es[n].Length = count * s
            /\ first + count <= Len(layout)
            /\ \A c \in 0..(count - 1) :
                  layout[first + c + 1] # Hole /\ es[n].VolumeOffset + c * s = layout[first + c + 1] * s

Covered(es, s, v) == \E n \in DOMAIN es :
    es[n].FileOffset <= v * s /\ v * s < es[n].FileOffset + es[n].Length

\* What FileExtents answers of a snapshot that is still there is all of the
\* file, nothing but the file, in ascending order and in the bytes of its own
\* volume, however many replies it took and whatever became of the device name
\* before (Snapshot.FileExtents, geomCache).  That takes a file system that
\* answers what it is asked: the code lets stale and empty replies pass.
ExactExtents ==
    (pc = "returned" /\ query.call = "Snapshot.FileExtents" /\ query.id /\ query.volume = holder /\ ~astray) =>
        LET layout == file[holder]
        IN  /\ TrueOf(out, layout, size[holder])
            /\ \A v \in 0..(Len(layout) - 1) : layout[v + 1] # Hole => Covered(out, size[holder], v)
            /\ \A n \in 1..(Len(out) - 1) : out[n].FileOffset + out[n].Length <= out[n + 1].FileOffset

\* No extent is made up: each one a page adds is of the file as it is at that
\* moment, also when a live file has been moved or defragmented since the last
\* page and the reply starts before the cluster asked for, or is stale
\* (fileExtentsUnder).
ExtentsOfTheMoment ==
    [][out' # out /\ out' # << >> /\ query.volume = Live =>
          TrueOf(SubSeq(out', Len(out) + 1, Len(out')), file[Live], size[Live])]_vars

WithGuid == {m \in DOMAIN listed : listed[m].guid}

\* As long as there are no more than maxVolumes, every volume of the system is
\* listed, once and in the order of the system (EnumerateVolumes).
EnumeratesAll ==
    (pc = "returned" /\ query.call = "EnumerateVolumes" /\ Cardinality(WithGuid) <= maxVolumes) =>
        \E at \in [DOMAIN found -> WithGuid] :
            /\ \A n \in DOMAIN found : found[n].name = listed[at[n]].name
            /\ \A n, o \in DOMAIN found : n < o => at[n] < at[o]
            /\ \A m \in WithGuid : \E n \in DOMAIN found : at[n] = m

\* Every call comes to an end, however often the disks and the file change
\* meanwhile: DiskExtents asks again only for more than it had room for,
\* whatever count it is told, and FileExtents takes no reply that has neither a
\* run nor an end.  It leaves one way to go on for ever: a file system that
\* answers with runs of before the cluster asked for again and again, which
\* nothing in the loop holds against in.VCN.
CallsEnd ==
    \/ []<><<StalePage>>_vars
    \/ pc \notin {"idle", "returned", "failed"} ~> pc \in {"returned", "failed"}
=============================================================================
