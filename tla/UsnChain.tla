------------------------------ MODULE UsnChain ------------------------------
(***************************************************************************)
(* The incremental-backup chain of one NTFS volume: the live volume and    *)
(* its change journal, the snapshot that createSet takes, the journal read *)
(* of Snapshot.USNChangesSince, and the backup engine that keeps a         *)
(* manifest and a cursor between runs in the order the README prescribes.  *)
(*                                                                         *)
(* A file is its NTFS reference number, so a renamed or re-created path is *)
(* another file; a content is one of a few values or Absent.  A journal    *)
(* record is written together with the change it describes.                *)
(***************************************************************************)
EXTENDS Integers, FiniteSets

CONSTANTS
    Files,          \* NTFS file reference numbers
    Contents,       \* what a file may hold, Absent included
    Absent,         \* the file does not exist
    MaxUsn,         \* bound: the live journal accepts no record from here on
    MaxJournals,    \* bound: how many journals the volume has in its life
    ShadowPage,     \* shadow-mounted journals round NextUSN up to this
    MaxChanges      \* maxUSNChanges: distinct files a read may aggregate

ASSUME ContentsAssumption == Absent \in Contents
ASSUME BoundsAssumption ==
    MaxUsn \in Nat /\ MaxJournals \in Nat /\ ShadowPage \in Nat \ {0} /\ MaxChanges \in Nat

VARIABLES
    live,       \* content of every file on the live volume
    jid,        \* UsnJournalID of the live volume's newest journal
    active,     \* that journal exists
    first,      \* its FirstUsn: older records are purged
    nextUsn,    \* its NextUsn
    recs,       \* the records it holds
    pc,         \* where the backup is
    bound,      \* Snapshot.USNCursor, captured just before the freeze
    base,       \* history: the volume at the moment of that capture
    snap,       \* the volume frozen in the shadow copy
    shadow,     \* the cursor a query of the shadow copy's journal yields
    alive,      \* the shadow copy still exists
    start,      \* in.StartUsn of the next journal read
    agg,        \* keys of byID: files seen in the records below the bound
    found,      \* changes whose file opened in the snapshot
    gone,       \* changes with Deleted set
    failed,     \* history: of these, lookups that failed though the file was there
    result,     \* what USNChangesSince returned
    staged,     \* the manifest the engine is assembling
    manifest,   \* the engine's durable manifest
    dropped,    \* history: files that manifest lacks because their lookup failed
    cursor      \* the engine's durable cursor

journalVars == <<jid, active, first, nextUsn, recs>>
volumeVars  == <<live, journalVars>>
shotVars    == <<bound, base, snap, shadow>>
callVars    == <<start, agg, found, gone, failed>>
engineVars  == <<manifest, dropped, cursor>>
vars == <<volumeVars, pc, shotVars, alive, callVars, result, staged, engineVars>>

RecordAlign == 8    \* records start at multiples of 8 bytes

Zero    == [jid |-> 0, next |-> 0]
Cursors == [jid : Nat, next : Nat]
Records == [usn : Nat, file : Files]
Blank   == [f \in Files |-> Absent]

Phases  == {"idle", "captured", "frozen", "reading", "resolving", "walk",
            "staged", "verified", "committed"}
Results == {"none", "changes", "reset", "tooMany", "canceled", "error"}

TypeOK ==
    /\ live \in [Files -> Contents]
    /\ jid \in Nat \ {0} /\ active \in BOOLEAN
    /\ first \in Nat /\ nextUsn \in Nat /\ recs \subseteq Records
    /\ pc \in Phases /\ result \in Results
    /\ bound \in Cursors /\ shadow \in Cursors /\ cursor \in Cursors
    /\ base \in [Files -> Contents] /\ snap \in [Files -> Contents]
    /\ alive \in BOOLEAN /\ start \in Nat
    /\ agg \subseteq Files /\ found \subseteq Files /\ gone \subseteq Files
    /\ failed \subseteq Files /\ dropped \subseteq Files
    /\ staged \in [Files -> Contents] /\ manifest \in [Files -> Contents]

Init ==
    /\ live \in [Files -> Contents]
    /\ jid = 1 /\ active = TRUE /\ first = 0 /\ nextUsn = 0 /\ recs = {}
    /\ pc = "idle" /\ result = "none" /\ alive = TRUE
    /\ bound = Zero /\ shadow = Zero /\ base = Blank /\ snap = Blank
    /\ start = 0 /\ agg = {} /\ found = {} /\ gone = {} /\ failed = {}
    /\ staged = Blank /\ manifest = Blank /\ dropped = {} /\ cursor = Zero

-----------------------------------------------------------------------------
(* The live volume: applications and NTFS, at any time. *)

\* A change of a file's content, its creation and its deletion each append a
\* record while the journal is active.
Change(f) ==
    /\ \E c \in Contents \ {live[f]} : live' = [live EXCEPT ![f] = c]
    /\ IF active
       THEN /\ nextUsn < MaxUsn
            /\ recs' = recs \cup {[usn |-> nextUsn, file |-> f]}
            /\ nextUsn' = nextUsn + RecordAlign
       ELSE UNCHANGED <<recs, nextUsn>>
    /\ UNCHANGED <<jid, active, first, pc, shotVars, alive, callVars, result, staged, engineVars>>

\* The journal reaches its maximum size and purges its oldest records.
Wrap ==
    /\ active /\ recs # {}
    /\ \E u \in {r.usn + RecordAlign : r \in recs} :
        /\ first' = u
        /\ recs' = {r \in recs : r.usn >= u}
    /\ UNCHANGED <<live, jid, active, nextUsn, pc, shotVars, alive, callVars, result, staged, engineVars>>

\* The journal is deleted (fsutil usn deletejournal).
DeleteJournal ==
    /\ active
    /\ active' = FALSE /\ recs' = {}
    /\ UNCHANGED <<live, jid, first, nextUsn, pc, shotVars, alive, callVars, result, staged, engineVars>>

\* A new journal gets a new ID; its USNs start over or continue.
CreateJournal ==
    /\ ~active /\ jid < MaxJournals
    /\ active' = TRUE /\ jid' = jid + 1
    /\ \E u \in {0, nextUsn} : first' = u /\ nextUsn' = u
    /\ UNCHANGED <<live, recs, pc, shotVars, alive, callVars, result, staged, engineVars>>

\* Diff-area pressure: Windows silently deletes the shadow copy.
Evict ==
    /\ pc \notin {"idle", "captured"} /\ alive
    /\ alive' = FALSE
    /\ UNCHANGED <<volumeVars, pc, shotVars, callVars, result, staged, engineVars>>

-----------------------------------------------------------------------------
(* createSet, reduced to what the chain depends on. *)

\* Mutant: the cursor is the last record's position instead of the next one's.
CaptureLastRecord ==
    /\ pc = "idle"
    /\ pc' = "captured" /\ base' = live /\ result' = "none"
    /\ bound' = [jid |-> jid, next |-> nextUsn - RecordAlign]
    /\ UNCHANGED <<volumeVars, snap, shadow, alive, callVars, staged, engineVars>>

\* captureLiveUSNCursor: the journal's position, or the zero cursor on any
\* failure, an inactive journal being one.
captureLiveUSNCursor ==
    /\ pc = "idle"
    /\ pc' = "captured" /\ base' = live /\ result' = "none"
    /\ bound' \in {Zero} \cup (IF active THEN {[jid |-> jid, next |-> nextUsn]} ELSE {})
    /\ UNCHANGED <<volumeVars, snap, shadow, alive, callVars, staged, engineVars>>

RoundUp(n) == ((n + ShadowPage - 1) \div ShadowPage) * ShadowPage

\* Mutant: the snapshot's cursor is the one its own journal reports.
CursorOfShadow ==
    /\ pc = "captured"
    /\ pc' = "frozen" /\ snap' = live
    /\ shadow' = IF active THEN [jid |-> jid, next |-> RoundUp(nextUsn)] ELSE Zero
    /\ bound' = shadow'
    /\ UNCHANGED <<volumeVars, base, alive, callVars, result, staged, engineVars>>

\* DoSnapshotSet freezes the volume; writes may have come since the capture.
\* The journal of the mounted copy reports a NextUSN rounded up.
DoSnapshotSet ==
    /\ pc = "captured"
    /\ pc' = "frozen" /\ snap' = live
    /\ shadow' = IF active THEN [jid |-> jid, next |-> RoundUp(nextUsn)] ELSE Zero
    /\ UNCHANGED <<volumeVars, bound, base, alive, callVars, result, staged, engineVars>>

\* The session is over (Close, an error return, the end of the process): what
\* is left is what the engine made durable.
SessionEnds ==
    /\ pc' = "idle" /\ alive' = TRUE
    /\ bound' = Zero /\ shadow' = Zero /\ base' = Blank /\ snap' = Blank
    /\ start' = 0 /\ agg' = {} /\ found' = {} /\ gone' = {} /\ failed' = {}
    /\ staged' = Blank

-----------------------------------------------------------------------------
(* Snapshot.USNChangesSince(ctx, cursor). *)

\* Mutant: the journal IDs of cursor and bound are not compared.
CursorRejectedByPosition(c, b, liveID, firstUsn) ==
    \/ liveID # b.jid
    \/ c.next < firstUsn
    \/ c.next > b.next
    \/ c.next % RecordAlign # 0 \/ c.next < 0

\* The validation switch: reject, never repair.
CursorRejected(c, b, liveID, firstUsn) ==
    \/ c.jid # b.jid
    \/ liveID # b.jid
    \/ c.next < firstUsn
    \/ c.next > b.next
    \/ c.next % RecordAlign # 0 \/ c.next < 0

\* The call returns an error that asks for a full Walk.
ReturnReset(kind) ==
    /\ pc' = "walk" /\ result' = kind
    /\ start' = 0 /\ agg' = {} /\ found' = {} /\ gone' = {} /\ failed' = {}

\* The call returns an error of another kind; the engine gives up this run.
ReturnError(kind) ==
    /\ SessionEnds /\ result' = kind

\* From the entry of the call to the validated cursor: the zero bound, the
\* two volume handles, the query of the live journal, the switch.
BeginRead ==
    /\ pc = "frozen"
    /\ \/ /\ bound = Zero
          /\ ReturnReset("reset")
          /\ UNCHANGED <<shotVars, alive, staged>>
       \/ /\ bound # Zero /\ ~alive
          /\ ReturnError("error")
       \/ /\ bound # Zero /\ alive
          /\ ~active \/ CursorRejected(cursor, bound, jid, first)
          /\ ReturnReset("reset")
          /\ UNCHANGED <<shotVars, alive, staged>>
       \/ /\ bound # Zero /\ alive
          /\ active /\ ~CursorRejected(cursor, bound, jid, first)
          /\ pc' = "reading" /\ start' = cursor.next
          /\ UNCHANGED <<agg, found, gone, failed, result, shotVars, alive, staged>>
    /\ UNCHANGED <<volumeVars, engineVars>>

JournalServes == active /\ jid = bound.jid    \* the request's UsnJournalID still matches

\* The nextStart NTFS may answer with: past at least one record when it has
\* any to return, the end of the journal when it has none.
NextStarts == {r.usn : r \in {q \in recs : q.usn > start}} \cup {nextUsn}

\* What a reply that ends at nextStart returns.
Batch(nextStart) == {r \in recs : start <= r.usn /\ r.usn < nextStart}

\* Mutant: at the limit the read stops and returns what it has.
ReadUpToLimit ==
    /\ pc = "reading" /\ JournalServes /\ start >= first
    /\ \E nextStart \in NextStarts :
        LET below == {r \in Batch(nextStart) : r.usn < bound.next}
            seen  == agg \cup {r.file : r \in below}
            full  == Cardinality(seen) > MaxChanges
            done  == below # Batch(nextStart) \/ nextStart <= start \/ nextStart >= bound.next
        IN  /\ agg' = IF full THEN agg ELSE seen
            /\ pc' = IF full \/ done THEN "resolving" ELSE "reading"
            /\ start' = nextStart
    /\ UNCHANGED <<volumeVars, shotVars, alive, found, gone, failed, result, staged, engineVars>>

\* Mutant: the read goes on to the end of the live journal.
ReadToTheEnd ==
    /\ pc = "reading" /\ JournalServes /\ start >= first
    /\ \E nextStart \in NextStarts :
        LET seen == agg \cup {r.file : r \in {q \in Batch(nextStart) : q.usn < bound.next}}
        IN  IF Cardinality(seen) > MaxChanges
            THEN ReturnReset("tooMany")
            ELSE /\ agg' = seen
                 /\ pc' = IF nextStart <= start THEN "resolving" ELSE "reading"
                 /\ start' = nextStart
                 /\ UNCHANGED <<found, gone, failed, result>>
    /\ UNCHANGED <<volumeVars, shotVars, alive, staged, engineVars>>

\* Mutant: only a record past the bound ends the read.
ReadUntilPastBound ==
    /\ pc = "reading" /\ JournalServes /\ start >= first
    /\ \E nextStart \in NextStarts :
        LET below == {r \in Batch(nextStart) : r.usn < bound.next}
            seen  == agg \cup {r.file : r \in below}
        IN  IF Cardinality(seen) > MaxChanges
            THEN ReturnReset("tooMany")
            ELSE /\ agg' = seen
                 /\ pc' = IF below # Batch(nextStart) THEN "resolving" ELSE "reading"
                 /\ start' = nextStart
                 /\ UNCHANGED <<found, gone, failed, result>>
    /\ UNCHANGED <<volumeVars, shotVars, alive, staged, engineVars>>

\* One FSCTL_READ_USN_JOURNAL and the scan of the records it returned.
ReadBatch ==
    /\ pc = "reading" /\ JournalServes /\ start >= first
    /\ \E nextStart \in NextStarts :
        LET below == {r \in Batch(nextStart) : r.usn < bound.next}
            seen  == agg \cup {r.file : r \in below}
            done  == below # Batch(nextStart) \/ nextStart <= start \/ nextStart >= bound.next
        IN  IF Cardinality(seen) > MaxChanges
            THEN ReturnReset("tooMany")
            ELSE /\ agg' = seen
                 /\ pc' = IF done THEN "resolving" ELSE "reading"
                 /\ start' = nextStart
                 /\ UNCHANGED <<found, gone, failed, result>>
    /\ UNCHANGED <<volumeVars, shotVars, alive, staged, engineVars>>

\* A read that cannot be trusted: its first record was purged, or it returned
\* a malformed record or one of a version other than 2.
ReadUnusable ==
    /\ pc = "reading" /\ JournalServes
    /\ start < first \/ \E r \in recs : r.usn >= start
    /\ ReturnReset("reset")
    /\ UNCHANGED <<volumeVars, shotVars, alive, staged, engineVars>>

\* The journal was deleted, or recreated, since the query: the FSCTL fails
\* with an error other than ERROR_JOURNAL_ENTRY_DELETED.
ReadJournalGone ==
    /\ pc = "reading" /\ ~JournalServes
    /\ ReturnError("error")
    /\ UNCHANGED <<volumeVars, engineVars>>

\* ctx is done at the head of the loop.
ReadCanceled ==
    /\ pc = "reading"
    /\ ReturnError("canceled")
    /\ UNCHANGED <<volumeVars, engineVars>>

\* pathByID: any failure to open the ID in the snapshot, or to tell its path,
\* sets Deleted.  The lookup of a file that is there may fail too.
Resolve(f) ==
    /\ pc = "resolving" /\ f \in agg \ (found \cup gone)
    /\ LET there == alive /\ snap[f] # Absent
       IN  \/ there /\ found' = found \cup {f} /\ UNCHANGED <<gone, failed>>
           \/ /\ gone' = gone \cup {f} /\ UNCHANGED found
              /\ failed' = IF there THEN failed \cup {f} ELSE failed
    /\ UNCHANGED <<volumeVars, pc, shotVars, alive, start, agg, result, staged, engineVars>>

-----------------------------------------------------------------------------
(* The backup engine. *)

\* USNChangesSince returned nil: copy what changed out of the snapshot.
\* Reading a file of an evicted snapshot fails the run.
ApplyChanges ==
    /\ pc = "resolving" /\ found \cup gone = agg
    /\ IF found = {} \/ alive
       THEN /\ staged' = [f \in Files |-> IF f \in found THEN snap[f]
                                       ELSE IF f \in gone THEN Absent
                                       ELSE manifest[f]]
            /\ pc' = "staged" /\ result' = "changes"
            /\ UNCHANGED <<shotVars, alive, callVars>>
       ELSE ReturnError("error")
    /\ UNCHANGED <<volumeVars, engineVars>>

\* The full Walk of the snapshot.  An eviction half-way leaves unreadable
\* directories, which a manifest callback skips.
FullWalk ==
    /\ pc = "walk"
    /\ \E visited \in SUBSET Files :
        /\ alive => visited = Files
        /\ staged' = [f \in Files |-> IF f \in visited THEN snap[f] ELSE Absent]
    /\ pc' = "staged"
    /\ UNCHANGED <<volumeVars, shotVars, alive, callVars, result, engineVars>>

\* Mutant: the run completes without a Verify.
NoVerify ==
    /\ pc = "staged" /\ pc' = "verified"
    /\ UNCHANGED <<shotVars, alive, callVars, result, staged>>
    /\ UNCHANGED <<volumeVars, engineVars>>

\* SnapshotSet.Verify after the last read.
Verify ==
    /\ pc = "staged"
    /\ IF alive
       THEN pc' = "verified" /\ UNCHANGED <<shotVars, alive, callVars, result, staged>>
       ELSE ReturnError("error")
    /\ UNCHANGED <<volumeVars, engineVars>>

\* Missing from the manifest after this run because of failed lookups: a run
\* answers for the files it looked up, a full Walk for all.
StaysDropped == failed \cup (IF result = "changes" THEN dropped \ agg ELSE {})

\* The run's manifest becomes durable, then the cursor to start from next.
CommitManifest ==
    /\ pc = "verified"
    /\ manifest' = staged /\ pc' = "committed"
    /\ dropped' = StaysDropped
    /\ UNCHANGED <<volumeVars, shotVars, alive, callVars, result, staged, cursor>>

saveCursor ==
    /\ pc = "committed"
    /\ cursor' = bound
    /\ SessionEnds
    /\ UNCHANGED <<volumeVars, result, manifest, dropped>>

\* The process dies, or the engine gives up and closes the set.
Crash ==
    /\ pc # "idle"
    /\ SessionEnds /\ result' = "none"
    /\ UNCHANGED <<volumeVars, engineVars>>

-----------------------------------------------------------------------------
Volume == (\E f \in Files : Change(f)) \/ Wrap \/ DeleteJournal \/ CreateJournal \/ Evict

Call == BeginRead \/ ReadBatch \/ ReadUnusable \/ ReadJournalGone
        \/ \E f \in Files : Resolve(f)

Engine == DoSnapshotSet \/ Call \/ ApplyChanges \/ FullWalk \/ Verify
          \/ CommitManifest \/ saveCursor

Next == Volume \/ captureLiveUSNCursor \/ Engine \/ ReadCanceled \/ Crash

Spec == Init /\ [][Next]_vars

\* The library and the engine are sequential code that keeps running; the
\* volume, its journal, the caller's ctx and crashes owe nothing, and neither
\* does the schedule of the backups.
FairSpec == Spec /\ WF_vars(Engine)

-----------------------------------------------------------------------------
(* Properties. *)

\* The saved cursor can be read from: its journal is there and reaches back.
Usable(c) == active /\ c.jid = jid /\ first <= c.next

\* Files with a record at or after a position.
ChangedSince(u) == {r.file : r \in {q \in recs : q.usn >= u}}

\* No change is lost but by a failed lookup: whatever the interleaving of writes,
\* journal events, evictions and crashes, a file whose manifest entry differs
\* from the volume has a record at or after the saved cursor, unless that cursor
\* will be refused and a full Walk asked for ("never treat the error as no
\* changes"), or the entry is missing since a lookup by ID failed for a file the
\* snapshot held.
NoChangeLost ==
    Usable(cursor) =>
        \A f \in Files : manifest[f] # live[f] =>
            \/ f \in ChangedSince(cursor.next)
            \/ f \in dropped /\ manifest[f] = Absent

\* Fail closed: when the journal read ends without an error, every file whose
\* manifest entry was out of date at the capture is among the changes, but for
\* those an earlier run dropped after a failed lookup.
ReadIsComplete ==
    pc = "resolving" => \A f \in Files : manifest[f] # base[f] => f \in agg \cup dropped

\* The chain implements BackupContract: a durable manifest has, for every file,
\* what the snapshot holds or an old entry that was still right when the cursor
\* was captured; a file of the snapshot is dropped because its lookup failed
\* while the snapshot lived, and never because of an eviction.
ContractMode == IF pc \in {"idle", "captured", "committed"} THEN pc ELSE "frozen"

Contract == INSTANCE BackupContract WITH mode <- ContractMode

ImplementsContract == Contract!Spec

\* Once the volume is quiet, backups that go on completing bring the manifest
\* to the volume's content and keep it there, but for files whose lookup failed:
\* what a run missed, or left to the next because it came after the capture, a
\* later one reports.
Converges ==
    <>[][FALSE]_live /\ []<>(pc = "committed") =>
        <>[](\A f \in Files : manifest[f] = live[f] \/ f \in dropped)

\* The read loop is bounded by the captured position, however far the live
\* journal has grown past it: whenever it goes round it has moved on and is
\* still below that position.
ReadAdvances ==
    [][pc = "reading" /\ pc' = "reading" /\ start' # start =>
           start < start' /\ start' < bound.next]_vars

\* Every backup run ends: none of its phases waits for what need not come, the
\* journal read in particular not for another record.
BackupEnds == (pc # "idle") ~> (pc = "idle")
=============================================================================
