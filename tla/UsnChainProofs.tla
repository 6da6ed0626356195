--------------------------- MODULE UsnChainProofs ---------------------------
(***************************************************************************)
(* Proofs about UsnChain for every set of files and contents and every     *)
(* value of the bounds.  IInv is the inductive invariant: what the saved   *)
(* cursor, the captured bound and the journal say about the three contents *)
(* a run compares, the volume at the capture, in the snapshot and now.     *)
(***************************************************************************)
EXTENDS UsnChain, TLAPS

\* The journal's records lie between FirstUsn and NextUsn.
JournalOK ==
    /\ first <= nextUsn
    /\ \A r \in recs : first <= r.usn /\ r.usn + RecordAlign <= nextUsn
    /\ ~active => recs = {}

\* A position taken from the journal of this volume, now or earlier.
TakenFromJournal(c) == c.jid <= jid /\ (active /\ c.jid = jid => c.next <= nextUsn)

\* From a usable position c, the records tell every file of F in which the
\* content M differs from the volume.
CoveredBy(F, M, c) ==
    Usable(c) => \A f \in F : M[f] # live[f] => f \in ChangedSince(c.next)

\* Files with a record from a position up to the captured bound.
ChangedUpToBound(u) == {r.file : r \in {q \in recs : u <= q.usn /\ q.usn < bound.next}}

\* What the capture and the freeze saw is covered from both positions.
LooksCovered ==
    /\ pc # "idle" => CoveredBy(Files, base, bound) /\ CoveredBy(Files, base, cursor)
    /\ pc \notin {"idle", "captured"} =>
           CoveredBy(Files, snap, bound) /\ CoveredBy(Files, snap, cursor)

\* Before the read, the records between cursor and bound tell every file that
\* was out of date at the capture.
ReadWillBeComplete ==
    pc \in {"captured", "frozen"} /\ Usable(cursor) /\ cursor.jid = bound.jid =>
        \A f \in Files \ dropped : manifest[f] # base[f] => f \in ChangedUpToBound(cursor.next)

\* During the read, a file that was out of date is aggregated already, dropped
\* or still ahead of the read, in a journal the read will accept or refuse.
ReadInProgress ==
    pc = "reading" =>
        \A f \in Files : manifest[f] # base[f] =>
            \/ f \in agg \cup dropped
            \/ /\ start < bound.next
               /\ JournalServes /\ first <= start => f \in ChangedUpToBound(start)

\* Until the snapshot is evicted, Deleted means absent from it or a failed
\* lookup; a full Walk comes without lookups.
DeletedIsAccounted ==
    /\ pc \in {"idle", "captured", "frozen", "reading", "walk"} => found = {} /\ gone = {}
    /\ pc = "walk" => result # "changes"
    /\ failed \subseteq gone /\ gone \subseteq agg /\ found \cap gone = {}
    /\ \A f \in failed : snap[f] # Absent
    /\ alive => \A f \in gone \ failed : snap[f] = Absent

\* M may become durable: an entry is missing after a failed lookup, or right for
\* the freeze or for the capture.
Honest(M) ==
    \A f \in Files :
        IF f \in StaysDropped
        THEN M[f] = Absent /\ (f \in dropped \/ snap[f] # Absent)
        ELSE M[f] = snap[f] \/ (M[f] = manifest[f] /\ manifest[f] = base[f])

StagedIsHonest ==
    /\ pc = "staged" /\ alive => Honest(staged)
    /\ pc = "verified" => Honest(staged)

\* A durable manifest entry is right for the freeze or for the capture, or
\* missing.
ManifestIsHonest ==
    pc = "committed" => \A f \in Files : f \in dropped \/ manifest[f] \in {snap[f], base[f]}

DroppedIsAbsent == \A f \in dropped : manifest[f] = Absent

IInv ==
    /\ TypeOK
    /\ JournalOK
    /\ TakenFromJournal(cursor) /\ TakenFromJournal(bound)
    /\ NoChangeLost
    /\ LooksCovered
    /\ ReadWillBeComplete /\ ReadInProgress /\ ReadIsComplete
    /\ DeletedIsAccounted /\ StagedIsHonest /\ ManifestIsHonest /\ DroppedIsAbsent
    /\ pc = "idle" => base = Blank /\ snap = Blank

-----------------------------------------------------------------------------
LEMMA InitType == Init => TypeOK
BY ContentsAssumption DEF Init, TypeOK, Blank, Zero, Cursors, Records, Phases, Results

LEMMA BlankType == Blank \in [Files -> Contents] /\ Zero \in Cursors
BY ContentsAssumption DEF Blank, Zero, Cursors

LEMMA SessionEndsType ==
    ASSUME TypeOK, SessionEnds, UNCHANGED volumeVars,
           result' \in Results, cursor' \in Cursors, manifest' \in [Files -> Contents],
           dropped' \subseteq Files
    PROVE  TypeOK'
BY BlankType DEF TypeOK, SessionEnds, Phases, volumeVars, journalVars

LEMMA TypeStep == TypeOK /\ [Next]_vars => TypeOK'
<1> SUFFICES ASSUME TypeOK, [Next]_vars
             PROVE  TypeOK'
  OBVIOUS
<1> USE DEF TypeOK
<1>1. ASSUME NEW f \in Files, Change(f) PROVE TypeOK'
  <2>1. recs' \subseteq Records /\ nextUsn' \in Nat
    BY <1>1 DEF Change, Records, RecordAlign
  <2> QED BY <1>1, <2>1 DEF Change, shotVars, callVars, engineVars
<1>2. CASE Wrap
  <2>1. first' \in Nat
    BY <1>2 DEF Wrap, Records, RecordAlign
  <2> QED BY <1>2, <2>1 DEF Wrap, shotVars, callVars, engineVars
<1>3. CASE DeleteJournal
  BY <1>3 DEF DeleteJournal, shotVars, callVars, engineVars
<1>4. CASE CreateJournal
  BY <1>4 DEF CreateJournal, shotVars, callVars, engineVars
<1>5. CASE Evict
  BY <1>5 DEF Evict, volumeVars, journalVars, shotVars, callVars, engineVars
<1>6. CASE captureLiveUSNCursor
  <2>1. bound' \in Cursors
    BY <1>6 DEF captureLiveUSNCursor, Cursors, Zero
  <2> QED BY <1>6, <2>1
          DEF captureLiveUSNCursor, volumeVars, journalVars, callVars, engineVars, Phases, Results
<1>7. CASE DoSnapshotSet
  <2>1. RoundUp(nextUsn) \in Nat
    BY BoundsAssumption DEF RoundUp
  <2>2. shadow' \in Cursors
    BY <1>7, <2>1 DEF DoSnapshotSet, Cursors, Zero
  <2> QED BY <1>7, <2>2 DEF DoSnapshotSet, volumeVars, journalVars, callVars, engineVars, Phases
<1>8. CASE BeginRead
  <2>1. CASE ReturnError("error")
    BY <1>8, <2>1, SessionEndsType DEF BeginRead, ReturnError, Results, engineVars
  <2>2. CASE ReturnReset("reset") /\ UNCHANGED <<shotVars, alive, staged>>
    BY <1>8, <2>2 DEF BeginRead, ReturnReset, Results, Phases,
                      volumeVars, journalVars, shotVars, engineVars
  <2>3. CASE /\ pc' = "reading" /\ start' = cursor.next
             /\ UNCHANGED <<agg, found, gone, failed, result, shotVars, alive, staged>>
    BY <1>8, <2>3 DEF BeginRead, Cursors, Phases, volumeVars, journalVars, shotVars, engineVars
  <2> QED BY <1>8, <2>1, <2>2, <2>3 DEF BeginRead
<1>9. CASE ReadBatch
  <2>1. NextStarts \subseteq Nat
    BY DEF NextStarts, Records
  <2>2. \A batch \in SUBSET recs : agg \cup {r.file : r \in batch} \subseteq Files
    BY DEF Records
  <2> QED BY <1>9, <2>1, <2>2
          DEF ReadBatch, Batch, ReturnReset, Results, Phases, volumeVars, journalVars, shotVars, engineVars
<1>10. CASE ReadUnusable
  BY <1>10 DEF ReadUnusable, ReturnReset, Results, Phases, volumeVars, journalVars, shotVars, engineVars
<1>11. CASE ReadJournalGone
  BY <1>11, SessionEndsType DEF ReadJournalGone, ReturnError, Results, engineVars
<1>12. CASE ReadCanceled
  BY <1>12, SessionEndsType DEF ReadCanceled, ReturnError, Results, engineVars
<1>13. ASSUME NEW f \in Files, Resolve(f) PROVE TypeOK'
  BY <1>13 DEF Resolve, volumeVars, journalVars, shotVars, engineVars
<1>14. CASE ApplyChanges
  <2>1. CASE ReturnError("error")
    BY <1>14, <2>1, SessionEndsType DEF ApplyChanges, ReturnError, Results, engineVars
  <2>2. CASE /\ staged' = [f \in Files |-> IF f \in found THEN snap[f]
                                         ELSE IF f \in gone THEN Absent
                                         ELSE manifest[f]]
             /\ pc' = "staged" /\ result' = "changes"
             /\ UNCHANGED <<shotVars, alive, callVars>>
    <3>1. staged' \in [Files -> Contents]
      BY <2>2, ContentsAssumption
    <3> QED BY <1>14, <2>2, <3>1
            DEF ApplyChanges, Results, Phases, volumeVars, journalVars, shotVars, callVars, engineVars
  <2> QED BY <1>14, <2>1, <2>2 DEF ApplyChanges
<1>15. CASE FullWalk
  <2>1. staged' \in [Files -> Contents]
    BY <1>15, ContentsAssumption DEF FullWalk
  <2> QED BY <1>15, <2>1 DEF FullWalk, Phases, volumeVars, journalVars, shotVars, callVars, engineVars
<1>16. CASE Verify
  <2>1. CASE ReturnError("error")
    BY <1>16, <2>1, SessionEndsType DEF Verify, ReturnError, Results, engineVars
  <2>2. CASE pc' = "verified" /\ UNCHANGED <<shotVars, alive, callVars, result, staged>>
    BY <1>16, <2>2 DEF Verify, Phases, volumeVars, journalVars, shotVars, callVars, engineVars
  <2> QED BY <1>16, <2>1, <2>2 DEF Verify
<1>17. CASE CommitManifest
  BY <1>17 DEF CommitManifest, StaysDropped, Phases, volumeVars, journalVars, shotVars, callVars
<1>18. CASE saveCursor
  BY <1>18, SessionEndsType DEF saveCursor
<1>19. CASE Crash
  BY <1>19, SessionEndsType DEF Crash, Results, engineVars
<1>20. CASE UNCHANGED vars
  BY <1>20 DEF vars, volumeVars, journalVars, shotVars, callVars, engineVars
<1> QED
  BY <1>1, <1>2, <1>3, <1>4, <1>5, <1>6, <1>7, <1>8, <1>9, <1>10, <1>11, <1>12, <1>13, <1>14,
     <1>15, <1>16, <1>17, <1>18, <1>19, <1>20
  DEF Next, Volume, Call, Engine

\* Every variable keeps its type in every behaviour.
THEOREM TypeCorrect == Spec => []TypeOK
BY InitType, TypeStep, PTL DEF Spec

-----------------------------------------------------------------------------
(* The volume's steps: what is covered stays covered. *)

LEMMA InitInv == Init => IInv
<1> SUFFICES ASSUME Init PROVE IInv
  OBVIOUS
<1>1. TypeOK
  BY InitType
<1> QED
  BY <1>1
  DEF Init, IInv, JournalOK, TakenFromJournal, Zero, NoChangeLost, Usable, LooksCovered,
      ReadWillBeComplete, ReadInProgress, ReadIsComplete, DeletedIsAccounted, StagedIsHonest,
      ManifestIsHonest, DroppedIsAbsent

LEMMA StaysTaken ==
    ASSUME TypeOK, Volume, NEW c \in Cursors, TakenFromJournal(c)
    PROVE  TakenFromJournal(c)'
<1> USE DEF TypeOK, TakenFromJournal, Cursors
<1>1. ASSUME NEW f \in Files, Change(f) PROVE TakenFromJournal(c)'
  BY <1>1 DEF Change, RecordAlign
<1>2. CASE Wrap
  BY <1>2 DEF Wrap
<1>3. CASE DeleteJournal
  BY <1>3 DEF DeleteJournal
<1>4. CASE CreateJournal
  BY <1>4 DEF CreateJournal
<1>5. CASE Evict
  BY <1>5 DEF Evict, volumeVars, journalVars
<1> QED
  BY <1>1, <1>2, <1>3, <1>4, <1>5 DEF Volume

\* A position taken from the journal that covers a content goes on covering
\* it: a change adds a record past the position, a purge of the records it
\* needs and a new journal make it unusable.
LEMMA StaysCovered ==
    ASSUME TypeOK, JournalOK, Volume,
           NEW F, F \subseteq Files, NEW M \in [Files -> Contents], NEW c \in Cursors,
           TakenFromJournal(c), CoveredBy(F, M, c)
    PROVE  CoveredBy(F, M, c)'
<1> USE DEF TypeOK, CoveredBy, TakenFromJournal, Usable, ChangedSince, Cursors
<1>1. ASSUME NEW f \in Files, Change(f) PROVE CoveredBy(F, M, c)'
  <2>1. CASE active
    <3>1. /\ recs' = recs \cup {[usn |-> nextUsn, file |-> f]}
          /\ nextUsn' = nextUsn + RecordAlign
          /\ UNCHANGED <<jid, active, first>>
      BY <1>1, <2>1 DEF Change
    <3>2. ASSUME Usable(c)', NEW g \in F, M[g] # live'[g]
          PROVE  g \in ChangedSince(c.next)'
      <4>1. Usable(c) /\ c.next <= nextUsn
        BY <3>1, <3>2
      <4>2. CASE g = f
        <5>1. [usn |-> nextUsn, file |-> f] \in recs' /\ nextUsn >= c.next
          BY <3>1, <4>1
        <5> QED BY <4>2, <5>1
      <4>3. CASE g # f
        <5>1. M[g] # live[g]
          BY <1>1, <3>2, <4>3 DEF Change
        <5> QED BY <3>1, <4>1, <5>1
      <4> QED BY <4>2, <4>3
    <3> QED BY <3>2
  <2>2. CASE ~active
    BY <1>1, <2>2 DEF Change
  <2> QED BY <2>1, <2>2
<1>2. CASE Wrap
  <2>1. /\ UNCHANGED <<live, jid, active, nextUsn>>
        /\ recs' = {r \in recs : r.usn >= first'}
        /\ first <= first' /\ first' \in Nat
    BY <1>2 DEF Wrap, JournalOK, Records, RecordAlign
  <2>2. ASSUME first' <= c.next PROVE ChangedSince(c.next) \subseteq ChangedSince(c.next)'
    BY <2>1, <2>2 DEF Records
  <2>3. ASSUME Usable(c)', NEW f \in F, M[f] # live'[f] PROVE f \in ChangedSince(c.next)'
    <3>1. Usable(c) /\ first' <= c.next /\ M[f] # live[f]
      BY <2>1, <2>3
    <3> QED BY <2>2, <3>1
  <2> QED BY <2>1, <2>3
<1>3. CASE DeleteJournal
  BY <1>3 DEF DeleteJournal
<1>4. CASE CreateJournal
  BY <1>4 DEF CreateJournal
<1>5. CASE Evict
  BY <1>5 DEF Evict, volumeVars, journalVars
<1> QED
  BY <1>1, <1>2, <1>3, <1>4, <1>5 DEF Volume

LEMMA JournalStep ==
    ASSUME TypeOK, JournalOK, Volume
    PROVE  JournalOK'
<1> USE DEF TypeOK, JournalOK, Records, RecordAlign
<1>1. ASSUME NEW f \in Files, Change(f) PROVE JournalOK'
  BY <1>1 DEF Change
<1>2. CASE Wrap
  BY <1>2 DEF Wrap
<1>3. CASE DeleteJournal
  BY <1>3 DEF DeleteJournal
<1>4. CASE CreateJournal
  BY <1>4 DEF CreateJournal
<1>5. CASE Evict
  BY <1>5 DEF Evict, volumeVars, journalVars
<1> QED
  BY <1>1, <1>2, <1>3, <1>4, <1>5 DEF Volume

\* Records a read still needs are purged only together with the read's
\* permission to go on: its journal or its position is refused from then on.
LEMMA ReadStep ==
    ASSUME TypeOK, JournalOK, TakenFromJournal(bound), Volume,
           ReadWillBeComplete, ReadInProgress
    PROVE  ReadWillBeComplete' /\ ReadInProgress'
<1>1. UNCHANGED <<pc, manifest, dropped, cursor, bound, base, agg, start>>
  BY DEF Volume, Change, Wrap, DeleteJournal, CreateJournal, Evict, shotVars, callVars, engineVars
<1>2. ASSUME NEW u \in Nat, active', jid' = bound.jid, first' <= u
      PROVE  /\ active /\ jid = bound.jid /\ first <= u
             /\ ChangedUpToBound(u) \subseteq ChangedUpToBound(u)'
  <2> DEFINE Kept == /\ active /\ jid = bound.jid /\ first <= u
                     /\ ChangedUpToBound(u) \subseteq ChangedUpToBound(u)'
  <2> USE <1>2 DEF TypeOK, ChangedUpToBound, Cursors
  <2>1. ASSUME NEW f \in Files, Change(f) PROVE Kept
    BY <1>1, <2>1 DEF Change
  <2>2. CASE Wrap
    <3>1. /\ UNCHANGED <<jid, active>> /\ first <= first' /\ first' \in Nat
          /\ recs' = {r \in recs : r.usn >= first'}
      BY <2>2 DEF Wrap, JournalOK, Records, RecordAlign
    <3> QED BY <1>1, <3>1 DEF Records
  <2>3. CASE DeleteJournal
    BY <2>3 DEF DeleteJournal
  <2>4. CASE CreateJournal
    BY <2>4 DEF CreateJournal, TakenFromJournal
  <2>5. CASE Evict
    BY <1>1, <2>5 DEF Evict, volumeVars, journalVars
  <2> QED BY <2>1, <2>2, <2>3, <2>4, <2>5 DEF Volume
<1>3. cursor.next \in Nat /\ start \in Nat
  BY DEF TypeOK, Cursors
<1>4. ReadWillBeComplete'
  BY <1>1, <1>2, <1>3 DEF ReadWillBeComplete, Usable
<1>5. ReadInProgress'
  BY <1>1, <1>2, <1>3 DEF ReadInProgress, JournalServes
<1> QED BY <1>4, <1>5

LEMMA VolumeStep == IInv /\ Volume => IInv'
<1> SUFFICES ASSUME IInv, Volume PROVE IInv'
  OBVIOUS
<1>1. /\ UNCHANGED <<pc, bound, base, snap, shadow, agg, start, found, gone, failed, result,
                    staged, manifest, dropped, cursor>>
      /\ alive' => alive
  BY DEF Volume, Change, Wrap, DeleteJournal, CreateJournal, Evict, shotVars, callVars, engineVars
<1>2. TypeOK'
  BY TypeStep DEF IInv, Next
<1>3. JournalOK'
  BY JournalStep DEF IInv
<1>4. TakenFromJournal(cursor)' /\ TakenFromJournal(bound)'
  BY <1>1, StaysTaken DEF IInv, TypeOK, TakenFromJournal
<1>5. NoChangeLost'
  <2>1. CoveredBy(Files \ dropped, manifest, cursor)
    BY DEF IInv, NoChangeLost, CoveredBy
  <2>2. PICK F : F = Files \ dropped
    OBVIOUS
  <2>3. F \subseteq Files /\ CoveredBy(F, manifest, cursor)
    BY <2>1, <2>2
  <2>4. Usable(cursor)' => \A f \in F : manifest[f] # live'[f] => f \in ChangedSince(cursor.next)'
    BY <1>1, <2>3, StaysCovered DEF IInv, TypeOK, CoveredBy
  <2> QED BY <1>1, <2>2, <2>4 DEF IInv, DroppedIsAbsent, NoChangeLost
<1>6. LooksCovered'
  <2> USE DEF IInv, TypeOK, LooksCovered, CoveredBy
  <2>1. ASSUME pc # "idle" PROVE CoveredBy(Files, base, bound)' /\ CoveredBy(Files, base, cursor)'
    BY <1>1, <2>1, StaysCovered
  <2>2. ASSUME pc \notin {"idle", "captured"} PROVE CoveredBy(Files, snap, bound)' /\ CoveredBy(Files, snap, cursor)'
    BY <1>1, <2>2, StaysCovered
  <2> QED BY <1>1, <2>1, <2>2
<1>7. ReadWillBeComplete' /\ ReadInProgress'
  BY ReadStep DEF IInv
<1>8. ReadIsComplete' /\ DeletedIsAccounted' /\ StagedIsHonest' /\ ManifestIsHonest' /\ DroppedIsAbsent'
  BY <1>1 DEF IInv, ReadIsComplete, DeletedIsAccounted, StagedIsHonest, Honest, StaysDropped,
     ManifestIsHonest, DroppedIsAbsent
<1> QED
  BY <1>1, <1>2, <1>3, <1>4, <1>5, <1>6, <1>7, <1>8 DEF IInv

-----------------------------------------------------------------------------
(* The library's and the engine's steps leave the volume alone. *)

LEMMA VolumeFrame ==
    ASSUME IInv, UNCHANGED volumeVars
    PROVE  /\ JournalOK'
           /\ UNCHANGED cursor => TakenFromJournal(cursor)'
           /\ UNCHANGED bound => TakenFromJournal(bound)'
           /\ UNCHANGED <<cursor, manifest, dropped>> => NoChangeLost' /\ DroppedIsAbsent'
BY DEF IInv, volumeVars, journalVars, JournalOK, TakenFromJournal, NoChangeLost, Usable, ChangedSince,
   DroppedIsAbsent

LEMMA LooksFrame ==
    ASSUME IInv, UNCHANGED <<volumeVars, base, bound, cursor>>,
           pc # "idle", pc' \notin {"idle", "captured"},
           \/ snap' = live
           \/ pc # "captured" /\ UNCHANGED snap
    PROVE  LooksCovered'
BY DEF IInv, volumeVars, journalVars, LooksCovered, CoveredBy, Usable, ChangedSince

\* The end of a session keeps only what is durable.
LEMMA EndStep ==
    ASSUME IInv, TypeOK', SessionEnds, UNCHANGED volumeVars,
           NoChangeLost', DroppedIsAbsent', TakenFromJournal(cursor)'
    PROVE  IInv'
<1>1. TakenFromJournal(bound)'
  BY DEF SessionEnds, TakenFromJournal, Zero, volumeVars, journalVars, IInv, TypeOK
<1>2. LooksCovered' /\ ReadWillBeComplete' /\ ReadInProgress' /\ ReadIsComplete'
  BY DEF SessionEnds, LooksCovered, ReadWillBeComplete, ReadInProgress, ReadIsComplete
<1>3. DeletedIsAccounted' /\ StagedIsHonest' /\ ManifestIsHonest'
  BY DEF SessionEnds, DeletedIsAccounted, StagedIsHonest, ManifestIsHonest
<1> QED BY <1>1, <1>2, <1>3, VolumeFrame DEF IInv, SessionEnds

LEMMA GiveUpStep ==
    ASSUME IInv, TypeOK', SessionEnds, UNCHANGED <<volumeVars, engineVars>>
    PROVE  IInv'
BY EndStep, VolumeFrame DEF engineVars

\* An error that asks for a full Walk forgets what was read.
LEMMA ResetStep ==
    ASSUME IInv, TypeOK', NEW kind, kind # "changes", ReturnReset(kind), pc \in {"frozen", "reading"},
           UNCHANGED <<volumeVars, shotVars, alive, staged, engineVars>>
    PROVE  IInv'
<1>1. LooksCovered'
  BY LooksFrame DEF ReturnReset, shotVars, engineVars
<1>2. ReadWillBeComplete' /\ ReadInProgress' /\ ReadIsComplete'
  BY DEF ReturnReset, ReadWillBeComplete, ReadInProgress, ReadIsComplete
<1>3. DeletedIsAccounted' /\ StagedIsHonest' /\ ManifestIsHonest'
  BY DEF ReturnReset, DeletedIsAccounted, StagedIsHonest, ManifestIsHonest
<1> QED BY <1>1, <1>2, <1>3, VolumeFrame DEF IInv, ReturnReset, shotVars, engineVars

LEMMA CaptureStep == IInv /\ captureLiveUSNCursor => IInv'
<1> SUFFICES ASSUME IInv, captureLiveUSNCursor PROVE IInv'
  OBVIOUS
<1> USE DEF captureLiveUSNCursor, volumeVars, journalVars, callVars, engineVars
<1>1. TypeOK'
  BY TypeStep DEF IInv, Next
<1>2. TakenFromJournal(bound)'
  BY DEF TakenFromJournal, Zero, IInv, TypeOK
<1>3. LooksCovered'
  BY DEF LooksCovered, CoveredBy
<1>4. ReadWillBeComplete'
  <2> SUFFICES ASSUME Usable(cursor), cursor.jid = bound'.jid,
                      NEW f \in Files \ dropped, manifest[f] # live[f]
               PROVE  f \in ChangedUpToBound(cursor.next)'
    BY DEF ReadWillBeComplete, Usable
  <2>1. bound' = [jid |-> jid, next |-> nextUsn]
    BY DEF Usable, Zero, IInv, TypeOK
  <2>2. f \in ChangedSince(cursor.next)
    BY DEF IInv, NoChangeLost
  <2> QED BY <2>1, <2>2
          DEF ChangedSince, ChangedUpToBound, IInv, JournalOK, RecordAlign, TypeOK, Records
<1>5. /\ ReadInProgress' /\ ReadIsComplete' /\ DeletedIsAccounted' /\ StagedIsHonest'
      /\ ManifestIsHonest'
  BY DEF IInv, ReadInProgress, ReadIsComplete, DeletedIsAccounted, StagedIsHonest, ManifestIsHonest
<1> QED BY <1>1, <1>2, <1>3, <1>4, <1>5, VolumeFrame DEF IInv

LEMMA FreezeStep == IInv /\ DoSnapshotSet => IInv'
<1> SUFFICES ASSUME IInv, DoSnapshotSet PROVE IInv'
  OBVIOUS
<1> USE DEF DoSnapshotSet, callVars, engineVars
<1>1. TypeOK'
  BY TypeStep DEF IInv, Next, Engine
<1>2. LooksCovered'
  BY LooksFrame
<1>3. /\ ReadWillBeComplete' /\ ReadInProgress' /\ ReadIsComplete'
      /\ StagedIsHonest' /\ ManifestIsHonest'
  BY DEF IInv, ReadWillBeComplete, ReadInProgress, ReadIsComplete, StagedIsHonest,
         ManifestIsHonest, ChangedUpToBound, Usable, volumeVars, journalVars
<1>4. DeletedIsAccounted'
  BY DEF IInv, DeletedIsAccounted
<1> QED BY <1>1, <1>2, <1>3, <1>4, VolumeFrame DEF IInv
LEMMA BeginReadStep == IInv /\ BeginRead => IInv'
<1> SUFFICES ASSUME IInv, BeginRead PROVE IInv'
  OBVIOUS
<1>1. TypeOK' /\ UNCHANGED <<volumeVars, engineVars>> /\ pc = "frozen"
  BY TypeStep DEF IInv, Next, Engine, Call, BeginRead
<1>2. CASE ReturnError("error")
  BY <1>1, <1>2, GiveUpStep DEF ReturnError
<1>3. CASE ReturnReset("reset") /\ UNCHANGED <<shotVars, alive, staged>>
  BY <1>1, <1>3, ResetStep
<1>4. CASE /\ active /\ ~CursorRejected(cursor, bound, jid, first)
           /\ pc' = "reading" /\ start' = cursor.next
           /\ UNCHANGED <<agg, found, gone, failed, result, shotVars, alive, staged>>
  <2> USE <1>1, <1>4 DEF volumeVars, journalVars, shotVars, engineVars
  <2>1. LooksCovered'
    BY LooksFrame
  <2>2. ReadInProgress'
    <3> SUFFICES ASSUME NEW f \in Files \ dropped, manifest[f] # base[f]
                 PROVE  start' < bound.next /\ f \in ChangedUpToBound(start)'
      BY DEF ReadInProgress
    <3>1. Usable(cursor) /\ cursor.jid = bound.jid
      BY DEF CursorRejected, Usable, IInv, TypeOK, Cursors
    <3>2. f \in ChangedUpToBound(cursor.next)
      BY <3>1 DEF IInv, ReadWillBeComplete
    <3> QED BY <3>2 DEF ChangedUpToBound, IInv, TypeOK, Records, Cursors
  <2>3. DeletedIsAccounted'
    BY DEF IInv, DeletedIsAccounted
  <2>4. ReadWillBeComplete' /\ ReadIsComplete' /\ StagedIsHonest' /\ ManifestIsHonest'
    BY DEF ReadWillBeComplete, ReadIsComplete, StagedIsHonest, ManifestIsHonest
  <2> QED BY <2>1, <2>2, <2>3, <2>4, VolumeFrame DEF IInv
<1> QED BY <1>2, <1>3, <1>4 DEF BeginRead

LEMMA ReadBatchStep == IInv /\ ReadBatch => IInv'
<1> SUFFICES ASSUME IInv, ReadBatch PROVE IInv'
  OBVIOUS
<1>1. /\ TypeOK' /\ UNCHANGED <<volumeVars, shotVars, alive, staged, engineVars>>
      /\ pc = "reading" /\ JournalServes /\ start >= first
  BY TypeStep DEF IInv, Next, Engine, Call, ReadBatch
<1>2. CASE ReturnReset("tooMany")
  BY <1>1, <1>2, ResetStep
<1>3. ASSUME NEW nextStart \in NextStarts, NEW below, NEW batch,
             batch = {r \in recs : start <= r.usn /\ r.usn < nextStart},
             below = {r \in batch : r.usn < bound.next},
             agg' = agg \cup {r.file : r \in below},
             pc' = IF below # batch \/ nextStart <= start \/ nextStart >= bound.next
                   THEN "resolving" ELSE "reading",
             start' = nextStart,
             UNCHANGED <<found, gone, failed, result>>
      PROVE  IInv'
  <2> USE <1>1, <1>3 DEF volumeVars, journalVars, shotVars, engineVars
  <2>1. LooksCovered'
    BY LooksFrame
  <2>2. /\ start \in Nat /\ bound.next \in Nat /\ nextUsn \in Nat
        /\ nextStart \in Nat
        /\ nextStart <= start => nextStart = nextUsn
    BY DEF IInv, TypeOK, Cursors, Records, NextStarts
  <2>3. ASSUME NEW f \in Files \ dropped, manifest[f] # base[f], f \notin agg'
        PROVE  pc' = "reading" /\ start' < bound.next /\ f \in ChangedUpToBound(start)'
    <3>1. f \in ChangedUpToBound(start)
      BY <2>3 DEF IInv, ReadInProgress
    <3>2. PICK r \in recs : r.file = f /\ start <= r.usn /\ r.usn < bound.next
      BY <3>1 DEF ChangedUpToBound
    <3>3. r.usn \in Nat /\ r.usn + RecordAlign <= nextUsn
      BY DEF IInv, TypeOK, Records, JournalOK
    <3>4. r \notin batch
      BY <2>3, <3>2
    <3>5. nextStart <= r.usn
      BY <2>2, <3>2, <3>3, <3>4
    <3>6. nextStart < bound.next /\ nextStart > start
      BY <2>2, <3>2, <3>3, <3>5 DEF RecordAlign
    <3>7. below = batch
      BY <2>2, <3>6 DEF IInv, TypeOK, Records
    <3>8. f \in ChangedUpToBound(start)'
      BY <3>2, <3>5 DEF ChangedUpToBound
    <3> QED BY <2>2, <3>6, <3>7, <3>8
  <2>4. ReadInProgress' /\ ReadIsComplete'
    BY <2>3 DEF ReadInProgress, ReadIsComplete
  <2>5. DeletedIsAccounted'
    BY DEF IInv, DeletedIsAccounted
  <2>6. ReadWillBeComplete' /\ StagedIsHonest' /\ ManifestIsHonest'
    BY DEF ReadWillBeComplete, StagedIsHonest, ManifestIsHonest
  <2> QED BY <2>1, <2>4, <2>5, <2>6, VolumeFrame DEF IInv
<1> QED BY <1>2, <1>3 DEF ReadBatch, Batch

LEMMA ResolveStep ==
    ASSUME IInv, NEW f \in Files, Resolve(f)
    PROVE  IInv'
<1> USE DEF Resolve, shotVars, engineVars
<1>1. TypeOK'
  BY TypeStep DEF IInv, Next, Engine, Call
<1>2. LooksCovered'
  BY LooksFrame
<1>3. ReadIsComplete' /\ DeletedIsAccounted'
  BY DEF IInv, ReadIsComplete, DeletedIsAccounted
<1>4. ReadWillBeComplete' /\ ReadInProgress' /\ StagedIsHonest' /\ ManifestIsHonest'
  BY DEF ReadWillBeComplete, ReadInProgress, StagedIsHonest, ManifestIsHonest
<1> QED BY <1>1, <1>2, <1>3, <1>4, VolumeFrame DEF IInv

LEMMA ApplyChangesStep == IInv /\ ApplyChanges => IInv'
<1> SUFFICES ASSUME IInv, ApplyChanges PROVE IInv'
  OBVIOUS
<1>1. TypeOK' /\ UNCHANGED <<volumeVars, engineVars>> /\ pc = "resolving" /\ found \cup gone = agg
  BY TypeStep DEF IInv, Next, Engine, ApplyChanges
<1>2. CASE ReturnError("error")
  BY <1>1, <1>2, GiveUpStep DEF ReturnError
<1>3. CASE /\ staged' = [f \in Files |-> IF f \in found THEN snap[f]
                                         ELSE IF f \in gone THEN Absent
                                         ELSE manifest[f]]
           /\ pc' = "staged" /\ result' = "changes"
           /\ UNCHANGED <<shotVars, alive, callVars>>
  <2> USE <1>1, <1>3 DEF shotVars, callVars, engineVars
  <2>1. LooksCovered'
    BY LooksFrame
  <2>2. StagedIsHonest'
    <3> SUFFICES ASSUME alive PROVE Honest(staged)'
      BY DEF StagedIsHonest
    <3>1. StaysDropped' = failed \cup (dropped \ agg)
      BY DEF StaysDropped
    <3>2. ASSUME NEW f \in found PROVE f \notin StaysDropped' /\ staged'[f] = snap[f]
      BY <3>1, <3>2 DEF IInv, DeletedIsAccounted, TypeOK
    <3>3. ASSUME NEW f \in gone
          PROVE  /\ f \in StaysDropped' => snap[f] # Absent
                 /\ f \notin StaysDropped' => snap[f] = Absent
                 /\ staged'[f] = Absent
      BY <3>1, <3>3 DEF IInv, DeletedIsAccounted, TypeOK
    <3>4. ASSUME NEW f \in Files \ agg
          PROVE  /\ f \in StaysDropped' <=> f \in dropped
                 /\ f \notin dropped => manifest[f] = base[f]
                 /\ f \in dropped => manifest[f] = Absent
                 /\ staged'[f] = manifest[f]
      BY <3>1, <3>4 DEF IInv, DeletedIsAccounted, ReadIsComplete, DroppedIsAbsent
    <3>5. \A f \in Files : f \in found \/ f \in gone \/ f \in Files \ agg
      OBVIOUS
    <3> QED BY <3>2, <3>3, <3>4, <3>5 DEF Honest
  <2>3. DeletedIsAccounted'
    BY DEF IInv, DeletedIsAccounted
  <2>4. ReadWillBeComplete' /\ ReadInProgress' /\ ReadIsComplete' /\ ManifestIsHonest'
    BY DEF ReadWillBeComplete, ReadInProgress, ReadIsComplete, ManifestIsHonest
  <2> QED BY <2>1, <2>2, <2>3, <2>4, VolumeFrame DEF IInv
<1> QED BY <1>2, <1>3 DEF ApplyChanges

LEMMA FullWalkStep == IInv /\ FullWalk => IInv'
<1> SUFFICES ASSUME IInv, FullWalk PROVE IInv'
  OBVIOUS
<1> USE DEF FullWalk, shotVars, callVars, engineVars
<1>1. TypeOK'
  BY TypeStep DEF IInv, Next, Engine
<1>2. LooksCovered'
  BY LooksFrame
<1>3. StagedIsHonest'
  <2>1. StaysDropped' = {}
    BY DEF IInv, DeletedIsAccounted, StaysDropped
  <2> QED BY <2>1 DEF StagedIsHonest, Honest
<1>4. DeletedIsAccounted'
  BY DEF IInv, DeletedIsAccounted
<1>5. ReadWillBeComplete' /\ ReadInProgress' /\ ReadIsComplete' /\ ManifestIsHonest'
  BY DEF ReadWillBeComplete, ReadInProgress, ReadIsComplete, ManifestIsHonest
<1> QED BY <1>1, <1>2, <1>3, <1>4, <1>5, VolumeFrame DEF IInv

LEMMA VerifyStep == IInv /\ Verify => IInv'
<1> SUFFICES ASSUME IInv, Verify PROVE IInv'
  OBVIOUS
<1>1. TypeOK' /\ UNCHANGED <<volumeVars, engineVars>> /\ pc = "staged"
  BY TypeStep DEF IInv, Next, Engine, Verify
<1>2. CASE ReturnError("error")
  BY <1>1, <1>2, GiveUpStep DEF ReturnError
<1>3. CASE alive /\ pc' = "verified" /\ UNCHANGED <<shotVars, alive, callVars, result, staged>>
  <2> USE <1>1, <1>3 DEF shotVars, callVars, engineVars
  <2>1. LooksCovered'
    BY LooksFrame
  <2>2. StagedIsHonest'
    BY DEF IInv, StagedIsHonest, Honest, StaysDropped
  <2>3. DeletedIsAccounted'
    BY DEF IInv, DeletedIsAccounted
  <2>4. ReadWillBeComplete' /\ ReadInProgress' /\ ReadIsComplete' /\ ManifestIsHonest'
    BY DEF ReadWillBeComplete, ReadInProgress, ReadIsComplete, ManifestIsHonest
  <2> QED BY <2>1, <2>2, <2>3, <2>4, VolumeFrame DEF IInv
<1> QED BY <1>2, <1>3 DEF Verify

\* A manifest made of what two covered looks held is covered by the old cursor
\* (a crash may come before the new one is saved).
LEMMA CommitStep == IInv /\ CommitManifest => IInv'
<1> SUFFICES ASSUME IInv, CommitManifest PROVE IInv'
  OBVIOUS
<1> USE DEF CommitManifest, shotVars, callVars
<1>1. TypeOK'
  BY TypeStep DEF IInv, Next, Engine
<1>2. NoChangeLost'
  <2>1. /\ CoveredBy(Files, snap, cursor) /\ CoveredBy(Files, base, cursor) /\ Honest(staged)
        /\ manifest' = staged /\ dropped' = StaysDropped /\ UNCHANGED <<volumeVars, cursor>>
    BY DEF IInv, LooksCovered, StagedIsHonest
  <2>2. \A f \in Files : \/ staged[f] \in {snap[f], base[f]}
                         \/ f \in dropped' /\ manifest'[f] = Absent
    BY <2>1 DEF Honest
  <2> QED BY <2>1, <2>2 DEF CoveredBy, NoChangeLost, Usable, ChangedSince, volumeVars, journalVars
<1>3. LooksCovered'
  BY LooksFrame
<1>4. ManifestIsHonest' /\ DroppedIsAbsent'
  <2>1. Honest(staged) /\ manifest' = staged /\ dropped' = StaysDropped /\ dropped' \subseteq Files
    BY <1>1 DEF IInv, StagedIsHonest, TypeOK
  <2> QED BY <2>1 DEF Honest, ManifestIsHonest, DroppedIsAbsent
<1>5. DeletedIsAccounted'
  BY DEF IInv, DeletedIsAccounted
<1>6. ReadWillBeComplete' /\ ReadInProgress' /\ ReadIsComplete' /\ StagedIsHonest'
  BY DEF ReadWillBeComplete, ReadInProgress, ReadIsComplete, StagedIsHonest
<1> QED BY <1>1, <1>2, <1>3, <1>4, <1>5, <1>6, VolumeFrame DEF IInv

LEMMA SaveCursorStep == IInv /\ saveCursor => IInv'
<1> SUFFICES ASSUME IInv, saveCursor PROVE IInv'
  OBVIOUS
<1> USE DEF saveCursor
<1>1. TypeOK'
  BY TypeStep DEF IInv, Next, Engine
<1>2. NoChangeLost'
  <2>1. /\ CoveredBy(Files, snap, bound) /\ CoveredBy(Files, base, bound)
        /\ \A f \in Files : \/ manifest[f] \in {snap[f], base[f]}
                            \/ f \in dropped /\ manifest[f] = Absent
    BY DEF IInv, LooksCovered, ManifestIsHonest, DroppedIsAbsent
  <2> QED BY <2>1 DEF CoveredBy, NoChangeLost, Usable, ChangedSince, volumeVars, journalVars
<1>3. TakenFromJournal(cursor)'
  BY DEF IInv, TakenFromJournal, volumeVars, journalVars
<1>4. DroppedIsAbsent'
  BY DEF IInv, DroppedIsAbsent
<1> QED BY <1>1, <1>2, <1>3, <1>4, EndStep

LEMMA InvStep == IInv /\ [Next]_vars => IInv'
<1> SUFFICES ASSUME IInv, [Next]_vars PROVE IInv'
  OBVIOUS
<1>1. TypeOK'
  BY TypeStep DEF IInv
<1>2. CASE Volume
  BY <1>2, VolumeStep
<1>3. CASE ReadUnusable
  BY <1>1, <1>3, ResetStep DEF ReadUnusable
<1>4. CASE ReadJournalGone \/ ReadCanceled \/ Crash
  BY <1>1, <1>4, GiveUpStep DEF ReadJournalGone, ReadCanceled, Crash, ReturnError
<1>5. CASE UNCHANGED vars
  BY <1>1, <1>5 DEF IInv, vars, volumeVars, journalVars, shotVars, callVars, engineVars,
     JournalOK, TakenFromJournal, NoChangeLost, LooksCovered, CoveredBy, Usable, ChangedSince,
     ReadWillBeComplete, ReadInProgress, ReadIsComplete, ChangedUpToBound, JournalServes,
     DeletedIsAccounted, StagedIsHonest, Honest, StaysDropped, ManifestIsHonest, DroppedIsAbsent
<1> QED
  BY <1>2, <1>3, <1>4, <1>5, CaptureStep, FreezeStep, BeginReadStep, ReadBatchStep, ResolveStep,
     ApplyChangesStep, FullWalkStep, VerifyStep, CommitStep, SaveCursorStep
  DEF Next, Engine, Call

LEMMA Inductive == Spec => []IInv
BY InitInv, InvStep, PTL DEF Spec

\* No change is lost, for any number of files, writes, journals and backups.
THEOREM NothingLost == Spec => []NoChangeLost
<1>1. IInv => NoChangeLost
  BY DEF IInv
<1> QED BY <1>1, Inductive, PTL

\* A read of the journal that ends without an error has seen every file that
\* was out of date at the capture.
THEOREM ReadsAreComplete == Spec => []ReadIsComplete
<1>1. IInv => ReadIsComplete
  BY DEF IInv
<1> QED BY <1>1, Inductive, PTL

\* For every size of the journal: a read that goes round has moved on and is
\* still below the captured position, so it goes round a bounded number of times.
THEOREM ReadsAdvance == Spec => ReadAdvances
<1>1. ASSUME TypeOK, [Next]_vars, pc = "reading", pc' = "reading", start' # start
      PROVE  start < start' /\ start' < bound.next
  <2>1. ReadBatch
    BY <1>1 DEF Next, Volume, Change, Wrap, DeleteJournal, CreateJournal, Evict, captureLiveUSNCursor,
       Engine, DoSnapshotSet, Call, BeginRead, ReadUnusable, ReadJournalGone, ReadCanceled, Crash,
       Resolve, ApplyChanges, FullWalk, Verify, CommitManifest, saveCursor, SessionEnds,
       ReturnReset, ReturnError, vars, callVars
  <2>2. start' \in NextStarts /\ ~(start' <= start) /\ ~(start' >= bound.next)
    BY <1>1, <2>1 DEF ReadBatch, ReturnReset
  <2>3. start \in Nat /\ start' \in Nat /\ bound.next \in Nat
    BY <1>1, <2>2 DEF TypeOK, Cursors, NextStarts, Records
  <2> QED BY <2>2, <2>3
<1> QED BY <1>1, TypeCorrect, PTL DEF Spec, ReadAdvances

-----------------------------------------------------------------------------
(* Refinement: every step of the chain is a step of BackupContract. *)

LEMMA ContractInit == Init => Contract!Init
BY DEF Init, Contract!Init, ContractMode, Blank, Contract!Blank

\* Steps that leave the contract's variables alone.
LEMMA ContractStutter ==
    ASSUME UNCHANGED <<live, base, snap, manifest, dropped>>, ContractMode' = ContractMode
    PROVE  UNCHANGED Contract!vars
BY DEF Contract!vars

LEMMA ContractEnd ==
    ASSUME pc # "idle", SessionEnds, UNCHANGED <<live, manifest, dropped>>
    PROVE  Contract!End
BY DEF Contract!End, ContractMode, SessionEnds, Blank, Contract!Blank

LEMMA ContractStep == IInv /\ [Next]_vars => [Contract!Next]_(Contract!vars)
<1> SUFFICES ASSUME IInv, [Next]_vars PROVE [Contract!Next]_(Contract!vars)
  OBVIOUS
<1>1. TypeOK /\ TypeOK'
  BY TypeStep DEF IInv
<1>2. CASE Volume
  <2>1. live' \in [Files -> Contents] /\ UNCHANGED <<pc, base, snap, manifest, dropped>>
    BY <1>1, <1>2 DEF TypeOK, Volume, Change, Wrap, DeleteJournal, CreateJournal, Evict,
       shotVars, engineVars, volumeVars, journalVars
  <2> QED BY <2>1 DEF Contract!Next, Contract!Change, ContractMode
<1>3. CASE captureLiveUSNCursor
  BY <1>3 DEF captureLiveUSNCursor, Contract!Next, Contract!Capture, ContractMode,
     volumeVars, engineVars
<1>4. CASE DoSnapshotSet
  BY <1>4 DEF DoSnapshotSet, Contract!Next, Contract!Freeze, ContractMode, volumeVars, engineVars
<1>5. ASSUME NEW kind, ReturnReset(kind), pc \in {"frozen", "reading"},
             UNCHANGED <<volumeVars, shotVars, engineVars>>
      PROVE  UNCHANGED Contract!vars
  BY <1>5, ContractStutter DEF ReturnReset, ContractMode, volumeVars, shotVars, engineVars
<1>6. ASSUME pc # "idle", SessionEnds, UNCHANGED <<volumeVars, engineVars>>
      PROVE  Contract!Next
  BY <1>6, ContractEnd DEF Contract!Next, volumeVars, engineVars
<1>7. CASE BeginRead
  <2>1. CASE ReturnReset("reset") /\ UNCHANGED <<shotVars, alive, staged>>
    BY <1>5, <1>7, <2>1 DEF BeginRead
  <2>2. CASE ReturnError("error")
    BY <1>6, <1>7, <2>2 DEF BeginRead, ReturnError
  <2>3. CASE pc' = "reading" /\ UNCHANGED shotVars
    BY <1>7, <2>3, ContractStutter DEF BeginRead, ContractMode, volumeVars, shotVars, engineVars
  <2> QED BY <1>7, <2>1, <2>2, <2>3 DEF BeginRead
<1>8. CASE ReadBatch
  <2>1. CASE ReturnReset("tooMany")
    BY <1>5, <1>8, <2>1 DEF ReadBatch
  <2>2. CASE pc' \in {"reading", "resolving"}
    BY <1>8, <2>2, ContractStutter DEF ReadBatch, ContractMode, volumeVars, shotVars, engineVars
  <2> QED BY <1>8, <2>1, <2>2 DEF ReadBatch
<1>9. CASE ReadUnusable
  BY <1>5, <1>9 DEF ReadUnusable
<1>10. CASE ReadJournalGone \/ ReadCanceled \/ Crash
  BY <1>6, <1>10 DEF ReadJournalGone, ReadCanceled, Crash, ReturnError
<1>11. ASSUME NEW f \in Files, Resolve(f) PROVE UNCHANGED Contract!vars
  BY <1>11, ContractStutter DEF Resolve, ContractMode, volumeVars, shotVars, engineVars
<1>12. CASE ApplyChanges
  <2>1. CASE ReturnError("error")
    BY <1>6, <1>12, <2>1 DEF ApplyChanges, ReturnError
  <2>2. CASE pc' = "staged" /\ UNCHANGED shotVars
    BY <1>12, <2>2, ContractStutter DEF ApplyChanges, ContractMode, volumeVars, shotVars, engineVars
  <2> QED BY <1>12, <2>1, <2>2 DEF ApplyChanges
<1>13. CASE FullWalk
  BY <1>13, ContractStutter DEF FullWalk, ContractMode, volumeVars, shotVars, engineVars
<1>14. CASE Verify
  <2>1. CASE ReturnError("error")
    BY <1>6, <1>14, <2>1 DEF Verify, ReturnError
  <2>2. CASE pc' = "verified" /\ UNCHANGED shotVars
    BY <1>14, <2>2, ContractStutter DEF Verify, ContractMode, volumeVars, shotVars, engineVars
  <2> QED BY <1>14, <2>1, <2>2 DEF Verify
<1>15. CASE CommitManifest
  <2>1. Honest(staged)
    BY <1>15 DEF CommitManifest, IInv, StagedIsHonest
  <2>2. Contract!Commit
    BY <1>1, <1>15, <2>1 DEF CommitManifest, Honest, TypeOK, Contract!Commit, ContractMode,
       volumeVars, shotVars
  <2> QED BY <2>2 DEF Contract!Next
<1>16. CASE saveCursor
  BY <1>16, ContractEnd DEF saveCursor, Contract!Next, volumeVars
<1>17. CASE UNCHANGED vars
  BY <1>17, ContractStutter DEF vars, ContractMode, volumeVars, shotVars, engineVars
<1> QED
  BY <1>2, <1>3, <1>4, <1>7, <1>8, <1>9, <1>10, <1>11, <1>12, <1>13, <1>14, <1>15, <1>16, <1>17
  DEF Next, Engine, Call

\* The chain implements BackupContract: every manifest it makes durable is, file
\* by file, right for the freeze or for the capture.
THEOREM ContractHolds == Spec => ImplementsContract
BY ContractInit, ContractStep, Inductive, PTL DEF Spec, ImplementsContract, Contract!Spec

=============================================================================
