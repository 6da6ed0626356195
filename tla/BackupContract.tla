--------------------------- MODULE BackupContract ---------------------------
(***************************************************************************)
(* What an incremental-backup chain promises, without journal, cursor or   *)
(* session: a backup looks at the volume twice, at the capture and at the  *)
(* freeze, and the manifest it commits is right, file by file, for one of  *)
(* the two: it is what the snapshot holds, or an old entry that was still  *)
(* right at the capture.  An entry may be missing because the file could   *)
(* not be looked up in the snapshot that held it: the contract keeps the   *)
(* account of these.                                                       *)
(***************************************************************************)
CONSTANTS Files, Contents, Absent

VARIABLES
    live,       \* content of every file on the volume
    mode,       \* where the running backup is
    base,       \* the volume at the capture
    snap,       \* the volume at the freeze
    manifest,   \* what the last completed backup recorded
    dropped     \* files it lacks because their lookup failed

vars == <<live, mode, base, snap, manifest, dropped>>

Blank == [f \in Files |-> Absent]

Init ==
    /\ live \in [Files -> Contents]
    /\ mode = "idle" /\ base = Blank /\ snap = Blank /\ manifest = Blank
    /\ dropped = {}

Change ==
    /\ live' \in [Files -> Contents]
    /\ UNCHANGED <<mode, base, snap, manifest, dropped>>

Capture ==
    /\ mode = "idle" /\ mode' = "captured" /\ base' = live
    /\ UNCHANGED <<live, snap, manifest, dropped>>

Freeze ==
    /\ mode = "captured" /\ mode' = "frozen" /\ snap' = live
    /\ UNCHANGED <<live, base, manifest, dropped>>

\* Dropping is of files the snapshot holds, and lasts until a backup looks the
\* file up again.
Commit ==
    /\ mode = "frozen" /\ mode' = "committed"
    /\ manifest' \in [Files -> Contents] /\ dropped' \in SUBSET Files
    /\ \A f \in Files :
        \/ f \notin dropped' /\ manifest'[f] = snap[f]
        \/ f \notin dropped' /\ manifest'[f] = manifest[f] /\ manifest[f] = base[f]
        \/ f \in dropped' /\ manifest'[f] = Absent /\ (f \in dropped \/ snap[f] # Absent)
    /\ UNCHANGED <<live, base, snap>>

\* A backup that ends, committed or not, leaves only the manifest behind.
End ==
    /\ mode # "idle" /\ mode' = "idle" /\ base' = Blank /\ snap' = Blank
    /\ UNCHANGED <<live, manifest, dropped>>

Next == Change \/ Capture \/ Freeze \/ Commit \/ End

Spec == Init /\ [][Next]_vars
=============================================================================
