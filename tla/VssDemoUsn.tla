----------------------------- MODULE VssDemoUsn -----------------------------
(***************************************************************************)
(* The chain driven by hand with `vssdemo usn`: the command prints, as the *)
(* "cursor to persist", the cursor of Snapshot.USNJournal, the journal of  *)
(* the mounted shadow copy; the operator feeds it back on the next run.    *)
(***************************************************************************)
EXTENDS UsnChain

\* The operator keeps what the command told him to keep.
PersistPrintedCursor ==
    /\ pc = "committed"
    /\ cursor' = shadow
    /\ SessionEnds
    /\ UNCHANGED <<volumeVars, result, manifest, dropped>>

DemoNext ==
    \/ Volume \/ captureLiveUSNCursor \/ DoSnapshotSet \/ Call
    \/ ApplyChanges \/ FullWalk \/ Verify \/ CommitManifest
    \/ PersistPrintedCursor \/ ReadCanceled \/ Crash

DemoSpec == Init /\ [][DemoNext]_vars

\* main.go:137 "cursor to persist": a chain that persists it loses no change once
\* the journal has reached that cursor, so that the next run accepts it.
PrintedCursorLosesNothing == cursor.next <= nextUsn => NoChangeLost
=============================================================================
