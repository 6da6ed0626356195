----------------------------- MODULE MCUsnChain -----------------------------
(* Small instances of UsnChain for TLC. *)
EXTENDS UsnChain, TLC

CONSTANTS f1, f2, c1

MCFiles    == {f1, f2}
MCContents == {Absent, c1}
MCSymmetry == Permutations(MCFiles)
=============================================================================
