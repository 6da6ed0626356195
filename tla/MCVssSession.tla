---------------------------- MODULE MCVssSession ----------------------------
(* Small instances of VssSession for TLC. *)
EXTENDS VssSession, TLC

CONSTANTS v1, v2, w1, w2, g1, g2

MCVolumes  == {v1, v2}
MCWriters  == {w1, w2}
MCClosers  == {g1, g2}
MCSymmetry == Permutations(MCVolumes) \cup Permutations(MCWriters) \cup Permutations(MCClosers)
=============================================================================
