--------------------------- MODULE MCShadowCopies ---------------------------
(* A small instance of ShadowCopies for TLC: one device name, so that it is *)
(* recycled at once.                                                        *)
EXTENDS ShadowCopies, TLC

CONSTANTS s1, s2, d1, p1, p2

MCIds      == {s1, s2}
MCDevices  == {d1}
MCProcs    == {p1, p2}
MCSymmetry == Permutations(Ids) \cup Permutations(Procs)
=============================================================================
