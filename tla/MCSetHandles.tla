---------------------------- MODULE MCSetHandles ----------------------------
(* A small instance of SetHandles for TLC: a drive, a mount point and a *)
(* directory of the drive.                                              *)
EXTENDS SetHandles, TLC

CONSTANTS drive, mount, dir, v1, v2, s1, s2, s3

MCPaths    == {drive, mount, dir}
MCVolumes  == {v1, v2}
MCVolumeAt == drive :> v1 @@ mount :> v2 @@ dir :> v1
MCIds      == {s1, s2, s3}
MCSymmetry == Permutations(MCIds)
=============================================================================
