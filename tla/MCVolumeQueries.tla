-------------------------- MODULE MCVolumeQueries --------------------------
(* Small instances of VolumeQueries for TLC. *)
EXTENDS VolumeQueries

\* One run, two runs that a defragmentation merges, holes first, between and
\* last, the volume's first cluster, and more runs than two replies hold.
MCLayouts == {<< >>, <<0, 1, 2>>, <<Hole, 2, 0>>, <<1, Hole, 0>>, <<0, Hole, Hole>>}

MCListed ==
    {<< >>} \cup
    {[n \in 1..k |-> [name |-> n, guid |-> n # odd, mount |-> IF n = k THEN "" ELSE "C:"]] :
        k \in 1..3, odd \in 0..2}
=============================================================================
