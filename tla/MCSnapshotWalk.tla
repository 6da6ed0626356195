--------------------------- MODULE MCSnapshotWalk ---------------------------
(* Small instances of SnapshotWalk for TLC. *)
EXTENDS SnapshotWalk

\* At most one rule: another one only adds to what is excluded.
OneRule ==
    {{}} \cup {{r} : r \in {q \in Rules : Cardinality(q.names) = IF q.all THEN 0 ELSE 1}}
=============================================================================
