---------------------------- MODULE MCComWorker ----------------------------
(* Small instances of ComWorker for TLC. *)
EXTENDS ComWorker

CONSTANTS a, b, c

MCWorkers == {a, b, c}
=============================================================================
