---------------------------- MODULE MCVssDemoUsn ----------------------------
(* A small instance of VssDemoUsn for TLC. *)
EXTENDS VssDemoUsn

CONSTANTS f1, c1

MCFiles    == {f1}
MCContents == {Absent, c1}
=============================================================================
