---------------------------- MODULE MCCheckQueue ----------------------------
(* An instance of CheckQueue for TLC.                                      *)
EXTENDS CheckQueue
=============================================================================
