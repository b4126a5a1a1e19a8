---------------------------- MODULE MCCommandQueue ----------------------------
(* Small instances of CommandQueue for TLC. *)
EXTENDS CommandQueue

CONSTANTS c1, c2, c3, q1, q2

=============================================================================
