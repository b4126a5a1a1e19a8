---------------------------- MODULE MCAttlogIngest ----------------------------
(* Small instances of AttlogIngest for TLC. *)
EXTENDS AttlogIngest, TLC

CONSTANTS x1, x2, x3, r1, r2

=============================================================================
