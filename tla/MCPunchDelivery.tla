--------------------------- MODULE MCPunchDelivery ---------------------------
(* Small instances of PunchDelivery for TLC. *)
EXTENDS PunchDelivery, TLC

CONSTANTS p1, p2, d1, w1, w2

OneDevice == [p \in Punches |-> d1]
PunchSymmetry == Permutations(Punches)
WorkerSymmetry == Permutations(Workers)

=============================================================================
