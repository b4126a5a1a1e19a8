---------------------------- MODULE MCWorkerLease -----------------------------
(* Small instances of WorkerLease for TLC. *)
EXTENDS WorkerLease, TLC

CONSTANTS p1, p2, w1, w2, w3

Behind == [w \in Workers |-> IF w = w1 THEN 0 ELSE -1]
InStep == [w \in Workers |-> 0]
Symmetry == Permutations(Punches) \cup Permutations(Workers \ {w1})

=============================================================================
