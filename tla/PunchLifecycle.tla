---------------------------- MODULE PunchLifecycle ----------------------------
(***************************************************************************)
(* What the delivery of punches promises about each of them, without its     *)
(* workers, leases, settings and dates: a punch is open for delivery or held *)
(* from the moment it arrives; only a release opens a held one; only an open *)
(* or delivered one is tried, one recorded attempt at a time; a delivered    *)
(* one stays delivered until it is forgotten.  PunchDelivery implements it.  *)
(***************************************************************************)
EXTENDS Naturals

CONSTANT Punches

VARIABLES
  phase,  \* "absent", "held", "open", "delivered" or "gone"
  tries   \* recorded attempts

vars == <<phase, tries>>

Init ==
  /\ phase = [p \in Punches |-> "absent"]
  /\ tries = [p \in Punches |-> 0]

Move(ids, to) == phase' = [p \in Punches |-> IF p \in ids THEN to ELSE phase[p]]

\* One upload: all its punches are open, or all are held.
Arrive(ids, to) ==
  /\ \A p \in ids : phase[p] = "absent"
  /\ Move(ids, to)
  /\ UNCHANGED tries

Release(ids) ==
  /\ \A p \in ids : phase[p] = "held"
  /\ Move(ids, "open")
  /\ UNCHANGED tries

Try(p, ok) ==
  /\ phase[p] \in {"open", "delivered"}
  /\ Move({p}, IF ok THEN "delivered" ELSE phase[p])
  /\ tries' = [tries EXCEPT ![p] = @ + 1]

Forget(ids) ==
  /\ \A p \in ids : phase[p] \in {"held", "open", "delivered"}
  /\ Move(ids, "gone")
  /\ tries' = [p \in Punches |-> IF p \in ids THEN 0 ELSE tries[p]]

Next ==
  \/ \E ids \in SUBSET Punches :
       \/ \E to \in {"open", "held"} : Arrive(ids, to)
       \/ Release(ids)
       \/ Forget(ids)
  \/ \E p \in Punches, ok \in BOOLEAN : Try(p, ok)

Spec == Init /\ [][Next]_vars

=============================================================================
