----------------------------- MODULE MCAdminForms -----------------------------
(* Small instances of AdminForms for TLC: an installation that has been used.  *)
EXTENDS AdminForms, TLC

CONSTANTS e1, e2, e3, p1, p2, s1, s2, h1, a, b, r1, r2

\* The seeded account, and one of a company of its own.
TwoUsers ==
  1 :> [email |-> e1, role |-> "SUPER_ADMIN", company |-> None, password |-> p1, must |-> FALSE]
  @@ 2 :> [email |-> e2, role |-> "COMPANY_ADMIN", company |-> 1, password |-> p1, must |-> FALSE]
OneCompany == 1 :> s1

Symmetry == Permutations(Requests) \cup Permutations(Tabs)

=============================================================================
