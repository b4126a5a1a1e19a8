------------------------------ MODULE MCSessions ------------------------------
(* Small instances of Sessions for TLC. *)
EXTENDS Sessions

CONSTANTS e1, e2, ip, ipSignup, b, c, d

\* Everybody comes from the same address; at most two failures per email, three
\* per address, one signup.
OneAddress == [x \in Clients |-> ip]
OneSignupKey == [x \in Clients |-> ipSignup]
SmallLimits == [k \in Keys |-> IF k = ip THEN 2 ELSE 1]
SmallWindows == [k \in Keys |-> IF k = ip THEN 1 ELSE 2]

=============================================================================
