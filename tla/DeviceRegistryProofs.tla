------------------------- MODULE DeviceRegistryProofs -------------------------
(* Theorems about DeviceRegistry. *)
EXTENDS DeviceRegistry, TLAPS

\* Every variable keeps its type; in particular no device and no pending row
\* belongs to a company that has been deleted.
THEOREM TypeCorrect == Spec => []TypeOK
<1>1. Init => TypeOK
  BY DEF Init, TypeOK
<1>2. TypeOK /\ [Next]_vars => TypeOK'
  <2> SUFFICES ASSUME TypeOK, [Next]_vars PROVE TypeOK'
    OBVIOUS
  <2> USE DEF TypeOK, theDevice, pending, pingLog, pings, claims
  <2>1. ASSUME NEW k \in Pings, NEW s \in Secrets, NEW c \in Companies \cup {None},
               Lookup(k, s, c)
        PROVE  TypeOK'
    BY <2>1 DEF Lookup, Go
  <2>2. ASSUME NEW k \in Pings, ResolveSlug(k) PROVE TypeOK'
    BY <2>2 DEF ResolveSlug, Go
  <2>3. ASSUME NEW k \in Pings, CreateRow(k) PROVE TypeOK'
    BY <2>3 DEF CreateRow, Go
  <2>5. ASSUME NEW k \in Pings, AdoptSecret(k) PROVE TypeOK'
    BY <2>5 DEF AdoptSecret, Go, FirstWriteWins
  <2>6. ASSUME NEW k \in Pings, AdoptCompany(k) PROVE TypeOK'
    <3>1. /\ rowCompany' \in companies' \cup {None}
          /\ companies' \subseteq Companies
          /\ owner' \in companies' \cup {None}
      BY <2>6 DEF AdoptCompany, FirstWriteWins
    <3>2. excused' \subseteq Nat
      <4>1. {isNew[k]} \subseteq Nat
        OBVIOUS
      <4> DEFINE cut == row # 0 /\ rowCompany = None /\ company[k] \notin companies
      <4>2. CASE cut
        <5>1. excused' = excused \cup ({isNew[k]} \ {0})
          BY <2>6, <4>2, Zenon DEF AdoptCompany
        <5> QED
          BY <4>1, <5>1
      <4>3. CASE ~cut
        BY <2>6, <4>3 DEF AdoptCompany
      <4> QED
        BY <4>2, <4>3
    <3>3. /\ pc' \in [Pings -> {"idle", "slug", "create", "secret", "company", "log"}]
          /\ secret' \in [Pings -> Secrets \cup {None}]
          /\ slug' \in [Pings -> Companies \cup {None}]
          /\ company' \in [Pings -> Companies \cup {None}]
          /\ isNew' \in [Pings -> Nat]
      BY <2>6 DEF AdoptCompany, Go, Leave
    <3> QED
      BY <2>6, <3>1, <3>2, <3>3 DEF AdoptCompany
  <2>7. ASSUME NEW k \in Pings, Log(k) PROVE TypeOK'
    BY <2>7 DEF Log, Logged, Leave
  <2>8. ASSUME NEW k \in Pings, PingFails(k) PROVE TypeOK'
    <3>1. /\ pc' \in [Pings -> {"idle", "slug", "create", "secret", "company", "log"}]
          /\ secret' \in [Pings -> Secrets \cup {None}]
          /\ slug' \in [Pings -> Companies \cup {None}]
          /\ company' \in [Pings -> Companies \cup {None}]
          /\ isNew' \in [Pings -> Nat]
      BY <2>8 DEF PingFails, Leave
    <3>2. excused' \subseteq Nat /\ faults' \in Nat
      <4>1. {isNew[k]} \subseteq Nat /\ faults + 1 \in Nat
        OBVIOUS
      <4>2. /\ excused' = excused \cup ({isNew[k]} \ {0})
            /\ faults' = faults + 1
        BY <2>8, Zenon DEF PingFails
      <4> QED
        BY <4>1, <4>2
    <3> QED
      BY <2>8, <3>1, <3>2 DEF PingFails
  <2>9. ASSUME NEW a \in Claims, ReadPending(a) PROVE TypeOK'
    BY <2>9 DEF ReadPending
  <2>10. ASSUME NEW a \in Claims, NEW c \in Companies, CommitClaim(a, c) PROVE TypeOK'
    BY <2>10 DEF CommitClaim, NoRow
  <2>11. ASSUME NEW s \in Secrets, ChangeSecret(s) PROVE TypeOK'
    BY <2>11 DEF ChangeSecret
  <2>12. ASSUME NEW s \in Secrets, NEW c \in Companies, CreateDevice(s, c) PROVE TypeOK'
    BY <2>12 DEF CreateDevice
  <2>13. CASE DeleteDevice
    BY <2>13 DEF DeleteDevice, NoDevice
  <2>14. CASE Dismiss
    BY <2>14 DEF Dismiss, NoRow
  <2>15. CASE Sweep
    BY <2>15 DEF Sweep
  <2>16. ASSUME NEW c \in Companies, DeleteCompany(c) PROVE TypeOK'
    BY <2>16 DEF DeleteCompany, CascadeToRow, NoDevice, NoRow
  <2>17. CASE UNCHANGED vars
    BY <2>17 DEF vars
  <2> QED
    BY <2>1, <2>2, <2>3, <2>5, <2>6, <2>7, <2>8, <2>9, <2>10, <2>11, <2>12, <2>13, <2>14,
       <2>15, <2>16, <2>17
    DEF Next, PingAgain, HandlePing
<1> QED
  BY <1>1, <1>2, PTL DEF Spec

\* First write wins, whatever pings are under way: the compare-and-set updates of
\* upsertPendingDevice never overwrite a secret or a company on file.
THEOREM NothingIsOverwritten == Spec => NeverOverwritten
<1> DEFINE Kept ==
      row' = row /\ row # 0 =>
        /\ rowSecret # None => rowSecret' = rowSecret
        /\ rowCompany # None => rowCompany' = rowCompany
<1>1. [Next]_vars => [Kept]_vars
  <2> SUFFICES ASSUME Next PROVE Kept
    BY DEF vars
  <2> USE DEF pending
  <2>1. ASSUME NEW k \in Pings, HandlePing(k) \/ PingFails(k) PROVE Kept
    BY <2>1
    DEF HandlePing, PingFails, ResolveSlug, CreateRow, AdoptSecret, AdoptCompany, Log,
        FirstWriteWins
  <2>2. ASSUME PingAgain PROVE Kept
    BY <2>2 DEF PingAgain, Lookup
  <2>3. ASSUME NEW a \in Claims, ReadPending(a) \/ \E c \in Companies : CommitClaim(a, c)
        PROVE  Kept
    BY <2>3 DEF ReadPending, CommitClaim, NoRow
  <2>4. ASSUME NEW s \in Secrets, ChangeSecret(s) \/ \E c \in Companies : CreateDevice(s, c)
        PROVE  Kept
    BY <2>4 DEF ChangeSecret, CreateDevice
  <2>5. CASE DeleteDevice \/ Dismiss \/ Sweep
    BY <2>5 DEF DeleteDevice, Dismiss, NoRow, Sweep
  <2>6. ASSUME NEW c \in Companies, DeleteCompany(c) PROVE Kept
    BY <2>6 DEF DeleteCompany, CascadeToRow, NoRow
  <2> QED
    BY <2>1, <2>2, <2>3, <2>4, <2>5, <2>6 DEF Next
<1> QED
  BY <1>1, PTL DEF Spec, NeverOverwritten

\* The inductive invariant: what a claim has read is still so, and every first
\* contact is accounted for.
THEOREM RegistryInvariant == Spec => []RegistryInv
<1>1. Init => RegistryInv
  BY DEF Init, RegistryInv, ReadStaysTrue, FirstContactAccounted
<1>2. TypeOK /\ RegistryInv /\ [Next]_vars => RegistryInv'
  <2> SUFFICES ASSUME TypeOK, RegistryInv, [Next]_vars PROVE RegistryInv'
    OBVIOUS
  <2> USE DEF TypeOK, RegistryInv, ReadStaysTrue, FirstContactAccounted
  <2> USE DEF theDevice, pending, pingLog, pings, claims
  <2>1. ASSUME NEW k \in Pings, NEW s \in Secrets, NEW c \in Companies \cup {None},
               Lookup(k, s, c)
        PROVE  RegistryInv'
    BY <2>1 DEF Lookup, Go
  <2>2. ASSUME NEW k \in Pings, ResolveSlug(k) PROVE RegistryInv'
    BY <2>2 DEF ResolveSlug, Go
  <2>3. ASSUME NEW k \in Pings, CreateRow(k) PROVE RegistryInv'
    BY <2>3 DEF CreateRow, Go
  <2>5. ASSUME NEW k \in Pings, AdoptSecret(k) PROVE RegistryInv'
    BY <2>5 DEF AdoptSecret, Go, FirstWriteWins
  <2>6. ASSUME NEW k \in Pings, AdoptCompany(k) PROVE RegistryInv'
    BY <2>6 DEF AdoptCompany, Go, FirstWriteWins, Leave
  <2>7. ASSUME NEW k \in Pings, Log(k) PROVE RegistryInv'
    BY <2>7 DEF Log, Logged, Leave
  <2>8. ASSUME NEW k \in Pings, PingFails(k) PROVE RegistryInv'
    BY <2>8 DEF PingFails, Leave
  <2>9. ASSUME NEW a \in Claims, ReadPending(a) PROVE RegistryInv'
    BY <2>9 DEF ReadPending
  <2>10. ASSUME NEW a \in Claims, NEW c \in Companies, CommitClaim(a, c) PROVE RegistryInv'
    BY <2>10 DEF CommitClaim, NoRow
  <2>11. ASSUME NEW s \in Secrets, ChangeSecret(s) PROVE RegistryInv'
    BY <2>11 DEF ChangeSecret
  <2>12. ASSUME NEW s \in Secrets, NEW c \in Companies, CreateDevice(s, c) PROVE RegistryInv'
    BY <2>12 DEF CreateDevice
  <2>13. CASE DeleteDevice
    BY <2>13 DEF DeleteDevice
  <2>14. CASE Dismiss
    BY <2>14 DEF Dismiss, NoRow
  <2>15. CASE Sweep
    BY <2>15 DEF Sweep
  <2>16. ASSUME NEW c \in Companies, DeleteCompany(c) PROVE RegistryInv'
    BY <2>16 DEF DeleteCompany, CascadeToRow, NoRow
  <2>17. CASE UNCHANGED vars
    BY <2>17 DEF vars
  <2> QED
    BY <2>1, <2>2, <2>3, <2>5, <2>6, <2>7, <2>8, <2>9, <2>10, <2>11, <2>12, <2>13, <2>14,
       <2>15, <2>16, <2>17
    DEF Next, PingAgain, HandlePing
<1> QED
  BY <1>1, <1>2, TypeCorrect, PTL DEF Spec

\* What a claim has read is still the row's secret when it commits.
COROLLARY ClaimsReadTrue == Spec => []ReadStaysTrue
<1>1. RegistryInv => ReadStaysTrue
  BY DEF RegistryInv
<1> QED
  BY <1>1, RegistryInvariant, PTL

\* The first contact of every pending row is accounted for.
COROLLARY FirstContacts == Spec => []FirstContactAccounted
<1>1. RegistryInv => FirstContactAccounted
  BY DEF RegistryInv
<1> QED
  BY <1>1, RegistryInvariant, PTL

=============================================================================
