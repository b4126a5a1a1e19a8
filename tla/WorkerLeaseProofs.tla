-------------------------- MODULE WorkerLeaseProofs ---------------------------
(***************************************************************************)
(* When a whole batch fits into its lease, a record is held by one worker and *)
(* one more for each retry of it in flight, for any number of workers and       *)
(* records, any batch size, lease, timeout and backoff, and whatever the clocks  *)
(* show.                                                                      *)
(***************************************************************************)
EXTENDS WorkerLease, FiniteSetTheorems, TLAPS

\* What a deployment has to guarantee: the longest batch ends before its lease,
\* also on a worker whose clock is behind the database's.
BatchFits == \A w \in Workers : BatchSize * Timeout < Ahead[w] + Lease

LEMMA Products ==
  /\ \A k \in Nat : (k + 1) * Timeout = k * Timeout + Timeout
  /\ \A k \in Nat : k <= BatchSize => k * Timeout <= BatchSize * Timeout
  /\ \A k \in Nat : k * Timeout \in Nat
<1>1. Timeout \in Nat /\ BatchSize \in Nat
  BY ClockAssumption
<1>2. ASSUME NEW k \in Nat, k <= BatchSize PROVE k * Timeout <= BatchSize * Timeout
  <2>1. PICK d \in Nat : BatchSize = k + d
    BY <1>1, <1>2
  <2>2. (k + d) * Timeout = k * Timeout + d * Timeout /\ d * Timeout >= 0
    BY <1>1
  <2> QED BY <1>1, <2>1, <2>2
<1> QED BY <1>1, <1>2

LEMMA Leftovers ==
  ASSUME TypeOK, NEW w \in Workers
  PROVE  /\ IsFiniteSet(left[w]) /\ Cardinality(left[w]) \in Nat
         /\ \A p \in left[w] : Cardinality(left[w]) = Cardinality(left[w] \ {p}) + 1
         /\ \A p \in left[w] : Cardinality(left[w] \ {p}) \in Nat
<1>1. IsFiniteSet(left[w])
  BY PunchesAssumption, FS_Subset DEF TypeOK
<1>2. Cardinality(left[w]) \in Nat
  BY <1>1, FS_CardinalityType
<1> QED BY <1>1, <1>2, FS_RemoveElement, FS_CardinalityType, FS_Subset

\* Every variable keeps its type.
THEOREM LeaseTypes == Spec => []TypeOK
<1>1. Init => TypeOK
  BY DEF Init, TypeOK
<1>2. TypeOK /\ [Next]_vars => TypeOK'
  <2> SUFFICES ASSUME TypeOK, [Next]_vars PROVE TypeOK'
    OBVIOUS
  <2> USE ClockAssumption DEF TypeOK
  <2>1. ASSUME NEW w \in Workers, NEW ids \in SUBSET Due, Claim(w, ids)
        PROVE  TypeOK'
    <3>1. LeaseEnd(w) \in Int
      BY DEF LeaseEnd
    <3> HIDE DEF LeaseEnd
    <3> QED BY <2>1, <3>1 DEF Claim, Due
  <2>2. ASSUME NEW w \in Workers, NEW p \in Punches, Begin(w, p)
        PROVE  TypeOK'
    BY <2>2 DEF Begin
  <2>3. ASSUME NEW w \in Workers, Finish(w)
        PROVE  TypeOK'
    BY <2>3 DEF Finish
  <2>4. ASSUME NEW w \in Workers, Abandon(w)
        PROVE  TypeOK'
    BY <2>4 DEF Abandon
  <2>5. ASSUME NEW p \in Punches, Retry(p)
        PROVE  TypeOK'
    BY <2>5 DEF Retry
  <2>6. CASE Tick
    BY <2>6 DEF Tick
  <2>7. CASE UNCHANGED vars
    BY <2>7 DEF vars
  <2> QED BY <2>1, <2>2, <2>3, <2>4, <2>5, <2>6, <2>7 DEF Next
<1> QED BY <1>1, <1>2, PTL DEF Spec

\* The workers that hold a record, and one fewer.
LEMMA HoldersCount ==
  ASSUME NEW S \in SUBSET Workers
  PROVE  /\ Cardinality(S) \in Nat
         /\ S = {} => Cardinality(S) = 0
         /\ \A w \in S : Cardinality(S \ {w}) = Cardinality(S) - 1
         /\ \A w \in Workers \ S : Cardinality(S \cup {w}) = Cardinality(S) + 1
<1>1. IsFiniteSet(S)
  BY WorkersAssumption, FS_Subset
<1> QED
  BY <1>1, FS_CardinalityType, FS_RemoveElement, FS_AddElement, FS_EmptySet

\* How many may hold a record.
Bounded(p) == Cardinality(Holders(p)) <= disturbed[p] + IF SomeCovered(p) THEN 1 ELSE 0

LEMMA HoldersSubset == \A p : Holders(p) \in SUBSET Workers
BY DEF Holders

\* A record that is due is covered for nobody.
LEMMA DueIsUncovered ==
  ASSUME TypeOK, LeaseInv, NEW p \in Due
  PROVE  ~SomeCovered(p)
<1> SUFFICES ASSUME NEW w \in Holders(p), Covered(w, p) PROVE FALSE
  BY DEF SomeCovered
<1>1. w \in Workers /\ p \in Punches /\ next[p] <= now
  BY DEF Holders, Due
<1> DEFINE rest == Cardinality(left[w]) * Timeout
<1>2. rest \in Nat
  BY <1>1, Leftovers, Products
<1>3. now \in Nat /\ since[w] \in Nat /\ next[p] \in Int /\ Timeout \in Nat
  BY <1>1, ClockAssumption DEF TypeOK
<1>4. (IF cur[w] = NoPunch THEN now ELSE since[w] + Timeout) + rest < next[p]
  BY DEF Covered
<1>5. cur[w] # NoPunch => now <= since[w] + Timeout
  BY <1>1 DEF LeaseInv, InTime
<1> HIDE DEF rest
<1> QED
  BY <1>1, <1>2, <1>3, <1>4, <1>5

\* A record whose holders, lease and retries this step leaves alone.
LEMMA StaysBounded ==
  ASSUME NEW p \in Punches, Bounded(p), Holders(p)' = Holders(p), disturbed'[p] = disturbed[p],
         \A w \in Holders(p) : Covered(w, p) => Covered(w, p)',
         disturbed[p] \in Nat
  PROVE  Bounded(p)'
<1>1. SomeCovered(p) => SomeCovered(p)'
  BY DEF SomeCovered
<1>2. Cardinality(Holders(p)) \in Nat
  BY HoldersCount, HoldersSubset
<1> QED
  BY <1>1, <1>2 DEF Bounded

\* A record that one worker lets go of.
LEMMA OneLess ==
  ASSUME NEW p \in Punches, Bounded(p), NEW w \in Holders(p), Holders(p)' = Holders(p) \ {w},
         disturbed'[p] = disturbed[p], disturbed[p] \in Nat
  PROVE  Bounded(p)'
<1>1. Cardinality(Holders(p)') = Cardinality(Holders(p)) - 1 /\ Cardinality(Holders(p)) \in Nat
  BY HoldersCount, HoldersSubset
<1> QED
  BY <1>1 DEF Bounded

LEMMA ClaimKeeps ==
  ASSUME BatchFits, TypeOK, LeaseInv, NEW w \in Workers, NEW ids \in SUBSET Due, Claim(w, ids)
  PROVE  LeaseInv'
<1>1. /\ left' = [left EXCEPT ![w] = ids]
      /\ next' = [p \in Punches |-> IF p \in ids THEN LeaseEnd(w) ELSE next[p]]
      /\ now' = now /\ cur' = cur /\ since' = since /\ disturbed' = disturbed
      /\ left[w] = {} /\ cur[w] = NoPunch
  BY DEF Claim
<1>2. /\ left'[w] = ids /\ cur'[w] = NoPunch
      /\ \A v \in Workers \ {w} : left'[v] = left[v]
  BY <1>1 DEF TypeOK
<1>3. ids \subseteq Punches /\ NoPunch \notin ids
  BY PunchesAssumption DEF Due
<1>4. \A v \in Workers : InTime(v)'
  BY <1>1, <1>2, <1>3 DEF LeaseInv, InTime
<1>5. ASSUME NEW p \in ids PROVE Covered(w, p)'
  <2>1. Cardinality(ids) \in Nat /\ Cardinality(ids) <= BatchSize
    <3>1. IsFiniteSet(ids)
      BY <1>3, PunchesAssumption, FS_Subset
    <3>2. Cardinality(ids) \in Nat
      BY <3>1, FS_CardinalityType
    <3>3. BatchSize \in Nat
      BY ClockAssumption
    <3> QED
      BY <3>2, <3>3 DEF Claim
  <2> DEFINE rest == Cardinality(ids) * Timeout
             batch == BatchSize * Timeout
  <2>2. rest <= batch /\ rest \in Nat /\ batch \in Nat
    BY <2>1, Products, ClockAssumption
  <2>3. batch < Ahead[w] + Lease
    BY DEF BatchFits
  <2>4. now \in Nat /\ Ahead[w] \in Int /\ Lease \in Nat
    BY ClockAssumption DEF TypeOK
  <2> HIDE DEF rest, batch
  <2>5. now + rest < LeaseEnd(w)
    BY <2>2, <2>3, <2>4 DEF LeaseEnd
  <2>6. next'[p] = LeaseEnd(w)
    BY <1>1, <1>3
  <2> QED
    BY <1>1, <1>2, <2>5, <2>6 DEF Covered, rest
<1>6. ASSUME NEW p \in Punches PROVE Bounded(p)'
  <2>1. CASE p \in ids
    <3>1. w \notin Holders(p) /\ Holders(p)' = Holders(p) \cup {w}
      BY <1>1, <1>2, <1>3, <2>1 DEF Holders, Holds
    <3>2. Cardinality(Holders(p)') = Cardinality(Holders(p)) + 1
      BY <3>1, HoldersCount, HoldersSubset
    <3>3. SomeCovered(p)'
      BY <1>5, <2>1, <3>1 DEF SomeCovered
    <3>4. Cardinality(Holders(p)) <= disturbed[p] + 0
      BY <2>1, DueIsUncovered DEF LeaseInv
    <3>5. Cardinality(Holders(p)) \in Nat /\ disturbed[p] \in Nat
      BY HoldersCount, HoldersSubset DEF TypeOK
    <3> QED
      BY <1>1, <3>2, <3>3, <3>4, <3>5 DEF Bounded
  <2>2. CASE p \notin ids
    <3>1. w \notin Holders(p) /\ Holders(p)' = Holders(p)
      BY <1>1, <1>2, <2>2, PunchesAssumption DEF Holders, Holds
    <3>2. next'[p] = next[p]
      BY <1>1, <2>2
    <3>3. \A v \in Holders(p) : Covered(v, p) => Covered(v, p)'
      BY <1>1, <1>2, <3>1, <3>2 DEF Covered, Holders
    <3> QED
      BY <1>1, <3>1, <3>3, StaysBounded DEF LeaseInv, Bounded, TypeOK
  <2> QED
    BY <2>1, <2>2
<1> QED
  BY <1>4, <1>6 DEF LeaseInv, Bounded

LEMMA BeginKeeps ==
  ASSUME TypeOK, LeaseInv, NEW w \in Workers, NEW q \in Punches, Begin(w, q)
  PROVE  LeaseInv'
<1>1. /\ left' = [left EXCEPT ![w] = left[w] \ {q}] /\ cur' = [cur EXCEPT ![w] = q]
      /\ since' = [since EXCEPT ![w] = now]
      /\ now' = now /\ next' = next /\ disturbed' = disturbed
      /\ q \in left[w] /\ cur[w] = NoPunch
  BY DEF Begin
<1>2. /\ left'[w] = left[w] \ {q} /\ cur'[w] = q /\ since'[w] = now
      /\ \A v \in Workers \ {w} : left'[v] = left[v] /\ cur'[v] = cur[v] /\ since'[v] = since[v]
  BY <1>1 DEF TypeOK
<1>3. now \in Nat /\ Timeout \in Nat
  BY ClockAssumption DEF TypeOK
<1>4. \A v \in Workers : InTime(v)'
  BY <1>1, <1>2, <1>3 DEF LeaseInv, InTime
<1>5. ASSUME NEW p \in Punches, Covered(w, p) PROVE Covered(w, p)'
  <2> DEFINE rest == Cardinality(left[w]) * Timeout
             after == Cardinality(left[w] \ {q}) * Timeout
  <2>1. rest = after + Timeout /\ after \in Nat
    BY <1>1, Leftovers, Products
  <2>2. now + rest < next[p] /\ next[p] \in Int
    BY <1>1, <1>5 DEF Covered, TypeOK
  <2>3. q # NoPunch
    BY PunchesAssumption
  <2> HIDE DEF rest, after
  <2>4. now + Timeout + after < next[p]
    BY <1>3, <2>1, <2>2
  <2> QED
    BY <1>1, <1>2, <2>3, <2>4 DEF Covered, after
<1>6. ASSUME NEW p \in Punches PROVE Bounded(p)'
  <2>1. Holders(p)' = Holders(p)
    BY <1>1, <1>2, PunchesAssumption DEF Holders, Holds
  <2>2. \A v \in Holders(p) \ {w} : Covered(v, p) => Covered(v, p)'
    BY <1>1, <1>2 DEF Covered, Holders
  <2> QED
    BY <1>1, <1>5, <2>1, <2>2, StaysBounded DEF LeaseInv, Bounded, TypeOK
<1> QED
  BY <1>4, <1>6 DEF LeaseInv, Bounded

LEMMA FinishKeeps ==
  ASSUME TypeOK, LeaseInv, NEW w \in Workers, Finish(w)
  PROVE  LeaseInv'
<1>1. /\ cur' = [cur EXCEPT ![w] = NoPunch]
      /\ now' = now /\ left' = left /\ since' = since /\ disturbed' = disturbed
      /\ cur[w] # NoPunch /\ cur[w] \in Punches /\ cur[w] \notin left[w]
      /\ \A p \in Punches : p # cur[w] => next'[p] = next[p]
  BY DEF Finish, TypeOK, LeaseInv, InTime
<1>2. cur'[w] = NoPunch /\ \A v \in Workers \ {w} : cur'[v] = cur[v]
  BY <1>1 DEF TypeOK
<1>3. \A v \in Workers : InTime(v)'
  <2>1. NoPunch \notin left[w]
    BY PunchesAssumption DEF TypeOK
  <2> QED
    BY <1>1, <1>2, <2>1 DEF LeaseInv, InTime
<1>4. ASSUME NEW p \in Punches, p # cur[w], Covered(w, p) PROVE Covered(w, p)'
  <2> DEFINE rest == Cardinality(left[w]) * Timeout
  <2>1. rest \in Nat
    BY Leftovers, Products
  <2>2. now \in Nat /\ since[w] \in Nat /\ Timeout \in Nat /\ next[p] \in Int
    BY ClockAssumption DEF TypeOK
  <2>3. since[w] + Timeout + rest < next[p] /\ now <= since[w] + Timeout
    BY <1>1, <1>4 DEF Covered, LeaseInv, InTime
  <2> HIDE DEF rest
  <2>4. now + rest < next[p]
    BY <2>1, <2>2, <2>3
  <2> QED
    BY <1>1, <1>2, <1>4, <2>4 DEF Covered, rest
<1>5. ASSUME NEW p \in Punches PROVE Bounded(p)'
  <2>0. Bounded(p) /\ disturbed'[p] = disturbed[p] /\ disturbed[p] \in Nat
    BY <1>1 DEF LeaseInv, Bounded, TypeOK
  <2>1. CASE p = cur[w]
    <3>1. w \in Holders(p) /\ Holders(p)' = Holders(p) \ {w}
      BY <1>1, <1>2, <2>1 DEF Holders, Holds
    <3> QED
      BY <2>0, <3>1, OneLess
  <2>2. CASE p # cur[w]
    <3>1. Holders(p)' = Holders(p)
      BY <1>1, <1>2, <2>2, PunchesAssumption DEF Holders, Holds
    <3>2. \A v \in Holders(p) \ {w} : Covered(v, p) => Covered(v, p)'
      BY <1>1, <1>2, <2>2 DEF Covered, Holders
    <3> QED
      BY <1>4, <2>0, <2>2, <3>1, <3>2, StaysBounded
  <2> QED
    BY <2>1, <2>2
<1> QED
  BY <1>3, <1>5 DEF LeaseInv, Bounded

LEMMA AbandonKeeps ==
  ASSUME TypeOK, LeaseInv, NEW w \in Workers, Abandon(w)
  PROVE  LeaseInv'
<1>1. /\ left' = [left EXCEPT ![w] = {}] /\ cur' = [cur EXCEPT ![w] = NoPunch]
      /\ now' = now /\ since' = since /\ disturbed' = disturbed /\ next' = next
  BY DEF Abandon
<1>2. /\ left'[w] = {} /\ cur'[w] = NoPunch
      /\ \A v \in Workers \ {w} : left'[v] = left[v] /\ cur'[v] = cur[v]
  BY <1>1 DEF TypeOK
<1>3. \A v \in Workers : InTime(v)'
  BY <1>1, <1>2 DEF LeaseInv, InTime
<1>4. ASSUME NEW p \in Punches PROVE Bounded(p)'
  <2>0. Bounded(p) /\ disturbed'[p] = disturbed[p] /\ disturbed[p] \in Nat
    BY <1>1 DEF LeaseInv, Bounded, TypeOK
  <2>1. Holders(p)' = Holders(p) \ {w}
    BY <1>2, PunchesAssumption DEF Holders, Holds
  <2>2. CASE w \in Holders(p)
    BY <2>0, <2>1, <2>2, OneLess
  <2>3. CASE w \notin Holders(p)
    <3>1. \A v \in Holders(p) : Covered(v, p) => Covered(v, p)'
      BY <1>1, <1>2, <2>3 DEF Covered, Holders
    <3> QED
      BY <2>0, <2>1, <2>3, <3>1, StaysBounded
  <2> QED
    BY <2>2, <2>3
<1> QED
  BY <1>3, <1>4 DEF LeaseInv, Bounded

LEMMA RetryKeeps ==
  ASSUME TypeOK, LeaseInv, NEW q \in Punches, Retry(q)
  PROVE  LeaseInv'
<1>1. /\ now' = now /\ left' = left /\ cur' = cur /\ since' = since
      /\ \A p \in Punches : p # q => next'[p] = next[p] /\ disturbed'[p] = disturbed[p]
      /\ disturbed'[q] = disturbed[q] + IF Holders(q) = {} THEN 0 ELSE 1
  BY DEF Retry, TypeOK
<1>2. \A v \in Workers : InTime(v)'
  BY <1>1 DEF LeaseInv, InTime
<1>3. ASSUME NEW p \in Punches PROVE Bounded(p)'
  <2>0. Bounded(p) /\ disturbed[p] \in Nat /\ Holders(p)' = Holders(p)
    BY <1>1 DEF LeaseInv, Bounded, TypeOK, Holders, Holds
  <2>1. CASE p # q
    <3>1. \A v \in Holders(p) : Covered(v, p) => Covered(v, p)'
      BY <1>1, <2>1 DEF Covered
    <3> QED
      BY <1>1, <2>0, <2>1, <3>1, StaysBounded
  <2>2. CASE p = q
    <3>1. Cardinality(Holders(p)) \in Nat /\ (Holders(p) = {} => Cardinality(Holders(p)) = 0)
      BY HoldersCount, HoldersSubset
    <3> QED
      BY <1>1, <2>0, <2>2, <3>1 DEF Bounded
  <2> QED
    BY <2>1, <2>2
<1> QED
  BY <1>2, <1>3 DEF LeaseInv, Bounded

LEMMA TickKeeps ==
  ASSUME TypeOK, LeaseInv, Tick
  PROVE  LeaseInv'
<1>1. /\ now' = now + 1 /\ left' = left /\ cur' = cur /\ since' = since
      /\ disturbed' = disturbed /\ next' = next
      /\ \A w \in Workers : IF cur[w] = NoPunch THEN left[w] = {} ELSE now < since[w] + Timeout
  BY DEF Tick
<1>2. ASSUME NEW w \in Workers PROVE InTime(w)'
  <2>1. now \in Nat /\ since[w] \in Nat /\ Timeout \in Nat
    BY ClockAssumption DEF TypeOK
  <2> QED
    BY <1>1, <2>1 DEF LeaseInv, InTime
<1>3. ASSUME NEW p \in Punches PROVE Bounded(p)'
  <2>1. Bounded(p) /\ disturbed[p] \in Nat /\ Holders(p)' = Holders(p)
    BY <1>1 DEF LeaseInv, Bounded, TypeOK, Holders, Holds
  <2>2. \A v \in Holders(p) : cur[v] # NoPunch
    BY <1>1, PunchesAssumption DEF Holders, Holds
  <2>3. \A v \in Holders(p) : Covered(v, p) => Covered(v, p)'
    BY <1>1, <2>2 DEF Covered
  <2> QED
    BY <1>1, <2>1, <2>3, StaysBounded
<1> QED
  BY <1>2, <1>3 DEF LeaseInv, Bounded

(***************************************************************************)
(* If every batch fits into its lease, a record is never in the hands of    *)
(* two workers, but for one more each time an administrator retried it there, *)
(* however the leases of those workers are overwritten meanwhile.              *)
(* worker.ts promises it of the lease unconditionally; with the defaults     *)
(* (50 records of up to 8 s under a lease of 60 s) the premise is false.     *)
(***************************************************************************)
THEOREM LeaseProtects ==
  ASSUME BatchFits
  PROVE  Spec => []OneHolderPerRetry
<1>1. Init => LeaseInv
  <2> SUFFICES ASSUME Init, NEW p \in Punches PROVE Bounded(p) /\ \A w \in Workers : InTime(w)
    BY PunchesAssumption DEF Init, LeaseInv, InTime, Bounded
  <2>1. Holders(p) = {}
    BY PunchesAssumption DEF Init, Holders, Holds
  <2>2. Cardinality(Holders(p)) = 0 /\ disturbed[p] = 0
    BY <2>1, FS_EmptySet DEF Init
  <2> QED
    BY <2>2 DEF Init, InTime, Bounded
<1>2. TypeOK /\ LeaseInv /\ [Next]_vars => LeaseInv'
  <2> SUFFICES ASSUME TypeOK, LeaseInv, [Next]_vars PROVE LeaseInv'
    OBVIOUS
  <2>1. CASE UNCHANGED vars
    BY <2>1 DEF vars, LeaseInv, InTime, SomeCovered, Covered, Holders, Holds
  <2> QED BY <2>1, ClaimKeeps, BeginKeeps, FinishKeeps, AbandonKeeps, RetryKeeps, TickKeeps DEF Next
<1>3. TypeOK /\ LeaseInv => OneHolderPerRetry
  <2>1. \A p \in Punches : Cardinality(Holders(p)) \in Nat
    BY HoldersCount, HoldersSubset
  <2> QED
    BY <2>1 DEF LeaseInv, OneHolderPerRetry, TypeOK
<1> QED BY <1>1, <1>2, <1>3, LeaseTypes, PTL DEF Spec

=============================================================================
