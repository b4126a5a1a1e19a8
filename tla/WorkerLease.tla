----------------------------- MODULE WorkerLease ------------------------------
(***************************************************************************)
(* How long a claim protects a record (worker.ts).  A worker claims a batch  *)
(* under one lease and dispatches its records one after the other, each      *)
(* dispatch lasting up to the webhook timeout; nothing renews the lease.     *)
(* The same rows as in PunchDelivery, with a clock instead of the four       *)
(* values of nextAttemptAt and without what is written besides it.           *)
(*                                                                           *)
(* Time is the database's now(), in units of the instance's choice.  Only a   *)
(* dispatch takes time: Timeout stands for the longest a record keeps the     *)
(* worker, the abort timer and its statements together.                      *)
(***************************************************************************)
EXTENDS Integers, FiniteSets

CONSTANTS
  Punches, Workers,
  BatchSize,    \* config.workerBatchSize
  Lease,        \* CLAIM_LEASE_MS
  Timeout,      \* PlatformSettings.webhookTimeoutMs
  Backoff,      \* the shortest entry of BACKOFF_SCHEDULE_MS
  Ahead,        \* Ahead[w]: how far the clock of worker w is ahead of now()
  NoPunch,
  MaxRetries,   \* bound: "Retry now" clicks
  MaxTime       \* bound: the clock

ASSUME ClockAssumption ==
  /\ BatchSize \in Nat \ {0}
  /\ Lease \in Nat /\ Timeout \in Nat \ {0} /\ Backoff \in Nat /\ MaxTime \in Nat
  /\ MaxRetries \in Nat
  /\ Ahead \in [Workers -> Int]
ASSUME PunchesAssumption == IsFiniteSet(Punches) /\ NoPunch \notin Punches
ASSUME WorkersAssumption == IsFiniteSet(Workers)

VARIABLES
  now,       \* the database's clock
  next,      \* next[p]: nextAttemptAt
  delivered, \* the rows with webhookDelivered
  parked,    \* the rows with PARKED_NEXT_ATTEMPT
  left,      \* left[w]: the claimed ids worker w has not looked at yet
  cur,       \* cur[w]: the record it is dispatching
  since,     \* since[w]: when that dispatch began
  disturbed, \* history: disturbed[p]: how often p was retried in a worker's hands
  retries    \* how much of the bound is used

vars == <<now, next, delivered, parked, left, cur, since, disturbed, retries>>

Init ==
  /\ now = 0
  /\ next = [p \in Punches |-> 0]
  /\ delivered = {} /\ parked = {}
  /\ left = [w \in Workers |-> {}]
  /\ cur = [w \in Workers |-> NoPunch]
  /\ since = [w \in Workers |-> 0]
  /\ disturbed = [p \in Punches |-> 0]
  /\ retries = 0

Holds(w, p) == p \in left[w] \/ cur[w] = p
Holders(p) == {w \in Workers : Holds(w, p)}

\* The WHERE clause of claimBatch, and what is left of it when a bug forgets the
\* date.
DueOrNot == Punches \ (delivered \cup parked)
Due == {p \in Punches \ (delivered \cup parked) : next[p] <= now}

LeaseEnd(w) == now + Ahead[w] + Lease

\* claimBatch: at most BatchSize due rows, leased from the worker's own clock.
Claim(w, ids) ==
  /\ left[w] = {} /\ cur[w] = NoPunch
  /\ ids # {}
  /\ \/ ids = Due /\ Cardinality(ids) <= BatchSize
     \/ Cardinality(ids) = BatchSize
  /\ left' = [left EXCEPT ![w] = ids]
  /\ next' = [p \in Punches |-> IF p \in ids THEN LeaseEnd(w) ELSE next[p]]
  /\ UNCHANGED <<now, delivered, parked, cur, since, disturbed, retries>>

\* processPunchRecord starts; it does not look at the lease again.
Begin(w, p) ==
  /\ cur[w] = NoPunch
  /\ p \in left[w]
  /\ left' = [left EXCEPT ![w] = @ \ {p}]
  /\ cur' = [cur EXCEPT ![w] = p]
  /\ since' = [since EXCEPT ![w] = now]
  /\ UNCHANGED <<now, next, delivered, parked, disturbed, retries>>

\* The attempt is recorded: delivered, parked, or due again after the backoff.
Finish(w) ==
  /\ cur[w] # NoPunch
  /\ cur' = [cur EXCEPT ![w] = NoPunch]
  /\ \/ /\ delivered' = delivered \cup {cur[w]}
        /\ UNCHANGED <<parked, next>>
     \/ /\ parked' = parked \cup {cur[w]}
        /\ UNCHANGED <<delivered, next>>
     \/ /\ next' = [next EXCEPT ![cur[w]] = now + Ahead[w] + Backoff]
        /\ parked' = parked \ {cur[w]}
        /\ UNCHANGED delivered
  /\ UNCHANGED <<now, left, since, disturbed, retries>>

\* The batch is abandoned (a shutdown) or the process dies with it.
Abandon(w) ==
  /\ left[w] # {} \/ cur[w] # NoPunch
  /\ left' = [left EXCEPT ![w] = {}]
  /\ cur' = [cur EXCEPT ![w] = NoPunch]
  /\ UNCHANGED <<now, next, delivered, parked, since, disturbed, retries>>

\* resetForRetry makes the row due at once, whoever holds it.
Retry(p) ==
  /\ retries < MaxRetries
  /\ retries' = retries + 1
  /\ next' = [next EXCEPT ![p] = now]
  /\ parked' = parked \ {p}
  /\ disturbed' = IF Holders(p) = {} THEN disturbed ELSE [disturbed EXCEPT ![p] = @ + 1]
  /\ UNCHANGED <<now, delivered, left, cur, since>>

\* Time passes while nobody has to act: the abort timer ends a dispatch, and a
\* worker goes from one record of its batch to the next at once.
Tick ==
  /\ now < MaxTime
  /\ \A w \in Workers : IF cur[w] = NoPunch THEN left[w] = {} ELSE now < since[w] + Timeout
  /\ now' = now + 1
  /\ UNCHANGED <<next, delivered, parked, left, cur, since, disturbed, retries>>

Next ==
  \/ \E w \in Workers :
       \/ \E ids \in SUBSET Due : Claim(w, ids)
       \/ \E p \in Punches : Begin(w, p)
       \/ Finish(w)
       \/ Abandon(w)
  \/ \E p \in Punches : Retry(p)
  \/ Tick

Spec == Init /\ [][Next]_vars

-----------------------------------------------------------------------------

TypeOK ==
  /\ now \in Nat
  /\ next \in [Punches -> Int]
  /\ delivered \subseteq Punches
  /\ parked \subseteq Punches
  /\ left \in [Workers -> SUBSET Punches]
  /\ cur \in [Workers -> Punches \cup {NoPunch}]
  /\ since \in [Workers -> Nat]
  /\ disturbed \in [Punches -> Nat]
  /\ retries \in Nat

\* A record is in the hands of one worker, and of one more for each time somebody
\* retried it there (resetForRetry ends the lease of a record in flight): as long as a
\* whole batch fits into its lease.
OneHolderPerRetry == \A p \in Punches : Cardinality(Holders(p)) <= 1 + disturbed[p]

\* What worker.ts says of the lease: no second worker double-sends a punch that
\* is in flight.
OneSender ==
  \A w, v \in Workers : cur[w] # NoPunch /\ cur[w] = cur[v] => w = v

\* The time worker w still needs for its batch, p in it, is covered by p's lease.  Of
\* all that hold a record one at most is more than its retries account for, and that
\* one is covered: what OneHolderPerRetry needs to be inductive.
Covered(w, p) ==
  LET rest == Cardinality(left[w]) * Timeout
      from == IF cur[w] = NoPunch THEN now ELSE since[w] + Timeout
  IN from + rest < next[p]
SomeCovered(p) == \E w \in Holders(p) : Covered(w, p)
InTime(w) ==
  /\ cur[w] \notin left[w]
  /\ cur[w] # NoPunch => since[w] <= now /\ now <= since[w] + Timeout
LeaseInv ==
  /\ \A w \in Workers : InTime(w)
  /\ \A p \in Punches : Cardinality(Holders(p)) <= disturbed[p] + IF SomeCovered(p) THEN 1 ELSE 0

=============================================================================
