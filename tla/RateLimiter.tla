----------------------------- MODULE RateLimiter ------------------------------
(***************************************************************************)
(* The fixed-window rate limiter (middleware/rateLimit.ts), for all keys of    *)
(* all its instances: an entry is a count and the time until resetAt.          *)
(*                                                                           *)
(* The code drops an expired entry when it next looks at it, or when its timer  *)
(* sweeps; an expired entry and none are the same to every caller, so Tick      *)
(* drops it at once.                                                           *)
(***************************************************************************)
EXTENDS Naturals

CONSTANTS
  Keys,
  Limit,   \* opts.max of the limiter of a key
  Window   \* its opts.windowMs, in units of time

ASSUME LimiterAssumption == Limit \in [Keys -> Nat \ {0}] /\ Window \in [Keys -> Nat \ {0}]

VARIABLES
  count,   \* 0: there is no entry
  left     \* time until resetAt

limiter == <<count, left>>

LimiterInit ==
  /\ count = [k \in Keys |-> 0]
  /\ left = [k \in Keys |-> 0]

LimiterTypeOK ==
  /\ count \in [Keys -> Nat] /\ left \in [Keys -> Nat]
  /\ \A k \in Keys : left[k] <= Window[k]

\* check (it might let one more through)
AllowedOnceMore(k) == count[k] <= Limit[k]
AllowedBelow(k) == count[k] < Limit[k]
Allowed(k) == AllowedBelow(k)

\* hit, for each of some keys.  A window begins with the first (it might be extended
\* by each).
Extended(k) == left[k] + Window[k]
Begins(k) == IF left[k] = 0 THEN Window[k] ELSE left[k]
LeftAfterHit(k) == Begins(k)

Hit(hits) ==
  /\ count' = [k \in Keys |-> IF k \in hits THEN count[k] + 1 ELSE count[k]]
  /\ left' = [k \in Keys |-> IF k \in hits THEN LeftAfterHit(k) ELSE left[k]]

\* reset
Forget(key) ==
  /\ count' = [count EXCEPT ![key] = 0]
  /\ left' = [left EXCEPT ![key] = 0]

\* What is left of an entry when resetAt comes: everything; nothing.
Kept(k) == count[k]
Expired(k) == IF left[k] <= 1 THEN 0 ELSE count[k]

Tick ==
  /\ left' = [k \in Keys |-> IF left[k] = 0 THEN 0 ELSE left[k] - 1]
  /\ count' = [k \in Keys |-> Expired(k)]

=============================================================================
