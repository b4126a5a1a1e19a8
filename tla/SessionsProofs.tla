---------------------------- MODULE SessionsProofs ----------------------------
(***************************************************************************)
(* For any number of clients and any limits: the types of Sessions, the bound  *)
(* on failed logins and signups, and what a panel shows.                       *)
(***************************************************************************)
EXTENDS Sessions, FiniteSetTheorems, TLAPS

USE ClientsAssumption, LimiterAssumption

AllCalls == {"login", "signup", "me", "logout"}

\* TypeOK, and the types of the history variables.
Types ==
  /\ TypeOK
  /\ mixed \in [Panels -> SUBSET AllCalls]
  /\ doubtful \in [Panels -> BOOLEAN]

-----------------------------------------------------------------------------
(* Types. *)

LEMMA HitTypes ==
  ASSUME LimiterTypeOK, NEW hits, Hit(hits)
  PROVE  LimiterTypeOK'
BY DEF LimiterTypeOK, Hit, LeftAfterHit, Begins

LEMMA ForgetTypes ==
  ASSUME LimiterTypeOK, NEW key, Forget(key)
  PROVE  LimiterTypeOK'
<1>1. count' \in [Keys -> Nat] /\ left' \in [Keys -> Nat]
  BY DEF LimiterTypeOK, Forget
<1>2. \A k \in Keys : left'[k] <= left[k]
  BY DEF LimiterTypeOK, Forget
<1> QED
  BY <1>1, <1>2 DEF LimiterTypeOK

LEMMA TickTypes ==
  ASSUME LimiterTypeOK, Tick
  PROVE  LimiterTypeOK'
BY DEF LimiterTypeOK, Tick, Expired

\* What an answer of /me says.
LEMMA MeType ==
  ASSUME TypeOK, NEW b \in Panels, me[b] # <<>>
  PROVE  me[b][1] \in Emails \cup {None}
<1>1. PICK e \in Emails \cup {None} : me[b] = <<e>>
  BY DEF TypeOK
<1> QED
  BY <1>1

LEMMA UpdatedFlag ==
  ASSUME NEW S, NEW f \in [S -> BOOLEAN], NEW x, NEW v \in BOOLEAN
  PROVE  [f EXCEPT ![x] = v] \in [S -> BOOLEAN]
OBVIOUS

LEMMA CallsType == \A b \in Panels : Calls(b) \subseteq AllCalls
BY DEF Calls, AllCalls

LEMMA BegunTypes ==
  ASSUME Types, NEW c, NEW call \in AllCalls, Begun(c, call)
  PROVE  /\ mixed' \in [Panels -> SUBSET AllCalls]
         /\ doubtful' \in [Panels -> BOOLEAN]
BY CallsType DEF Types, Begun, AllCalls

LEMMA OverTypes ==
  ASSUME Types, NEW c, NEW call, Over(c, call)
  PROVE  mixed' \in [Panels -> SUBSET AllCalls]
BY DEF Types, Over

LEMMA AnsweredTypes ==
  ASSUME Types, NEW c, NEW call, Answered(c, call)
  PROVE  /\ mixed' \in [Panels -> SUBSET AllCalls]
         /\ doubtful' \in [Panels -> BOOLEAN]
<1> DEFINE v == call \in mixed[c]
<1>1. doubtful' \in [Panels -> BOOLEAN]
  <2>1. v \in BOOLEAN
    OBVIOUS
  <2>2. doubtful' = [doubtful EXCEPT ![c] = v] /\ doubtful \in [Panels -> BOOLEAN]
    BY DEF Answered, Types
  <2> HIDE DEF v
  <2> QED
    BY <2>1, <2>2, UpdatedFlag
<1> QED
  BY <1>1, OverTypes DEF Answered

LEMMA InitTypes == Init => Types
BY DEF Init, LimiterInit, Types, TypeOK, LimiterTypeOK

\* Every step keeps the types.
LEMMA StepTypes == Types /\ [Next]_vars => Types'
<1> SUFFICES ASSUME Types, [Next]_vars PROVE Types'
  OBVIOUS
<1>1. CASE UNCHANGED vars
  BY <1>1 DEF Types, TypeOK, LimiterTypeOK, vars, limiter, panels
<1>2. ASSUME NEW c \in Clients, NEW e \in Emails, Login(c, e) PROVE Types'
  <2>1. "login" \in AllCalls
    BY DEF AllCalls
  <2> QED
    BY <1>2, <2>1, BegunTypes DEF Types, TypeOK, LimiterTypeOK, Login, limiter
<1>3. ASSUME NEW c \in Clients, NEW e \in Emails, Signup(c, e) PROVE Types'
  <2>1. "signup" \in AllCalls
    BY DEF AllCalls
  <2>2. LimiterTypeOK'
    BY <1>3, HitTypes DEF Types, TypeOK, Signup
  <2> QED
    BY <1>3, <2>1, <2>2, BegunTypes DEF Types, TypeOK, Signup
<1>4. ASSUME NEW c \in Clients, LoginFails(c) PROVE Types'
  <2>1. LimiterTypeOK'
    BY <1>4, HitTypes DEF Types, TypeOK, LoginFails
  <2> QED
    BY <1>4, <2>1, OverTypes DEF Types, TypeOK, LoginFails
<1>5. ASSUME NEW c \in Clients, LoginSucceeds(c) PROVE Types'
  <2>1. LimiterTypeOK'
    BY <1>5, ForgetTypes DEF Types, TypeOK, LoginSucceeds
  <2>2. mixed' \in [Panels -> SUBSET AllCalls] /\ doubtful' \in [Panels -> BOOLEAN]
    BY <1>5, AnsweredTypes DEF Types, LoginSucceeds
  <2> QED
    BY <1>5, <2>1, <2>2 DEF Types, TypeOK, LoginSucceeds
<1>6. ASSUME NEW c \in Clients, SignupFails(c) PROVE Types'
  BY <1>6, OverTypes DEF Types, TypeOK, LimiterTypeOK, SignupFails, limiter
<1>7. ASSUME NEW c \in Clients, SignupSucceeds(c) PROVE Types'
  <2>1. LimiterTypeOK'
    BY <1>7 DEF Types, TypeOK, LimiterTypeOK, SignupSucceeds, limiter
  <2>2. mixed' \in [Panels -> SUBSET AllCalls]
    BY <1>7 DEF Types, SignupSucceeds, AllCalls
  <2>3. me' \in [Panels -> {<<>>} \cup {<<e>> : e \in Emails \cup {None}}]
    <3>1. signup[c] \in Emails \cup {None}
      BY DEF Types, TypeOK
    <3>2. <<signup[c]>> \in {<<e>> : e \in Emails \cup {None}}
      BY <3>1
    <3>3. me' = me \/ me' = [me EXCEPT ![c] = <<signup[c]>>]
      BY <1>7 DEF SignupSucceeds, AfterSignup, RefreshedBy
    <3> QED
      BY <3>2, <3>3 DEF Types, TypeOK
  <2> QED
    BY <1>7, <2>1, <2>2, <2>3 DEF Types, TypeOK, SignupSucceeds
<1>8. ASSUME NEW b \in Panels, Refresh(b) PROVE Types'
  <2>1. "me" \in AllCalls
    BY DEF AllCalls
  <2> QED
    BY <1>8, <2>1, BegunTypes DEF Types, TypeOK, LimiterTypeOK, Refresh, limiter
<1>9. ASSUME NEW b \in Panels, MeAnswers(b) PROVE Types'
  <2>1. mixed' \in [Panels -> SUBSET AllCalls] /\ doubtful' \in [Panels -> BOOLEAN]
    BY <1>9, AnsweredTypes DEF MeAnswers
  <2> QED
    BY <1>9, <2>1, MeType DEF Types, TypeOK, LimiterTypeOK, MeAnswers, limiter
<1>10. ASSUME NEW b \in Panels, MeFails(b) PROVE Types'
  BY <1>10, OverTypes DEF Types, TypeOK, LimiterTypeOK, MeFails, limiter
<1>11. ASSUME NEW b \in Panels, Logout(b) PROVE Types'
  <2>1. "logout" \in AllCalls
    BY DEF AllCalls
  <2> QED
    BY <1>11, <2>1, BegunTypes DEF Types, TypeOK, LimiterTypeOK, Logout, limiter
<1>12. ASSUME NEW b \in Panels, LogoutAnswers(b) PROVE Types'
  <2>1. mixed' \in [Panels -> SUBSET AllCalls] /\ doubtful' \in [Panels -> BOOLEAN]
    BY <1>12, AnsweredTypes DEF LogoutAnswers
  <2> QED
    BY <1>12, <2>1 DEF Types, TypeOK, LimiterTypeOK, LogoutAnswers, limiter
<1>13. ASSUME NEW b \in Panels, Expire(b) PROVE Types'
  BY <1>13, CallsType DEF Types, TypeOK, LimiterTypeOK, Expire, limiter
<1>14. CASE Pass
  BY <1>14, TickTypes DEF Types, TypeOK, Pass, panels
<1> QED
  BY <1>1, <1>2, <1>3, <1>4, <1>5, <1>6, <1>7, <1>8, <1>9, <1>10, <1>11, <1>12, <1>13, <1>14
     DEF Next

\* Every variable keeps its type; a window is never longer than its limiter's.
THEOREM TypeCorrect == Spec => []TypeOK
<1>1. Types => TypeOK
  BY DEF Types
<1> QED
  BY <1>1, InitTypes, StepTypes, PTL DEF Spec

-----------------------------------------------------------------------------
(* Failed logins and signups.  A login under way is a failure that may still be   *)
(* counted; what is counted and what is under way together never pass the limit  *)
(* by more than the clients but one: the check of the last login to begin found   *)
(* the count below the limit, and at most all clients are under way after it.     *)

\* The clients whose login, as l has it, will count for a key if it fails.
UnderWay(l, k) == {c \in Clients : l[c] # None /\ k \in {l[c], Address[c]}}

Counted ==
  /\ \A k \in Keys :
       count[k] + Cardinality(UnderWay(login, k)) <= Limit[k] + Cardinality(Clients) - 1
  /\ \A c \in Clients : count[SignupKey[c]] <= Limit[SignupKey[c]]

LEMMA Cards ==
  /\ Cardinality(Clients) \in Nat
  /\ \A l, k : /\ IsFiniteSet(UnderWay(l, k))
               /\ Cardinality(UnderWay(l, k)) \in 0 .. Cardinality(Clients)
<1> SUFFICES ASSUME NEW l, NEW k
             PROVE  /\ Cardinality(Clients) \in Nat
                    /\ IsFiniteSet(UnderWay(l, k))
                    /\ Cardinality(UnderWay(l, k)) \in 0 .. Cardinality(Clients)
  OBVIOUS
<1>1. UnderWay(l, k) \subseteq Clients
  BY DEF UnderWay
<1>2. IsFiniteSet(UnderWay(l, k)) /\ Cardinality(UnderWay(l, k)) <= Cardinality(Clients)
  BY <1>1, FS_Subset
<1>3. Cardinality(Clients) \in Nat /\ Cardinality(UnderWay(l, k)) \in Nat
  BY <1>2, FS_CardinalityType
<1> QED
  BY <1>2, <1>3

\* No login counts for the key of a signup.
LEMMA NoneForSignup ==
  ASSUME TypeOK, NEW c \in Clients
  PROVE  UnderWay(login, SignupKey[c]) = {}
BY DEF TypeOK, UnderWay

\* Fewer logins under way and no count that grows.
LEMMA CountedShrinks ==
  ASSUME Types, Types', Counted,
         \A k \in Keys : count'[k] <= count[k] /\ UnderWay(login', k) \subseteq UnderWay(login, k)
  PROVE  Counted'
<1>1. count \in [Keys -> Nat] /\ count' \in [Keys -> Nat]
  BY DEF Types, TypeOK, LimiterTypeOK
<1>2. ASSUME NEW k \in Keys
      PROVE  count'[k] + Cardinality(UnderWay(login', k)) <= Limit[k] + Cardinality(Clients) - 1
  <2>1. Cardinality(UnderWay(login', k)) <= Cardinality(UnderWay(login, k))
    BY Cards, FS_Subset
  <2>2. count[k] + Cardinality(UnderWay(login, k)) <= Limit[k] + Cardinality(Clients) - 1
    BY DEF Counted
  <2> QED
    BY <1>1, <2>1, <2>2, Cards
<1>3. ASSUME NEW c \in Clients
      PROVE  count'[SignupKey[c]] <= Limit[SignupKey[c]]
  BY <1>1 DEF Counted
<1> QED
  BY <1>2, <1>3 DEF Counted

LEMMA InitCounted == Init => Counted
<1> SUFFICES ASSUME Init PROVE Counted
  OBVIOUS
<1>1. \A k : UnderWay(login, k) = {}
  BY DEF Init, UnderWay
<1>2. \A k : Cardinality(UnderWay(login, k)) = 0
  BY <1>1, FS_EmptySet
<1>3. \A k \in Keys : count[k] = 0
  BY DEF Init, LimiterInit
<1>4. \A k \in Keys : count[k] + Cardinality(UnderWay(login, k)) <= Limit[k] + Cardinality(Clients) - 1
  <2> SUFFICES ASSUME NEW k \in Keys
               PROVE  count[k] + Cardinality(UnderWay(login, k)) <= Limit[k] + Cardinality(Clients) - 1
    OBVIOUS
  <2>1. Limit[k] \in Nat /\ Limit[k] >= 1
    OBVIOUS
  <2> QED
    BY <1>2, <1>3, <2>1, Cards
<1> QED
  BY <1>3, <1>4 DEF Counted

LEMMA LoginCounted ==
  ASSUME Types, Counted, NEW c \in Clients, NEW e \in Emails, Login(c, e)
  PROVE  Counted'
<1>1. count \in [Keys -> Nat] /\ count' = count /\ login' = [login EXCEPT ![c] = e]
  BY DEF Types, TypeOK, LimiterTypeOK, Login, limiter
<1>2. ASSUME NEW k \in Keys
      PROVE  count'[k] + Cardinality(UnderWay(login', k)) <= Limit[k] + Cardinality(Clients) - 1
  <2>1. CASE k \in {e, Address[c]}
    <3>1. count[k] < Limit[k]
      BY <2>1 DEF Login, Allowed, AllowedBelow
    <3> QED
      BY <1>1, <3>1, Cards
  <2>2. CASE k \notin {e, Address[c]}
    <3>1. UnderWay(login', k) = UnderWay(login, k)
      BY <1>1, <2>2 DEF UnderWay, Login, SignedOut, Types, TypeOK
    <3> QED
      BY <1>1, <3>1 DEF Counted
  <2> QED
    BY <2>1, <2>2
<1> QED
  BY <1>1, <1>2 DEF Counted

LEMMA LoginFailsCounted ==
  ASSUME Types, Counted, NEW c \in Clients, LoginFails(c)
  PROVE  Counted'
<1>1. /\ count \in [Keys -> Nat] /\ login[c] \in Emails
      /\ login' = [login EXCEPT ![c] = None]
      /\ count' = [k \in Keys |-> IF k \in {Address[c], login[c]} THEN count[k] + 1 ELSE count[k]]
  BY DEF Types, TypeOK, LimiterTypeOK, LoginFails, Hit
<1>2. ASSUME NEW k \in Keys
      PROVE  count'[k] + Cardinality(UnderWay(login', k)) <= Limit[k] + Cardinality(Clients) - 1
  <2>1. CASE k \in {Address[c], login[c]}
    <3>1. c \in UnderWay(login, k)
      BY <1>1, <2>1 DEF UnderWay
    <3>2. UnderWay(login', k) = UnderWay(login, k) \ {c}
      BY <1>1 DEF UnderWay, Types, TypeOK
    <3>3. Cardinality(UnderWay(login', k)) = Cardinality(UnderWay(login, k)) - 1
      <4>1. IsFiniteSet(UnderWay(login, k))
        BY Cards
      <4> QED
        BY <3>1, <3>2, <4>1, FS_RemoveElement
    <3>4. count'[k] = count[k] + 1
      BY <1>1, <2>1
    <3>5. count[k] + Cardinality(UnderWay(login, k)) <= Limit[k] + Cardinality(Clients) - 1
      BY DEF Counted
    <3> QED
      BY <1>1, <3>3, <3>4, <3>5, Cards
  <2>2. CASE k \notin {Address[c], login[c]}
    <3>1. UnderWay(login', k) = UnderWay(login, k)
      BY <1>1, <2>2 DEF UnderWay, Types, TypeOK
    <3> QED
      BY <1>1, <2>2, <3>1 DEF Counted
  <2> QED
    BY <2>1, <2>2
<1>3. ASSUME NEW d \in Clients
      PROVE  count'[SignupKey[d]] <= Limit[SignupKey[d]]
  BY <1>1 DEF Counted
<1> QED
  BY <1>2, <1>3 DEF Counted

LEMMA SignupCounted ==
  ASSUME Types, Counted, NEW c \in Clients, NEW e \in Emails, Signup(c, e)
  PROVE  Counted'
<1>1. /\ count \in [Keys -> Nat] /\ login' = login /\ count[SignupKey[c]] < Limit[SignupKey[c]]
      /\ count' = [k \in Keys |-> IF k = SignupKey[c] THEN count[k] + 1 ELSE count[k]]
  BY DEF Types, TypeOK, LimiterTypeOK, Signup, Hit, Allowed, AllowedBelow
<1>2. Cardinality(Clients) >= 1
  BY FS_EmptySet, Cards
<1>3. ASSUME NEW k \in Keys
      PROVE  count'[k] + Cardinality(UnderWay(login', k)) <= Limit[k] + Cardinality(Clients) - 1
  <2>1. CASE k = SignupKey[c]
    <3>1. Cardinality(UnderWay(login', k)) = 0
      BY <1>1, <2>1, NoneForSignup, FS_EmptySet DEF Types
    <3> QED
      BY <1>1, <1>2, <2>1, <3>1, Cards
  <2>2. CASE k # SignupKey[c]
    BY <1>1, <2>2 DEF Counted
  <2> QED
    BY <2>1, <2>2
<1>4. ASSUME NEW d \in Clients
      PROVE  count'[SignupKey[d]] <= Limit[SignupKey[d]]
  BY <1>1 DEF Counted
<1> QED
  BY <1>3, <1>4 DEF Counted

LEMMA StepCounted == Types /\ Types' /\ Counted /\ [Next]_vars => Counted'
<1> SUFFICES ASSUME Types, Types', Counted, [Next]_vars PROVE Counted'
  OBVIOUS
<1>1. count \in [Keys -> Nat] /\ left \in [Keys -> Nat]
  BY DEF Types, TypeOK, LimiterTypeOK
<1>2. ASSUME count' = count, login' = login PROVE Counted'
  BY <1>1, <1>2, CountedShrinks
<1>3. CASE UNCHANGED vars
  BY <1>2, <1>3 DEF vars, limiter
<1>4. ASSUME NEW c \in Clients, NEW e \in Emails, Login(c, e) \/ Signup(c, e) PROVE Counted'
  BY <1>4, LoginCounted, SignupCounted
<1>5. ASSUME NEW c \in Clients, LoginFails(c) PROVE Counted'
  BY <1>5, LoginFailsCounted
<1>6. ASSUME NEW c \in Clients, LoginSucceeds(c) PROVE Counted'
  <2>1. \A k \in Keys : count'[k] <= count[k]
    BY <1>1, <1>6 DEF LoginSucceeds, Forget
  <2>2. \A k : UnderWay(login', k) \subseteq UnderWay(login, k)
    BY <1>6 DEF LoginSucceeds, UnderWay, Types, TypeOK
  <2> QED
    BY <2>1, <2>2, CountedShrinks
<1>7. ASSUME NEW c \in Clients, SignupFails(c) \/ SignupSucceeds(c) PROVE Counted'
  BY <1>2, <1>7 DEF SignupFails, SignupSucceeds, limiter
<1>8. ASSUME NEW b \in Panels, Refresh(b) \/ MeAnswers(b) \/ MeFails(b) PROVE Counted'
  BY <1>2, <1>8 DEF Refresh, MeAnswers, MeFails, limiter
<1>9. ASSUME NEW b \in Panels, Logout(b) \/ LogoutAnswers(b) \/ Expire(b) PROVE Counted'
  BY <1>2, <1>9 DEF Logout, LogoutAnswers, Expire, limiter
<1>10. CASE Pass
  <2>1. \A k \in Keys : count'[k] <= count[k]
    BY <1>1, <1>10 DEF Pass, Tick, Expired
  <2>2. login' = login
    BY <1>10 DEF Pass
  <2> QED
    BY <2>1, <2>2, CountedShrinks
<1> QED
  BY <1>3, <1>4, <1>5, <1>6, <1>7, <1>8, <1>9, <1>10 DEF Next

\* Of failed logins no more than the limit are counted for an address or an email,
\* but for those that were under way together; of signups never more.
THEOREM FailuresBounded == Spec => []FailureBound
<1>1. Types /\ Counted => FailureBound
  <2> SUFFICES ASSUME Types, Counted, NEW k \in Keys
               PROVE  count[k] <= Limit[k] + Cardinality(Clients) - 1
    BY DEF FailureBound, Counted
  <2>1. count[k] \in Nat
    BY DEF Types, TypeOK, LimiterTypeOK
  <2>2. count[k] + Cardinality(UnderWay(login, k)) <= Limit[k] + Cardinality(Clients) - 1
    BY DEF Counted
  <2> QED
    BY <2>1, <2>2, Cards
<1> QED
  BY <1>1, InitTypes, StepTypes, InitCounted, StepCounted, PTL DEF Spec

-----------------------------------------------------------------------------
(* What a panel shows.  An answer that crossed no other call is about the cookie   *)
(* that is there when it comes: such a /me carries the present cookie, and one     *)
(* under way with a call that may change the cookie is known to cross it.          *)

Shown(b) ==
  /\ me[b] # <<>> /\ "me" \notin mixed[b] => me[b] = <<cookie[b]>>
  /\ me[b] = <<>> /\ ~doubtful[b] => user[b] = cookie[b]
  /\ me[b] # <<>> /\ (login[b] # None \/ signup[b] # None \/ logout[b]) => "me" \in mixed[b]

\* Nothing happens at a panel.
Untouched(b) ==
  /\ me'[b] = me[b] /\ cookie'[b] = cookie[b] /\ user'[b] = user[b]
  /\ login'[b] = login[b] /\ signup'[b] = signup[b] /\ logout'[b] = logout[b]
  /\ mixed'[b] = mixed[b] /\ doubtful'[b] = doubtful[b]

LEMMA UntouchedShown ==
  ASSUME NEW b \in Panels, Shown(b), Untouched(b)
  PROVE  Shown(b)'
BY Zenon DEF Shown, Untouched

LEMMA InitShown == Init => \A b \in Panels : Shown(b)
BY DEF Init, Shown

\* A call that begins leaves the session alone, and marks /me if it crosses it.
LEMMA BegunShown ==
  ASSUME Types, NEW b \in Panels, Shown(b), NEW call, Begun(b, call),
         me'[b] = me[b], UNCHANGED <<cookie, user>>
  PROVE  Shown(b)'
<1>1. doubtful' = doubtful
  BY DEF Begun
<1>2. CASE me[b] = <<>>
  BY <1>1, <1>2 DEF Shown
<1>3. CASE me[b] # <<>>
  <2>1. "me" \in Calls(b)
    BY <1>3 DEF Calls
  <2>2. "me" \in mixed'[b]
    BY <2>1 DEF Begun, Types
  <2> QED
    BY <1>3, <2>2 DEF Shown
<1> QED
  BY <1>2, <1>3

LEMMA StepShown ==
  ASSUME Types, [Next]_vars, NEW b \in Panels, Shown(b)
  PROVE  Shown(b)'
<1>1. CASE UNCHANGED vars
  BY <1>1, UntouchedShown DEF vars, panels, Untouched
<1>2. ASSUME NEW c \in Clients, NEW e \in Emails, Login(c, e) \/ Signup(c, e) PROVE Shown(b)'
  <2>1. CASE c = b
    <3>1. \E call : Begun(b, call)
      BY <1>2, <2>1 DEF Login, Signup
    <3>2. me'[b] = me[b] /\ UNCHANGED <<cookie, user>>
      BY <1>2 DEF Login, Signup
    <3> QED
      BY <3>1, <3>2, BegunShown
  <2>2. CASE c # b
    <3>1. Untouched(b)
      BY <1>2, <2>2 DEF Login, Signup, Begun, Untouched, Types, TypeOK
    <3> QED
      BY <3>1, UntouchedShown
  <2> QED
    BY <2>1, <2>2
<1>3. ASSUME NEW c \in Clients, LoginFails(c) \/ SignupFails(c) PROVE Shown(b)'
  <2>1. UNCHANGED <<me, logout, cookie, user, doubtful>>
    BY <1>3 DEF LoginFails, SignupFails
  <2>2. /\ login'[b] # None => login[b] # None
        /\ signup'[b] # None => signup[b] # None
    BY <1>3 DEF LoginFails, SignupFails, Types, TypeOK
  <2>3. "me" \in mixed'[b] <=> "me" \in mixed[b]
    <3>1. Over(c, "login") \/ Over(c, "signup")
      BY <1>3 DEF LoginFails, SignupFails
    <3> QED
      BY <3>1 DEF Over, Types
  <2> QED
    BY <2>1, <2>2, <2>3 DEF Shown
<1>4. ASSUME NEW c \in Clients, LoginSucceeds(c) PROVE Shown(b)'
  <2>1. CASE c = b
    <3>1. cookie'[b] = user'[b] /\ login'[b] = None /\ UNCHANGED <<me, signup, logout>>
      BY <1>4, <2>1 DEF LoginSucceeds, Types, TypeOK
    <3>2. "me" \in mixed'[b] <=> "me" \in mixed[b]
      BY <1>4, <2>1 DEF LoginSucceeds, Answered, Over, Types
    <3>3. me[b] # <<>> => "me" \in mixed[b]
      BY <1>4, <2>1 DEF LoginSucceeds, Shown
    <3> QED
      BY <3>1, <3>2, <3>3 DEF Shown
  <2>2. CASE c # b
    <3>1. Untouched(b)
      BY <1>4, <2>2 DEF LoginSucceeds, Answered, Over, Untouched, Types, TypeOK
    <3> QED
      BY <3>1, UntouchedShown
  <2> QED
    BY <2>1, <2>2
<1>5. ASSUME NEW c \in Clients, SignupSucceeds(c) PROVE Shown(b)'
  <2>1. CASE c = b
    <3>1. me'[b] = <<cookie'[b]>> /\ signup'[b] = None /\ UNCHANGED <<login, logout>>
      BY <1>5, <2>1 DEF SignupSucceeds, AfterSignup, RefreshedBy, Types, TypeOK
    <3>2. ASSUME login[b] # None \/ logout[b] PROVE "me" \in mixed'[b]
      <4>1. "login" \in Calls(b) \/ "logout" \in Calls(b)
        BY <3>2 DEF Calls
      <4>2. Calls(b) # {"signup"}
        BY <4>1
      <4> QED
        BY <1>5, <2>1, <4>2 DEF SignupSucceeds, Types
    <3>3. me'[b] # <<>>
      BY <3>1
    <3> QED
      BY <3>1, <3>2, <3>3 DEF Shown
  <2>2. CASE c # b
    <3>1. Untouched(b)
      BY <1>5, <2>2 DEF SignupSucceeds, AfterSignup, RefreshedBy, Untouched, Types, TypeOK
    <3> QED
      BY <3>1, UntouchedShown
  <2> QED
    BY <2>1, <2>2
<1>6. ASSUME NEW p \in Panels, Refresh(p) PROVE Shown(b)'
  <2>1. CASE p = b
    <3>1. /\ me'[b] = <<cookie[b]>> /\ me[b] = <<>>
          /\ UNCHANGED <<login, signup, logout, cookie, user>> /\ Begun(b, "me")
      BY <1>6, <2>1 DEF Refresh, Types, TypeOK
    <3>2. ASSUME login[b] # None \/ signup[b] # None \/ logout[b] PROVE "me" \in mixed'[b]
      <4>1. Calls(b) # {}
        BY <3>2 DEF Calls
      <4> QED
        BY <3>1, <4>1 DEF Begun, Types
    <3>3. me'[b] # <<>>
      BY <3>1
    <3> QED
      BY <3>1, <3>2, <3>3 DEF Shown
  <2>2. CASE p # b
    <3>1. Untouched(b)
      BY <1>6, <2>2 DEF Refresh, Begun, Untouched, Types, TypeOK
    <3> QED
      BY <3>1, UntouchedShown
  <2> QED
    BY <2>1, <2>2
<1>7. ASSUME NEW p \in Panels, MeAnswers(p) PROVE Shown(b)'
  <2>1. CASE p = b
    <3>1. me[b] # <<>> /\ me'[b] = <<>> /\ user'[b] = me[b][1] /\ cookie' = cookie
      BY <1>7, <2>1 DEF MeAnswers, Types, TypeOK
    <3>2. ~doubtful'[b] => "me" \notin mixed[b]
      BY <1>7, <2>1 DEF MeAnswers, Answered, Types
    <3>3. "me" \notin mixed[b] => user'[b] = cookie'[b]
      BY <3>1 DEF Shown
    <3> QED
      BY <3>1, <3>2, <3>3 DEF Shown
  <2>2. CASE p # b
    <3>1. Untouched(b)
      BY <1>7, <2>2 DEF MeAnswers, Answered, Over, Untouched, Types, TypeOK
    <3> QED
      BY <3>1, UntouchedShown
  <2> QED
    BY <2>1, <2>2
<1>8. ASSUME NEW p \in Panels, MeFails(p) PROVE Shown(b)'
  <2>1. CASE p = b
    <3>1. me'[b] = <<>> /\ doubtful'[b]
      BY <1>8, <2>1 DEF MeFails, Types, TypeOK
    <3> QED
      BY <3>1 DEF Shown
  <2>2. CASE p # b
    <3>1. Untouched(b)
      BY <1>8, <2>2 DEF MeFails, Over, Untouched, Types, TypeOK
    <3> QED
      BY <3>1, UntouchedShown
  <2> QED
    BY <2>1, <2>2
<1>9. ASSUME NEW p \in Panels, Logout(p) PROVE Shown(b)'
  <2>1. CASE p = b
    <3>1. Begun(b, "logout") /\ me'[b] = me[b] /\ UNCHANGED <<cookie, user>>
      BY <1>9, <2>1 DEF Logout
    <3> QED
      BY <3>1, BegunShown
  <2>2. CASE p # b
    <3>1. Untouched(b)
      BY <1>9, <2>2 DEF Logout, Begun, Untouched, Types, TypeOK
    <3> QED
      BY <3>1, UntouchedShown
  <2> QED
    BY <2>1, <2>2
<1>10. ASSUME NEW p \in Panels, LogoutAnswers(p) PROVE Shown(b)'
  <2>1. CASE p = b
    <3>1. cookie'[b] = user'[b] /\ ~logout'[b] /\ UNCHANGED <<me, login, signup>>
      BY <1>10, <2>1 DEF LogoutAnswers, Types, TypeOK
    <3>2. "me" \in mixed'[b] <=> "me" \in mixed[b]
      BY <1>10, <2>1 DEF LogoutAnswers, Answered, Over, Types
    <3>3. me[b] # <<>> => "me" \in mixed[b]
      BY <1>10, <2>1 DEF LogoutAnswers, Shown
    <3> QED
      BY <3>1, <3>2, <3>3 DEF Shown
  <2>2. CASE p # b
    <3>1. Untouched(b)
      BY <1>10, <2>2 DEF LogoutAnswers, Answered, Over, Untouched, Types, TypeOK
    <3> QED
      BY <3>1, UntouchedShown
  <2> QED
    BY <2>1, <2>2
<1>11. ASSUME NEW p \in Panels, Expire(p) PROVE Shown(b)'
  <2>1. CASE p = b
    <3>1. doubtful'[b] /\ mixed'[b] = Calls(b) /\ me' = me
      BY <1>11, <2>1 DEF Expire, Types
    <3>2. me[b] # <<>> => "me" \in Calls(b)
      BY DEF Calls
    <3> QED
      BY <3>1, <3>2 DEF Shown
  <2>2. CASE p # b
    <3>1. Untouched(b)
      BY <1>11, <2>2 DEF Expire, Untouched, Types, TypeOK
    <3> QED
      BY <3>1, UntouchedShown
  <2> QED
    BY <2>1, <2>2
<1>12. CASE Pass
  BY <1>12, UntouchedShown DEF Pass, panels, Untouched
<1> QED
  BY <1>1, <1>2, <1>3, <1>4, <1>5, <1>6, <1>7, <1>8, <1>9, <1>10, <1>11, <1>12 DEF Next

\* A panel with nothing under way shows whose session its browser holds, unless the
\* last answer crossed another call or was an error.
THEOREM PanelTellsTheTruth == Spec => []PanelShowsSession
<1> DEFINE Inv == Types /\ \A b \in Panels : Shown(b)
<1>1. Init => Inv
  BY InitTypes, InitShown
<1>2. Inv /\ [Next]_vars => Inv'
  BY StepTypes, StepShown
<1>3. Inv => PanelShowsSession
  BY DEF Shown, PanelShowsSession, Calls
<1> HIDE DEF Inv
<1> QED
  BY <1>1, <1>2, <1>3, PTL DEF Spec

=============================================================================
