------------------------------- MODULE Sessions -------------------------------
(***************************************************************************)
(* Signing in and out: the handlers of admin/auth.ts with their rate limits,   *)
(* and the panel's idea of who is signed in (context/AuthContext.tsx), which    *)
(* is what the answers of /login, /logout and /me leave behind.                *)
(*                                                                           *)
(* A client has one login or signup under way, as the forms do: a burst of      *)
(* requests is many clients.  Some clients are panels; the cookie of a panel    *)
(* travels with each request and changes with the answer.  Accounts has the     *)
(* rows: whether a password is right, and a signup goes through, are inputs.    *)
(***************************************************************************)
EXTENDS RateLimiter, FiniteSets

CONSTANTS
  Emails,
  Clients,
  Panels,      \* the clients that are browsers with the panel
  Address,     \* the key of a client's address in loginIpLimiter
  SignupKey,   \* and in signupRateLimit
  None

ASSUME ClientsAssumption ==
  /\ IsFiniteSet(Clients) /\ Panels \subseteq Clients
  /\ Emails \subseteq Keys /\ None \notin Emails
  /\ Address \in [Clients -> Keys] /\ SignupKey \in [Clients -> Keys]
  /\ \A c, d \in Clients : Address[c] # SignupKey[d] /\ SignupKey[c] \notin Emails

VARIABLES
  login,     \* login[c]: the email of the login under way, or None
  signup,    \* signup[c]: that of the signup under way
  me,        \* me[b]: the GET /me under way: <<the cookie it carries>>, or <<>>
  logout,    \* logout[b]: a POST /logout is under way
  cookie,    \* cookie[b]: whose session the browser holds
  user,      \* user[b]: whom the panel shows
  mixed,     \* history: the calls under way during which another one was, or
             \* the cookie expired
  doubtful   \* history: the last answer was one of those, or an error, or the
             \* cookie expired

panels == <<me, logout, cookie, user, mixed, doubtful>>
vars == <<limiter, login, signup, panels>>

\* The panel asks who it is when it is loaded; an old cookie may be there.
Init ==
  /\ LimiterInit
  /\ login = [c \in Clients |-> None]
  /\ signup = [c \in Clients |-> None]
  /\ cookie \in [Panels -> Emails \cup {None}]
  /\ me = [b \in Panels |-> <<cookie[b]>>]
  /\ logout = [b \in Panels |-> FALSE]
  /\ user = [b \in Panels |-> None]
  /\ mixed = [b \in Panels |-> {}]
  /\ doubtful = [b \in Panels |-> FALSE]

\* The calls of a panel under way.
Calls(b) ==
  (IF login[b] # None THEN {"login"} ELSE {}) \cup (IF signup[b] # None THEN {"signup"} ELSE {})
    \cup (IF me[b] # <<>> THEN {"me"} ELSE {}) \cup (IF logout[b] THEN {"logout"} ELSE {})

\* History of a call that begins, and of an answer that says who is signed in.
Begun(c, call) ==
  /\ mixed' = IF c \notin Panels \/ Calls(c) = {} THEN mixed
              ELSE [mixed EXCEPT ![c] = Calls(c) \cup {call}]
  /\ UNCHANGED doubtful

Over(c, call) == mixed' = IF c \in Panels THEN [mixed EXCEPT ![c] = @ \ {call}] ELSE mixed

Answered(b, call) ==
  /\ doubtful' = [doubtful EXCEPT ![b] = call \in mixed[b]]
  /\ Over(b, call)

-----------------------------------------------------------------------------
(* POST /login and POST /signup. *)

\* A client that may sign in: a panel shows the forms while it knows no user.
SignedOut(c) ==
  /\ login[c] = None /\ signup[c] = None
  /\ c \in Panels => user[c] = None

\* Both limits are checked; then the row is read and the password compared.
Login(c, e) ==
  /\ SignedOut(c)
  /\ Allowed(Address[c]) /\ Allowed(e)
  /\ login' = [login EXCEPT ![c] = e]
  /\ Begun(c, "login")
  /\ UNCHANGED <<limiter, signup, me, logout, cookie, user>>

LoginFails(c) ==
  /\ login[c] # None
  /\ Hit({Address[c], login[c]})
  /\ login' = [login EXCEPT ![c] = None]
  /\ Over(c, "login")
  /\ UNCHANGED <<signup, me, logout, cookie, user, doubtful>>

\* The counter of the email is forgotten; with the answer the browser has the
\* cookie and the panel the user.
LoginSucceeds(c) ==
  /\ login[c] # None
  /\ Forget(login[c])
  /\ login' = [login EXCEPT ![c] = None]
  /\ IF c \in Panels
     THEN /\ cookie' = [cookie EXCEPT ![c] = login[c]]
          /\ user' = [user EXCEPT ![c] = login[c]]
          /\ Answered(c, "login")
     ELSE UNCHANGED <<cookie, user, mixed, doubtful>>
  /\ UNCHANGED <<signup, me, logout>>

\* rateLimitByIp checks and counts in one go, before the handler.
Signup(c, e) ==
  /\ SignedOut(c)
  /\ Allowed(SignupKey[c])
  /\ Hit({SignupKey[c]})
  /\ signup' = [signup EXCEPT ![c] = e]
  /\ Begun(c, "signup")
  /\ UNCHANGED <<login, me, logout, cookie, user>>

SignupFails(c) ==
  /\ signup[c] # None
  /\ signup' = [signup EXCEPT ![c] = None]
  /\ Over(c, "signup")
  /\ UNCHANGED <<limiter, login, me, logout, cookie, user, doubtful>>

\* The panel does not use the answer: with the cookie, it asks who it is (or
\* forgets to).  One /me at a time.
RefreshedBy(c) == [me EXCEPT ![c] = <<signup[c]>>]
NotRefreshed(c) == me
AfterSignup(c) == RefreshedBy(c)

SignupSucceeds(c) ==
  /\ signup[c] # None
  /\ signup' = [signup EXCEPT ![c] = None]
  /\ IF c \in Panels
     THEN /\ me[c] = <<>>
          /\ cookie' = [cookie EXCEPT ![c] = signup[c]]
          /\ me' = AfterSignup(c)
          /\ mixed' = [mixed EXCEPT ![c] = IF Calls(c) = {"signup"} THEN {}
                                           ELSE (@ \ {"signup"}) \cup {"me"}]
     ELSE UNCHANGED <<cookie, me, mixed>>
  /\ UNCHANGED <<limiter, login, logout, user, doubtful>>

-----------------------------------------------------------------------------
(* A panel. *)

\* refresh, after one has changed one's password.
Refresh(b) ==
  /\ me[b] = <<>> /\ user[b] # None
  /\ me' = [me EXCEPT ![b] = <<cookie[b]>>]
  /\ Begun(b, "me")
  /\ UNCHANGED <<limiter, login, signup, logout, cookie, user>>

\* GET /me answers for the cookie it came with: its user, or 401.
MeAnswers(b) ==
  /\ me[b] # <<>>
  /\ user' = [user EXCEPT ![b] = me[b][1]]
  /\ me' = [me EXCEPT ![b] = <<>>]
  /\ Answered(b, "me")
  /\ UNCHANGED <<limiter, login, signup, logout, cookie>>

\* Any error is taken for a 401.
MeFails(b) ==
  /\ me[b] # <<>>
  /\ user' = [user EXCEPT ![b] = None]
  /\ me' = [me EXCEPT ![b] = <<>>]
  /\ doubtful' = [doubtful EXCEPT ![b] = TRUE]
  /\ Over(b, "me")
  /\ UNCHANGED <<limiter, login, signup, logout, cookie>>

\* The button is shown to a user.
Logout(b) ==
  /\ ~logout[b] /\ user[b] # None
  /\ logout' = [logout EXCEPT ![b] = TRUE]
  /\ Begun(b, "logout")
  /\ UNCHANGED <<limiter, login, signup, me, cookie, user>>

LogoutAnswers(b) ==
  /\ logout[b]
  /\ logout' = [logout EXCEPT ![b] = FALSE]
  /\ cookie' = [cookie EXCEPT ![b] = None]
  /\ user' = [user EXCEPT ![b] = None]
  /\ Answered(b, "logout")
  /\ UNCHANGED <<limiter, login, signup, me>>

\* Twelve hours are over, for the cookie and the token in it.
Expire(b) ==
  /\ cookie[b] # None
  /\ cookie' = [cookie EXCEPT ![b] = None]
  /\ doubtful' = [doubtful EXCEPT ![b] = TRUE]
  /\ mixed' = [mixed EXCEPT ![b] = Calls(b)]
  /\ UNCHANGED <<limiter, login, signup, me, logout, user>>

Pass == Tick /\ UNCHANGED <<login, signup, panels>>

-----------------------------------------------------------------------------

Next ==
  \/ \E c \in Clients :
       \/ \E e \in Emails : Login(c, e) \/ Signup(c, e)
       \/ LoginFails(c) \/ LoginSucceeds(c) \/ SignupFails(c) \/ SignupSucceeds(c)
  \/ \E b \in Panels : Refresh(b) \/ MeAnswers(b) \/ MeFails(b)
                       \/ Logout(b) \/ LogoutAnswers(b) \/ Expire(b)
  \/ Pass

Spec == Init /\ [][Next]_vars

\* Time passes; nobody has to do anything.
FairSpec == Spec /\ WF_vars(Pass)

-----------------------------------------------------------------------------
(* Properties. *)

TypeOK ==
  /\ LimiterTypeOK
  /\ login \in [Clients -> Emails \cup {None}]
  /\ signup \in [Clients -> Emails \cup {None}]
  /\ cookie \in [Panels -> Emails \cup {None}]
  /\ user \in [Panels -> Emails \cup {None}]
  /\ me \in [Panels -> {<<>>} \cup {<<e>> : e \in Emails \cup {None}}]
  /\ logout \in [Panels -> BOOLEAN]

\* Failed logins are counted after an await that follows the check, so a burst
\* passes the limit: but only by what was under way, one less than the clients.
\* Signups, which are checked and counted in one go, never pass it.
FailureBound ==
  /\ \A k \in Keys : count[k] <= Limit[k] + Cardinality(Clients) - 1
  /\ \A c \in Clients : count[SignupKey[c]] <= Limit[SignupKey[c]]

\* Nobody is shut out for good, whatever others go on trying with their address
\* or email: again and again there is a moment without a limit (a window ends when
\* it was to end, and what is refused does not extend it).
BlocksEnd == \A k \in Keys : []<>Allowed(k)

\* When nothing is under way, the panel shows the user whose session the browser
\* holds, unless the session expired, /me failed, or the last answer was one of
\* several that crossed (an answer of /me is taken whenever it comes).
PanelShowsSession ==
  \A b \in Panels : Calls(b) = {} /\ ~doubtful[b] => user[b] = cookie[b]

=============================================================================
