------------------------------- MODULE Accounts -------------------------------
(***************************************************************************)
(* The rows of admin_users and companies, and the requests that change them:  *)
(* signup, POST, PATCH, DELETE and reset-password of an administrator, one's   *)
(* own password, companies created and deleted, and the account seeded when    *)
(* the server starts (admin/auth.ts, adminUsers.ts, companies.ts, seed.ts).    *)
(*                                                                           *)
(* A handler that hashes a password, or reads before it writes, has an await   *)
(* in between: it is a Begin... and a Commit... here, and everything may        *)
(* happen between the two.  Who asks is an input: a session keeps its rights    *)
(* for twelve hours whatever becomes of the account.  AdminForms is the         *)
(* composition with the pages that save settings.                              *)
(***************************************************************************)
EXTENDS Naturals, Functions, FiniteSetsExt

CONSTANTS
  Emails, Slugs, Passwords,
  BootEmail,   \* ADMIN_BOOTSTRAP_EMAIL
  FirstPassword, \* the password of a new account
  Requests,    \* requests under way at a time
  None,        \* SQL null
  FirstUsers,  \* the accounts at the start
  FirstCompanies,
  MaxWrites    \* bound: requests over the whole run

Roles == {"SUPER_ADMIN", "COMPANY_ADMIN"}
UserRow == [email : Emails \cup {BootEmail}, role : Roles, company : {None} \cup Nat,
            password : Passwords \cup {FirstPassword}, must : BOOLEAN]

\* The columns, the unique indexes and the foreign key of admin_users and companies.
Consistent(admins, tenants) ==
  /\ admins \in [DOMAIN admins -> UserRow]
  /\ \A u, v \in DOMAIN admins : admins[u].email = admins[v].email => u = v
  /\ \A u \in DOMAIN admins : admins[u].company \in {None} \cup DOMAIN tenants
  /\ tenants \in [DOMAIN tenants -> Slugs]
  /\ \A c, d \in DOMAIN tenants : tenants[c] = tenants[d] => c = d

\* The newest id of some rows; they are numbered from 1.
Newest(table) == Max({0} \cup DOMAIN table)
Numbered(table) == Newest(table) \in Nat /\ DOMAIN table \subseteq 1 .. Newest(table)

ASSUME AccountsAssumption ==
  /\ None \notin Nat
  /\ Consistent(FirstUsers, FirstCompanies)
  /\ Numbered(FirstUsers) /\ Numbered(FirstCompanies)

VARIABLES
  users,       \* id -> [email, role, company, password, must]; an id is a number
  lastUser,    \* and is never given again
  companies,   \* id -> slug
  lastCompany,
  signupsEnabled,
  req,         \* req[r]: what request r is about to write, and what it has read
  overtaken,   \* history: the signups under way when signups were turned off
  writes       \* the requests begun

rows == <<users, companies>>
accounts == <<users, lastUser, companies, lastCompany, req, overtaken>>
accountVars == <<accounts, signupsEnabled, writes>>

Idle == [op |-> "idle"]

\* f, and g where f says nothing (@@ of TLC, which has no definition to prove with).
Over(f, g) == [x \in DOMAIN f \cup DOMAIN g |-> IF x \in DOMAIN f THEN f[x] ELSE g[x]]

\* A table with one more row.
WithRow(id, row, table) == [i \in {id} \cup DOMAIN table |-> IF i = id THEN row ELSE table[i]]

AccountsInit ==
  /\ users = FirstUsers /\ lastUser = Newest(FirstUsers)
  /\ companies = FirstCompanies /\ lastCompany = Newest(FirstCompanies)
  /\ signupsEnabled = TRUE
  /\ req = [r \in Requests |-> Idle]
  /\ overtaken = {} /\ writes = 0

\* One more request, within the bound.
Counted ==
  /\ writes < MaxWrites
  /\ writes' = writes + 1

\* A request may begin as r.
Free(r) == writes < MaxWrites /\ req[r] = Idle

\* It comes to its next await with what it knows.
Begin(r, what) ==
  /\ Counted
  /\ req' = [req EXCEPT ![r] = what]
  /\ UNCHANGED <<users, lastUser, companies, lastCompany, signupsEnabled, overtaken>>

\* Its last statement: it is over.
End(r) ==
  /\ req' = [req EXCEPT ![r] = Idle]
  /\ overtaken' = overtaken \ {r}
  /\ UNCHANGED <<signupsEnabled, writes>>

\* The unique indexes and the foreign key.
EmailFree(email) == \A u \in DOMAIN users : users[u].email # email
SlugFree(slug) == \A c \in DOMAIN companies : companies[c] # slug
CompanyExists(c) == c = None \/ c \in DOMAIN companies

NoUser == UNCHANGED <<users, lastUser>>
NoCompany == UNCHANGED <<companies, lastCompany>>

Insert(email, role, company, must) ==
  /\ lastUser' = lastUser + 1
  /\ users' = WithRow(lastUser + 1,
                      [email |-> email, role |-> role, company |-> company,
                       password |-> FirstPassword, must |-> must], users)

InsertCompany(slug) ==
  /\ lastCompany' = lastCompany + 1
  /\ companies' = WithRow(lastCompany + 1, slug, companies)

-----------------------------------------------------------------------------
(* Signing up. *)

\* POST /signup reads the setting first; when signups are off it answers 403.
BeginSignup(r, slug, email) ==
  /\ signupsEnabled
  /\ Begin(r, [op |-> "signup", slug |-> slug, email |-> email, checked |-> FALSE])

\* The two pre-checks; without a conflict the password is hashed.
CheckSignup(r) ==
  /\ req[r].op = "signup" /\ ~req[r].checked
  /\ IF SlugFree(req[r].slug) /\ EmailFree(req[r].email)
     THEN /\ req' = [req EXCEPT ![r].checked = TRUE]
          /\ UNCHANGED <<users, lastUser, companies, lastCompany, signupsEnabled, overtaken, writes>>
     ELSE End(r) /\ NoUser /\ NoCompany

\* Without the transaction; with it: company and administrator, or neither (P2002).
CompanyFirst(r) ==
  /\ IF SlugFree(req[r].slug) THEN InsertCompany(req[r].slug) ELSE NoCompany
  /\ IF SlugFree(req[r].slug) /\ EmailFree(req[r].email)
     THEN Insert(req[r].email, "COMPANY_ADMIN", lastCompany + 1, FALSE)
     ELSE NoUser
BothOrNothing(r) ==
  IF SlugFree(req[r].slug) /\ EmailFree(req[r].email)
  THEN /\ InsertCompany(req[r].slug)
       /\ Insert(req[r].email, "COMPANY_ADMIN", lastCompany + 1, FALSE)
  ELSE NoUser /\ NoCompany

CommitSignup(r) ==
  /\ req[r].op = "signup" /\ req[r].checked
  /\ BothOrNothing(r)
  /\ End(r)

-----------------------------------------------------------------------------
(* Administrators. *)

\* POST /admin-users.  An administrator of a company may only name it; the
\* union over all sessions is what a super administrator may do.
BeginCreate(r, email, role, company) ==
  /\ role = "COMPANY_ADMIN" => company # None
  /\ Begin(r, [op |-> "create", email |-> email, role |-> role,
               company |-> IF role = "SUPER_ADMIN" THEN None ELSE company])

CommitCreate(r) ==
  /\ req[r].op = "create"
  /\ IF EmailFree(req[r].email) /\ CompanyExists(req[r].company)
     THEN Insert(req[r].email, req[r].role, req[r].company, FALSE)
     ELSE NoUser
  /\ NoCompany
  /\ End(r)

\* Role and company as PATCH reads them.  A check of data alone; the check of
\* what they will be with data.
Standing(u) == [role |-> users[u].role, company |-> users[u].company]
ValidAlone(standing, data) ==
  ("role" \in DOMAIN data /\ data.role = "COMPANY_ADMIN")
    => ("company" \in DOMAIN data /\ data.company # None)
Fits(standing, data) ==
  LET next == Over(data, standing) IN next.role = "COMPANY_ADMIN" => next.company # None

\* PATCH /admin-users/:id looks at the row it has read, not at data alone.
BeginPatch(r, u, data) ==
  /\ u \in DOMAIN users
  /\ Fits(Standing(u), data)
  /\ Begin(r, [op |-> "patch", on |-> u, data |-> data, read |-> Standing(u)])

\* The update names the id alone; any error is answered 404.
CommitPatch(r) ==
  /\ req[r].op = "patch"
  /\ LET u == req[r].on  data == req[r].data
         ok == /\ u \in DOMAIN users
               /\ "email" \in DOMAIN data => EmailFree(data.email) \/ data.email = users[u].email
               /\ "company" \in DOMAIN data => CompanyExists(data.company)
     IN  users' = IF ok THEN [users EXCEPT ![u] = Over(data, @)] ELSE users
  /\ UNCHANGED lastUser
  /\ NoCompany
  /\ End(r)

\* POST /admin-users/:id/reset-password hashes, then updates.
BeginReset(r, u, password) ==
  Begin(r, [op |-> "reset", on |-> u, password |-> password])

SetPassword(r, must) ==
  /\ users' = IF req[r].on \in DOMAIN users
              THEN [users EXCEPT ![req[r].on] = Over([password |-> req[r].password, must |-> must], @)]
              ELSE users
  /\ UNCHANGED lastUser
  /\ NoCompany
  /\ End(r)

CommitReset(r) ==
  /\ req[r].op = "reset"
  /\ SetPassword(r, TRUE)

\* PATCH /auth/me/password compares the current password with the row it has
\* read (or forgets to), hashes the new one, and updates by id.
AnyPassword(given, password) == TRUE
Matches(given, password) == given = password

BeginChange(r, u, given, password) ==
  /\ u \in DOMAIN users
  /\ Matches(given, users[u].password)
  /\ Begin(r, [op |-> "change", on |-> u, given |-> given, read |-> users[u].password,
               password |-> password])

CommitChange(r) ==
  /\ req[r].op = "change"
  /\ SetPassword(r, FALSE)

\* The handlers that are one statement.
AtOnce == Counted /\ UNCHANGED <<req, signupsEnabled, overtaken>>

DeleteUser(u) ==
  /\ u \in DOMAIN users
  /\ users' = Restrict(users, DOMAIN users \ {u})
  /\ UNCHANGED lastUser
  /\ NoCompany
  /\ AtOnce

CreateCompany(slug) ==
  /\ SlugFree(slug)
  /\ InsertCompany(slug)
  /\ NoUser
  /\ AtOnce

\* onDelete: Cascade of AdminUser.company.
Remaining(c) == Restrict(users, {u \in DOMAIN users : users[u].company # c})

DeleteCompany(c) ==
  /\ c \in DOMAIN companies
  /\ companies' = Restrict(companies, DOMAIN companies \ {c})
  /\ users' = Remaining(c)
  /\ UNCHANGED <<lastUser, lastCompany>>
  /\ AtOnce

-----------------------------------------------------------------------------

\* Turning signups off finds some of them under way.
SignupsTurned(on) ==
  overtaken' = IF on THEN overtaken
               ELSE overtaken \cup {r \in Requests : req[r].op = "signup"}

\* The server stops, and starts again: the requests under way are gone, and an
\* empty table gets its first account before the server listens.
Restart ==
  /\ Counted
  /\ req' = [r \in Requests |-> Idle]
  /\ overtaken' = {}
  /\ IF DOMAIN users = {} THEN Insert(BootEmail, "SUPER_ADMIN", None, TRUE) ELSE NoUser
  /\ UNCHANGED <<companies, lastCompany, signupsEnabled>>

\* The fields a PATCH may carry.  An email has nothing to do with the others.
Patches ==
  [{"role"} -> Roles] \cup [{"company"} -> {None} \cup 1..lastCompany] \cup [{"email"} -> Emails]
    \cup {[role |-> x, company |-> c] : x \in Roles, c \in {None} \cup 1..lastCompany}

Begins(r) ==
  \/ \E e \in Emails :
       \/ \E s \in Slugs : BeginSignup(r, s, e)
       \/ BeginCreate(r, e, "SUPER_ADMIN", None)
       \/ \E c \in 1..lastCompany : BeginCreate(r, e, "COMPANY_ADMIN", c)
  \/ \E u \in 1..lastUser :
       \/ \E data \in Patches : BeginPatch(r, u, data)
       \/ \E p \in Passwords :
            \/ BeginReset(r, u, p)
            \/ \E g \in Passwords \cup {FirstPassword} : BeginChange(r, u, g, p)

AccountsNext ==
  \/ \E r \in Requests :
       \/ Free(r) /\ Begins(r)
       \/ CheckSignup(r) \/ CommitSignup(r)
       \/ CommitCreate(r) \/ CommitPatch(r) \/ CommitReset(r) \/ CommitChange(r)
  \/ \E u \in 1..lastUser : DeleteUser(u)
  \/ \E s \in Slugs : CreateCompany(s)
  \/ \E c \in 1..lastCompany : DeleteCompany(c)
  \/ Restart

-----------------------------------------------------------------------------
(* Properties. *)

\* The rows have the types of their columns, emails and slugs are unique, and
\* every account's company exists (admin_users and companies, schema.prisma).
AccountsOK ==
  /\ Consistent(users, companies)
  /\ DOMAIN users \subseteq 1 .. lastUser /\ DOMAIN companies \subseteq 1 .. lastCompany

LockedOut(u) == u \in DOMAIN users /\ users[u].role = "COMPANY_ADMIN" /\ users[u].company = None

\* An account becomes a company administrator without a company, whom
\* requireAdminAuth turns away, only by a PATCH of the account that was
\* validated against a row another request has changed since (adminUsers.ts
\* validates "the resulting state" before an await).
LockedOutOnlyByOverlap ==
  [][\A u \in DOMAIN users' : ~LockedOut(u) /\ LockedOut(u)' =>
       \E r \in Requests : /\ req[r].op = "patch" /\ req[r].on = u /\ req'[r] = Idle
                           /\ req[r].read # Standing(u)]_accountVars

\* The obligation to change a temporary password ends only by a change of
\* somebody who gave that password, or by one that was compared with the old
\* password before the reset (PATCH /auth/me/password updates by id alone).
ResetUndoneOnlyByOverlap ==
  [][\A u \in DOMAIN users \cap DOMAIN users' : users[u].must /\ ~users'[u].must =>
       \E r \in Requests : /\ req[r].op = "change" /\ req[r].on = u /\ req'[r] = Idle
                           /\ (users[u].password = req[r].given \/ users[u].password # req[r].read)]_accountVars

\* Nobody "ends up locked out": no account is ever a company administrator's
\* without a company (adminUsers.ts:143, which the code does not keep).
NobodyLockedOut == \A u \in DOMAIN users : ~LockedOut(u)

\* A company appears by an administrator's hand, or together with its own
\* administrator by a signup that was begun while signups were on; one that
\* fails leaves nothing (the transaction of POST /auth/signup).
SignupIsWhole ==
  [][\A c \in DOMAIN companies' \ DOMAIN companies : req' # req =>
       /\ \E u \in DOMAIN users' \ DOMAIN users : users'[u].company = c
       /\ signupsEnabled \/ overtaken' # overtaken]_accountVars

=============================================================================
