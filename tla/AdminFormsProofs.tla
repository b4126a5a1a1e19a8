--------------------------- MODULE AdminFormsProofs ---------------------------
(* Theorems about Accounts and AdminForms. *)
EXTENDS AdminForms, TLAPS

-----------------------------------------------------------------------------
(* Requests under way know what they have checked. *)

\* The fields a PATCH may carry, and what they may be.
PatchOK(data) ==
  /\ DOMAIN data \subseteq {"email", "role", "company"}
  /\ "email" \in DOMAIN data => data["email"] \in Emails
  /\ "role" \in DOMAIN data => data["role"] \in Roles
  /\ "company" \in DOMAIN data => data["company"] \in {None} \cup Nat

SignupOK(q) ==
  q.op = "signup" => /\ {"op", "slug", "email"} \subseteq DOMAIN q
                     /\ q.slug \in Slugs /\ q.email \in Emails
CreateOK(q) ==
  q.op = "create" => /\ q.email \in Emails /\ q.role \in Roles
                     /\ q.company \in {None} \cup Nat
                     /\ q.role = "COMPANY_ADMIN" => q.company # None
ChecksPatch(q) == q.op = "patch" => PatchOK(q.data) /\ Fits(q.read, q.data)
ChecksChange(q) == q.op = "change" => q.given = q.read
PasswordOK(q) == q.op \in {"reset", "change"} => q.password \in Passwords

RequestOK(q) == SignupOK(q) /\ CreateOK(q) /\ ChecksPatch(q) /\ ChecksChange(q) /\ PasswordOK(q)

\* A signup under way was begun while signups were on: they still are, or it is
\* one of those that were overtaken.
Allowed(r) == req[r].op = "signup" => signupsEnabled \/ r \in overtaken

ReqInv == DOMAIN req = Requests /\ \A r \in Requests : RequestOK(req[r]) /\ Allowed(r)

LEMMA IdleOK == RequestOK(Idle) /\ Idle.op = "idle"
BY DEF Idle, RequestOK, SignupOK, CreateOK, ChecksPatch, ChecksChange, PasswordOK

LEMMA BeginReqInv ==
  ASSUME ReqInv, NEW r \in Requests, NEW what, Begin(r, what), RequestOK(what),
         what.op = "signup" => signupsEnabled
  PROVE  ReqInv'
<1>1. req' = [req EXCEPT ![r] = what] /\ overtaken' = overtaken
  BY DEF Begin
<1>2. signupsEnabled' = signupsEnabled
  BY DEF Begin
<1>3. DOMAIN req' = Requests
  BY <1>1 DEF ReqInv
<1>4. ASSUME NEW q \in Requests PROVE RequestOK(req'[q])
  <2>1. CASE q = r
    BY <1>1, <2>1 DEF ReqInv
  <2>2. CASE q # r
    <3>1. req'[q] = req[q]
      BY <1>1, <2>2 DEF ReqInv
    <3> QED
      BY <3>1 DEF ReqInv
  <2> QED
    BY <2>1, <2>2
<1>5. ASSUME NEW q \in Requests PROVE Allowed(q)'
  <2>1. CASE q = r
    <3>1. req'[q] = what
      BY <1>1, <2>1 DEF ReqInv
    <3> QED
      BY <1>2, <3>1 DEF Allowed
  <2>2. CASE q # r
    <3>1. req'[q] = req[q]
      BY <1>1, <2>2 DEF ReqInv
    <3> QED
      BY <1>1, <1>2, <3>1 DEF ReqInv, Allowed
  <2> QED
    BY <2>1, <2>2
<1> QED
  BY <1>3, <1>4, <1>5 DEF ReqInv

LEMMA EndReqInv ==
  ASSUME ReqInv, NEW r \in Requests, End(r)
  PROVE  ReqInv'
<1>1. req' = [req EXCEPT ![r] = Idle] /\ overtaken' = overtaken \ {r}
  BY DEF End
<1>2. signupsEnabled' = signupsEnabled
  BY DEF End
<1>3. DOMAIN req' = Requests /\ req'[r] = Idle
  BY <1>1 DEF ReqInv
<1>4. ASSUME NEW q \in Requests PROVE RequestOK(req'[q]) /\ Allowed(q)'
  <2>1. CASE q = r
    BY <1>3, <2>1, IdleOK DEF Allowed
  <2>2. CASE q # r
    <3>1. req'[q] = req[q]
      BY <1>1, <2>2 DEF ReqInv
    <3> QED
      BY <1>1, <1>2, <2>2, <3>1 DEF ReqInv, Allowed
  <2> QED
    BY <2>1, <2>2
<1> QED
  BY <1>3, <1>4 DEF ReqInv

LEMMA SameReqInv ==
  ASSUME ReqInv, UNCHANGED <<req, overtaken, signupsEnabled>>
  PROVE  ReqInv'
BY DEF ReqInv, Allowed

\* The fields of one of the patches.
LEMMA PatchesOK ==
  ASSUME lastCompany \in Nat, NEW data \in Patches
  PROVE  PatchOK(data)
<1>1. CASE data \in [{"role"} -> Roles]
  BY <1>1 DEF PatchOK
<1>2. CASE data \in [{"company"} -> {None} \cup 1..lastCompany]
  BY <1>2 DEF PatchOK
<1>3. CASE data \in [{"email"} -> Emails]
  BY <1>3 DEF PatchOK
<1>4. ASSUME NEW x \in Roles, NEW c \in {None} \cup 1..lastCompany,
             data = [role |-> x, company |-> c]
      PROVE  PatchOK(data)
  BY <1>4 DEF PatchOK
<1> QED
  BY <1>1, <1>2, <1>3, <1>4 DEF Patches

\* What a request knows when it comes to its first await, its checks included.
LEMMA BeginsReqInv ==
  ASSUME ReqInv, lastCompany \in Nat, NEW r \in Requests, Begins(r)
  PROVE  ReqInv'
<1> USE DEF RequestOK, SignupOK, CreateOK, ChecksPatch, ChecksChange, PasswordOK
<1>1. ASSUME NEW s \in Slugs, NEW e \in Emails, BeginSignup(r, s, e) PROVE ReqInv'
  <2> DEFINE q == [op |-> "signup", slug |-> s, email |-> e, checked |-> FALSE]
  <2>1. RequestOK(q) /\ q.op = "signup"
    OBVIOUS
  <2>2. signupsEnabled /\ Begin(r, q)
    BY <1>1 DEF BeginSignup
  <2> HIDE DEF q
  <2> QED
    BY <2>1, <2>2, BeginReqInv
<1>2. ASSUME NEW e \in Emails, NEW role \in Roles, NEW c \in {None} \cup Nat,
             BeginCreate(r, e, role, c)
      PROVE  ReqInv'
  <2> DEFINE q == [op |-> "create", email |-> e, role |-> role,
                   company |-> IF role = "SUPER_ADMIN" THEN None ELSE c]
  <2>1. RequestOK(q) /\ q.op = "create"
    BY <1>2 DEF BeginCreate
  <2>2. Begin(r, q)
    BY <1>2 DEF BeginCreate
  <2> HIDE DEF q
  <2> QED
    BY <2>1, <2>2, BeginReqInv
<1>3. ASSUME NEW u \in 1..lastUser, NEW data \in Patches, BeginPatch(r, u, data)
      PROVE  ReqInv'
  <2> DEFINE q == [op |-> "patch", on |-> u, data |-> data, read |-> Standing(u)]
  <2>1. RequestOK(q) /\ q.op = "patch"
    BY <1>3, PatchesOK DEF BeginPatch
  <2>2. Begin(r, q)
    BY <1>3 DEF BeginPatch
  <2> HIDE DEF q
  <2> QED
    BY <2>1, <2>2, BeginReqInv
<1>4. ASSUME NEW u \in 1..lastUser, NEW p \in Passwords, BeginReset(r, u, p)
      PROVE  ReqInv'
  <2> DEFINE q == [op |-> "reset", on |-> u, password |-> p]
  <2>1. RequestOK(q) /\ q.op = "reset"
    OBVIOUS
  <2>2. Begin(r, q)
    BY <1>4 DEF BeginReset
  <2> HIDE DEF q
  <2> QED
    BY <2>1, <2>2, BeginReqInv
<1>5. ASSUME NEW u \in 1..lastUser, NEW p \in Passwords, NEW g, BeginChange(r, u, g, p)
      PROVE  ReqInv'
  <2> DEFINE q == [op |-> "change", on |-> u, given |-> g, read |-> users[u].password,
                   password |-> p]
  <2>1. RequestOK(q) /\ q.op = "change"
    BY <1>5 DEF BeginChange, Matches
  <2>2. Begin(r, q)
    BY <1>5 DEF BeginChange
  <2> HIDE DEF q
  <2> QED
    BY <2>1, <2>2, BeginReqInv
<1>6. ASSUME NEW e \in Emails, NEW c \in 1..lastCompany, BeginCreate(r, e, "COMPANY_ADMIN", c)
      PROVE  ReqInv'
  BY <1>2, <1>6 DEF Roles
<1>7. ASSUME NEW e \in Emails, BeginCreate(r, e, "SUPER_ADMIN", None)
      PROVE  ReqInv'
  BY <1>2, <1>7 DEF Roles
<1> QED
  BY <1>1, <1>3, <1>4, <1>5, <1>6, <1>7 DEF Begins

\* What a signup knows when it has made its checks.
LEMMA CheckSignupReqInv ==
  ASSUME ReqInv, NEW r \in Requests, CheckSignup(r)
  PROVE  ReqInv'
<1>1. CASE SlugFree(req[r].slug) /\ EmailFree(req[r].email)
  <2>1. /\ req' = [req EXCEPT ![r].checked = TRUE]
        /\ overtaken' = overtaken
    BY <1>1 DEF CheckSignup
  <2>2. signupsEnabled' = signupsEnabled
    BY <1>1 DEF CheckSignup
  <2>3. req[r].op = "signup" /\ RequestOK(req[r]) /\ Allowed(r) /\ DOMAIN req = Requests
    BY DEF CheckSignup, ReqInv
  <2>4. DOMAIN req' = Requests /\ req'[r] = [req[r] EXCEPT !.checked = TRUE]
    BY <2>1, <2>3
  <2>5. req'[r].op = "signup" /\ RequestOK(req'[r])
    BY <2>3, <2>4 DEF RequestOK, SignupOK, CreateOK, ChecksPatch, ChecksChange, PasswordOK
  <2>6. ASSUME NEW q \in Requests PROVE RequestOK(req'[q]) /\ Allowed(q)'
    <3>1. CASE q = r
      BY <2>1, <2>2, <2>3, <2>5, <3>1 DEF Allowed
    <3>2. CASE q # r
      <4>1. req'[q] = req[q]
        BY <2>1, <2>3, <3>2
      <4> QED
        BY <2>1, <2>2, <4>1 DEF ReqInv, Allowed
    <3> QED
      BY <3>1, <3>2
  <2> QED
    BY <2>4, <2>6 DEF ReqInv
<1>2. CASE ~(SlugFree(req[r].slug) /\ EmailFree(req[r].email))
  <2>1. End(r)
    BY <1>2 DEF CheckSignup
  <2> QED
    BY <2>1, EndReqInv
<1> QED
  BY <1>1, <1>2

LEMMA AccountsReqInv ==
  ASSUME ReqInv, lastCompany \in Nat, AccountsNext
  PROVE  ReqInv'
<1>1. ASSUME NEW r \in Requests, Begins(r) PROVE ReqInv'
  BY <1>1, BeginsReqInv
<1>2. ASSUME NEW r \in Requests, CheckSignup(r) PROVE ReqInv'
  BY <1>2, CheckSignupReqInv
<1>3. ASSUME NEW r \in Requests,
             CommitSignup(r) \/ CommitCreate(r) \/ CommitPatch(r) \/ CommitReset(r) \/ CommitChange(r)
      PROVE  ReqInv'
  <2>1. End(r)
    BY <1>3 DEF CommitSignup, CommitCreate, CommitPatch, CommitReset, CommitChange, SetPassword
  <2> QED
    BY <2>1, EndReqInv
<1>4. ASSUME \/ \E u \in 1..lastUser : DeleteUser(u)
             \/ \E s \in Slugs : CreateCompany(s)
             \/ \E c \in 1..lastCompany : DeleteCompany(c)
      PROVE  ReqInv'
  BY <1>4, SameReqInv DEF DeleteUser, CreateCompany, DeleteCompany, AtOnce
<1>5. CASE Restart
  <2>1. req' = [r \in Requests |-> Idle]
    BY <1>5 DEF Restart
  <2> QED
    BY <2>1, IdleOK DEF ReqInv, Allowed
<1> QED
  BY <1>1, <1>2, <1>3, <1>4, <1>5 DEF AccountsNext

-----------------------------------------------------------------------------
(* The rows keep their types, unique indexes and the foreign key. *)

Counters == lastUser \in Nat /\ lastCompany \in Nat

UsersOK(us) ==
  /\ us \in [DOMAIN us -> UserRow]
  /\ \A u, v \in DOMAIN us : us[u].email = us[v].email => u = v
KeysOK(us, cs) == \A u \in DOMAIN us : us[u].company \in {None} \cup DOMAIN cs
TenantsOK(cs) ==
  /\ cs \in [DOMAIN cs -> Slugs]
  /\ \A c, d \in DOMAIN cs : cs[c] = cs[d] => c = d

LEMMA ConsistentParts ==
  ASSUME NEW us, NEW cs
  PROVE  Consistent(us, cs) <=> UsersOK(us) /\ KeysOK(us, cs) /\ TenantsOK(cs)
BY DEF Consistent, UsersOK, KeysOK, TenantsOK

\* One more administrator, whose email is free.
LEMMA InsertUsersOK ==
  ASSUME NEW us, UsersOK(us), NEW id, id \notin DOMAIN us, NEW row \in UserRow,
         \A u \in DOMAIN us : us[u].email # row.email
  PROVE  UsersOK(WithRow(id, row, us))
<1> DEFINE new == WithRow(id, row, us)
<1>1. /\ DOMAIN new = {id} \cup DOMAIN us /\ new[id] = row
      /\ \A u \in DOMAIN us : new[u] = us[u]
  BY DEF WithRow
<1>2. new = [u \in DOMAIN new |-> new[u]]
  BY DEF WithRow
<1> HIDE DEF new
<1>3. \A u \in DOMAIN new : new[u] \in UserRow
  BY <1>1 DEF UsersOK
<1>4. new \in [DOMAIN new -> UserRow]
  BY <1>2, <1>3
<1>5. \A u, v \in DOMAIN new : new[u].email = new[v].email => u = v
  BY <1>1 DEF UsersOK
<1> QED
  BY <1>4, <1>5 DEF UsersOK, new

\* One more company, whose slug is free.
LEMMA InsertTenantsOK ==
  ASSUME NEW cs, TenantsOK(cs), NEW id, id \notin DOMAIN cs, NEW slug \in Slugs,
         \A c \in DOMAIN cs : cs[c] # slug
  PROVE  TenantsOK(WithRow(id, slug, cs)) /\ DOMAIN WithRow(id, slug, cs) = {id} \cup DOMAIN cs
<1> DEFINE new == WithRow(id, slug, cs)
<1>1. /\ DOMAIN new = {id} \cup DOMAIN cs /\ new[id] = slug
      /\ \A c \in DOMAIN cs : new[c] = cs[c]
  BY DEF WithRow
<1>2. new = [c \in DOMAIN new |-> new[c]]
  BY DEF WithRow
<1> HIDE DEF new
<1>3. new \in [DOMAIN new -> Slugs]
  BY <1>1, <1>2 DEF TenantsOK
<1>4. \A c, d \in DOMAIN new : new[c] = new[d] => c = d
  BY <1>1 DEF TenantsOK
<1> QED
  BY <1>1, <1>3, <1>4 DEF TenantsOK, new

\* Fewer rows.
LEMMA RestrictOK ==
  ASSUME NEW us, NEW S \in SUBSET DOMAIN us
  PROVE  /\ DOMAIN Restrict(us, S) = S
         /\ \A u \in S : Restrict(us, S)[u] = us[u]
         /\ UsersOK(us) => UsersOK(Restrict(us, S))
         /\ TenantsOK(us) => TenantsOK(Restrict(us, S))
<1>1. DOMAIN Restrict(us, S) = S /\ \A u \in S : Restrict(us, S)[u] = us[u]
  BY DEF Restrict
<1>2. ASSUME UsersOK(us) PROVE UsersOK(Restrict(us, S))
  <2>1. Restrict(us, S) \in [S -> UserRow]
    BY <1>2 DEF UsersOK, Restrict
  <2> QED
    BY <1>1, <1>2, <2>1 DEF UsersOK
<1>3. ASSUME TenantsOK(us) PROVE TenantsOK(Restrict(us, S))
  <2>1. Restrict(us, S) \in [S -> Slugs]
    BY <1>3 DEF TenantsOK, Restrict
  <2> QED
    BY <1>1, <1>3, <2>1 DEF TenantsOK
<1> QED
  BY <1>1, <1>2, <1>3

\* A row with some of its fields replaced.
LEMMA OverRow ==
  ASSUME NEW row \in UserRow, NEW data,
         DOMAIN data \subseteq {"email", "role", "company", "password", "must"},
         "email" \in DOMAIN data => data["email"] \in Emails \cup {BootEmail},
         "role" \in DOMAIN data => data["role"] \in Roles,
         "company" \in DOMAIN data => data["company"] \in {None} \cup Nat,
         "password" \in DOMAIN data => data["password"] \in Passwords \cup {FirstPassword},
         "must" \in DOMAIN data => data["must"] \in BOOLEAN
  PROVE  /\ Over(data, row) \in UserRow
         /\ \A f \in {"email", "role", "company", "password", "must"} :
              Over(data, row)[f] = IF f \in DOMAIN data THEN data[f] ELSE row[f]
<1>1. DOMAIN row = {"email", "role", "company", "password", "must"}
  BY DEF UserRow
<1>2. Over(data, row) = [f \in {"email", "role", "company", "password", "must"} |->
                           IF f \in DOMAIN data THEN data[f] ELSE row[f]]
  BY <1>1 DEF Over
<1>3. /\ row["email"] \in Emails \cup {BootEmail} /\ row["role"] \in Roles
      /\ row["company"] \in {None} \cup Nat
      /\ row["password"] \in Passwords \cup {FirstPassword} /\ row["must"] \in BOOLEAN
  BY DEF UserRow
<1> QED
  BY <1>2, <1>3 DEF UserRow

Inserted(email, role, company, must) ==
  [email |-> email, role |-> role, company |-> company, password |-> FirstPassword, must |-> must]

\* An insert into admin_users, of a company there is or is inserted with it.
LEMMA InsertAccountsOK ==
  ASSUME Counters, AccountsOK, NEW email \in Emails \cup {BootEmail}, NEW role \in Roles,
         NEW company \in {None} \cup Nat, NEW must \in BOOLEAN,
         Insert(email, role, company, must), EmailFree(email),
         TenantsOK(companies'), DOMAIN companies \subseteq DOMAIN companies',
         company \in {None} \cup DOMAIN companies'
  PROVE  /\ Consistent(users', companies') /\ DOMAIN users' \subseteq 1 .. lastUser'
         /\ lastUser' \in Nat
         /\ lastUser + 1 \notin DOMAIN users /\ DOMAIN users' = {lastUser + 1} \cup DOMAIN users
         /\ users'[lastUser + 1] = Inserted(email, role, company, must)
         /\ \A u \in DOMAIN users : users'[u] = users[u]
<1> DEFINE row == Inserted(email, role, company, must)
<1>1. users' = WithRow(lastUser + 1, row, users) /\ lastUser' = lastUser + 1
  BY DEF Insert, Inserted
<1>2. row \in UserRow /\ row.email = email /\ row.company = company
  BY DEF Inserted, UserRow
<1> HIDE DEF row
<1>3. lastUser + 1 \notin DOMAIN users /\ lastUser' \in Nat
  BY <1>1 DEF Counters, AccountsOK
<1>4. UsersOK(users) /\ KeysOK(users, companies)
  BY ConsistentParts DEF AccountsOK
<1>5. UsersOK(users')
  <2>1. \A u \in DOMAIN users : users[u].email # row.email
    BY <1>2 DEF EmailFree
  <2> QED
    BY <1>1, <1>2, <1>3, <1>4, <2>1, InsertUsersOK
<1>6. /\ DOMAIN users' = {lastUser + 1} \cup DOMAIN users
      /\ users'[lastUser + 1] = row
      /\ \A u \in DOMAIN users : users'[u] = users[u]
  BY <1>1, <1>3 DEF WithRow
<1>7. KeysOK(users', companies')
  BY <1>2, <1>4, <1>6 DEF KeysOK
<1>8. DOMAIN users' \subseteq 1 .. lastUser'
  BY <1>1, <1>6 DEF Counters, AccountsOK
<1> QED
  BY <1>3, <1>5, <1>6, <1>7, <1>8, ConsistentParts DEF row

\* An insert into companies.
LEMMA InsertCompanyOK ==
  ASSUME Counters, AccountsOK, NEW slug \in Slugs, InsertCompany(slug), SlugFree(slug)
  PROVE  /\ TenantsOK(companies') /\ DOMAIN companies' = {lastCompany + 1} \cup DOMAIN companies
         /\ lastCompany + 1 \notin DOMAIN companies
         /\ lastCompany' \in Nat /\ DOMAIN companies' \subseteq 1 .. lastCompany'
<1>1. companies' = WithRow(lastCompany + 1, slug, companies) /\ lastCompany' = lastCompany + 1
  BY DEF InsertCompany
<1>2. lastCompany + 1 \notin DOMAIN companies /\ lastCompany' \in Nat
  BY <1>1 DEF Counters, AccountsOK
<1>3. TenantsOK(companies)
  BY ConsistentParts DEF AccountsOK
<1>4. TenantsOK(companies') /\ DOMAIN companies' = {lastCompany + 1} \cup DOMAIN companies
  <2>1. \A c \in DOMAIN companies : companies[c] # slug
    BY DEF SlugFree
  <2> QED
    BY <1>1, <1>2, <1>3, <2>1, InsertTenantsOK
<1>5. DOMAIN companies' \subseteq 1 .. lastCompany'
  BY <1>1, <1>4 DEF Counters, AccountsOK
<1> QED
  BY <1>2, <1>4, <1>5

\* Nothing about the rows changes.
LEMMA SameAccountsOK ==
  ASSUME AccountsOK, Counters, UNCHANGED <<users, lastUser, companies, lastCompany>>
  PROVE  AccountsOK' /\ Counters'
BY DEF AccountsOK, Counters

\* A row changes, and keeps its columns; its new email is free and its new company
\* is there.
LEMMA UpdateAccountsOK ==
  ASSUME AccountsOK, Counters, UNCHANGED <<lastUser, companies, lastCompany>>,
         NEW u \in DOMAIN users, NEW row \in UserRow, users' = [users EXCEPT ![u] = row],
         EmailFree(row.email) \/ row.email = users[u].email,
         CompanyExists(row.company)
  PROVE  AccountsOK' /\ Counters'
<1>1. UsersOK(users) /\ KeysOK(users, companies) /\ TenantsOK(companies)
  BY ConsistentParts DEF AccountsOK
<1>2. /\ DOMAIN users' = DOMAIN users /\ users'[u] = row
      /\ \A v \in DOMAIN users : v # u => users'[v] = users[v]
      /\ users' \in [DOMAIN users -> UserRow]
  BY <1>1 DEF UsersOK
<1>3. \A v, w \in DOMAIN users : users'[v].email = users'[w].email => v = w
  BY <1>1, <1>2 DEF UsersOK, EmailFree
<1>4. UsersOK(users')
  BY <1>2, <1>3 DEF UsersOK
<1>5. KeysOK(users', companies')
  BY <1>1, <1>2 DEF KeysOK, CompanyExists
<1>6. TenantsOK(companies')
  BY <1>1
<1> QED
  BY <1>2, <1>4, <1>5, <1>6, ConsistentParts DEF AccountsOK, Counters

-----------------------------------------------------------------------------
(* What a step of Accounts does: the rows stay consistent, and the three action *)
(* properties hold of it.                                                      *)

Locks ==
  \A u \in DOMAIN users' : ~LockedOut(u) /\ LockedOut(u)' =>
    \E r \in Requests : /\ req[r].op = "patch" /\ req[r].on = u /\ req'[r] = Idle
                        /\ req[r].read # Standing(u)
Undoes ==
  \A u \in DOMAIN users \cap DOMAIN users' : users[u].must /\ ~users'[u].must =>
    \E r \in Requests : /\ req[r].op = "change" /\ req[r].on = u /\ req'[r] = Idle
                        /\ (users[u].password = req[r].given \/ users[u].password # req[r].read)
Founds ==
  \A c \in DOMAIN companies' \ DOMAIN companies : req' # req =>
    /\ \E u \in DOMAIN users' \ DOMAIN users : users'[u].company = c
    /\ signupsEnabled \/ overtaken' # overtaken

AccountsStep == AccountsOK' /\ Counters' /\ Locks /\ Undoes /\ Founds

\* A row that stays as it is is neither locked out nor freed of its obligation.
LEMMA RowStays ==
  ASSUME NEW u, u \in DOMAIN users, u \in DOMAIN users', users'[u] = users[u]
  PROVE  /\ ~(~LockedOut(u) /\ LockedOut(u)')
         /\ ~(users[u].must /\ ~users'[u].must)
BY DEF LockedOut

LEMMA SameRows ==
  ASSUME AccountsOK, Counters, UNCHANGED <<users, lastUser, companies, lastCompany>>
  PROVE  AccountsStep
<1>1. Locks
  BY DEF Locks, LockedOut
<1>2. Undoes
  BY DEF Undoes
<1>3. Founds
  BY DEF Founds
<1> QED
  BY <1>1, <1>2, <1>3, SameAccountsOK DEF AccountsStep

\* A new administrator of a company has one.
LEMMA InsertStep ==
  ASSUME Counters, AccountsOK, NEW email \in Emails \cup {BootEmail}, NEW role \in Roles,
         NEW company \in {None} \cup Nat, NEW must \in BOOLEAN,
         Insert(email, role, company, must), EmailFree(email),
         role = "COMPANY_ADMIN" => company # None,
         TenantsOK(companies'), DOMAIN companies \subseteq DOMAIN companies',
         company \in {None} \cup DOMAIN companies',
         lastCompany' \in Nat, DOMAIN companies' \subseteq 1 .. lastCompany'
  PROVE  /\ AccountsOK' /\ Counters' /\ Locks /\ Undoes
         /\ \E u \in DOMAIN users' \ DOMAIN users : users'[u].company = company
<1>0. PICK new : new = lastUser + 1
  OBVIOUS
<1>1. /\ Consistent(users', companies') /\ DOMAIN users' \subseteq 1 .. lastUser'
      /\ lastUser' \in Nat
      /\ new \notin DOMAIN users /\ DOMAIN users' = {new} \cup DOMAIN users
      /\ users'[new] = Inserted(email, role, company, must)
      /\ \A u \in DOMAIN users : users'[u] = users[u]
  BY <1>0, InsertAccountsOK
<1>2. AccountsOK' /\ Counters'
  BY <1>1 DEF AccountsOK, Counters
<1>3. users'[new].role = role /\ users'[new].company = company
  BY <1>1 DEF Inserted
<1>4. Locks
  <2>1. ASSUME NEW u \in DOMAIN users PROVE ~(~LockedOut(u) /\ LockedOut(u)')
    BY <1>1, <2>1, RowStays
  <2>2. ~LockedOut(new)'
    BY <1>3 DEF LockedOut
  <2> QED
    BY <1>1, <2>1, <2>2 DEF Locks
<1>5. Undoes
  <2>1. ASSUME NEW u \in DOMAIN users PROVE ~(users[u].must /\ ~users'[u].must)
    BY <1>1, <2>1, RowStays
  <2> QED
    BY <2>1 DEF Undoes
<1> QED
  BY <1>1, <1>2, <1>3, <1>4, <1>5

\* Rows go; the companies of those that stay stay as well.
LEMMA RemoveStep ==
  ASSUME AccountsOK, Counters, NEW S \in SUBSET DOMAIN users, users' = Restrict(users, S),
         NEW C \in SUBSET DOMAIN companies, companies' = Restrict(companies, C),
         \A u \in S : users[u].company \in {None} \cup C,
         UNCHANGED <<lastUser, lastCompany>>
  PROVE  AccountsStep
<1>1. UsersOK(users) /\ TenantsOK(companies)
  BY ConsistentParts DEF AccountsOK
<1>2. /\ DOMAIN users' = S /\ \A u \in S : users'[u] = users[u]
      /\ UsersOK(users')
  BY <1>1, RestrictOK
<1>3. DOMAIN companies' = C /\ TenantsOK(companies')
  BY <1>1, RestrictOK
<1>4. KeysOK(users', companies')
  BY <1>2, <1>3 DEF KeysOK
<1>5. AccountsOK' /\ Counters'
  BY <1>2, <1>3, <1>4, ConsistentParts DEF AccountsOK, Counters
<1>6. ASSUME NEW u \in S
      PROVE  ~(~LockedOut(u) /\ LockedOut(u)') /\ ~(users[u].must /\ ~users'[u].must)
  BY <1>2, <1>6, RowStays
<1>7. Locks
  BY <1>2, <1>6 DEF Locks
<1>8. Undoes
  BY <1>2, <1>6 DEF Undoes
<1>9. Founds
  BY <1>3 DEF Founds
<1> QED
  BY <1>5, <1>7, <1>8, <1>9 DEF AccountsStep

LEMMA CommitSignupStep ==
  ASSUME AccountsOK, Counters, ReqInv, NEW r \in Requests, CommitSignup(r)
  PROVE  AccountsStep
<1>1. req[r].op = "signup" /\ End(r) /\ BothOrNothing(r)
  BY DEF CommitSignup
<1>2. req[r].slug \in Slugs /\ req[r].email \in Emails /\ Allowed(r)
  BY <1>1 DEF ReqInv, RequestOK, SignupOK
<1>3. CASE SlugFree(req[r].slug) /\ EmailFree(req[r].email)
  <2>1. /\ InsertCompany(req[r].slug)
        /\ Insert(req[r].email, "COMPANY_ADMIN", lastCompany + 1, FALSE)
    BY <1>1, <1>3 DEF BothOrNothing
  <2>2. /\ TenantsOK(companies') /\ DOMAIN companies' = {lastCompany + 1} \cup DOMAIN companies
        /\ lastCompany' \in Nat /\ DOMAIN companies' \subseteq 1 .. lastCompany'
    BY <1>2, <1>3, <2>1, InsertCompanyOK
  <2>3. lastCompany + 1 \in Nat /\ lastCompany + 1 # None
    BY AccountsAssumption DEF Counters
  <2>4. /\ AccountsOK' /\ Counters' /\ Locks /\ Undoes
        /\ \E u \in DOMAIN users' \ DOMAIN users : users'[u].company = lastCompany + 1
    <3>1. "COMPANY_ADMIN" \in Roles /\ FALSE \in BOOLEAN
      BY DEF Roles
    <3> QED
      BY <1>2, <1>3, <2>1, <2>2, <2>3, <3>1, InsertStep
  <2>5. signupsEnabled \/ overtaken' # overtaken
    <3>1. overtaken' = overtaken \ {r}
      BY <1>1 DEF End
    <3> QED
      BY <1>1, <1>2, <3>1 DEF Allowed
  <2>6. Founds
    BY <2>2, <2>4, <2>5 DEF Founds
  <2> QED
    BY <2>4, <2>6 DEF AccountsStep
<1>4. CASE ~(SlugFree(req[r].slug) /\ EmailFree(req[r].email))
  BY <1>1, <1>4, SameRows DEF BothOrNothing, NoUser, NoCompany
<1> QED
  BY <1>3, <1>4

LEMMA CommitCreateStep ==
  ASSUME AccountsOK, Counters, ReqInv, NEW r \in Requests, CommitCreate(r)
  PROVE  AccountsStep
<1>1. req[r].op = "create" /\ NoCompany
  BY DEF CommitCreate
<1>2. CreateOK(req[r])
  BY DEF ReqInv, RequestOK
<1>3. CASE EmailFree(req[r].email) /\ CompanyExists(req[r].company)
  <2>1. Insert(req[r].email, req[r].role, req[r].company, FALSE)
    BY <1>3 DEF CommitCreate
  <2>2. /\ companies' = companies /\ lastCompany' = lastCompany
        /\ TenantsOK(companies) /\ req[r].company \in {None} \cup DOMAIN companies
    BY <1>1, <1>3, ConsistentParts DEF NoCompany, AccountsOK, CompanyExists
  <2>3. AccountsOK' /\ Counters' /\ Locks /\ Undoes
    <3>1. lastCompany' \in Nat /\ DOMAIN companies' \subseteq 1 .. lastCompany'
      BY <2>2 DEF Counters, AccountsOK
    <3> QED
      BY <1>1, <1>2, <1>3, <2>1, <2>2, <3>1, InsertStep DEF CreateOK
  <2>4. Founds
    BY <2>2 DEF Founds
  <2> QED
    BY <2>3, <2>4 DEF AccountsStep
<1>4. CASE ~(EmailFree(req[r].email) /\ CompanyExists(req[r].company))
  BY <1>1, <1>4, SameRows DEF CommitCreate, NoUser, NoCompany
<1> QED
  BY <1>3, <1>4

\* A PATCH that locks somebody out was checked against a row that has changed.
LEMMA CommitPatchStep ==
  ASSUME AccountsOK, Counters, ReqInv, NEW r \in Requests, CommitPatch(r)
  PROVE  AccountsStep
<1> DEFINE u == req[r].on
           data == req[r].data
           row == Over(data, users[u])
           ok == /\ u \in DOMAIN users
                 /\ "email" \in DOMAIN data => EmailFree(data.email) \/ data.email = users[u].email
                 /\ "company" \in DOMAIN data => CompanyExists(data.company)
<1>1. /\ req[r].op = "patch" /\ UNCHANGED <<lastUser, companies, lastCompany>>
      /\ End(r)
      /\ users' = IF ok THEN [users EXCEPT ![u] = row] ELSE users
  BY DEF CommitPatch, NoCompany
<1>2. PatchOK(data) /\ Fits(req[r].read, data)
  BY <1>1 DEF ReqInv, RequestOK, ChecksPatch
<1>3. CASE ok
  <2> PICK v, d, new : v = u /\ d = data /\ new = row
    OBVIOUS
  <2>1. /\ v \in DOMAIN users /\ users' = [users EXCEPT ![v] = new] /\ new = Over(d, users[v])
        /\ "email" \in DOMAIN d => EmailFree(d.email) \/ d.email = users[v].email
        /\ "company" \in DOMAIN d => CompanyExists(d.company)
        /\ PatchOK(d) /\ Fits(req[r].read, d) /\ req[r].on = v /\ req[r].data = d
    BY <1>1, <1>2, <1>3
  <2> HIDE DEF u, data, row, ok
  <2>2. users[v] \in UserRow
    BY <2>1, ConsistentParts DEF AccountsOK, UsersOK
  <2>3. /\ new \in UserRow
        /\ \A f \in {"email", "role", "company", "password", "must"} :
             new[f] = IF f \in DOMAIN d THEN d[f] ELSE users[v][f]
    <3>1. DOMAIN d \subseteq {"email", "role", "company", "password", "must"}
      BY <2>1 DEF PatchOK
    <3>2. "password" \notin DOMAIN d /\ "must" \notin DOMAIN d
      BY <2>1 DEF PatchOK
    <3> QED
      BY <2>1, <2>2, <3>1, <3>2, OverRow DEF PatchOK
  <2>4. /\ EmailFree(new.email) \/ new.email = users[v].email
        /\ CompanyExists(new.company)
    <3>1. users[v].company \in {None} \cup DOMAIN companies
      BY <2>1, ConsistentParts DEF AccountsOK, KeysOK
    <3> QED
      BY <2>1, <2>3, <3>1 DEF CompanyExists
  <2>5. AccountsOK' /\ Counters'
    BY <1>1, <2>1, <2>3, <2>4, UpdateAccountsOK
  <2>6. /\ DOMAIN users' = DOMAIN users /\ users'[v] = new
        /\ \A w \in DOMAIN users : w # v => users'[w] = users[w]
    BY <2>1
  <2>7. ASSUME req[r].read = Standing(v), LockedOut(v)'
        PROVE  FALSE
    <3>1. Over(d, Standing(v)).role = new.role /\ Over(d, Standing(v)).company = new.company
      BY <2>3 DEF Over, Standing
    <3>2. new.role = "COMPANY_ADMIN" => new.company # None
      BY <2>1, <2>7, <3>1 DEF Fits
    <3> QED
      BY <2>6, <2>7, <3>2 DEF LockedOut
  <2>8. req'[r] = Idle
    BY <1>1 DEF End, ReqInv
  <2>9. Locks
    <3>1. ASSUME NEW w \in DOMAIN users', ~LockedOut(w), LockedOut(w)'
          PROVE  \E q \in Requests : /\ req[q].op = "patch" /\ req[q].on = w /\ req'[q] = Idle
                                     /\ req[q].read # Standing(w)
      <4>1. w = v
        BY <2>6, <3>1, RowStays
      <4> QED
        BY <1>1, <2>1, <2>7, <2>8, <3>1, <4>1
    <3> QED
      BY <3>1 DEF Locks
  <2>10. Undoes
    <3>1. new.must = users[v].must
      BY <2>1, <2>3 DEF PatchOK
    <3> QED
      BY <2>6, <3>1 DEF Undoes
  <2>11. Founds
    BY <1>1 DEF Founds
  <2> QED
    BY <2>5, <2>9, <2>10, <2>11 DEF AccountsStep
<1>4. CASE ~ok
  BY <1>1, <1>4, SameRows
<1> QED
  BY <1>3, <1>4

\* The obligation to change a temporary password ends by a change that was
\* compared with the password of its time.
LEMMA SetPasswordStep ==
  ASSUME AccountsOK, Counters, ReqInv, NEW r \in Requests, NEW must \in BOOLEAN,
         SetPassword(r, must), req[r].op \in {"reset", "change"},
         ~must => req[r].op = "change"
  PROVE  AccountsStep
<1>0. PICK v, new : v = req[r].on /\ new = Over([password |-> req[r].password, must |-> must], users[v])
  OBVIOUS
<1>1. /\ UNCHANGED <<lastUser, companies, lastCompany>>
      /\ End(r)
      /\ users' = IF v \in DOMAIN users THEN [users EXCEPT ![v] = new] ELSE users
  BY <1>0 DEF SetPassword, NoCompany
<1>2. CASE v \in DOMAIN users
  <2>1. users[v] \in UserRow /\ users[v].company \in {None} \cup DOMAIN companies
    BY <1>2, ConsistentParts DEF AccountsOK, UsersOK, KeysOK
  <2>2. req[r].password \in Passwords
    BY DEF ReqInv, RequestOK, PasswordOK
  <2>3. /\ new \in UserRow
        /\ new.email = users[v].email /\ new.role = users[v].role
        /\ new.company = users[v].company
    <3> DEFINE d == [password |-> req[r].password, must |-> must]
    <3>1. /\ DOMAIN d = {"password", "must"}
          /\ d["password"] \in Passwords \cup {FirstPassword} /\ d["must"] \in BOOLEAN
      BY <2>2
    <3> HIDE DEF d
    <3>2. new = Over(d, users[v])
      BY <1>0 DEF d
    <3> QED
      BY <2>1, <3>1, <3>2, OverRow
  <2>4. AccountsOK' /\ Counters'
    BY <1>1, <1>2, <2>1, <2>3, UpdateAccountsOK DEF CompanyExists
  <2>5. /\ DOMAIN users' = DOMAIN users /\ users'[v] = new
        /\ \A w \in DOMAIN users : w # v => users'[w] = users[w]
    BY <1>1, <1>2
  <2>6. Locks
    <3>1. ASSUME NEW w \in DOMAIN users PROVE ~(~LockedOut(w) /\ LockedOut(w)')
      <4>1. CASE w = v
        BY <2>3, <2>5, <4>1 DEF LockedOut
      <4>2. CASE w # v
        BY <2>5, <4>2, RowStays
      <4> QED
        BY <4>1, <4>2
    <3> QED
      BY <2>5, <3>1 DEF Locks
  <2>7. Undoes
    <3>1. ASSUME NEW w \in DOMAIN users, users[w].must, ~users'[w].must
          PROVE  w = v /\ req[r].op = "change"
      <4>1. w = v
        BY <2>5, <3>1, RowStays
      <4>2. new.must = must
        BY <1>0 DEF Over
      <4>3. ~must
        BY <2>5, <3>1, <4>1, <4>2
      <4> QED
        BY <4>1, <4>3
    <3>2. req'[r] = Idle
      BY <1>1 DEF End, ReqInv
    <3>3. req[r].op = "change" => req[r].given = req[r].read
      BY DEF ReqInv, RequestOK, ChecksChange
    <3> QED
      BY <1>0, <3>1, <3>2, <3>3 DEF Undoes
  <2>8. Founds
    BY <1>1 DEF Founds
  <2> QED
    BY <2>4, <2>6, <2>7, <2>8 DEF AccountsStep
<1>3. CASE v \notin DOMAIN users
  BY <1>1, <1>3, SameRows
<1> QED
  BY <1>2, <1>3

LEMMA RestartStep ==
  ASSUME AccountsOK, Counters, Restart
  PROVE  AccountsStep
<1>1. companies' = companies /\ lastCompany' = lastCompany
  BY DEF Restart
<1>2. CASE DOMAIN users = {}
  <2>1. Insert(BootEmail, "SUPER_ADMIN", None, TRUE) /\ EmailFree(BootEmail)
    BY <1>2 DEF Restart, EmailFree
  <2>2. TenantsOK(companies) /\ lastCompany \in Nat /\ DOMAIN companies \subseteq 1 .. lastCompany
    BY ConsistentParts DEF AccountsOK, Counters
  <2>3. "SUPER_ADMIN" \in Roles /\ TRUE \in BOOLEAN /\ "SUPER_ADMIN" # "COMPANY_ADMIN"
    BY DEF Roles
  <2>4. AccountsOK' /\ Counters' /\ Locks /\ Undoes
    BY <1>1, <2>1, <2>2, <2>3, InsertStep
  <2>5. Founds
    BY <1>1 DEF Founds
  <2> QED
    BY <2>4, <2>5 DEF AccountsStep
<1>3. CASE DOMAIN users # {}
  BY <1>1, <1>3, SameRows DEF Restart, NoUser
<1> QED
  BY <1>2, <1>3

LEMMA RowsStep ==
  ASSUME AccountsOK, Counters
  PROVE  /\ \A u \in 1..lastUser : DeleteUser(u) => AccountsStep
         /\ \A s \in Slugs : CreateCompany(s) => AccountsStep
         /\ \A c \in 1..lastCompany : DeleteCompany(c) => AccountsStep
<1>0. KeysOK(users, companies) /\ companies = Restrict(companies, DOMAIN companies)
  BY ConsistentParts DEF AccountsOK, TenantsOK, Restrict
<1>1. ASSUME NEW u \in 1..lastUser, DeleteUser(u) PROVE AccountsStep
  BY <1>0, <1>1, RemoveStep DEF DeleteUser, NoCompany, KeysOK
<1>2. ASSUME NEW s \in Slugs, CreateCompany(s) PROVE AccountsStep
  <2>1. InsertCompany(s) /\ SlugFree(s) /\ UNCHANGED <<users, lastUser, req>>
    BY <1>2 DEF CreateCompany, NoUser, AtOnce
  <2>2. /\ TenantsOK(companies') /\ DOMAIN companies' = {lastCompany + 1} \cup DOMAIN companies
        /\ lastCompany' \in Nat /\ DOMAIN companies' \subseteq 1 .. lastCompany'
    BY <2>1, InsertCompanyOK
  <2>3. UsersOK(users') /\ KeysOK(users', companies')
    BY <2>1, <2>2, ConsistentParts DEF AccountsOK, KeysOK
  <2>4. AccountsOK' /\ Counters'
    BY <2>1, <2>2, <2>3, ConsistentParts DEF AccountsOK, Counters
  <2>5. Locks
    BY <2>1 DEF Locks, LockedOut
  <2>6. Undoes
    BY <2>1 DEF Undoes
  <2>7. Founds
    BY <2>1 DEF Founds
  <2> QED
    BY <2>4, <2>5, <2>6, <2>7 DEF AccountsStep
<1>3. ASSUME NEW c \in 1..lastCompany, DeleteCompany(c) PROVE AccountsStep
  <2> DEFINE S == {u \in DOMAIN users : users[u].company # c}
             C == DOMAIN companies \ {c}
  <2>1. /\ users' = Restrict(users, S) /\ companies' = Restrict(companies, C)
        /\ UNCHANGED <<lastUser, lastCompany>>
    BY <1>3 DEF DeleteCompany, Remaining
  <2>2. \A u \in S : users[u].company \in {None} \cup C
    BY <1>0 DEF KeysOK
  <2>3. S \in SUBSET DOMAIN users /\ C \in SUBSET DOMAIN companies
    OBVIOUS
  <2> HIDE DEF S, C
  <2> QED
    BY <2>1, <2>2, <2>3, RemoveStep
<1> QED
  BY <1>1, <1>2, <1>3

LEMMA AccountsNextStep ==
  ASSUME AccountsOK, Counters, ReqInv, AccountsNext
  PROVE  AccountsStep
<1>1. ASSUME NEW r \in Requests, Begins(r) PROVE AccountsStep
  <2>1. ASSUME NEW what, Begin(r, what) PROVE AccountsStep
    BY <2>1, SameRows DEF Begin
  <2> QED
    BY <1>1, <2>1
    DEF Begins, BeginSignup, BeginCreate, BeginPatch, BeginReset, BeginChange
<1>2. ASSUME NEW r \in Requests, CheckSignup(r) PROVE AccountsStep
  BY <1>2, SameRows DEF CheckSignup, NoUser, NoCompany
<1>3. ASSUME NEW r \in Requests, CommitReset(r) \/ CommitChange(r) PROVE AccountsStep
  BY <1>3, SetPasswordStep DEF CommitReset, CommitChange
<1> QED
  BY <1>1, <1>2, <1>3, CommitSignupStep, CommitCreateStep, CommitPatchStep, RowsStep, RestartStep
  DEF AccountsNext

-----------------------------------------------------------------------------
(* The forms. *)

SettingsOK(s) ==
  /\ DOMAIN s = SettingFields \cup {"signupsEnabled"}
  /\ s["signupsEnabled"] \in BOOLEAN
  /\ \A f \in SettingFields : s[f] \in {1, 2}
HookOK(h) == h \in [HookFields \cup {"webhookUrl"} -> {None, "set"} \cup Urls]

\* What a tab has at a page p: the form b loaded from rows, the save s made of it.
PageOK(p) == p \in {"none", "settings", "drawer"}
BaseOK(p, b) ==
  b # NotLoaded => /\ p = "settings" => SettingsOK(b)
                   /\ p = "drawer" => HookOK(b)
                   /\ p # "none"
SaveOK(p, s) ==
  /\ p = "none" => s = NoSave
  /\ s.at \in {"sent", "read"} => {"at", "sent", "read"} \subseteq DOMAIN s
  /\ s.at = "sent" /\ p = "settings" => SettingsOK(s.sent)
  /\ s.at = "answered" /\ p = "settings" => SettingsOK(s.reply)
  /\ s.at \in {"sent", "read"} /\ p = "drawer" => HookOK(s.sent)
  /\ s.at = "read" => p = "drawer"
TabOK(p, b, s) == PageOK(p) /\ BaseOK(p, b) /\ SaveOK(p, s)

Domains ==
  DOMAIN page = Tabs /\ DOMAIN base = Tabs /\ DOMAIN save = Tabs /\ DOMAIN regenerate = Tabs
TabsOK == \A a \in Tabs : TabOK(page[a], base[a], save[a])

\* What a PATCH has read of the secret may be old, but a device that had one has one.
SecretsOK ==
  /\ lastSecret \in Nat /\ secret \in 0..lastSecret
  /\ hook["webhookUrl"] # None => secret # 0
  /\ \A a \in Tabs : save[a].at = "read" => save[a].read = 0 \/ secret # 0
RowsOK ==
  /\ settings \in [SettingFields -> {1, 2}] /\ signupsEnabled \in BOOLEAN
  /\ HookOK(hook)

FormsInv == Domains /\ TabsOK /\ SecretsOK /\ RowsOK

LEMMA NoSaveOK == NoSave.at = "none" /\ \A p : SaveOK(p, NoSave)
BY DEF NoSave, SaveOK

\* The row of platform_settings.
LEMMA SettingsRowOK ==
  ASSUME RowsOK
  PROVE  /\ SettingsOK(SettingsRow)
         /\ SettingsRow["signupsEnabled"] = signupsEnabled
         /\ \A f \in SettingFields : SettingsRow[f] = settings[f]
<1>1. DOMAIN [signupsEnabled |-> signupsEnabled] = {"signupsEnabled"}
  OBVIOUS
<1>2. DOMAIN settings = SettingFields /\ "signupsEnabled" \notin SettingFields
  BY FormsAssumption DEF RowsOK
<1>3. /\ DOMAIN SettingsRow = SettingFields \cup {"signupsEnabled"}
      /\ SettingsRow["signupsEnabled"] = signupsEnabled
      /\ \A f \in SettingFields : SettingsRow[f] = settings[f]
  BY <1>1, <1>2 DEF SettingsRow, Over
<1> QED
  BY <1>3 DEF SettingsOK, RowsOK

\* Fields f over a whole row g of the form.
LEMMA OverFields ==
  ASSUME NEW f, NEW g, DOMAIN f \subseteq DOMAIN g
  PROVE  /\ DOMAIN Over(f, g) = DOMAIN g
         /\ \A x \in DOMAIN f : Over(f, g)[x] = f[x]
         /\ \A x \in DOMAIN g \ DOMAIN f : Over(f, g)[x] = g[x]
         /\ Over(f, g) = [x \in DOMAIN g |-> IF x \in DOMAIN f THEN f[x] ELSE g[x]]
<1>1. DOMAIN f \cup DOMAIN g = DOMAIN g
  OBVIOUS
<1> QED
  BY <1>1 DEF Over

\* What can be typed.
LEMMA SettingEditsOK ==
  ASSUME NEW e \in SettingEdits
  PROVE  /\ DOMAIN e \subseteq SettingFields \cup {"signupsEnabled"}
         /\ "signupsEnabled" \in DOMAIN e => e["signupsEnabled"] \in BOOLEAN
         /\ \A f \in SettingFields \cap DOMAIN e : e[f] \in {1, 2}
<1>1. PICK s \in Edits({"signupsEnabled"}, BOOLEAN), g \in Edits(SettingFields, {1, 2}) :
        e = Over(s, g)
  BY DEF SettingEdits
<1>2. PICK S \in SUBSET {"signupsEnabled"} : s \in [S -> BOOLEAN]
  BY DEF Edits
<1>3. PICK G \in SUBSET SettingFields : g \in [G -> {1, 2}]
  BY DEF Edits
<1>4. DOMAIN e = S \cup G /\ DOMAIN s = S /\ DOMAIN g = G
  BY <1>1, <1>2, <1>3 DEF Over
<1>5. \A x \in S : e[x] = s[x]
  BY <1>1, <1>4 DEF Over
<1>6. \A x \in G : x \notin S => e[x] = g[x]
  BY <1>1, <1>4 DEF Over
<1>7. "signupsEnabled" \notin SettingFields
  BY FormsAssumption
<1> QED
  BY <1>2, <1>3, <1>4, <1>5, <1>6, <1>7

LEMMA HookEditsOK ==
  ASSUME NEW e \in HookEdits
  PROVE  /\ DOMAIN e \subseteq HookFields \cup {"webhookUrl"}
         /\ \A f \in DOMAIN e : e[f] \in {None, "set"} \cup Urls
<1>1. PICK u \in Edits({"webhookUrl"}, {None} \cup Urls), g \in Edits(HookFields, {None, "set"}) :
        e = Over(u, g)
  BY DEF HookEdits
<1>2. PICK S \in SUBSET {"webhookUrl"} : u \in [S -> {None} \cup Urls]
  BY DEF Edits
<1>3. PICK G \in SUBSET HookFields : g \in [G -> {None, "set"}]
  BY DEF Edits
<1>4. DOMAIN e = S \cup G /\ DOMAIN u = S /\ DOMAIN g = G
  BY <1>1, <1>2, <1>3 DEF Over
<1>5. \A x \in S : e[x] = u[x]
  BY <1>1, <1>4 DEF Over
<1>6. \A x \in G : x \notin S => e[x] = g[x]
  BY <1>1, <1>4 DEF Over
<1> QED
  BY <1>2, <1>3, <1>4, <1>5, <1>6

\* A form with some of its fields edited.
LEMMA EditedSettingsOK ==
  ASSUME NEW e, NEW s, SettingsOK(s),
         DOMAIN e \subseteq SettingFields \cup {"signupsEnabled"},
         "signupsEnabled" \in DOMAIN e => e["signupsEnabled"] \in BOOLEAN,
         \A f \in SettingFields \cap DOMAIN e : e[f] \in {1, 2}
  PROVE  SettingsOK(Over(e, s))
<1>1. DOMAIN e \subseteq DOMAIN s
  BY DEF SettingsOK
<1>2. /\ DOMAIN Over(e, s) = DOMAIN s
      /\ \A x \in DOMAIN e : Over(e, s)[x] = e[x]
      /\ \A x \in DOMAIN s \ DOMAIN e : Over(e, s)[x] = s[x]
  BY <1>1, OverFields
<1>3. Over(e, s)["signupsEnabled"] \in BOOLEAN
  <2>1. CASE "signupsEnabled" \in DOMAIN e
    <3>1. Over(e, s)["signupsEnabled"] = e["signupsEnabled"]
      BY <1>2, <2>1
    <3> QED
      BY <2>1, <3>1
  <2>2. CASE "signupsEnabled" \notin DOMAIN e
    <3>1. Over(e, s)["signupsEnabled"] = s["signupsEnabled"]
      BY <1>2, <2>2 DEF SettingsOK
    <3> QED
      BY <3>1 DEF SettingsOK
  <2> QED
    BY <2>1, <2>2
<1>4. \A f \in SettingFields : Over(e, s)[f] \in {1, 2}
  BY <1>2 DEF SettingsOK
<1> QED
  BY <1>2, <1>3, <1>4 DEF SettingsOK

LEMMA EditedHookOK ==
  ASSUME NEW e, NEW h, HookOK(h), DOMAIN e \subseteq HookFields \cup {"webhookUrl"},
         \A f \in DOMAIN e : e[f] \in {None, "set"} \cup Urls
  PROVE  HookOK(Over(e, h))
<1>1. DOMAIN h = HookFields \cup {"webhookUrl"} /\ DOMAIN e \subseteq DOMAIN h
  BY DEF HookOK
<1>2. Over(e, h) = [x \in DOMAIN h |-> IF x \in DOMAIN e THEN e[x] ELSE h[x]]
  BY <1>1, OverFields
<1>3. \A x \in DOMAIN h : (IF x \in DOMAIN e THEN e[x] ELSE h[x]) \in {None, "set"} \cup Urls
  BY <1>1 DEF HookOK
<1> QED
  BY <1>1, <1>2, <1>3 DEF HookOK

LEMMA BlankHookOK == HookOK(BlankHook)
BY DEF BlankHook, HookOK

-----------------------------------------------------------------------------
(* What a step of a form does. *)

\* A step that writes no row.
LEMMA QuietStep ==
  ASSUME FormsInv, UNCHANGED <<settings, signupsEnabled, device>>, Domains', TabsOK',
         \A a \in Tabs : save'[a] = save[a] \/ save'[a].at # "read" \/ save'[a].read = secret
  PROVE  FormsInv'
<1>1. RowsOK'
  BY DEF device, FormsInv, RowsOK
<1>2. UNCHANGED <<hook, secret, lastSecret>>
  BY DEF device
<1>3. SecretsOK'
  <2>1. ASSUME NEW a \in Tabs, save'[a].at = "read"
        PROVE  save'[a].read = 0 \/ secret' # 0
    BY <1>2, <2>1 DEF FormsInv, SecretsOK
  <2> QED
    BY <1>2, <2>1 DEF FormsInv, SecretsOK
<1> QED
  BY <1>1, <1>3 DEF FormsInv

\* The other tabs stay as they are.
LEMMA OtherTabs ==
  ASSUME FormsInv, NEW a \in Tabs, TabOK(page'[a], base'[a], save'[a]),
         \A b \in Tabs \ {a} : page'[b] = page[b] /\ base'[b] = base[b] /\ save'[b] = save[b]
  PROVE  TabsOK'
BY DEF TabsOK, FormsInv

LEMMA OpenStep ==
  ASSUME FormsInv, NEW a \in Tabs, NEW which \in {"settings", "drawer"}, Open(a, which)
  PROVE  FormsInv'
<1>1. /\ page[a] = "none" /\ page' = [page EXCEPT ![a] = which]
      /\ UNCHANGED <<settings, signupsEnabled, device, base, save, regenerate>>
  BY DEF Open
<1>2. Domains'
  BY <1>1 DEF FormsInv, Domains
<1>3. page'[a] = which /\ \A b \in Tabs \ {a} : page'[b] = page[b]
  BY <1>1 DEF FormsInv, Domains
<1>4. save[a] = NoSave /\ ~(base[a] # NotLoaded)
  BY <1>1 DEF FormsInv, TabsOK, TabOK, SaveOK, BaseOK
<1>5. TabOK(page'[a], base'[a], save'[a])
  BY <1>1, <1>3, <1>4, NoSaveOK DEF TabOK, PageOK, BaseOK
<1> QED
  BY <1>1, <1>2, <1>3, <1>5, OtherTabs, QuietStep

LEMMA LoadStep ==
  ASSUME FormsInv, NEW a \in Tabs, Load(a)
  PROVE  FormsInv'
<1>1. /\ page[a] # "none"
      /\ base' = [base EXCEPT ![a] = IF page[a] = "settings" THEN SettingsRow ELSE hook]
      /\ UNCHANGED <<settings, signupsEnabled, device, page, save, regenerate>>
  BY DEF Load, accountVars
<1>2. Domains'
  BY <1>1 DEF FormsInv, Domains
<1>3. /\ base'[a] = IF page[a] = "settings" THEN SettingsRow ELSE hook
      /\ \A b \in Tabs \ {a} : base'[b] = base[b]
  BY <1>1 DEF FormsInv, Domains
<1>4. BaseOK(page[a], base'[a])
  BY <1>1, <1>3, SettingsRowOK DEF BaseOK, FormsInv, RowsOK
<1>5. TabOK(page'[a], base'[a], save'[a])
  BY <1>1, <1>4 DEF FormsInv, TabsOK, TabOK
<1> QED
  BY <1>1, <1>2, <1>3, <1>5, OtherTabs, QuietStep

\* Close, and the end of a save in the drawer.
LEMMA ShutStep ==
  ASSUME FormsInv, NEW a \in Tabs, Shut(a),
         (save' = save /\ save[a] = NoSave) \/ save' = [save EXCEPT ![a] = NoSave],
         UNCHANGED <<settings, signupsEnabled, device, regenerate>>
  PROVE  FormsInv'
<1>1. page' = [page EXCEPT ![a] = "none"] /\ base' = [base EXCEPT ![a] = NotLoaded]
  BY DEF Shut
<1>2. Domains'
  BY <1>1 DEF FormsInv, Domains
<1>3. /\ page'[a] = "none" /\ base'[a] = NotLoaded /\ save'[a] = NoSave
      /\ \A b \in Tabs \ {a} : page'[b] = page[b] /\ base'[b] = base[b] /\ save'[b] = save[b]
  BY <1>1 DEF FormsInv, Domains
<1>4. TabOK(page'[a], base'[a], save'[a])
  BY <1>3, NoSaveOK DEF TabOK, PageOK, BaseOK
<1>5. \A b \in Tabs : save'[b] = save[b] \/ save'[b].at # "read"
  BY <1>3, NoSaveOK
<1> QED
  BY <1>2, <1>3, <1>4, <1>5, OtherTabs, QuietStep

LEMMA SaveEnds ==
  ASSUME FormsInv, NEW a \in Tabs, save' = [save EXCEPT ![a] = NoSave],
         base' = base \/ \E s : base' = [base EXCEPT ![a] = s] /\ page[a] = "settings" /\ SettingsOK(s),
         UNCHANGED <<settings, signupsEnabled, device, page, regenerate>>
  PROVE  FormsInv'
<1>1. Domains'
  BY DEF FormsInv, Domains
<1>2. /\ save'[a] = NoSave
      /\ \A b \in Tabs \ {a} : page'[b] = page[b] /\ base'[b] = base[b] /\ save'[b] = save[b]
  BY DEF FormsInv, Domains
<1>3. BaseOK(page[a], base'[a])
  <2>1. CASE base' = base
    BY <2>1 DEF FormsInv, TabsOK, TabOK
  <2>2. ASSUME NEW s, base' = [base EXCEPT ![a] = s], page[a] = "settings", SettingsOK(s)
        PROVE  BaseOK(page[a], base'[a])
    <3>1. base'[a] = s
      BY <2>2 DEF FormsInv, Domains
    <3> QED
      BY <2>2, <3>1 DEF BaseOK
  <2> QED
    BY <2>1, <2>2
<1>4. TabOK(page'[a], base'[a], save'[a])
  BY <1>2, <1>3, NoSaveOK DEF FormsInv, TabsOK, TabOK
<1>5. \A b \in Tabs : save'[b] = save[b] \/ save'[b].at # "read"
  BY <1>2, NoSaveOK
<1> QED
  BY <1>1, <1>2, <1>4, <1>5, OtherTabs, QuietStep

LEMMA SendStep ==
  ASSUME FormsInv, NEW a \in Tabs, NEW edits, NEW unedited, Send(a, edits, unedited),
         \/ /\ page[a] = "settings" /\ base[a] # NotLoaded /\ unedited = base[a]
            /\ edits \in SettingEdits
         \/ /\ page[a] = "drawer" /\ edits \in HookEdits
            /\ unedited = IF base[a] = NotLoaded THEN BlankHook ELSE base[a]
  PROVE  FormsInv'
<1>1. PICK s : s = [at |-> "sent", sent |-> Over(edits, unedited), read |-> 0,
                    edited |-> DOMAIN edits]
  OBVIOUS
<1>2. /\ save' = [save EXCEPT ![a] = s]
      /\ UNCHANGED <<settings, signupsEnabled, device, page, base, regenerate>>
  BY <1>1 DEF Send
<1>3. Domains'
  BY <1>2 DEF FormsInv, Domains
<1>4. save'[a] = s /\ \A b \in Tabs \ {a} : save'[b] = save[b]
  BY <1>2 DEF FormsInv, Domains
<1>5. /\ s.at = "sent" /\ {"at", "sent", "read"} \subseteq DOMAIN s
      /\ s.sent = Over(edits, unedited)
  BY <1>1
<1>6. BaseOK(page[a], base[a])
  BY DEF FormsInv, TabsOK, TabOK
<1>7. CASE page[a] = "settings" /\ base[a] # NotLoaded /\ unedited = base[a] /\ edits \in SettingEdits
  <2>1. SettingsOK(unedited)
    BY <1>6, <1>7 DEF BaseOK
  <2>2. SettingsOK(s.sent)
    BY <1>5, <1>7, <2>1, SettingEditsOK, EditedSettingsOK
  <2> QED
    <3>1. SaveOK(page[a], s)
      BY <1>5, <1>7, <2>2 DEF SaveOK
    <3>2. TabOK(page'[a], base'[a], save'[a])
      BY <1>2, <1>4, <3>1 DEF FormsInv, TabsOK, TabOK
    <3> QED
      BY <1>2, <1>3, <1>4, <1>5, <3>2, OtherTabs, QuietStep
<1>8. CASE /\ page[a] = "drawer" /\ edits \in HookEdits
           /\ unedited = IF base[a] = NotLoaded THEN BlankHook ELSE base[a]
  <2>1. HookOK(unedited)
    BY <1>6, <1>8, BlankHookOK DEF BaseOK
  <2>2. HookOK(s.sent)
    BY <1>5, <1>8, <2>1, HookEditsOK, EditedHookOK
  <2> QED
    <3>1. SaveOK(page[a], s)
      BY <1>5, <1>8, <2>2 DEF SaveOK
    <3>2. TabOK(page'[a], base'[a], save'[a])
      BY <1>2, <1>4, <3>1 DEF FormsInv, TabsOK, TabOK
    <3> QED
      BY <1>2, <1>3, <1>4, <1>5, <3>2, OtherTabs, QuietStep
<1> QED
  BY <1>7, <1>8

\* PATCH /settings writes what was sent.
LEMMA PatchSettingsStep ==
  ASSUME FormsInv, NEW a \in Tabs, PatchSettings(a)
  PROVE  FormsInv'
<1>1. PICK row : row = Over(save[a].sent, SettingsRow)
  OBVIOUS
<1>2. PICK s : s = [at |-> "answered", reply |-> row]
  OBVIOUS
<1>3. /\ page[a] = "settings" /\ save[a].at = "sent"
      /\ settings' = [f \in SettingFields |-> row[f]]
      /\ save' = [save EXCEPT ![a] = s]
      /\ UNCHANGED <<device, page, base, regenerate>>
  BY <1>1, <1>2 DEF PatchSettings
<1>4. signupsEnabled' = row["signupsEnabled"]
  BY <1>1 DEF PatchSettings
<1>5. SettingsOK(save[a].sent)
  BY <1>3 DEF FormsInv, TabsOK, TabOK, SaveOK
<1>6. SettingsOK(SettingsRow)
  BY SettingsRowOK DEF FormsInv
<1>7. SettingsOK(row)
  BY <1>1, <1>5, <1>6, EditedSettingsOK DEF SettingsOK
<1>8. RowsOK'
  <2>1. signupsEnabled' \in BOOLEAN
    BY <1>4, <1>7 DEF SettingsOK
  <2>2. settings' \in [SettingFields -> {1, 2}]
    BY <1>3, <1>7 DEF SettingsOK
  <2>3. HookOK(hook')
    BY <1>3 DEF device, FormsInv, RowsOK
  <2> QED
    BY <2>1, <2>2, <2>3 DEF RowsOK
<1>9. Domains'
  BY <1>3 DEF FormsInv, Domains
<1>10. save'[a] = s /\ \A b \in Tabs \ {a} : save'[b] = save[b]
  BY <1>3 DEF FormsInv, Domains
<1>11. s.at = "answered" /\ s.reply = row
  BY <1>2
<1>12. TabsOK'
  <2>1. SaveOK(page[a], s)
    BY <1>3, <1>7, <1>11 DEF SaveOK
  <2>2. TabOK(page'[a], base'[a], save'[a])
    BY <1>3, <1>10, <2>1 DEF FormsInv, TabsOK, TabOK
  <2> QED
    BY <1>3, <1>10, <2>2, OtherTabs
<1>13. UNCHANGED <<hook, secret, lastSecret>>
  BY <1>3 DEF device
<1>14. SecretsOK'
  BY <1>10, <1>11, <1>13 DEF FormsInv, SecretsOK
<1> QED
  BY <1>8, <1>9, <1>12, <1>14 DEF FormsInv

LEMMA ReadDeviceStep ==
  ASSUME FormsInv, NEW a \in Tabs, ReadDevice(a)
  PROVE  FormsInv'
<1>1. PICK s : s = [save[a] EXCEPT !.at = "read", !.read = secret]
  OBVIOUS
<1>2. /\ page[a] = "drawer" /\ save[a].at = "sent"
      /\ UNCHANGED <<settings, signupsEnabled, device, page, base, regenerate>>
  BY DEF ReadDevice, accountVars
<1>3. save' = [save EXCEPT ![a] = s]
  BY <1>1 DEF ReadDevice, FormsInv, Domains
<1>4. SaveOK("drawer", save[a]) /\ {"at", "sent", "read"} \subseteq DOMAIN save[a]
  BY <1>2 DEF FormsInv, TabsOK, TabOK, SaveOK
<1>5. /\ DOMAIN s = DOMAIN save[a]
      /\ s.at = "read" /\ s.read = secret /\ s.sent = save[a].sent
  BY <1>1, <1>4
<1>6. SaveOK("drawer", s)
  BY <1>2, <1>4, <1>5 DEF SaveOK
<1>7. Domains'
  BY <1>2, <1>3 DEF FormsInv, Domains
<1>8. save'[a] = s /\ \A b \in Tabs \ {a} : save'[b] = save[b]
  BY <1>3 DEF FormsInv, Domains
<1>9. TabOK(page'[a], base'[a], save'[a])
  BY <1>2, <1>6, <1>8 DEF FormsInv, TabsOK, TabOK
<1>10. \A b \in Tabs : save'[b] = save[b] \/ save'[b].read = secret
  BY <1>5, <1>8
<1> QED
  BY <1>2, <1>7, <1>8, <1>9, <1>10, OtherTabs, QuietStep

\* PATCH /devices/:id writes what was sent; a device it gives a URL has a secret,
\* the one it has read or a new one.
LEMMA UpdateDeviceStep ==
  ASSUME FormsInv, NEW a \in Tabs, UpdateDevice(a)
  PROVE  FormsInv'
<1>1. PICK s : s = [at |-> "answered"]
  OBVIOUS
<1>2. /\ save[a].at = "read" /\ hook' = save[a].sent /\ save' = [save EXCEPT ![a] = s]
      /\ UNCHANGED <<settings, signupsEnabled, page, base, regenerate>>
  BY <1>1 DEF UpdateDevice, accountVars
<1>3. page[a] = "drawer" /\ HookOK(save[a].sent)
  BY <1>2 DEF FormsInv, TabsOK, TabOK, SaveOK
<1>4. /\ lastSecret \in Nat /\ secret \in 0..lastSecret
      /\ save[a].read = 0 \/ secret # 0
  BY <1>2 DEF FormsInv, SecretsOK
<1>5. save'[a] = s /\ \A b \in Tabs \ {a} : save'[b] = save[b]
  BY <1>2 DEF FormsInv, Domains
<1>6. s.at = "answered"
  BY <1>1
<1>7. SaveOK("drawer", s)
  BY <1>6 DEF SaveOK
<1>8. Domains'
  BY <1>2 DEF FormsInv, Domains
<1>9. TabsOK'
  <2>1. TabOK(page'[a], base'[a], save'[a])
    BY <1>2, <1>3, <1>5, <1>7 DEF FormsInv, TabsOK, TabOK
  <2> QED
    BY <1>2, <1>5, <2>1, OtherTabs
<1>10. RowsOK'
  BY <1>2, <1>3 DEF FormsInv, RowsOK
<1>11. /\ lastSecret' \in Nat /\ secret' \in 0..lastSecret'
       /\ secret # 0 => secret' # 0
       /\ hook'["webhookUrl"] # None => secret' # 0
  <2>1. CASE FirstUrl(a)
    <3>1. lastSecret' = lastSecret + 1 /\ secret' = lastSecret + 1
      BY <2>1 DEF UpdateDevice, NewSecret
    <3> QED
      BY <1>4, <2>1, <3>1 DEF FirstUrl
  <2>2. CASE ~FirstUrl(a)
    <3>1. lastSecret' = lastSecret /\ secret' = secret
      BY <2>2 DEF UpdateDevice
    <3> QED
      BY <1>2, <1>4, <2>2, <3>1 DEF FirstUrl
  <2> QED
    BY <2>1, <2>2
<1>12. SecretsOK'
  BY <1>5, <1>6, <1>11 DEF FormsInv, SecretsOK
<1> QED
  BY <1>8, <1>9, <1>10, <1>12 DEF FormsInv

\* A regeneration gives the device a secret.
LEMMA RegenerateSecretStep ==
  ASSUME FormsInv, NEW a \in Tabs, RegenerateSecret(a)
  PROVE  FormsInv'
<1>1. /\ regenerate[a] = "sent" /\ regenerate' = [regenerate EXCEPT ![a] = "answered"]
      /\ lastSecret' = lastSecret + 1 /\ secret' = lastSecret + 1
      /\ UNCHANGED <<settings, signupsEnabled, hook, page, base, save>>
  BY DEF RegenerateSecret, NewSecret, accountVars
<1>2. Domains'
  BY <1>1 DEF FormsInv, Domains
<1>3. TabsOK' /\ RowsOK'
  BY <1>1 DEF FormsInv, TabsOK, RowsOK
<1>4. SecretsOK'
  <2>1. lastSecret \in Nat
    BY DEF FormsInv, SecretsOK
  <2>2. lastSecret' \in Nat /\ secret' \in 0..lastSecret' /\ secret' # 0
    BY <1>1, <2>1
  <2> QED
    BY <2>2 DEF SecretsOK
<1> QED
  BY <1>2, <1>3, <1>4 DEF FormsInv

\* A step that touches neither the forms nor the rows they show, but for a
\* regeneration that is sent or shown.
LEMMA AsideStep ==
  ASSUME FormsInv, UNCHANGED <<settings, signupsEnabled, device, page, base, save>>,
         DOMAIN regenerate' = Tabs
  PROVE  FormsInv'
<1>1. Domains' /\ TabsOK'
  BY DEF FormsInv, Domains, TabsOK
<1> QED
  BY <1>1, QuietStep

LEMMA FormsNextStep ==
  ASSUME FormsInv, FormsNext
  PROVE  FormsInv'
<1> SUFFICES ASSUME NEW a \in Tabs,
                    \/ Open(a, "settings") \/ Open(a, "drawer") \/ Load(a) \/ Close(a) \/ SaveFails(a)
                    \/ \E e \in SettingEdits : SubmitSettings(a, e)
                    \/ PatchSettings(a) \/ SettingsSaved(a)
                    \/ \E e \in HookEdits : SubmitHook(a, e)
                    \/ ReadDevice(a) \/ UpdateDevice(a) \/ HookSaved(a)
                    \/ Regenerate(a) \/ RegenerateSecret(a) \/ Regenerated(a)
             PROVE  FormsInv'
  BY DEF FormsNext
<1>1. CASE Open(a, "settings") \/ Open(a, "drawer") \/ Load(a)
  BY <1>1, OpenStep, LoadStep
<1>2. CASE Close(a)
  BY <1>2, ShutStep DEF Close, accountVars
<1>3. CASE SaveFails(a)
  BY <1>3, SaveEnds DEF SaveFails, accountVars
<1>4. ASSUME NEW e \in SettingEdits, SubmitSettings(a, e) PROVE FormsInv'
  <2>1. page[a] = "settings" /\ base[a] # NotLoaded /\ Send(a, e, base[a])
    BY <1>4 DEF SubmitSettings, FormShown, Loaded
  <2> QED
    BY <2>1, SendStep
<1>5. CASE PatchSettings(a)
  BY <1>5, PatchSettingsStep
<1>6. CASE SettingsSaved(a)
  <2>1. SettingsOK(save[a].reply)
    BY <1>6 DEF SettingsSaved, FormsInv, TabsOK, TabOK, SaveOK
  <2> QED
    BY <1>6, <2>1, SaveEnds DEF SettingsSaved, accountVars
<1>7. ASSUME NEW e \in HookEdits, SubmitHook(a, e) PROVE FormsInv'
  BY <1>7, SendStep DEF SubmitHook
<1>8. CASE ReadDevice(a) \/ UpdateDevice(a) \/ RegenerateSecret(a)
  BY <1>8, ReadDeviceStep, UpdateDeviceStep, RegenerateSecretStep
<1>9. CASE HookSaved(a)
  BY <1>9, ShutStep DEF HookSaved, accountVars
<1>10. CASE Regenerate(a) \/ Regenerated(a)
  <2>1. DOMAIN regenerate' = Tabs
    BY <1>10 DEF Regenerate, Regenerated, FormsInv, Domains
  <2> QED
    BY <1>10, <2>1, AsideStep DEF Regenerate, Regenerated, accountVars, accounts
<1> QED
  BY <1>1, <1>2, <1>3, <1>4, <1>5, <1>6, <1>7, <1>8, <1>9, <1>10

-----------------------------------------------------------------------------
(* Both together. *)

\* The inductive invariant.
Inv == AccountsOK /\ Counters /\ ReqInv /\ FormsInv

LEMMA InitInv == Init => Inv
<1> SUFFICES ASSUME Init PROVE Inv
  OBVIOUS
<1>1. AccountsOK /\ Counters
  BY AccountsAssumption DEF Init, AccountsInit, AccountsOK, Counters, Numbered
<1>2. ReqInv
  BY IdleOK DEF Init, AccountsInit, ReqInv, Allowed
<1>3. /\ page = [a \in Tabs |-> "none"] /\ base = [a \in Tabs |-> NotLoaded]
      /\ save = [a \in Tabs |-> NoSave] /\ regenerate = [a \in Tabs |-> "none"]
  BY DEF Init
<1>4. Domains /\ TabsOK
  BY <1>3, NoSaveOK DEF Domains, TabsOK, TabOK, PageOK, BaseOK
<1>5. HookOK(hook)
  <2> DEFINE url == CHOOSE x \in Urls : TRUE
  <2>1. url \in Urls
    BY FormsAssumption
  <2>2. hook \in {BlankHook, [BlankHook EXCEPT !["webhookUrl"] = url]}
    BY DEF Init
  <2> HIDE DEF url
  <2> QED
    BY <2>1, <2>2, BlankHookOK DEF HookOK
<1>6. SecretsOK
  BY <1>3, NoSaveOK DEF Init, SecretsOK
<1>7. RowsOK
  BY <1>5 DEF Init, AccountsInit, RowsOK
<1> QED
  BY <1>1, <1>2, <1>4, <1>6, <1>7 DEF Inv, FormsInv

\* No request of the accounts writes the settings.
LEMMA AccountsAside ==
  ASSUME AccountsNext
  PROVE  signupsEnabled' = signupsEnabled
<1>1. ASSUME NEW r \in Requests, Begins(r) PROVE signupsEnabled' = signupsEnabled
  BY <1>1 DEF Begins, BeginSignup, BeginCreate, BeginPatch, BeginReset, BeginChange, Begin
<1>2. ASSUME NEW r \in Requests,
             \/ CheckSignup(r) \/ CommitSignup(r) \/ CommitCreate(r) \/ CommitPatch(r)
             \/ CommitReset(r) \/ CommitChange(r)
      PROVE  signupsEnabled' = signupsEnabled
  BY <1>2 DEF CheckSignup, CommitSignup, CommitCreate, CommitPatch, CommitReset, CommitChange,
              SetPassword, End
<1> QED
  BY <1>1, <1>2 DEF AccountsNext, DeleteUser, CreateCompany, DeleteCompany, Restart, AtOnce

\* The forms write no row of the accounts.
LEMMA FormsAside ==
  ASSUME ReqInv, FormsNext
  PROVE  ReqInv' /\ UNCHANGED <<users, lastUser, companies, lastCompany>>
<1>1. ASSUME NEW a \in Tabs, PatchSettings(a)
      PROVE  ReqInv' /\ UNCHANGED <<users, lastUser, companies, lastCompany>>
  <2>1. PICK on : /\ signupsEnabled' = on /\ SignupsTurned(on)
                  /\ UNCHANGED <<users, lastUser, companies, lastCompany, req>>
    BY <1>1 DEF PatchSettings
  <2>2. ASSUME NEW r \in Requests, req[r].op = "signup", ~signupsEnabled'
        PROVE  r \in overtaken'
    <3>1. overtaken' = overtaken \cup {q \in Requests : req[q].op = "signup"}
      BY <2>1, <2>2 DEF SignupsTurned
    <3> QED
      BY <2>2, <3>1
  <2> QED
    BY <2>1, <2>2 DEF ReqInv, Allowed
<1>2. ASSUME NEW a \in Tabs,
             \/ Open(a, "settings") \/ Open(a, "drawer") \/ Load(a) \/ Close(a) \/ SaveFails(a)
             \/ SettingsSaved(a) \/ ReadDevice(a) \/ UpdateDevice(a) \/ HookSaved(a)
             \/ Regenerate(a) \/ RegenerateSecret(a) \/ Regenerated(a)
             \/ \E e, u : Send(a, e, u)
      PROVE  UNCHANGED <<accounts, signupsEnabled>>
  BY <1>2 DEF Open, Load, Close, SaveFails, SettingsSaved, ReadDevice, UpdateDevice, HookSaved,
              Regenerate, RegenerateSecret, Regenerated, Send, accountVars
<1>3. ASSUME UNCHANGED <<accounts, signupsEnabled>>
      PROVE  ReqInv' /\ UNCHANGED <<users, lastUser, companies, lastCompany>>
  BY <1>3, SameReqInv DEF accounts
<1>4. ASSUME NEW a \in Tabs,
             (\E e \in SettingEdits : SubmitSettings(a, e)) \/ (\E e \in HookEdits : SubmitHook(a, e))
      PROVE  \E e, u : Send(a, e, u)
  BY <1>4 DEF SubmitSettings, SubmitHook
<1> QED
  BY <1>1, <1>2, <1>3, <1>4 DEF FormsNext

\* What every step does.
LEMMA NextStep ==
  ASSUME Inv, Next
  PROVE  Inv' /\ AccountsStep
<1>1. CASE AccountsNext /\ UNCHANGED <<settings, device, forms>>
  <2>1. AccountsStep
    BY <1>1, AccountsNextStep DEF Inv
  <2>2. ReqInv'
    BY <1>1, AccountsReqInv DEF Inv, Counters
  <2>3. UNCHANGED <<settings, signupsEnabled, device, page, base, save, regenerate>>
    BY <1>1, AccountsAside DEF forms
  <2>4. FormsInv'
    BY <2>3, AsideStep DEF Inv, FormsInv, Domains
  <2> QED
    BY <2>1, <2>2, <2>4 DEF Inv, AccountsStep
<1>2. CASE FormsNext
  <2>1. FormsInv'
    BY <1>2, FormsNextStep DEF Inv
  <2>2. ReqInv' /\ UNCHANGED <<users, lastUser, companies, lastCompany>>
    BY <1>2, FormsAside DEF Inv
  <2>3. AccountsStep
    BY <2>2, SameRows DEF Inv
  <2> QED
    BY <2>1, <2>2, <2>3 DEF Inv, AccountsStep
<1> QED
  BY <1>1, <1>2 DEF Next

LEMMA StutterInv ==
  ASSUME Inv, UNCHANGED vars
  PROVE  Inv'
<1>1. UNCHANGED <<users, lastUser, companies, lastCompany, req, overtaken, signupsEnabled,
                  settings, hook, secret, lastSecret, page, base, save, regenerate>>
  BY DEF vars, accountVars, accounts, device, forms
<1>2. AccountsOK' /\ Counters'
  BY <1>1, SameAccountsOK DEF Inv
<1>3. ReqInv'
  BY <1>1, SameReqInv DEF Inv
<1>4. FormsInv'
  BY <1>1 DEF Inv, FormsInv, Domains, TabsOK, SecretsOK, RowsOK
<1> QED
  BY <1>2, <1>3, <1>4 DEF Inv

LEMMA AlwaysInv == Spec => []Inv
<1>1. Inv /\ [Next]_vars => Inv'
  BY NextStep, StutterInv
<1> QED
  BY InitInv, <1>1, PTL DEF Spec

\* The rows are consistent: unique emails and slugs, companies that exist, settings
\* and webhook fields of their types, and a secret wherever there is a URL.
THEOREM ConsistentRows == Spec => []TypeOK
<1>1. Inv => TypeOK
  BY DEF Inv, FormsInv, TabsOK, TabOK, PageOK, SecretsOK, RowsOK, HookOK, TypeOK, BlankHook
<1> QED
  BY AlwaysInv, <1>1, PTL

\* An administrator loses the company he needs only by a PATCH that was checked
\* against a row that had changed by then.
THEOREM LockOutsAreRaces == Spec => LockedOutOnlyByOverlap
<1>1. Inv /\ [Next]_vars => [Locks]_accountVars
  BY NextStep DEF AccountsStep, vars
<1> QED
  BY AlwaysInv, <1>1, PTL DEF Spec, LockedOutOnlyByOverlap, Locks

\* A temporary password is given up by somebody who knew it, or by a change that
\* was compared with the password before it.
THEOREM ResetsHold == Spec => ResetUndoneOnlyByOverlap
<1>1. Inv /\ [Next]_vars => [Undoes]_accountVars
  BY NextStep DEF AccountsStep, vars
<1> QED
  BY AlwaysInv, <1>1, PTL DEF Spec, ResetUndoneOnlyByOverlap, Undoes

\* A signup leaves a company with its administrator, or nothing.
THEOREM SignupsAreWhole == Spec => SignupIsWhole
<1>1. Inv /\ [Next]_vars => [Founds]_accountVars
  BY NextStep DEF AccountsStep, vars
<1> QED
  BY AlwaysInv, <1>1, PTL DEF Spec, SignupIsWhole, Founds

=============================================================================
