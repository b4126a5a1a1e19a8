---------------------------- MODULE DeviceRegistry ----------------------------
(***************************************************************************)
(* How a serial number becomes a device: pings of a number that is not       *)
(* registered leave a PendingDevice row (adms/deviceLookup.ts), which an      *)
(* administrator claims, dismisses, or bypasses by creating the device        *)
(* (admin/devices.ts); companies are deleted with all they own.              *)
(*                                                                           *)
(* One serial number: the rows of different ones have nothing to do with each *)
(* other.  A ping is up to six statements, a claim one statement and a        *)
(* transaction, and any number of both may be under way.                     *)
(***************************************************************************)
EXTENDS Naturals

CONSTANTS
  Secrets,    \* path secrets devices send
  Companies,
  Pings,      \* requests of an unregistered device under way at a time
  Claims,     \* claims under way at a time
  None,       \* SQL null
  Generated,  \* what crypto.randomBytes gives
  MaxFaults,  \* bound: failed queries, crashes
  MaxRows     \* bound: pending_devices rows over the whole run

ASSUME ValuesAssumption == None \notin Secrets \cup Companies \cup {Generated}

VARIABLES
  companies,   \* the companies that exist
  device,      \* deviceSecret of the devices row, None: there is no row
  owner,       \* its companyId
  row,         \* the pending_devices row: its id, 0: there is none
  lastRow,     \* the last id that was given
  rowSecret, rowCompany, \* its secret and companyId
  logged,      \* the rows whose first contact is in unregistered_device_pings
  excused,     \* history: rows whose first contact is not, because the log was swept,
               \* the database failed, or its company was deleted meanwhile
  pc,          \* pc[k]: the statement ping k comes to next
  secret, slug,\* what ping k carries: the path secret, the company of the slug,
  company,     \* and resolvedCompanyId: each is forgotten once it has been used
  isNew,       \* the row it created, 0: none
  claim,       \* claim[a]: "idle", or "commit" when it has read the row
  readRow, readSecret, \* what it read
  faults

theDevice == <<device, owner>>
pending == <<row, lastRow, rowSecret, rowCompany>>
pingLog == <<logged, excused>>
pings == <<pc, secret, slug, company, isNew>>
claims == <<claim, readRow, readSecret>>
vars == <<companies, theDevice, pending, pingLog, pings, claims, faults>>

Init ==
  /\ companies = Companies
  /\ device = None /\ owner = None
  /\ row = 0 /\ lastRow = 0 /\ rowSecret = None /\ rowCompany = None
  /\ logged = {} /\ excused = {}
  /\ pc = [k \in Pings |-> "idle"]
  /\ secret = [k \in Pings |-> None]
  /\ slug = [k \in Pings |-> None]
  /\ company = [k \in Pings |-> None]
  /\ isNew = [k \in Pings |-> 0]
  /\ claim = [a \in Claims |-> "idle"]
  /\ readRow = [a \in Claims |-> 0]
  /\ readSecret = [a \in Claims |-> None]
  /\ faults = 0

-----------------------------------------------------------------------------
(* A ping: resolveDevice and upsertPendingDevice. *)

Go(k, from, to) ==
  /\ pc[k] = from
  /\ pc' = [pc EXCEPT ![k] = to]

\* findDeviceBySerial finds nothing.  (When it finds the device the ping has
\* nothing to do with the registry: it is trusted or answered 401.)  The URL
\* always has a secret, the slug may be anybody's or nobody's.
Lookup(k, s, c) ==
  /\ device = None
  /\ Go(k, "idle", "slug")
  /\ secret' = [secret EXCEPT ![k] = s]
  /\ slug' = [slug EXCEPT ![k] = c]
  /\ UNCHANGED <<companies, theDevice, pending, pingLog, company, isNew, claims, faults>>

ResolveSlug(k) ==
  /\ Go(k, "slug", "create")
  /\ company' = [company EXCEPT ![k] = IF slug[k] \in companies THEN slug[k] ELSE None]
  /\ slug' = [slug EXCEPT ![k] = None]
  /\ UNCHANGED <<companies, theDevice, pending, pingLog, secret, isNew, claims, faults>>

\* createMany, skipDuplicates; the update of lastSeenAt and pingCount that
\* follows changes nothing that is modelled.
CreateRow(k) ==
  /\ Go(k, "create", "secret")
  /\ IF row = 0
     THEN /\ row' = lastRow + 1
          /\ lastRow' = lastRow + 1
          /\ isNew' = [isNew EXCEPT ![k] = lastRow + 1]
     ELSE UNCHANGED <<row, lastRow, isNew>>
  /\ UNCHANGED <<companies, theDevice, rowSecret, rowCompany, pingLog, secret, slug, company,
                 claims, faults>>

\* The value a column has after the compare-and-set; after the plain upsert the
\* comment tells of, which a later ping wins; after an update where the column
\* "= NULL", which matches nothing.
LastWriteWins(old, new) == new
MatchesNothing(old, new) == old
FirstWriteWins(old, new) == IF old = None THEN new ELSE old

AdoptSecret(k) ==
  /\ Go(k, "secret", IF company[k] = None THEN "log" ELSE "company")
  /\ rowSecret' = IF row = 0 THEN None ELSE FirstWriteWins(rowSecret, secret[k])
  /\ secret' = [secret EXCEPT ![k] = None]
  /\ UNCHANGED <<companies, theDevice, row, lastRow, rowCompany, pingLog, slug, company,
                 isNew, claims, faults>>

\* The handler is over and forgets everything.
Leave(k) ==
  /\ pc' = [pc EXCEPT ![k] = "idle"]
  /\ secret' = [secret EXCEPT ![k] = None]
  /\ slug' = [slug EXCEPT ![k] = None]
  /\ company' = [company EXCEPT ![k] = None]
  /\ isNew' = [isNew EXCEPT ![k] = 0]

\* The update writes a company that may be gone: then the foreign key makes it
\* fail, and the catch clause says that the ping was no first contact.
AdoptCompany(k) ==
  LET writes == row # 0 /\ rowCompany = None
  IN /\ pc[k] = "company"
     /\ IF writes /\ company[k] \notin companies
        THEN /\ Leave(k)
             /\ excused' = excused \cup ({isNew[k]} \ {0})
             /\ UNCHANGED rowCompany
        ELSE /\ Go(k, "company", "log")
             /\ rowCompany' = IF row = 0 THEN None ELSE FirstWriteWins(rowCompany, company[k])
             /\ company' = [company EXCEPT ![k] = None]
             /\ UNCHANGED <<excused, secret, slug, isNew>>
     /\ UNCHANGED <<companies, theDevice, row, lastRow, rowSecret, logged, claims, faults>>

\* What is logged: a first contact, and what plausible bugs would log.
LoggedNever(k) == {}
Logged(k) == {isNew[k]} \ {0}

\* logUnregisteredPing, for a first contact only.
Log(k) ==
  /\ pc[k] = "log"
  /\ Leave(k)
  /\ logged' = logged \cup Logged(k)
  /\ UNCHANGED <<companies, theDevice, pending, excused, claims, faults>>

\* A query is rejected or the server dies: the rest of the handler does not
\* happen, and the ping is answered as always, or not at all.
PingFails(k) ==
  /\ pc[k] # "idle"
  /\ faults < MaxFaults
  /\ faults' = faults + 1
  /\ Leave(k)
  /\ excused' = excused \cup ({isNew[k]} \ {0})
  /\ UNCHANGED <<companies, theDevice, pending, logged, claims>>

HandlePing(k) ==
  \/ ResolveSlug(k) \/ CreateRow(k) \/ AdoptSecret(k) \/ AdoptCompany(k) \/ Log(k)

-----------------------------------------------------------------------------
(* The administrators. *)

\* The row is deleted (MaxRows bounds how often: never so that no row can be
\* created any more).
NoRow ==
  /\ lastRow < MaxRows
  /\ row' = 0 /\ rowSecret' = None /\ rowCompany' = None

\* POST /devices/claim reads the pending row.  (A company administrator is
\* turned away from another company's row; a super administrator never is.)
ReadPending(a) ==
  /\ claim[a] = "idle"
  /\ claim' = [claim EXCEPT ![a] = "commit"]
  /\ readRow' = [readRow EXCEPT ![a] = row]
  /\ readSecret' = [readSecret EXCEPT ![a] = rowSecret]
  /\ UNCHANGED <<companies, theDevice, pending, pingLog, pings, faults>>

\* The transaction: the device is created and the row that was read is deleted.
\* A serial number that is taken (409), a company that is gone (400) and a row
\* that is gone (500) roll it back.
CommitClaim(a, c) ==
  /\ claim[a] = "commit"
  /\ IF device = None /\ c \in companies /\ (readRow[a] # 0 => row # 0)
     THEN /\ device' = IF readSecret[a] = None THEN Generated ELSE readSecret[a]
          /\ owner' = c
          /\ IF readRow[a] = 0 THEN UNCHANGED <<row, rowSecret, rowCompany>> ELSE NoRow
     ELSE UNCHANGED <<theDevice, row, rowSecret, rowCompany>>
  /\ claim' = [claim EXCEPT ![a] = "idle"]
  /\ readRow' = [readRow EXCEPT ![a] = 0]
  /\ readSecret' = [readSecret EXCEPT ![a] = None]
  /\ UNCHANGED <<companies, lastRow, pingLog, pings, faults>>

\* POST /devices: the pending row is not looked at.
CreateDevice(s, c) ==
  /\ device = None
  /\ c \in companies
  /\ device' = s /\ owner' = c
  /\ UNCHANGED <<companies, pending, pingLog, pings, claims, faults>>

\* PATCH /devices/:id.
ChangeSecret(s) ==
  /\ device # None
  /\ device' = s
  /\ UNCHANGED <<companies, owner, pending, pingLog, pings, claims, faults>>

NoDevice == device' = None /\ owner' = None

\* DELETE /devices/:id.
DeleteDevice ==
  /\ device # None
  /\ NoDevice
  /\ UNCHANGED <<companies, pending, pingLog, pings, claims, faults>>

\* DELETE /devices/unregistered-pings/:serialNumber, and in bulk.
Dismiss ==
  /\ row # 0 \/ logged # {}
  /\ NoRow
  /\ logged' = {}
  /\ UNCHANGED <<companies, theDevice, lastRow, excused, pings, claims, faults>>

\* The cascade to the company's pending rows, and a foreign key without it.
NoCascade(c) == UNCHANGED <<row, rowSecret, rowCompany>>
CascadeToRow(c) ==
  IF rowCompany = c THEN NoRow ELSE UNCHANGED <<row, rowSecret, rowCompany>>

\* DELETE /companies/:id cascades to its devices and its pending rows.
DeleteCompany(c) ==
  /\ c \in companies
  /\ companies' = companies \ {c}
  /\ IF owner = c THEN NoDevice ELSE UNCHANGED theDevice
  /\ CascadeToRow(c)
  /\ UNCHANGED <<lastRow, pingLog, pings, claims, faults>>

\* runRetentionSweep deletes old pings, never a pending row.
Sweep ==
  /\ logged # {}
  /\ logged' = {}
  /\ excused' = excused \cup logged
  /\ UNCHANGED <<companies, theDevice, pending, pings, claims, faults>>

-----------------------------------------------------------------------------

PingAgain == \E k \in Pings, s \in Secrets, c \in Companies \cup {None} : Lookup(k, s, c)

Next ==
  \/ PingAgain
  \/ \E k \in Pings : HandlePing(k) \/ PingFails(k)
  \/ \E a \in Claims : ReadPending(a) \/ \E c \in Companies : CommitClaim(a, c)
  \/ \E s \in Secrets : ChangeSecret(s) \/ \E c \in Companies : CreateDevice(s, c)
  \/ DeleteDevice \/ Dismiss \/ Sweep
  \/ \E c \in Companies : DeleteCompany(c)

Spec == Init /\ [][Next]_vars

\* An unregistered device goes on pinging, the server goes on with a ping.
Fairness ==
  /\ WF_vars(PingAgain)
  /\ \A k \in Pings : WF_vars(HandlePing(k))

FairSpec == Spec /\ Fairness

-----------------------------------------------------------------------------
(* Properties. *)

TypeOK ==
  /\ companies \subseteq Companies
  /\ device \in Secrets \cup {None, Generated}
  /\ owner \in companies \cup {None}
  /\ row \in Nat /\ lastRow \in Nat
  /\ rowSecret \in Secrets \cup {None}
  /\ rowCompany \in companies \cup {None}
  /\ logged \subseteq Nat /\ excused \subseteq Nat
  /\ pc \in [Pings -> {"idle", "slug", "create", "secret", "company", "log"}]
  /\ secret \in [Pings -> Secrets \cup {None}]
  /\ slug \in [Pings -> Companies \cup {None}]
  /\ company \in [Pings -> Companies \cup {None}]
  /\ isNew \in [Pings -> Nat]
  /\ claim \in [Claims -> {"idle", "commit"}]
  /\ readRow \in [Claims -> Nat]
  /\ readSecret \in [Claims -> Secrets \cup {None}]
  /\ faults \in Nat

\* A secret or a company on file is never overwritten while its row exists,
\* whatever pings are under way.
NeverOverwritten ==
  [][row' = row /\ row # 0 =>
       /\ rowSecret # None => rowSecret' = rowSecret
       /\ rowCompany # None => rowCompany' = rowCompany]_vars

\* The secret a claim has read is still the row's when it commits, unless the
\* row has been replaced meanwhile.
ReadStaysTrue ==
  \A a \in Claims :
    readRow[a] # 0 /\ readRow[a] = row /\ readSecret[a] # None => rowSecret = readSecret[a]

\* The first contact of every pending row is in the log, or about to be, unless
\* the log was swept, the database failed, or its company was deleted under it.
FirstContactAccounted ==
  row # 0 =>
    row \in logged \cup excused \cup {isNew[k] : k \in Pings}

\* What the three properties above need to be inductive.
RegistryInv ==
  /\ row <= lastRow
  /\ row = 0 => rowSecret = None /\ rowCompany = None
  /\ \A k \in Pings : isNew[k] <= lastRow /\ (pc[k] \in {"idle", "slug", "create"} => isNew[k] = 0)
  /\ \A a \in Claims : readRow[a] <= lastRow
  /\ ReadStaysTrue
  /\ FirstContactAccounted

\* A device that keeps pinging is on the list, with the secret it sends, or is
\* registered: whatever was dismissed, deleted or cut short by a fault before.
EventuallyListed == []<>(rowSecret # None \/ device # None)

\* What the repository's texts say and its code does not keep.  The ping that
\* created the row, the first contact, is logged before it is over
\* (deviceLookup.ts:215).
FirstContactLogged ==
  [][\A k \in Pings : isNew[k] # 0 /\ isNew'[k] = 0 => isNew[k] \in logged']_vars

\* A claim gives the device the secret its serial number has been pinging with, if
\* one is on file (devices.ts:221).
ClaimCarriesSecret ==
  [][\A a \in Claims :
       claim[a] = "commit" /\ claim'[a] = "idle" /\ device' # device /\ rowSecret # None
         => device' = rowSecret]_vars

=============================================================================
