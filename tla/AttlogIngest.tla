----------------------------- MODULE AttlogIngest -----------------------------
(***************************************************************************)
(* The upload of attendance records (POST /iclock/cdata?table=ATTLOG):       *)
(* a device keeps every record until a batch that holds it is answered OK;   *)
(* the server (adms/cdata.ts, adms/deviceLookup.ts, adms/dbErrors.ts) either *)
(* stores the batch or withholds the OK, except for lines it could never     *)
(* store.  A device that is not answered gives up and sends again, while the *)
(* server goes on with the first request: requests overlap.                  *)
(*                                                                           *)
(* A record is its dedupe key.  What the rows look like is the subject of    *)
(* PunchDelivery and DeviceClock.                                            *)
(***************************************************************************)
EXTENDS Naturals, FiniteSets

CONSTANTS
  Records,     \* dedupe keys of the records of one device
  Unparseable, \* lines the parser rejects
  Unstorable,  \* records the database refuses (a NUL byte, say)
  MaxBody,     \* ADMS_MAX_BODY_SIZE, in records
  Requests,    \* requests the server may be handling at a time
  NoRequest,
  MaxFaults,   \* bound: time-outs, crashes, failed queries
  MaxChanges,  \* bound: registrations and changes of the secret
  MaxRemovals  \* bound: records removed again

ASSUME RecordsAssumption == Unparseable \subseteq Records /\ Unstorable \subseteq Records
ASSUME BodyAssumption == MaxBody \in Nat
ASSUME NoRequestAssumption == NoRequest \notin Requests

VARIABLES
  registered, \* the id of the devices row with this serial number, 0: none
  trusted,    \* its secret is the one the device sends
  lastId,     \* the last id that was given
  table,      \* the punch_records rows of the device
  taken,      \* the records the device has taken
  buffer,     \* those it keeps, because they were not answered OK
  waiting,    \* the request it waits for
  pc,         \* pc[r]: "idle", "resolve", "insert", "fallback", "ok", "retry"
  batch,      \* batch[r]: the records of the request
  device,     \* device[r]: the id resolveDevice found
  left,       \* left[r]: the records still to be inserted one by one
  recorded,   \* history: records that were in the table once
  orphaned,   \* history: records that were on their way to a row deleted meanwhile
  oversized,  \* history: records of a body that was too large
  faults, changes, removals

registry == <<registered, trusted, lastId>>
atDevice == <<taken, buffer, waiting>>
requests == <<pc, batch, device, left>>
bounds == <<faults, changes, removals>>
history == <<recorded, orphaned, oversized>>
vars == <<registry, table, atDevice, requests, history, bounds>>

Init ==
  /\ \/ registered = 0 /\ trusted = FALSE
     \/ registered = 1 /\ trusted \in BOOLEAN
  /\ lastId = registered
  /\ table = {}
  /\ taken = {} /\ buffer = {} /\ waiting = NoRequest
  /\ pc = [r \in Requests |-> "idle"]
  /\ batch = [r \in Requests |-> {}]
  /\ device = [r \in Requests |-> 0]
  /\ left = [r \in Requests |-> {}]
  /\ recorded = {} /\ orphaned = {} /\ oversized = {}
  /\ faults = 0 /\ changes = 0 /\ removals = 0

-----------------------------------------------------------------------------
(* The device. *)

Take(x) ==
  /\ x \notin taken
  /\ taken' = taken \cup {x}
  /\ buffer' = buffer \cup {x}
  /\ UNCHANGED <<registry, table, waiting, requests, history, bounds>>

\* Some of what it keeps; one request at a time.
Send(r, records) ==
  /\ waiting = NoRequest
  /\ pc[r] = "idle"
  /\ records \subseteq buffer /\ records # {}
  /\ waiting' = r
  /\ pc' = [pc EXCEPT ![r] = "resolve"]
  /\ batch' = [batch EXCEPT ![r] = records]
  /\ UNCHANGED <<registry, table, taken, buffer, device, left, history, bounds>>

\* The answer reaches the device if it still waits for it.
Answer(r) ==
  /\ pc[r] \in {"ok", "retry"}
  /\ pc' = [pc EXCEPT ![r] = "idle"]
  /\ batch' = [batch EXCEPT ![r] = {}]
  /\ device' = [device EXCEPT ![r] = 0]
  /\ IF waiting = r
     THEN /\ waiting' = NoRequest
          /\ buffer' = IF pc[r] = "ok" THEN buffer \ batch[r] ELSE buffer
     ELSE UNCHANGED <<waiting, buffer>>
  /\ UNCHANGED <<registry, table, taken, left, history, bounds>>

-----------------------------------------------------------------------------
(* The server. *)

\* The body parser rejects a body that is too large before any handler runs:
\* it is dropped, and answered OK lest the device sends it for ever.
TooLarge(r) == Cardinality(batch[r]) > MaxBody

Drop(r) ==
  /\ pc[r] = "resolve"
  /\ TooLarge(r)
  /\ pc' = [pc EXCEPT ![r] = "ok"]
  /\ oversized' = oversized \cup batch[r]
  /\ UNCHANGED <<registry, table, atDevice, batch, device, left, recorded, orphaned, bounds>>

\* resolveDevice: 503 for a serial number that is not registered, 401 for a
\* wrong secret; the device keeps its records.  touchDevice is best-effort.
Resolve(r) ==
  /\ pc[r] = "resolve"
  /\ ~TooLarge(r)
  /\ device' = [device EXCEPT ![r] = registered]
  /\ pc' = [pc EXCEPT ![r] = IF registered # 0 /\ trusted THEN "insert" ELSE "retry"]
  /\ UNCHANGED <<registry, table, atDevice, batch, left, history, bounds>>

Parsed(r) == batch[r] \ Unparseable

\* createMany is one statement: it fails as a whole for a value the database
\* refuses, or for the foreign key of a device that was deleted.
Refused(r) == Parsed(r) \cap Unstorable # {} \/ device[r] # registered

\* classifyDbError calls both errors "data", and a batch with such an error is
\* gone through one record at a time.  A plausible bug: such a batch is taken
\* for a transient failure.
AfterTransient(r) == "retry"
AfterRefusal(r) == "fallback"

InsertAll(r) ==
  /\ pc[r] = "insert"
  /\ IF Parsed(r) # {} /\ Refused(r)
     THEN /\ pc' = [pc EXCEPT ![r] = AfterRefusal(r)]
          /\ left' = [left EXCEPT ![r] = Parsed(r)]
          /\ UNCHANGED <<table, recorded>>
     ELSE /\ pc' = [pc EXCEPT ![r] = "ok"]
          /\ table' = table \cup Parsed(r)
          /\ recorded' = recorded \cup Parsed(r)
          /\ UNCHANGED left
  /\ UNCHANGED <<registry, atDevice, batch, device, orphaned, oversized, bounds>>

\* One create of the fallback: inserted, a duplicate, or skipped.
Stored(r, x) == IF x \in Unstorable \/ device[r] # registered THEN {} ELSE {x}

InsertOne(r, x) ==
  /\ pc[r] = "fallback"
  /\ x \in left[r]
  /\ table' = table \cup Stored(r, x)
  /\ recorded' = recorded \cup Stored(r, x)
  /\ left' = [left EXCEPT ![r] = @ \ {x}]
  /\ pc' = [pc EXCEPT ![r] = IF left[r] = {x} THEN "ok" ELSE "fallback"]
  /\ UNCHANGED <<registry, atDevice, batch, device, orphaned, oversized, bounds>>

-----------------------------------------------------------------------------
(* Failures. *)

Fault ==
  /\ faults < MaxFaults
  /\ faults' = faults + 1
  /\ UNCHANGED <<registry, table, taken, buffer, history, changes, removals>>

\* Answers of plausible bugs when the database is lost in the middle: OK all
\* the same, or none because nobody catches the error.
AnswerRegardless == "ok"
AnswerNever == "hung"

AnswerWithoutDatabase == "retry"

\* Before or during the insert, or in the middle of the fallback.
QueryFails(r) ==
  /\ pc[r] \in {"resolve", "insert", "fallback"}
  /\ ~TooLarge(r)
  /\ Fault
  /\ pc' = [pc EXCEPT ![r] = AnswerWithoutDatabase]
  /\ left' = [left EXCEPT ![r] = {}]
  /\ UNCHANGED <<waiting, batch, device>>

\* The device does not wait any longer, or the answer is lost on its way.
GiveUp ==
  /\ waiting # NoRequest
  /\ Fault
  /\ waiting' = NoRequest
  /\ UNCHANGED requests

\* The server dies with all its requests.
Crash ==
  /\ Fault
  /\ waiting' = NoRequest
  /\ pc' = [r \in Requests |-> "idle"]
  /\ batch' = [r \in Requests |-> {}]
  /\ device' = [r \in Requests |-> 0]
  /\ left' = [r \in Requests |-> {}]

-----------------------------------------------------------------------------
(* The administrators. *)

Change ==
  /\ changes < MaxChanges
  /\ changes' = changes + 1
  /\ UNCHANGED <<atDevice, requests, history, faults, removals>>

\* Claiming or creating the device, with the secret it sends or another one.
Register ==
  /\ registered = 0
  /\ Change
  /\ registered' = lastId + 1
  /\ lastId' = lastId + 1
  /\ trusted' \in BOOLEAN
  /\ UNCHANGED table

ChangeSecret ==
  /\ registered # 0
  /\ Change
  /\ trusted' = ~trusted
  /\ UNCHANGED <<registered, lastId, table>>

\* DELETE /devices/:id cascades to the records.
DeleteDevice ==
  /\ registered # 0
  /\ registered' = 0
  /\ trusted' = FALSE
  /\ table' = {}
  /\ orphaned' = orphaned \cup
       UNION {batch[r] : r \in {q \in Requests : pc[q] \in {"insert", "fallback"}}}
  /\ UNCHANGED <<lastId, atDevice, requests, recorded, oversized, bounds>>

\* An administrator or the retention sweep deletes records.
Remove(x) ==
  /\ x \in table
  /\ removals < MaxRemovals
  /\ removals' = removals + 1
  /\ table' = table \ {x}
  /\ UNCHANGED <<registry, atDevice, requests, history, faults, changes>>

-----------------------------------------------------------------------------

Serve(r) ==
  \/ Drop(r) \/ Resolve(r) \/ InsertAll(r) \/ Answer(r)
  \/ \E x \in Records : InsertOne(r, x)

SendWith(x) ==
  \E r \in Requests, records \in SUBSET buffer : x \in records /\ Send(r, records)

Next ==
  \/ \E x \in Records : Take(x) \/ Remove(x)
  \/ \E r \in Requests :
       \/ \E records \in SUBSET buffer : Send(r, records)
       \/ Serve(r)
       \/ QueryFails(r)
  \/ GiveUp \/ Crash
  \/ Register \/ ChangeSecret \/ DeleteDevice

Spec == Init /\ [][Next]_vars

\* The server handles what it receives; a device keeps sending what was not
\* answered, none of its records left out for ever.
Fairness ==
  /\ \A r \in Requests : WF_vars(Serve(r))
  /\ \A x \in Records : SF_vars(SendWith(x))

FairSpec == Spec /\ Fairness

-----------------------------------------------------------------------------
(* Properties. *)

TypeOK ==
  /\ registered \in Nat /\ lastId \in Nat /\ trusted \in BOOLEAN
  /\ table \subseteq recorded
  /\ recorded \subseteq taken
  /\ taken \subseteq Records
  /\ buffer \subseteq taken
  /\ orphaned \subseteq taken /\ oversized \subseteq taken
  /\ waiting \in Requests \cup {NoRequest}
  /\ pc \in [Requests -> {"idle", "resolve", "insert", "fallback", "ok", "retry"}]
  /\ batch \in [Requests -> SUBSET taken]
  /\ device \in [Requests -> Nat]
  /\ left \in [Requests -> SUBSET taken]
  /\ faults \in Nat /\ changes \in Nat /\ removals \in Nat

Hopeless == Unparseable \cup Unstorable
Discarded == taken \ buffer

\* A record the device has discarded was stored, or could never be; the only
\* exceptions are records of a body that was too large and records that were
\* being stored when their device was deleted.
Accounted == recorded \cup Hopeless \cup oversized \cup orphaned
NothingLost == Discarded \subseteq Accounted

\* A line that can be stored is not given up for the sake of another one: only
\* hopeless records are skipped once a request is answered.  What NothingLost
\* needs to be inductive.
IngestInv ==
  /\ NothingLost
  /\ registered <= lastId
  /\ \A r \in Requests :
       /\ pc[r] = "ok" => batch[r] \subseteq Accounted
       /\ pc[r] = "fallback" =>
            batch[r] \subseteq Accounted \cup left[r]
       /\ pc[r] \in {"insert", "fallback"} =>
            /\ 0 < device[r] /\ device[r] <= lastId
            /\ device[r] # registered => batch[r] \subseteq orphaned

\* A device that stays registered and trusted gets rid of every record: no
\* batch wedges it, whatever its lines.
NeverWedged ==
  \A x \in Records : []<>(x \notin buffer \/ registered = 0 \/ ~trusted)

\* What the repository's texts say and its code does not keep.  A record is
\* acknowledged unstored only if it could never be stored, or was in a body too
\* large to be read: a serial number that has no device keeps its records until
\* it is claimed (dbErrors.ts:12, REFERENCE.md:214).
OnlyHopelessDropped == Discarded \subseteq recorded \cup Hopeless \cup oversized

=============================================================================
