---------------------------- MODULE PunchDelivery ----------------------------
(***************************************************************************)
(* The life of a punch from the device's upload to the tenant's webhook:    *)
(* the ingestion server inserts rows (adms/cdata.ts), worker processes claim *)
(* and dispatch them (worker.ts), administrators retry and delete them and   *)
(* reconfigure the webhook (admin/punchRecords.ts, admin/devices.ts,         *)
(* admin/settings.ts).  Every process talks to the others only through the   *)
(* database, one SQL statement or transaction at a time: one action per      *)
(* statement, and everything a process remembers between two statements is   *)
(* a variable.                                                               *)
(*                                                                           *)
(* nextAttemptAt is abstracted to four values: "due" (<= now()), "leased"    *)
(* and "backoff" (in the future, set by a claim or by a failure; Elapse      *)
(* makes it due), "parked" (the year 2099, which never comes).  How long a   *)
(* lease lasts compared with a batch is the subject of WorkerLease; here it   *)
(* may elapse at any time.                                                   *)
(***************************************************************************)
EXTENDS PunchStatus, FiniteSets, Sequences, Functions

CONSTANTS
  Punches,      \* ids of punch_records rows; an id is used for one row only
  Devices,      \* ids of devices rows
  DeviceOf,     \* the device a row belongs to
  Workers,      \* worker processes
  MaxChoices,   \* the values an administrator gives webhookMaxAttempts
  BatchSize,    \* config.workerBatchSize
  NoPunch,      \* a worker between two records
  MaxRetries,   \* bound: "Retry now" clicks per record
  MaxFaults,    \* bound: crashes and database errors
  MaxChanges    \* bound: changes of a webhook or of the settings

ASSUME DeviceAssumption == DeviceOf \in [Punches -> Devices]
ASSUME SettingsAssumption == MaxChoices \subseteq Nat \ {0} /\ MaxChoices # {}
ASSUME BatchAssumption == BatchSize \in Nat \ {0}
ASSUME NoPunchAssumption == NoPunch \notin Punches
ASSUME BoundsAssumption ==
  MaxRetries \in Nat /\ MaxFaults \in Nat /\ MaxChanges \in Nat

VARIABLES
  stage,        \* stage[p]: "new" (no row yet), "live", "gone" (deleted)
  row,          \* row[p]: the row's delivery columns
  log,          \* log[p]: the row's webhook_deliveries, oldest first
  devs,         \* the devices that exist
  hook,         \* hook[d]: webhookEnabled, and whether webhookUrl is set
  upload,       \* upload[d]: hasWebhook as read by an ATTLOG request in progress
  asked,        \* the eligible ids a retry request found and is about to reset
  maxAttempts,  \* PlatformSettings.webhookMaxAttempts
  pc,           \* where worker w is
  limit,        \* its copy of webhookMaxAttempts, read once per tick
  queue,        \* the claimed ids it has not looked at yet
  cur,          \* the record it is dispatching
  seen,         \* webhookAttempts as it read it
  answer,       \* whether the endpoint answered 2xx
  stopping,     \* a shutdown signal was received
  retried,      \* history: accepted retries per row
  owed,         \* history: rows retried and not taken up by a worker since
  faults, changes   \* how much of the bounds is used

table == <<stage, row, log>>
config == <<devs, hook, maxAttempts>>
requests == <<upload, asked>>
locals == <<pc, limit, queue, cur, seen, answer, stopping>>
ghosts == <<retried, owed>>
bounds == <<faults, changes>>
vars == <<table, config, requests, locals, ghosts, bounds>>

-----------------------------------------------------------------------------
(* Rows and what each statement writes into them. *)

Delivery == [attempt : Nat \ {0}, ok : BOOLEAN]

\* The defaults of schema.prisma.
DefaultRow == [delivered |-> FALSE, held |-> FALSE, attempts |-> 0,
               error |-> FALSE, next |-> "due"]

IngestedRow(hasWebhook) == [DefaultRow EXCEPT !.held = ~hasWebhook]

\* What plausible bugs would write: a claim that parks the row, a failure that
\* forgets an earlier delivery, a limit off by one, parking with no date at all,
\* a retry that starts the count afresh, an attempt counted when it is claimed.
ParkedClaim(r) == [r EXCEPT !.next = "parked"]
ForgetfulFailure(r, n, max) ==
  [r EXCEPT !.delivered = FALSE, !.attempts = n, !.error = TRUE,
            !.next = IF n >= max THEN "parked" ELSE "backoff"]
EarlyParking(r, n, max) ==
  [r EXCEPT !.attempts = n, !.error = TRUE,
            !.next = IF n + 1 >= max THEN "parked" ELSE "backoff"]
NullParking(r, n, max) ==
  [r EXCEPT !.attempts = n, !.error = TRUE,
            !.next = IF n >= max THEN "null" ELSE "backoff"]
CountedClaim(r) == [r EXCEPT !.next = "leased", !.attempts = @ + 1]
FreshCount(r) == [r EXCEPT !.next = "due", !.held = FALSE, !.attempts = 0]

LeasedRow(r) == [r EXCEPT !.next = "leased"]

DeliveredRow(r, n) ==
  [r EXCEPT !.delivered = TRUE, !.attempts = n, !.error = FALSE]

FailedRow(r, n, max) ==
  [r EXCEPT !.attempts = n, !.error = TRUE,
            !.next = IF n >= max THEN "parked" ELSE "backoff"]

RetriedRow(r) == [r EXCEPT !.next = "due", !.held = FALSE]

-----------------------------------------------------------------------------
(* The initial state: registered devices, whatever their webhook, no punch. *)

Init ==
  /\ stage = [p \in Punches |-> "new"]
  /\ row = [p \in Punches |-> DefaultRow]
  /\ log = [p \in Punches |-> <<>>]
  /\ devs = Devices
  /\ hook \in [Devices -> Webhook]
  /\ upload = [d \in Devices |-> "none"]
  /\ asked = {}
  /\ maxAttempts \in MaxChoices
  /\ pc = [w \in Workers |-> "idle"]
  /\ limit = [w \in Workers |-> maxAttempts]
  /\ queue = [w \in Workers |-> {}]
  /\ cur = [w \in Workers |-> NoPunch]
  /\ seen = [w \in Workers |-> 0]
  /\ answer = [w \in Workers |-> FALSE]
  /\ stopping = [w \in Workers |-> FALSE]
  /\ retried = [p \in Punches |-> 0]
  /\ owed = {}
  /\ faults = 0 /\ changes = 0

Live == {p \in Punches : stage[p] = "live"}
ActiveHook(p) == HasActiveWebhook(hook[DeviceOf[p]])

-----------------------------------------------------------------------------
(* POST /iclock/cdata?table=ATTLOG: resolveDevice reads the device row, the  *)
(* insert comes several awaits later and uses what was read.                 *)

StartUpload(d) ==
  /\ d \in devs
  /\ upload[d] = "none"
  /\ upload' = [upload EXCEPT ![d] =
                  IF HasActiveWebhook(hook[d]) THEN "active" ELSE "inactive"]
  /\ UNCHANGED <<table, config, asked, locals, ghosts, bounds>>

\* createMany: the batch lands as a whole.  If the device was deleted in
\* between, the foreign key makes it a "data" error: every record is skipped
\* and the upload acknowledged all the same.
InsertBatch(d, batch) ==
  /\ upload[d] # "none"
  /\ upload' = [upload EXCEPT ![d] = "none"]
  /\ IF d \in devs
     THEN /\ stage' = [p \in Punches |-> IF p \in batch THEN "live" ELSE stage[p]]
          /\ row' = [p \in Punches |->
                       IF p \in batch THEN IngestedRow(upload[d] = "active") ELSE row[p]]
     ELSE UNCHANGED <<stage, row>>
  /\ UNCHANGED <<log, config, asked, locals, ghosts, bounds>>

\* A transient database error: nothing is stored, the device gets a 500.
UploadFails(d) ==
  /\ upload[d] # "none"
  /\ faults < MaxFaults
  /\ faults' = faults + 1
  /\ upload' = [upload EXCEPT ![d] = "none"]
  /\ UNCHANGED <<table, config, asked, locals, ghosts, changes>>

Ingest ==
  \E d \in Devices :
    \/ StartUpload(d)
    \/ UploadFails(d)
    \/ \E batch \in SUBSET {p \in Punches : stage[p] = "new" /\ DeviceOf[p] = d} \ {{}} :
         InsertBatch(d, batch)

-----------------------------------------------------------------------------
(* The worker. *)

\* Claim queries of plausible bugs.
ClaimableEvenHeld == {p \in Live : ~row[p].delivered /\ row[p].next = "due" /\ ActiveHook(p)}
ClaimableEvenDelivered == {p \in Live : ~row[p].held /\ row[p].next = "due" /\ ActiveHook(p)}

\* The WHERE clause of claimBatch.
Claimable ==
  {p \in Live : /\ ~row[p].delivered
                /\ ~row[p].held
                /\ row[p].next = "due"
                /\ ActiveHook(p)}

\* tick: the settings are read once, then a batch is claimed.
StartTick(w) ==
  /\ pc[w] = "idle"
  /\ ~stopping[w]
  /\ pc' = [pc EXCEPT ![w] = "claim"]
  /\ limit' = [limit EXCEPT ![w] = maxAttempts]
  /\ UNCHANGED <<table, config, requests, queue, cur, seen, answer, stopping, ghosts, bounds>>

\* claimBatch is one transaction: LIMIT BatchSize rows, oldest first (the
\* order within "due" is abstracted), and their lease.
Claim(w, ids) ==
  /\ pc[w] = "claim"
  /\ \/ ids = Claimable /\ Cardinality(ids) <= BatchSize
     \/ Cardinality(ids) = BatchSize
  /\ pc' = [pc EXCEPT ![w] = "loop"]
  /\ queue' = [queue EXCEPT ![w] = ids]
  /\ row' = [p \in Punches |-> IF p \in ids THEN LeasedRow(row[p]) ELSE row[p]]
  /\ UNCHANGED <<stage, log, config, requests, limit, cur, seen, answer, stopping, ghosts, bounds>>

\* processPunchRecord reads the row and its device: the record is skipped when
\* either is gone or the URL was cleared.  Neither webhookEnabled nor
\* webhookDelivered is looked at again.
ReadRecord(w, p) ==
  /\ pc[w] = "loop"
  /\ ~stopping[w]
  /\ p \in queue[w]
  /\ queue' = [queue EXCEPT ![w] = @ \ {p}]
  /\ IF stage[p] = "live" /\ hook[DeviceOf[p]].url
     THEN /\ pc' = [pc EXCEPT ![w] = "sending"]
          /\ cur' = [cur EXCEPT ![w] = p]
          /\ seen' = [seen EXCEPT ![w] = row[p].attempts]
          /\ owed' = owed \ {p}
     ELSE UNCHANGED <<pc, cur, seen, owed>>
  /\ UNCHANGED <<table, config, requests, limit, answer, stopping, retried, bounds>>

\* dispatchPunchWebhook returns: a 2xx answer, or anything else (another
\* status, a network error, the timeout).
Dispatch(w, ok) ==
  /\ pc[w] = "sending"
  /\ pc' = [pc EXCEPT ![w] = "record"]
  /\ answer' = [answer EXCEPT ![w] = ok]
  /\ UNCHANGED <<table, config, requests, limit, queue, cur, seen, stopping, ghosts, bounds>>

\* The worker is done with the record in its hands.
PutDown(w) ==
  /\ pc' = [pc EXCEPT ![w] = "loop"]
  /\ cur' = [cur EXCEPT ![w] = NoPunch]
  /\ seen' = [seen EXCEPT ![w] = 0]
  /\ answer' = [answer EXCEPT ![w] = FALSE]

\* The transaction that adds the webhook_deliveries row and updates the punch.
\* If the punch was deleted meanwhile the transaction fails and writes nothing.
RecordAttempt(w) ==
  LET p == cur[w]
      n == seen[w] + 1
  IN /\ pc[w] = "record"
     /\ PutDown(w)
     /\ IF stage[p] = "live"
        THEN /\ log' = [log EXCEPT ![p] = Append(@, [attempt |-> n, ok |-> answer[w]])]
             /\ row' = [row EXCEPT ![p] = IF answer[w] THEN DeliveredRow(@, n)
                                          ELSE FailedRow(@, n, limit[w])]
        ELSE UNCHANGED <<log, row>>
     /\ UNCHANGED <<stage, config, requests, limit, queue, stopping, ghosts, bounds>>

\* The loop ends when the batch is done, or at once when a shutdown was asked:
\* the rest of the batch keeps its lease.
EndLoop(w) ==
  /\ pc[w] = "loop"
  /\ queue[w] = {} \/ stopping[w]
  /\ pc' = [pc EXCEPT ![w] = "sweep"]
  /\ queue' = [queue EXCEPT ![w] = {}]
  /\ UNCHANGED <<table, config, requests, limit, cur, seen, answer, stopping, ghosts, bounds>>

\* What deleting rows does, whoever does it: the deliveries cascade.
Remove(ids) ==
  /\ stage' = [p \in Punches |-> IF p \in ids THEN "gone" ELSE stage[p]]
  /\ row' = [p \in Punches |-> IF p \in ids THEN DefaultRow ELSE row[p]]
  /\ log' = [p \in Punches |-> IF p \in ids THEN <<>> ELSE log[p]]
  /\ retried' = [p \in Punches |-> IF p \in ids THEN 0 ELSE retried[p]]
  /\ owed' = owed \ ids

\* runRetentionSweepIfDue deletes the rows past the cutoff, delivered or not
\* (which ones is time's choice; none when it is not due or fails).
Sweep(w, expired) ==
  /\ pc[w] = "sweep"
  /\ Remove(expired)
  /\ pc' = [pc EXCEPT ![w] = IF stopping[w] THEN "stopped" ELSE "idle"]
  /\ UNCHANGED <<config, requests, limit, queue, cur, seen, answer, stopping, bounds>>

\* main leaves its loop when a shutdown arrives between two ticks; the process
\* manager starts a new process, with nothing remembered.
Stop(w) ==
  /\ pc[w] = "idle"
  /\ stopping[w]
  /\ pc' = [pc EXCEPT ![w] = "stopped"]
  /\ UNCHANGED <<table, config, requests, limit, queue, cur, seen, answer, stopping, ghosts, bounds>>

Restart(w) ==
  /\ pc[w] = "stopped"
  /\ pc' = [pc EXCEPT ![w] = "idle"]
  /\ stopping' = [stopping EXCEPT ![w] = FALSE]
  /\ UNCHANGED <<table, config, requests, limit, queue, cur, seen, answer, ghosts, bounds>>

WorkerStep(w) ==
  \/ StartTick(w)
  \/ \E ids \in SUBSET Claimable : Claim(w, ids)
  \/ \E p \in Punches : ReadRecord(w, p)
  \/ \E ok \in BOOLEAN : Dispatch(w, ok)
  \/ RecordAttempt(w)
  \/ EndLoop(w)
  \/ \E expired \in SUBSET Live : Sweep(w, expired)
  \/ Stop(w)
  \/ Restart(w)

Fault ==
  /\ faults < MaxFaults
  /\ faults' = faults + 1
  /\ UNCHANGED <<table, config, requests, limit, ghosts, changes>>

\* A rejected query: in tick it ends the tick.
TickFails(w) ==
  /\ pc[w] = "claim" \/ (pc[w] = "idle" /\ ~stopping[w])
  /\ Fault
  /\ pc' = [pc EXCEPT ![w] = "sweep"]
  /\ UNCHANGED <<queue, cur, seen, answer, stopping>>

\* In processPunchRecord it skips the record: before the attempt ...
ReadFails(w, p) ==
  /\ pc[w] = "loop"
  /\ ~stopping[w]
  /\ p \in queue[w]
  /\ Fault
  /\ queue' = [queue EXCEPT ![w] = @ \ {p}]
  /\ UNCHANGED <<pc, cur, seen, answer, stopping>>

\* ... or after it, and the attempt is not recorded.
RecordFails(w) ==
  /\ pc[w] = "record"
  /\ Fault
  /\ PutDown(w)
  /\ UNCHANGED <<queue, stopping>>

\* SIGTERM: the current record will be finished, the batch will not.
Shutdown(w) ==
  /\ pc[w] # "stopped"
  /\ ~stopping[w]
  /\ Fault
  /\ stopping' = [stopping EXCEPT ![w] = TRUE]
  /\ UNCHANGED <<pc, queue, cur, seen, answer>>

\* The process dies at any point: its locals are gone, the rows it claimed
\* keep their lease.
Crash(w) ==
  /\ pc[w] # "stopped"
  /\ Fault
  /\ pc' = [pc EXCEPT ![w] = "stopped"]
  /\ queue' = [queue EXCEPT ![w] = {}]
  /\ cur' = [cur EXCEPT ![w] = NoPunch]
  /\ seen' = [seen EXCEPT ![w] = 0]
  /\ answer' = [answer EXCEPT ![w] = FALSE]
  /\ UNCHANGED stopping

WorkerFault(w) ==
  \/ TickFails(w)
  \/ \E p \in Punches : ReadFails(w, p)
  \/ RecordFails(w)
  \/ Shutdown(w)
  \/ Crash(w)

\* Time passes a row's nextAttemptAt.
Elapse(p) ==
  /\ p \in Live
  /\ row[p].next \in {"leased", "backoff"}
  /\ row' = [row EXCEPT ![p].next = "due"]
  /\ UNCHANGED <<stage, log, config, requests, locals, ghosts, bounds>>

-----------------------------------------------------------------------------
(* The administrators. *)

\* POST /:id/retry and /retry-bulk first look up which rows have a device with
\* an active webhook; nothing else about the row is looked at ...
AskRetry(ids) ==
  LET eligible == {p \in ids \cap Live : ActiveHook(p)}
  IN /\ asked = {}
     /\ eligible # {}
     /\ \A p \in eligible : retried[p] < MaxRetries
     /\ asked' = eligible
     /\ UNCHANGED <<table, config, upload, locals, ghosts, bounds>>

\* ... and then resetForRetry updates those that still exist.
ResetForRetry ==
  LET found == asked \cap Live
  IN /\ asked # {}
     /\ asked' = {}
     /\ row' = [p \in Punches |-> IF p \in found THEN RetriedRow(row[p]) ELSE row[p]]
     /\ retried' = [p \in Punches |-> IF p \in found THEN retried[p] + 1 ELSE retried[p]]
     /\ owed' = owed \cup {p \in found : ~row[p].delivered}
     /\ UNCHANGED <<stage, log, config, upload, locals, bounds>>

\* DELETE /:id and /delete-bulk.
DeletePunches(ids) ==
  /\ Remove(ids)
  /\ UNCHANGED <<config, requests, locals, bounds>>

\* DELETE /devices/:id cascades to the device's punches.
DeleteDevice(d) ==
  /\ d \in devs
  /\ devs' = devs \ {d}
  /\ hook' = [hook EXCEPT ![d] = [enabled |-> FALSE, url |-> FALSE]]
  /\ Remove({p \in Live : DeviceOf[p] = d})
  /\ UNCHANGED <<requests, maxAttempts, locals, bounds>>

\* PATCH /devices/:id: the switch and the URL are independent fields.
SetWebhook(d, h) ==
  /\ d \in devs
  /\ h # hook[d]
  /\ changes < MaxChanges
  /\ changes' = changes + 1
  /\ hook' = [hook EXCEPT ![d] = h]
  /\ UNCHANGED <<table, devs, maxAttempts, requests, locals, ghosts, faults>>

\* PATCH /settings.
SetMaxAttempts(n) ==
  /\ n # maxAttempts
  /\ changes < MaxChanges
  /\ changes' = changes + 1
  /\ maxAttempts' = n
  /\ UNCHANGED <<table, devs, hook, requests, locals, ghosts, faults>>

Admin ==
  \/ \E ids \in SUBSET Live \ {{}} : AskRetry(ids) \/ DeletePunches(ids)
  \/ ResetForRetry
  \/ \E d \in Devices : DeleteDevice(d) \/ \E h \in Webhook : SetWebhook(d, h)
  \/ \E n \in MaxChoices : SetMaxAttempts(n)

-----------------------------------------------------------------------------

Next ==
  \/ Ingest
  \/ \E w \in Workers : WorkerStep(w) \/ WorkerFault(w)
  \/ \E p \in Punches : Elapse(p)
  \/ Admin

Spec == Init /\ [][Next]_vars

\* The worker loops for ever and is restarted when it stops; time passes.
\* Faults and administrators owe nothing.
Fairness ==
  /\ \A w \in Workers : WF_vars(WorkerStep(w))
  /\ \A p \in Punches : WF_vars(Elapse(p))

FairSpec == Spec /\ Fairness

-----------------------------------------------------------------------------
(* Properties. *)

TypeOK ==
  /\ stage \in [Punches -> {"new", "live", "gone"}]
  /\ row \in [Punches -> PunchRow]
  /\ log \in [Punches -> Seq(Delivery)]
  /\ devs \subseteq Devices
  /\ hook \in [Devices -> Webhook]
  /\ upload \in [Devices -> {"none", "active", "inactive"}]
  /\ asked \subseteq Punches
  /\ maxAttempts \in MaxChoices
  /\ pc \in [Workers -> {"idle", "claim", "loop", "sending", "record", "sweep", "stopped"}]
  /\ limit \in [Workers -> MaxChoices]
  /\ queue \in [Workers -> SUBSET Punches]
  /\ cur \in [Workers -> Punches \cup {NoPunch}]
  /\ seen \in [Workers -> Nat]
  /\ answer \in [Workers -> BOOLEAN]
  /\ stopping \in [Workers -> BOOLEAN]
  /\ retried \in [Punches -> Nat]
  /\ owed \subseteq Punches
  /\ faults \in Nat
  /\ changes \in Nat

InHand(w, p) == p \in queue[w] \/ cur[w] = p

\* A punch held back at ingestion is never touched until someone retries it:
\* no worker claims it, it has no attempt, no error and no delivery row - so
\* configuring a webhook never sends a backlog.
HeldIsUntouched ==
  \A p \in Live : row[p].held =>
    /\ row[p].attempts = 0
    /\ ~row[p].error
    /\ ~row[p].delivered
    /\ log[p] = <<>>
    /\ \A w \in Workers : ~InHand(w, p)

\* A record is marked delivered exactly when one of its delivery rows is a
\* success: the flag and the log a reader sees never disagree, also when
\* several workers report on the same record.
DeliveredMatchesLog ==
  \A p \in Live : row[p].delivered <=> \E i \in DOMAIN log[p] : log[p][i].ok

\* What the three properties above and FailedPageNeverNA need to be inductive:
\* a worker only ever holds rows that exist or existed, a worker that dispatches
\* holds one, deliveries and errors belong to rows and attempts.
HandsHoldRows == \A w \in Workers, p \in Punches : InHand(w, p) => stage[p] # "new"
HandsBusy == \A w \in Workers : cur[w] = NoPunch <=> pc[w] \notin {"sending", "record"}
LogBelongsToRow == \A p \in Punches : stage[p] # "live" => log[p] = <<>>
ErrorMeansAttempted == \A p \in Punches : row[p].error => row[p].attempts > 0

DeliveryInv ==
  /\ HandsHoldRows
  /\ HandsBusy
  /\ LogBelongsToRow
  /\ ErrorMeansAttempted
  /\ HeldIsUntouched
  /\ DeliveredMatchesLog

\* ?status= lists exactly the rows that carry the badge.
FilterMatchesBadge ==
  \A p \in Live, s \in Statuses :
    StatusCondition(s, row[p], hook[DeviceOf[p]], maxAttempts)
      <=> ComputeStatus(row[p], hook[DeviceOf[p]], maxAttempts) = s

\* Nothing listed on the Failed Webhooks page carries the badge NA.
FailedPageNeverNA ==
  \A p \in Live :
    OnFailedPage(row[p], maxAttempts) =>
      ComputeStatus(row[p], hook[DeviceOf[p]], maxAttempts) # "not_applicable"

\* A record shown as pending is one the worker will come back to by itself.
PendingIsScheduled ==
  \A p \in Live :
    ComputeStatus(row[p], hook[DeviceOf[p]], maxAttempts) = "pending"
      => row[p].next # "parked"

\* Nothing is given up before its time, however many workers overwrite each
\* other's count: an undelivered record that is parked has been attempted as
\* often as some limit asks, and no record counts an attempt its log lacks.
NeverGivenUpEarly ==
  \A p \in Live :
    /\ row[p].attempts <= Len(log[p])
    /\ ~row[p].delivered /\ row[p].next = "parked" =>
         \E m \in MaxChoices : m <= row[p].attempts

\* What NeverGivenUpEarly needs to be inductive: it holds of every row, and a
\* worker has not read more attempts than the log of its record has.
ParkedIsExhausted ==
  \A p \in Punches : row[p].next = "parked" =>
    row[p].delivered \/ \E m \in MaxChoices : m <= row[p].attempts

CountInv ==
  /\ ParkedIsExhausted
  /\ \A p \in Punches : row[p].attempts <= Len(log[p])
  /\ \A w \in Workers : cur[w] \in Live => seen[w] <= Len(log[cur[w]])

\* Attempts is the running total of the delivery rows, which are numbered in
\* order (one worker).
AttemptsCountLog ==
  \A p \in Live :
    /\ row[p].attempts = Len(log[p])
    /\ \A i \in DOMAIN log[p] : log[p][i].attempt = i

\* However settings change, workers crash and queries fail: a record is
\* attempted at most as often as the largest limit ever set, plus once per
\* manual retry (one worker).
AttemptBudget ==
  \A p \in Live :
    \E m \in MaxChoices : Len(log[p]) <= m + retried[p]

\* Nothing is recorded after a recorded success (one worker).
SuccessIsLast ==
  \A p \in Live : \A i \in DOMAIN log[p] : log[p][i].ok => i = Len(log[p])

\* What the three properties above need to be inductive with one worker: a row
\* in hand is not delivered, its count is the one the worker read, and a row
\* that will be attempted has an attempt left.
AttemptLeft(p) == \E m \in MaxChoices : row[p].attempts < m + retried[p]

SingleWorkerInv ==
  /\ AttemptsCountLog
  /\ AttemptBudget
  /\ SuccessIsLast
  /\ \A w \in Workers : cur[w] \notin queue[w]
  /\ \A w \in Workers : cur[w] \in Live => seen[w] = row[cur[w]].attempts
  /\ \A w \in Workers, p \in Live : InHand(w, p) => ~row[p].delivered /\ AttemptLeft(p)
  /\ \A p \in Live : row[p].delivered \/ row[p].next = "parked" \/ AttemptLeft(p)

\* The late report of another worker never takes a delivery back.
DeliveryIsFinal ==
  [][\A p \in Punches : stage[p] = "live" /\ row[p].delivered
        => row'[p].delivered \/ stage'[p] = "gone"]_vars

\* Whatever the workers do, each punch goes through the life PunchLifecycle
\* describes.
Phase(p) ==
  IF stage[p] = "new" THEN "absent"
  ELSE IF stage[p] = "gone" THEN "gone"
  ELSE IF row[p].delivered THEN "delivered"
  ELSE IF row[p].held THEN "held" ELSE "open"

Life == INSTANCE PunchLifecycle WITH
  phase <- [p \in Punches |-> Phase(p)],
  tries <- [p \in Punches |-> Len(log[p])]
IsLifecycle == Life!Spec

\* Every record that is to be sent is settled in the end: delivered, given up
\* after as many attempts as some limit allows, deleted, or stopped by its
\* device's webhook being taken away.
EventuallySettled ==
  \A p \in Punches :
    (stage[p] = "live" /\ ~row[p].held /\ ActiveHook(p))
      ~> \/ row[p].delivered
         \/ row[p].next = "parked" /\ \E m \in MaxChoices : row[p].attempts >= m
         \/ stage[p] = "gone"
         \/ ~ActiveHook(p)

-----------------------------------------------------------------------------
(* What the repository's texts say and its code does not keep. *)

\* A retry that was accepted is not swallowed: until a worker takes the record
\* up the record is not parked (punchRecords.ts:287).
RetryIsHonoured == \A p \in owed : row[p].next # "parked"

\* The Attempts column never goes backwards (punchRecords.ts:284).
CountNeverGoesBack ==
  [][\A p \in Live : stage'[p] = "live" => row[p].attempts <= row'[p].attempts]_vars

\* A retry is accepted only while the device has an active webhook
\* (punchRecords.ts:311).
AcceptedRetryHasWebhook == [][\A p \in owed' \ owed : ActiveHook(p)]_vars

\* A punch is held exactly when its device has no webhook at the moment it is
\* ingested (REFERENCE.md:527).
HeldAsAtIngestion ==
  [][\A p \in Punches : stage[p] = "new" /\ stage'[p] = "live" =>
       (row'[p].held <=> ~ActiveHook(p))]_vars

=============================================================================
