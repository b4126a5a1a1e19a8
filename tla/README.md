# A TLA+ model of ADMS

ADMS receives attendance punches from biometric devices (the ZKTeco "push"
protocol), stores them in Postgres and forwards each one to its tenant's
webhook; administrators run it from a browser. This directory holds TLA+ modules
that model what the program does concurrently, TLC configurations that check them on small instances, and proofs that
TLAPS checks for every value of the constants.

Paths below are relative to the repository root: `src/` is the backend,
`admin-ui/` the browser application, `prisma/` the schema, `docs/` the reference.

Contents: 1 the system; 2 inventory; 3 what is hard; 4 the modules; 5 the runs;
6 fairness; 7 the proofs; 8 where the code and its texts disagree; 9 what is not
modelled; 10 what could come next; 11 how to run.

## 1. The system

Three kinds of process share one Postgres database and nothing else: the HTTP
server (`src/server.ts`, `src/app.ts`), which talks to the devices under
`/iclock` and to the administrators' browsers under the admin API; the webhook
worker (`src/worker.ts`), of which there may be several; and the browsers. No row
stays locked across two statements except inside `claimBatch` and a few
`$transaction` blocks. Every handler is therefore a sequence of atomic database
statements, with arbitrary steps of the others between them, and what it
remembers between two statements is state that may be out of date. The models
follow that rule: **one action per statement or transaction, one variable per
thing remembered across an `await`**.

## 2. Inventory

| Component | State it keeps | Operations | What makes it correct |
|---|---|---|---|
| Webhook worker, `src/worker.ts` | per process: the settings of the tick, the claimed ids, the record in hand, its attempt count, a stop flag; in the database: `webhookDelivered`, `webhookHeld`, `webhookAttempts`, `lastWebhookError`, `nextAttemptAt`, `webhook_deliveries` | `tick`, `claimBatch`, `processPunchRecord`, `shutdown`, the hourly sweep | a held punch is never sent; the flag, the count and the log agree; no more attempts than the limit and the retries allow; every punch that is to be sent is settled in the end; one worker at a time sends it |
| Dispatcher and templates, `src/webhooks/` | none | `dispatchWebhook`: one HTTP call with a timeout | bounded time; success only on a 2xx answer |
| Punch administration, `src/admin/punchRecords.ts` | none of its own | badge, `?status=` filter, Failed Webhooks page, retry one or many, delete one or many | badge and filter agree; a retry gives exactly one more attempt |
| ATTLOG ingestion, `src/adms/cdata.ts`, `dbErrors.ts`, `parsers/` | per request: device row, parsed records | parse, `createMany`, one-by-one fallback, OK or an error | what the device discards was stored, or never could be; no line wedges the device |
| Raw data of other tables, `src/adms/rawLog.ts` | `raw_data_logs` | insert and answer | the same classification as ATTLOG |
| Protocol routes, `src/adms/router.ts` | none | body limit, promise wrapper, error middleware | every failure becomes an answer |
| Device registry, `src/adms/deviceLookup.ts`, `src/admin/devices.ts`, `src/admin/companies.ts` | `devices`, `pending_devices`, `unregistered_device_pings`, `companies` | `resolveDevice`, `upsertPendingDevice`, claim, create, change, delete, dismiss | the first secret and company of a pending device stay; a first contact is logged once; a device that pings is on the list |
| Command queue, `src/adms/getrequest.ts`, `devicecmd.ts` | `device_commands` | queue, poll, reply, report | never twice, never out of order, none waits for ever |
| Clock and time zones, `src/adms/timezone.ts`, the handshake | `Device.timezone`; the device's clock | offsets, two-pass conversion, `TimeZone=` | the stored instant is the one the punch was taken at |
| Settings, `src/admin/settings.ts` | `platform_settings` | read, patch | a change reaches a running worker at its next tick; a save changes what its administrator changed |
| Retention sweep, `src/retentionSweep.ts` | none | deletes old rows of five tables | deletes only what has expired; nobody who holds such a row does harm |
| Accounts, `src/admin/auth.ts`, `adminUsers.ts`, `companies.ts`, `seed.ts` | `admin_users`, `companies`; per request: what it has read and is about to write | signup, create, patch, delete, reset and change of a password, seeding | role and company fit together; a temporary password is changed by who has it; a signup is whole or nothing |
| Sessions, `src/admin/auth.ts`, `jwt.ts`, `AuthContext.tsx` | a cookie per browser; the user a panel shows | login, signup, logout, `/me`, expiry | the panel shows whose session the browser holds |
| Rate limiter, `src/middleware/rateLimit.ts` | count and `resetAt` per key, in memory | check, hit, reset, expiry | no more than the limit, but for those under way; a block ends |
| Settings page and webhook drawer, `admin-ui/src/pages/Settings.tsx`, `components/WebhookDrawer.tsx` | what was loaded, the secret shown, a save and a regeneration under way | open, load, save, regenerate, close | a save takes nobody else's change back unseen; a secret in use is not replaced by the way |
| Tables, `admin-ui/src/hooks/`, `components/`, `pages/`, `src/utils/datatable.ts` | query, requests under way, rows, marks, one action | page, sort, search, filter, mark, delete, retry, create | the rows are those of the query; what is marked is shown; paging misses no row |
| Pure helpers, `src/utils/` | none | SSRF guard, slugs, device status | - |
| Bootstrap, config, logging | none | start, stop | - |

How they interact: ingestion **creates** punch rows; the worker **claims and
updates** them; administrators **retry and delete** them, and change the webhook,
the zone, the limit and the timeout that the other two read; the sweep and the
cascades of device and company deletions **delete** them under everybody's hands.
The registry decides for every device request whether it is trusted. A device is
a process of its own: it keeps what was not answered OK, gives up after a
time-out and asks again, while the server goes on with the first request.

## 3. What is hard

Interleavings: everything above at statement granularity, plus several workers,
overlapping requests of one device, and administrators in several tabs. Answers
that come late or in another order than the questions. Failure: a worker or server that dies
between any two statements, a query that is rejected, an answer that is lost.
Time: leases computed from one clock and compared with another, daylight saving.
Limits: reply and batch sizes, the attempt limit and its changes. `PROJECT.json`
lists each hazard at the line where it bites, with the properties that cover it.

## 4. The modules

### PunchStatus, PunchDelivery, PunchLifecycle - from upload to webhook

`PunchStatus` has the delivery columns of a row and the two readings of them,
`ComputeStatus` (the badge, TypeScript) and `StatusCondition` (the filter, SQL).
`PunchDelivery` is the protocol. Its state and the code:

| Variables | Code |
|---|---|
| `stage`, `row`, `log` | a `punch_records` row (absent, live, deleted), its delivery columns, its `webhook_deliveries` |
| `devs`, `hook`, `maxAttempts` | `devices` rows, `webhookEnabled` / `webhookUrl`, `webhookMaxAttempts` |
| `upload` | `webhookHeld` as an ATTLOG request in progress will write it, from the device row it read |
| `asked` | ids a retry request has found eligible and will update |
| `pc`, `limit`, `queue`, `cur`, `seen`, `answer`, `stopping` | a worker's place and its locals |
| `retried`, `owed` | history: accepted retries; those no worker has taken up yet |

`nextAttemptAt` has four values: due, leased, backoff (both in the future, made
due by `Elapse`) and parked (2099). A lease may elapse at any moment here, so the
model covers batches that outlive their lease. `DeleteDevice`, `DeletePunches`
and the sweep share `Remove`, which does what the cascades do. Ids are used for
one row only, as the database's are.

`PunchLifecycle` is what all of this promises about one punch: absent, held or
open, delivered, gone; only a release opens a held punch; only an open or
delivered one is tried; delivery is never taken back. `IsLifecycle` is the
refinement.

### WorkerLease - how long a claim protects

The claim and dispatch part of the worker with a clock instead of four values:
batches dispatched one record after the other, a lease that is not renewed, one
clock per worker and the database's. `Ahead[w]` is the difference between the
two. Only a dispatch takes time; `Timeout` stands for the longest a record keeps
the worker, the statements included. `disturbed` is history: how often a record was
retried while a worker held it.

### DeviceTimezone, DeviceClock - when a punch was taken

`DeviceTimezone` has the pure functions: `Offset`, `Reading`, the two-pass
`ToUtc`, `OptionValue`. The tz database is external and reduced to zones with one
daylight-saving period, of any offsets and any shift. `DeviceClock` has one
device that is told its offset by handshakes, takes punches, buffers them over
changes of zone and season, and uploads them; a reading is the dedupe key.

### CommandChannel, CommandQueue - commands for a device

A poll is `Resolve` (the device row), `Find` (`findMany` by the id of that row,
whatever the device has become since), `Mark` (`updateMany`) and a reply; the device
may give up and poll again meanwhile, so several polls may be under way. `age` is
`createdAt`: a command gets the value of the one before it or a later one, and of
commands of one millisecond `Find` may take any first, as `orderBy createdAt` does.
Every command that is received may be reported, and reported again; the update of a
report may be rejected, which `devicecmd.ts` answers OK all the same
(`ReportFails`). `CommandChannel` is the abstract promise - a channel that may lose
but neither repeats nor hands a command over before an older one (`NeverTwice`,
`InOrder`) - and `IsChannel` the refinement, however the polls overlap.

### AttlogIngest - the upload of records

One device, its buffer, and the requests the server is handling: body limit,
`resolveDevice`, `createMany`, the fallback one record at a time, the answer.
A record is its dedupe key; it is good, unparseable or unstorable. A device row
has an id, so that a request can carry the id of a device that was deleted, and
registered anew, since. `orphaned` and `oversized` are history variables for the
two ways the code drops records knowingly.

### DeviceRegistry - devices nobody has registered yet

One serial number: pings as the up to six statements of `resolveDevice` and
`upsertPendingDevice`, claims as a read and a transaction, and everything an
administrator may do between them. `rowSecret` and `rowCompany` are compare-and-
set columns; `isNew` is remembered over the awaits; `logged` is the log of first
contacts and `excused` the history of those that were swept or missed (which the
code does against its comment, see section 8).

### Accounts, AdminForms - what administrators write

`Accounts` has the rows of `admin_users` and `companies` and every request that
writes them. A handler with an await between what it reads and what it writes (a
password hash, or the row that PATCH validates) is a `Begin...` and a
`Commit...`, and `req[r]` is what it knows in between; the others are one step.
Who asks is not a state: a token is good for twelve hours whatever becomes of its
account, so every request may come at any time. `must` is `mustChangePassword`;
`overtaken` is the history of signups that were under way when signups were turned
off. `Restart` drops the requests and seeds an account when there is none.

`AdminForms` extends it by the two pages that load a row and write all of it back:
Settings, which writes `signupsEnabled` among others, and the webhook drawer of a
device with the secret that PATCH generates. What is typed is chosen when Save is
pressed, as nothing depends on it earlier. `base` is what the form was loaded with,
`edited` in a save the history of the fields that were typed over.

### RateLimiter, Sessions - who is signed in

`RateLimiter` has the counts and windows of all keys of all limiters; an expired
entry and none are the same to every caller, so `Tick` drops it at once. `Sessions`
extends it by the handlers that check and hit it, and by the panel: `cookie` is
whose session a browser holds, `user` whom the panel shows, `me`, `login`, `signup`,
`logout` the calls under way. `mixed` and `doubtful` are history: calls that
crossed, and whether the last answer was one of those or an error. Whether a
password is right is an input.

### DataTable - the tables of the panel

One table: `useDataTable` and `useSelection`, the pages built on them, and the list
query with its order and its pages. An event and the renders and effects it causes
are one step. `loading` and `request` are the newest load, `older` those it replaced,
whose answers may still come. An action's handler keeps the query of the render it
was made in, and reloads with that (`Closing`); `outdated` is the history of such a
reload whose table had moved on. `walk` is the history of the pages that were shown
of rows that did not change.

### MC modules and proof modules

`MC*` give constants names and define symmetries; `*Proofs` EXTEND the module
they prove about. In every module, definitions introduced as "plausible bugs"
are alternatives to the definition that follows them. They are not part of the
specification; putting one in the place of the real definition must break a
property, which is how the properties themselves are tested.

## 5. The runs

| Run | Instance | What it shows |
|---|---|---|
| `Delivery_one_worker` | 1 punch, 1 worker, limits {2, 3}, 2 retries, 2 faults, 1 change; 126 000 states | a held punch stays untouched; the count is the length of the log; attempts stay within the largest limit plus retries; nothing follows a success; liveness: a punch that is to be sent is settled |
| `Delivery_two_workers` | 2 workers, 1 punch, limit 2, 1 retry, 1 fault, 1 change; 566 000 | delivered flag and log agree; delivery is final; filter and badge agree; the failed page has no NA; pending is scheduled; a record is not given up with fewer delivery rows than its limit, whoever overwrites whose count; refinement of `PunchLifecycle` |
| `Lease_fits` | 3 workers, 2 punches, batch 2, timeout 2, lease 6, two clocks behind by 1, 1 retry; 1 726 000 | a record has one holder, and one more for each retry it met in a worker's hands |
| `Clock_in_step` | 3 zones, half-hour instants around either end of daylight saving, 2 punches | a device in step with its zone has exact instants; the conversion never invents one |
| `Commands_overlap` | 3 commands, of one `createdAt` or several, replies of 1, 2 polls, 1 fault, 1 change; 820 000 | PENDING means unseen, also with overlapping polls; a channel that may lose but neither repeats nor reorders; only a poll that was given up takes an ACKED back; liveness: no command stays PENDING for ever |
| `Ingest_overlap` | a good, an unparseable and an unstorable record, bodies of 2, 2 requests, 1 fault, 1 change, 1 removal; 305 000 | nothing the device discards is lost; liveness: nothing wedges it |
| `Registry_races` | 2 pings, 2 secrets, 1 company, 1 claim, 2 rows, 1 fault; 700 000 | nothing on file is overwritten; what a claim read stays true; first contacts are accounted for; liveness: a device that keeps pinging is on the list |
| `Admin_writes` | 2 requests, 2 accounts at the start, 2 companies, 2 tabs, 4 writes; 894 000 | whatever overlaps, rows stay consistent and a URL has a secret; a signup is whole; only overlapping requests lock an administrator out or end the obligation of a reset |
| `Sign_in` | 3 clients at one address, 1 of them a panel, limits 1 and 2, windows 2 and 1; 481 000 | failed logins pass the limit by what was under way; signups never; the panel shows the session of its browser; liveness: every block ends |
| `Tables` | 3 rows, 2 of them alike, pages of 2, 3 filters (1 without a device), 2 searches, 4 events; 1 447 000 | the rows are those of the query; marked rows are shown; paging misses none |

Each configuration below checks one statement of the repository's texts in the
smallest instance that refutes it; section 8 says how. `PROJECT.json` lists two of them
among its runs, the two about sending a record once too often or not at all:
`Delivery_retry_swallowed` and `Lease_too_short`. The others stand beside the runs for
whoever wants to see the counterexample, or to find it gone after a repair
(section 11).

| Configuration | Instance | Refuted |
|---|---|---|
| `Delivery_retry_swallowed` | 1 worker, limit 1, 1 retry | `RetryIsHonoured` |
| `Delivery_retry_unsendable` | 1 worker, limit 1, 1 retry, 1 change | `AcceptedRetryHasWebhook` |
| `Delivery_count_back` | 2 workers, limit 3 | `CountNeverGoesBack` |
| `Delivery_limit_raised` | 1 worker, limits {1, 2} | `PendingIsScheduled` |
| `Delivery_held_late` | 1 change | `HeldAsAtIngestion` |
| `Lease_too_short` | lease 2, timeout 4 | `OneSender` |
| `Ingest_orphaned` | 1 request, 2 records | `OnlyHopelessDropped` |
| `Registry_unlogged` | 1 ping, no fault | `FirstContactLogged` |
| `Registry_claim_race` | 1 ping, 1 claim, no fault | `ClaimCarriesSecret` |
| `Admin_locked_out` | 2 requests | `NobodyLockedOut` |
| `Admin_two_secrets` | 2 drawers | `SecretChangesByRegeneration` |
| `Admin_stale_settings` | 2 Settings pages | `SavesWhatWasEdited` |
| `Tables_stale_reload` | 1 action, 1 click on the header | `ArrowTellsTheTruth` |

**Bounds.** Every bound is a constant tested in a guard: `MaxRetries`,
`MaxFaults`, `MaxChanges`, `MaxRemovals`, `MaxTime`, `MaxPunches`, `MaxRows`,
`MaxWrites`, `MaxEvents`. They limit how often the environment does something, never what a handler does. One
fault is enough to make two requests of a device overlap, two for a request that
overlaps and then fails. Two attempts and a limit of two reach the boundary from
below, at and beyond it (by a retry). Two workers make a double
claim, a third one the holders a retry allows and one beyond them; batches of two
records are in `Lease_fits`, as `PunchDelivery` with two punches in a batch is left
to its proofs; so is a reply of several commands (`QueueIsChannel` holds for any
`PollLimit`). Three records with bodies of two
make a batch that mixes good and bad lines and one that is too large. In
`DeviceRegistry` a pending row can be deleted only while `MaxRows` leaves room for
another one: a run that has used its rows up would otherwise satisfy nothing for
the wrong reason. Each disagreement of two administrators in `AdminForms` needs at
most two requests or saves and what made the rows as they were before; four writes
leave room for a deletion or a restart among them. A limit of one is passed by two
logins under way together, and three clients show that it takes as many. Four
events of a table are a page turned, a row marked, an action called and a search
typed while it is under way; answers and failures are not counted. Larger instances
are what the proofs are for.

**Symmetry** is declared for punches, workers with the same clock, requests and tabs, in runs without
liveness properties only.

**Deadlock** is checked except in `Lease_*` (the clock reaches `MaxTime`), in
`Admin_*` and `Tables*` (nobody has to write or click once more) and in
`Ingest_*` (a device that has got rid of all its records, in a server with
nothing to do, has no next step).

## 6. Fairness, and why the code justifies it

- `PunchDelivery`: weak fairness of each worker's next step - `main` loops until it
  is told to stop, and `docker-compose` restarts what stops (`restart:
  unless-stopped`) - and of the passing of time. Administrators, uploads and faults
  owe nothing.
- `CommandQueue`: the device keeps polling (the handshake tells it `Delay=30`) and
  the server continues a request it has begun.
- `AttlogIngest`: the server continues a request; strong fairness of the device
  sending each record it keeps, because it sends all it keeps again and again and
  may do so only between requests.
- `DeviceRegistry`: an unregistered device keeps pinging; a ping is continued.
- `Sessions`: time passes. Nobody owes an answer or a login: a block ends whatever
  the clients do.

The liveness properties that say "gets rid of it unless ..." are written
`[]<>(...)`, which for a condition and its negation is the same as leads-to.

## 7. The proofs

All theorems hold for every value of the constants that satisfies the `ASSUME`s
of the module: any number of punches, workers, devices, commands, polls, records,
requests, pings, claims, accounts, companies, tabs, clients, panels and table rows,
any limits, and no bound on faults or writes (each bound is any natural number). The
assumptions say that bounds and limits are numbers, that the values which stand for
"none" are not among the real ones, that sets which are counted are finite
(`Workers`, `Clients`, `Ids`), that keys of different limiters differ, and that the
first rows satisfy the constraints of the schema. Two say more: `LeaseProtects` has
the batch fit into the lease as its hypothesis, and the zones of `DeviceTimezone`
have one daylight-saving period that lasts longer than two maximal offsets.

| Module | Theorem | Argument |
|---|---|---|
| `PunchDeliveryProofs` | `TypeCorrect`, `DeliveryInvariant` and from it `HeldIsNeverTouched`, `DeliveredHasSuccess`, `FailedPageIsNeverNA` | `HeldIsUntouched` alone is not inductive: a late report could touch a held row if a worker had it in hand. `DeliveryInv` adds that hands hold rows that exist or existed, a dispatching worker holds one, deliveries belong to live rows, errors to attempted ones. Most steps leave a row's history alone or delete the row (`QuietRow`); one lemma deals with all of them |
| | `StatusFilterAgrees`, `FilterAlwaysMatchesBadge` | case split on the four statuses, for every row |
| | `DeliveryNeverTakenBack` | only a record step writes `webhookDelivered`, and a failure leaves it |
| | `DeliveryIsLifecycle` | refinement: each action maps to one of `PunchLifecycle`'s or to a stutter; that only open punches are tried comes from `HeldIsUntouched` |
| | `GivenUpInTime` | `CountInv`: no count, in a row or in a worker's hands, is greater than the length of the record's log, and what is parked undelivered was parked by a count that reached a limit. A late report may take the count back, never beyond the log |
| | `PendingStaysScheduled` | from the same invariant: with an unchanging limit, what is parked is delivered or exhausted |
| | `SingleWorkerSafety` and from it `AttemptsAreCounted`, `SuccessEndsTheLog` | with one worker the count read is the row's count while the record is in hand, a record in hand is undelivered and has an attempt left; so count = length of the log, within the limit plus the retries |
| `WorkerLeaseProofs` | `LeaseProtects` | if BatchSize * Timeout plus any lag of a clock is below Lease, the time a batch still needs is always covered by the leases of its records (`Covered`). `OneHolderPerRetry` alone is not inductive: a claim adds a holder. `LeaseInv` says that the retries account for all holders but one, and for that one only while it is covered; a row is due only when nobody who holds it is covered, so a claim finds every holder accounted for, and a retry that ends a lease accounts for the one it uncovers |
| `UploadProofs` | `ConversionIsValid`, `ConversionIsExact` | the two passes see at most one transition, as a period lasts longer than two maximal offsets |
| | `PunchesAreExact`, `RowsAreValid` | the clock is what the last handshake told it (`ClockInv`), so an in-step reading is that of the zone |
| `CommandQueueProofs` | `PendingNotDelivered`, `AckedUndoneByLatePolls`, `QueueIsChannel`, however polls overlap | what a poll will reply was marked; what it will mark was pending and is younger than all that was received |
| | `NeverHandedTwice`, `HandedInOrder` | proved of `CommandChannel` (`Channel!ChannelInv`: what may still reach the device is younger than what has) and carried over by the refinement |
| `UploadProofs` | `IngestInvariant`, `NothingIsLost` | a request about to answer OK has only accounted records; the invariant follows them through the fallback |
| `DeviceRegistryProofs` | `TypeCorrect`, `NothingIsOverwritten`, `RegistryInvariant`, `ClaimsReadTrue`, `FirstContacts` | row ids are never reused, so equal ids mean the same row and compare-and-set columns only ever go from null to a value |
| `SessionsProofs` | `TypeCorrect` | one lemma per operation of the limiter |
| | `FailuresBounded` | `FailureBound` alone is not inductive. `Counted` adds the logins under way to the count: the check of the last one to begin found the count below the limit, and no more than all clients are under way after it; a failure moves one login from the second to the first; a signup's key is counted at once |
| | `PanelTellsTheTruth` | `Shown`: a `/me` that crossed no call carries the present cookie, and one under way with a call that may change the cookie is marked, so an unmarked answer is true |
| `DataTableProofs` | `RowsAreOfTheQuery`, `MarkedIsShown` | `Current`: what is asked for is what the header shows, unless the request is the reload of an action that was overtaken; rows and marks change together |
| | `OneOrder`, `AllPagesAreAllRows` | a list in order has every row at its rank, the number of rows before it, plus one; so there is one such list, and a page shows the rows whose ranks it holds. `WalkInv`: the rows a walk has seen are those of its pages in the order of the query, so all pages are all rows |
| `AdminFormsProofs` | `ConsistentRows` | one lemma per kind of write (insert, update, delete, cascade) on rows that are consistent (`AccountsOK`); `FormsInv`: a save under way holds a whole row, and a PATCH that has read a secret finds one when it writes |
| | `LockOutsAreRaces`, `ResetsHold`, `SignupsAreWhole` | `ReqInv`: every request under way has passed its checks on what it has read - a PATCH fits the role and company it read, a change of password was compared with the password it read, a signup was begun while signups were on or is one of the overtaken. A write that locks somebody out fits no row but an older one; the same for a reset that is undone |

`WorkerLease`, `DeviceClock` and `CommandQueue` have their types proved and not
checked by a run once more.

Every invariant and action property that a passing run checks, and both refinements,
are stated by a theorem. Only model-checked are the five liveness properties
(`EventuallySettled`, `EverySent`, `NeverWedged`, `EventuallyListed`, `BlocksEnd`),
as liveness under fairness is beyond the prover. A theorem may need a hypothesis
that a run has in its instance: one worker for `SingleWorkerSafety`, an unchanging
limit for `PendingStaysScheduled`.

## 8. Where the code and its texts disagree

Thirteen configurations end in a counterexample; each checks what a text says against
what the code does. The two that are runs of `PROJECT.json` are quoted there as findings:

- `Delivery_retry_swallowed`: a retry accepted while the worker is reporting the
  last failed attempt of the same record is overwritten by the parking date. The
  comment of `resetForRetry` promises "exactly one more attempt".
- `Delivery_retry_unsendable`: the webhook is taken away between a retry's check and
  its update, so the retry is accepted and nothing will ever pick it up - the "silent
  {ok:true}" of `punchRecords.ts:311`.
- `Delivery_count_back`: two workers that read the same count overwrite each other's
  total, so the Attempts column goes back (`worker.ts:76`, `punchRecords.ts:284`).
  Hence `AttemptsCountLog` is checked with one worker; with more of them
  `NeverGivenUpEarly` is what remains: a record may be attempted too often by this,
  never too seldom.
- `Delivery_limit_raised`: raising the limit turns the badge of a parked record back
  to "pending" although no worker will come to it (`punchRecords.ts:55`,
  `REFERENCE.md:520`). Hence `Delivery_two_workers` does not change the limit.
- `Delivery_held_late`: a webhook saved, or taken away, between the two awaits of an
  upload does not apply to it (`cdata.ts:216`, `REFERENCE.md:527`).
- `Lease_too_short`: with a webhook timeout above the 60 s lease (settings allow
  120 s), or with the defaults and a batch of eight slow records, a second worker
  sends a record that is in flight. `worker.ts:20-22` says it will not.
- `Ingest_orphaned`: a batch whose device is deleted between `resolveDevice` and the
  insert is answered OK and dropped (`dbErrors.ts:36`), though a retry would be held
  back by 503 until the device is claimed (`REFERENCE.md:214`). Hence `orphaned` in
  `NothingLost`.
- `Registry_unlogged`: a first contact whose company is deleted meanwhile is never
  logged (`deviceLookup.ts:166`, `:215`). Hence `excused` in `FirstContactAccounted`.
- `Registry_claim_race`: a claim between a pending row's creation and the update of
  its secret registers the device with a random one (`devices.ts:256`, `:221`,
  `REFERENCE.md:167`). Hence `ReadStaysTrue` speaks of a secret that was read.
- `Admin_locked_out`: two PATCHes of one account, each valid for the row it read,
  leave a company administrator without a company, whom `requireAdminAuth` turns
  away: what `adminUsers.ts:143` is there to prevent, and the test
  `authRequired.spec.ts:142` calls an impossible session. Hence the overlap in
  `LockedOutOnlyByOverlap`.
- `Admin_two_secrets`: two PATCHes that read a device without a secret both generate
  one (`devices.ts:486`), so the secret of the first one is replaced though it "only
  supports regenerate" (`devices.ts:441`).
- `Admin_stale_settings`: the Settings page sends all four fields
  (`Settings.tsx:99`), while the comment of `settings.ts:17` speaks of two independent
  forms that send their own: a save takes back what was saved since the page was
  loaded, signups turned off included. The drawer sends all of its fields too, and
  blank ones when it is saved before the device has arrived (`WebhookDrawer.tsx:137`).
- `Tables_stale_reload`: an action of a table reloads with the page, the order and the
  search of the render its handler was made in (`useDataTable.ts:137`): when the
  administrator has turned the page, sorted or searched since, the rows are not those
  the header and the page number say, against `useDataTable.ts:14`. Hence `outdated`.

Further behaviour the models reach, which the stated properties except on purpose
and no text of the repository excludes as plainly:

- A manual retry of a record in flight ends its lease, whatever its length
  (`punchRecords.ts:291`): a second worker sends it as well. Hence `disturbed`, and
  a holder more for each such retry in `OneHolderPerRetry`.
- A device keeps the offset of its last handshake across a daylight-saving change
  (`cdata.ts:44`); hence `InStep`.
- The late update of a poll the device has given up turns ACKED back into SENT
  (`getrequest.ts:44`); hence `OnlyLatePollUnacks`.
- A device created by hand, or claimed during a ping of it, leaves a pending row
  for a registered serial number (`devices.ts:408`, `schema.prisma:241`).
- A change of password that was compared with the old one before a reset ends the
  obligation to change the temporary one, and the password of the reset is gone
  (`auth.ts:226`); hence the overlap in `ResetUndoneOnlyByOverlap`.
- A new account's password is asked for as temporary (`AdminUsers.tsx:151`,
  `ChangePassword.tsx:44`), but `POST /admin-users` does not set
  `mustChangePassword`: only a reset and the seed do.
- The seed runs whenever the table is empty, not "only once"
  (`REFERENCE.md:279`, `seed.ts:6`): after the last account is deleted, the next
  start creates it again, with the password of the environment. When the last super
  administrator goes and a company's remains, nobody is seeded.
- A signup goes through that was begun before signups were turned off
  (`auth.ts:126`); hence `overtaken` in `SignupIsWhole`.
- What is typed while a save of the Settings is under way is overwritten by its
  answer (`Settings.tsx:105`). A last page of a table that was emptied shows "Page 2
  of 1".
- An answer of `/me` that crossed a login or a logout, or an error of it, leaves the
  panel with another user than the browser's session (`AuthContext.tsx:20`); hence
  `doubtful`.
- Logins are counted after the comparison of the password, so a burst passes the
  limit (`auth.ts:64`, against "max: 10"); `FailureBound` says by how much.

## 9. What is not modelled

- Rendering of webhook bodies, signatures and headers, and the SSRF guard: pure
  computations of strings and addresses, tested one call at a time.
- Parsing of ATTLOG lines beyond good, unparseable and unstorable; wording and
  layout of pages; the dialogs, routes and menus that keep no state.
- The insert of raw logs of other tables: one statement whose answer follows the
  classification of `AttlogIngest`; their list and deletion are `DataTable`'s.
- Renaming a company and labelling a device: one statement each, of fields nothing
  else reads. Slugs are fixed at creation; their uniqueness is in `Accounts`.
- The cutoff of the retention sweep: the deletes follow the read of the setting at
  once, so which rows are past it is a choice of the models that own them.
- The status of a device, a comparison of `lastSeenAt` with the clock;
  `touchDevice`, which is best-effort and changes nothing the properties speak of.
- Who may call what: the checks of role and company in each handler are guards of
  the caller's token, tested per route; `Accounts` takes the union of all callers.
- Bootstrap, configuration, logging and migrations, except for what a restart does
  to requests, workers and the seed.

## 10. What could come next

1. Composition: `AttlogIngest` as the source of `PunchDelivery`'s rows, so that a
   record is followed from the device's buffer to the webhook; an abstract
   at-least-once channel implemented by `AttlogIngest`.
2. A bound on double sends in `WorkerLease` when the lease is too short.
3. The limiter apart from the sessions: an abstract window that counts, implemented by
   `RateLimiter`.

## 11. How to run

    tlc -workers 2 -config Delivery_one_worker.cfg MCPunchDelivery.tla
    tlapm PunchDeliveryProofs.tla

Each run takes between a few seconds and two and a half minutes on two cores. A
configuration runs with the MC module of its component: `Delivery_*` with
`MCPunchDelivery`, `Lease_*` with `MCWorkerLease`, `Commands_*` with `MCCommandQueue`,
`Ingest_*` with `MCAttlogIngest`, `Registry_*` with `MCDeviceRegistry`, `Admin_*` with
`MCAdminForms`, `Tables*` with `MCDataTable`. The configurations of the second table of
section 5 end in a counterexample within seconds.
