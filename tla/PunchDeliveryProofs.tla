------------------------- MODULE PunchDeliveryProofs -------------------------
(***************************************************************************)
(* What holds of PunchDelivery for every number of punches, devices and     *)
(* workers, every limit and every bound.                                    *)
(***************************************************************************)
EXTENDS PunchDelivery, TLAPS

-----------------------------------------------------------------------------
(* The badge and the filter (admin/punchRecords.ts). *)

\* GET /punch-records?status=s returns exactly the rows whose badge is s:
\* statusCondition and computeStatus agree on every row, webhook and limit.
\* (With a limit of 0, which PATCH /settings refuses, they would not.)
THEOREM StatusFilterAgrees ==
  ASSUME NEW r \in PunchRow, NEW h \in Webhook, NEW max \in Nat \ {0}, NEW s \in Statuses
  PROVE  StatusCondition(s, r, h, max) <=> ComputeStatus(r, h, max) = s
<1>1. CASE s = "delivered"
  BY <1>1 DEF StatusCondition, ComputeStatus, PunchRow
<1>2. CASE s = "not_applicable"
  BY <1>2 DEF StatusCondition, ComputeStatus, PunchRow, HasActiveWebhook, Webhook
<1>3. CASE s = "failed"
  BY <1>3 DEF StatusCondition, ComputeStatus, PunchRow, HasActiveWebhook, Webhook
<1>4. CASE s = "pending"
  BY <1>4 DEF StatusCondition, ComputeStatus, PunchRow, HasActiveWebhook, Webhook
<1> QED BY <1>1, <1>2, <1>3, <1>4 DEF Statuses

-----------------------------------------------------------------------------
(* Types. *)

LEMMA RowTypes ==
  ASSUME NEW r \in PunchRow, NEW n \in Nat, NEW max \in Nat, NEW b \in BOOLEAN
  PROVE  /\ DefaultRow \in PunchRow
         /\ IngestedRow(b) \in PunchRow
         /\ LeasedRow(r) \in PunchRow
         /\ DeliveredRow(r, n) \in PunchRow
         /\ FailedRow(r, n, max) \in PunchRow
         /\ RetriedRow(r) \in PunchRow
BY DEF PunchRow, Slots, DefaultRow, IngestedRow, LeasedRow, DeliveredRow, FailedRow, RetriedRow

LEMMA RemoveType ==
  ASSUME TypeOK, NEW ids \in SUBSET Punches, Remove(ids)
  PROVE  /\ stage' \in [Punches -> {"new", "live", "gone"}]
         /\ row' \in [Punches -> PunchRow]
         /\ log' \in [Punches -> Seq(Delivery)]
         /\ retried' \in [Punches -> Nat]
         /\ owed' \subseteq Punches
<1>1. DefaultRow \in PunchRow
  BY DEF DefaultRow, PunchRow, Slots
<1>2. <<>> \in Seq(Delivery)
  OBVIOUS
<1> QED BY <1>1, <1>2 DEF Remove, TypeOK

LEMMA InitType == Init => TypeOK
<1>1. DefaultRow \in PunchRow
  BY DEF DefaultRow, PunchRow, Slots
<1>2. <<>> \in Seq(Delivery)
  OBVIOUS
<1> QED BY <1>1, <1>2 DEF Init, TypeOK

LEMMA IngestType == TypeOK /\ Ingest => TypeOK'
<1> SUFFICES ASSUME TypeOK, NEW d \in Devices,
                    \/ StartUpload(d)
                    \/ UploadFails(d)
                    \/ \E batch \in SUBSET {p \in Punches : stage[p] = "new" /\ DeviceOf[p] = d} :
                         InsertBatch(d, batch)
             PROVE  TypeOK'
  BY DEF Ingest
<1>1. CASE StartUpload(d)
  BY <1>1 DEF StartUpload, TypeOK, table, config, requests, locals, ghosts, bounds
<1>2. CASE UploadFails(d)
  BY <1>2 DEF UploadFails, TypeOK, table, config, requests, locals, ghosts, bounds
<1>3. ASSUME NEW batch \in SUBSET {p \in Punches : stage[p] = "new" /\ DeviceOf[p] = d},
             InsertBatch(d, batch)
      PROVE  TypeOK'
  <2> DEFINE fresh == IngestedRow(upload[d] = "active")
  <2>1. fresh \in PunchRow
    BY DEF IngestedRow, DefaultRow, PunchRow, Slots
  <2>2. \/ row' = [p \in Punches |-> IF p \in batch THEN fresh ELSE row[p]]
        \/ row' = row
    BY <1>3 DEF InsertBatch
  <2>3. row' \in [Punches -> PunchRow]
    <3> HIDE DEF fresh
    <3> QED BY <2>1, <2>2 DEF TypeOK, table, config, requests, locals, ghosts, bounds
  <2>4. stage' \in [Punches -> {"new", "live", "gone"}]
    BY <1>3 DEF InsertBatch, TypeOK, table, config, requests, locals, ghosts, bounds
  <2> QED BY <1>3, <2>3, <2>4 DEF InsertBatch, TypeOK, table, config, requests, locals, ghosts, bounds
<1> QED BY <1>1, <1>2, <1>3

LEMMA WorkerType ==
  ASSUME TypeOK, NEW w \in Workers, WorkerStep(w) \/ WorkerFault(w)
  PROVE  TypeOK'
<1> USE DEF TypeOK, table, config, requests, ghosts, bounds
<1>1. CASE StartTick(w)
  BY <1>1 DEF StartTick
<1>2. ASSUME NEW ids \in SUBSET Claimable, Claim(w, ids)
      PROVE  TypeOK'
  <2>1. \A p \in Punches : LeasedRow(row[p]) \in PunchRow
    BY RowTypes
  <2>2. row' \in [Punches -> PunchRow]
    BY <1>2, <2>1 DEF Claim
  <2>3. ids \in SUBSET Punches
    BY DEF Claimable, Live
  <2> QED BY <1>2, <2>2, <2>3 DEF Claim
<1>3. ASSUME NEW p \in Punches, ReadRecord(w, p)
      PROVE  TypeOK'
  <2>1. row[p].attempts \in Nat
    BY DEF PunchRow
  <2> QED BY <1>3, <2>1 DEF ReadRecord
<1>4. ASSUME NEW ok \in BOOLEAN, Dispatch(w, ok)
      PROVE  TypeOK'
  BY <1>4 DEF Dispatch
<1>5. CASE RecordAttempt(w)
  <2> DEFINE p == cur[w]
             n == seen[w] + 1
             entry == [attempt |-> n, ok |-> answer[w]]
  <2>1. /\ n \in Nat /\ n # 0
        /\ limit[w] \in Nat
    <3>1. seen[w] \in Nat /\ limit[w] \in MaxChoices
      OBVIOUS
    <3>2. n \in Nat /\ n # 0
      BY <3>1
    <3>3. limit[w] \in Nat
      BY <3>1, SettingsAssumption
    <3> QED BY <3>2, <3>3
  <2>2. entry \in Delivery
    BY <2>1 DEF Delivery
  <2>3. CASE stage[p] = "live"
    <3>1. log' = [log EXCEPT ![p] = Append(@, entry)]
      BY <1>5, <2>3 DEF RecordAttempt
    <3>2. log' \in [Punches -> Seq(Delivery)]
      <4> HIDE DEF entry, p
      <4>1. \A q \in Punches : Append(log[q], entry) \in Seq(Delivery)
        BY <2>2
      <4> QED BY <3>1, <4>1
    <3>3. \A r \in PunchRow : /\ DeliveredRow(r, n) \in PunchRow
                              /\ FailedRow(r, n, limit[w]) \in PunchRow
      BY <2>1, RowTypes
    <3>4. row' = [row EXCEPT ![p] = IF answer[w] THEN DeliveredRow(@, n)
                                    ELSE FailedRow(@, n, limit[w])]
      BY <1>5, <2>3 DEF RecordAttempt
    <3>5. row' \in [Punches -> PunchRow]
      <4> HIDE DEF n, p
      <4> QED BY <3>3, <3>4
    <3> QED BY <1>5, <3>2, <3>5 DEF RecordAttempt, PutDown
  <2>4. CASE stage[p] # "live"
    BY <1>5, <2>4 DEF RecordAttempt, PutDown
  <2> QED BY <2>3, <2>4
<1>6. CASE EndLoop(w)
  BY <1>6 DEF EndLoop
<1>7. ASSUME NEW expired \in SUBSET Live, Sweep(w, expired)
      PROVE  TypeOK'
  <2>1. expired \in SUBSET Punches
    BY DEF Live
  <2> QED BY <1>7, <2>1, RemoveType DEF Sweep
<1>8. CASE Stop(w)
  BY <1>8 DEF Stop
<1>9. CASE Restart(w)
  BY <1>9 DEF Restart
<1>10. CASE WorkerFault(w)
  <2>1. CASE TickFails(w)
    BY <2>1 DEF TickFails, Fault
  <2>2. ASSUME NEW p \in Punches, ReadFails(w, p)
        PROVE  TypeOK'
    BY <2>2 DEF ReadFails, Fault
  <2>3. CASE RecordFails(w)
    BY <2>3 DEF RecordFails, PutDown, Fault
  <2>4. CASE Shutdown(w)
    BY <2>4 DEF Shutdown, Fault
  <2>5. CASE Crash(w)
    BY <2>5 DEF Crash, Fault
  <2> QED BY <1>10, <2>1, <2>2, <2>3, <2>4, <2>5 DEF WorkerFault
<1> QED BY <1>1, <1>2, <1>3, <1>4, <1>5, <1>6, <1>7, <1>8, <1>9, <1>10 DEF WorkerStep

LEMMA ElapseType ==
  ASSUME TypeOK, NEW p \in Punches, Elapse(p)
  PROVE  TypeOK'
<1>1. row' \in [Punches -> PunchRow]
  BY DEF Elapse, TypeOK, PunchRow, Slots, table, config, requests, locals, ghosts, bounds
<1> QED BY <1>1 DEF Elapse, TypeOK, table, config, requests, locals, ghosts, bounds

LEMMA AdminType ==
  ASSUME TypeOK, Admin
  PROVE  TypeOK'
<1>1. ASSUME ResetForRetry
      PROVE  TypeOK'
  <2>1. \A p \in Punches : RetriedRow(row[p]) \in PunchRow
    BY RowTypes DEF TypeOK
  <2>2. /\ row' \in [Punches -> PunchRow]
        /\ retried' \in [Punches -> Nat]
        /\ owed' \subseteq Punches
    BY <1>1, <2>1 DEF ResetForRetry, TypeOK, Live, table, config, requests, locals, ghosts, bounds
  <2> QED BY <1>1, <2>2 DEF ResetForRetry, TypeOK, table, config, requests, locals, ghosts, bounds
<1>2. ASSUME NEW ids \in SUBSET Live, DeletePunches(ids)
      PROVE  TypeOK'
  <2>1. ids \in SUBSET Punches
    BY DEF Live
  <2> QED BY <1>2, <2>1, RemoveType DEF DeletePunches, TypeOK, table, config, requests, locals, ghosts, bounds
<1>3. ASSUME NEW d \in Devices, DeleteDevice(d)
      PROVE  TypeOK'
  <2>1. {p \in Live : DeviceOf[p] = d} \in SUBSET Punches
    BY DEF Live
  <2>2. hook' \in [Devices -> Webhook]
    BY <1>3 DEF DeleteDevice, TypeOK, Webhook, table, config, requests, locals, ghosts, bounds
  <2> QED BY <1>3, <2>1, <2>2, RemoveType DEF DeleteDevice, TypeOK, table, config, requests, locals, ghosts, bounds
<1>4. ASSUME NEW d \in Devices, NEW h \in Webhook, SetWebhook(d, h)
      PROVE  TypeOK'
  BY <1>4 DEF SetWebhook, TypeOK, table, config, requests, locals, ghosts, bounds
<1>5. ASSUME NEW n \in MaxChoices, SetMaxAttempts(n)
      PROVE  TypeOK'
  BY <1>5 DEF SetMaxAttempts, TypeOK, table, config, requests, locals, ghosts, bounds
<1>6. ASSUME NEW ids \in SUBSET Live, AskRetry(ids)
      PROVE  TypeOK'
  BY <1>6 DEF AskRetry, Live, TypeOK, table, config, locals, ghosts, bounds
<1> QED BY <1>1, <1>2, <1>3, <1>4, <1>5, <1>6 DEF Admin

LEMMA NextType == TypeOK /\ [Next]_vars => TypeOK'
<1> SUFFICES ASSUME TypeOK, [Next]_vars PROVE TypeOK'
  OBVIOUS
<1>1. CASE UNCHANGED vars
  BY <1>1 DEF vars, TypeOK, table, config, requests, locals, ghosts, bounds
<1> QED BY <1>1, IngestType, WorkerType, ElapseType, AdminType DEF Next

\* Every variable keeps its type.
THEOREM TypeCorrect == Spec => []TypeOK
BY InitType, NextType, PTL DEF Spec

-----------------------------------------------------------------------------
(* The flags of a row, the log and the workers' hands.  Most steps leave each *)
(* row's history alone or delete the row (QuietRow); only an insert and the   *)
(* record of an attempt do more.                                             *)

SameHistory(p) ==
  /\ stage'[p] = stage[p]
  /\ log'[p] = log[p]
  /\ row'[p].delivered = row[p].delivered
  /\ row'[p].attempts = row[p].attempts
  /\ row'[p].error = row[p].error
  /\ row'[p].held => row[p].held

Removed(p) == stage'[p] = "gone" /\ log'[p] = <<>> /\ row'[p] = DefaultRow

QuietRow(p) == SameHistory(p) \/ Removed(p)

\* What a worker takes into its hands is live and not held.
QuietHands ==
  \A w \in Workers, p \in Punches :
    InHand(w, p)' => \/ InHand(w, p)
                     \/ stage[p] = "live" /\ ~row[p].held /\ SameHistory(p)

LEMMA RowFields ==
  /\ ~DefaultRow.delivered /\ ~DefaultRow.held /\ ~DefaultRow.error
  /\ DefaultRow.attempts = 0
  /\ \A r \in PunchRow :
       /\ LeasedRow(r).delivered = r.delivered /\ LeasedRow(r).held = r.held
       /\ LeasedRow(r).attempts = r.attempts /\ LeasedRow(r).error = r.error
       /\ RetriedRow(r).delivered = r.delivered /\ ~RetriedRow(r).held
       /\ RetriedRow(r).attempts = r.attempts /\ RetriedRow(r).error = r.error
  /\ \A r \in PunchRow, n \in Nat :
       /\ DeliveredRow(r, n).delivered /\ DeliveredRow(r, n).held = r.held
       /\ DeliveredRow(r, n).attempts = n /\ ~DeliveredRow(r, n).error
  /\ \A r \in PunchRow, n \in Nat, max \in Nat :
       /\ FailedRow(r, n, max).delivered = r.delivered
       /\ FailedRow(r, n, max).held = r.held
       /\ FailedRow(r, n, max).attempts = n
BY DEF PunchRow, DefaultRow, LeasedRow, RetriedRow, DeliveredRow, FailedRow

LEMMA RemoveQuiet ==
  ASSUME TypeOK, NEW ids \in SUBSET Punches, Remove(ids)
  PROVE  \A p \in Punches : QuietRow(p)
BY DEF Remove, TypeOK, QuietRow, SameHistory, Removed

LEMMA QuietStep ==
  ASSUME TypeOK, DeliveryInv, \A p \in Punches : QuietRow(p), QuietHands, HandsBusy'
  PROVE  DeliveryInv'
<1>1. HandsHoldRows'
  BY DEF DeliveryInv, HandsHoldRows, QuietHands, QuietRow, SameHistory, Removed
<1>2. LogBelongsToRow'
  BY DEF DeliveryInv, LogBelongsToRow, QuietRow, SameHistory, Removed
<1>3. ErrorMeansAttempted'
  BY RowFields DEF DeliveryInv, ErrorMeansAttempted, QuietRow, SameHistory, Removed
<1>4. HeldIsUntouched'
  <2> SUFFICES ASSUME NEW p \in Punches, stage'[p] = "live", row'[p].held
               PROVE  /\ row'[p].attempts = 0
                      /\ ~row'[p].error
                      /\ ~row'[p].delivered
                      /\ log'[p] = <<>>
                      /\ \A w \in Workers : ~InHand(w, p)'
    BY DEF HeldIsUntouched, Live
  <2>1. SameHistory(p)
    BY DEF QuietRow, Removed
  <2>2. stage[p] = "live" /\ row[p].held
    BY <2>1 DEF SameHistory
  <2>3. p \in Live
    BY <2>2 DEF Live
  <2> QED BY <2>1, <2>2, <2>3 DEF SameHistory, DeliveryInv, HeldIsUntouched, QuietHands
<1>5. DeliveredMatchesLog'
  <2> SUFFICES ASSUME NEW p \in Punches, stage'[p] = "live"
               PROVE  row'[p].delivered <=> \E i \in DOMAIN log'[p] : log'[p][i].ok
    BY DEF DeliveredMatchesLog, Live
  <2>1. SameHistory(p)
    BY DEF QuietRow, Removed
  <2> QED BY <2>1 DEF SameHistory, DeliveryInv, DeliveredMatchesLog, Live
<1> QED BY <1>1, <1>2, <1>3, <1>4, <1>5 DEF DeliveryInv

LEMMA InitDelivery == Init => DeliveryInv
BY NoPunchAssumption
DEF Init, DeliveryInv, HandsHoldRows, HandsBusy, LogBelongsToRow, ErrorMeansAttempted,
    HeldIsUntouched, DeliveredMatchesLog, InHand, Live, DefaultRow

LEMMA IngestDelivery ==
  ASSUME TypeOK, DeliveryInv, Ingest
  PROVE  DeliveryInv'
<1> USE DEF TypeOK, table, config, requests, locals, ghosts, bounds
<1> PICK d \in Devices :
           \/ StartUpload(d)
           \/ UploadFails(d)
           \/ \E batch \in SUBSET {p \in Punches : stage[p] = "new" /\ DeviceOf[p] = d} :
                InsertBatch(d, batch)
  BY DEF Ingest
<1>1. CASE UNCHANGED <<table, locals>>
  <2>1. \A p \in Punches : QuietRow(p)
    BY <1>1 DEF QuietRow, SameHistory
  <2>2. QuietHands /\ HandsBusy'
    BY <1>1 DEF QuietHands, InHand, HandsBusy, DeliveryInv
  <2> QED BY <2>1, <2>2, QuietStep
<1>2. ASSUME NEW batch \in SUBSET {p \in Punches : stage[p] = "new" /\ DeviceOf[p] = d},
             InsertBatch(d, batch), d \in devs
      PROVE  DeliveryInv'
  <2> DEFINE fresh == IngestedRow(upload[d] = "active")
  <2>1. fresh.attempts = 0 /\ ~fresh.delivered /\ ~fresh.error
    BY DEF IngestedRow, DefaultRow
  <2> HIDE DEF fresh
  <2>2. /\ UNCHANGED <<log, locals>>
        /\ \A p \in Punches : IF p \in batch
                              THEN stage[p] = "new" /\ stage'[p] = "live" /\ row'[p] = fresh
                              ELSE stage'[p] = stage[p] /\ row'[p] = row[p]
    BY <1>2 DEF InsertBatch, fresh
  <2>3. \A w \in Workers, p \in Punches : InHand(w, p)' <=> InHand(w, p)
    BY <2>2 DEF InHand
  <2>4. HandsHoldRows' /\ HandsBusy'
    BY <2>2, <2>3 DEF DeliveryInv, HandsHoldRows, HandsBusy
  <2>5. LogBelongsToRow' /\ ErrorMeansAttempted'
    BY <2>1, <2>2 DEF DeliveryInv, LogBelongsToRow, ErrorMeansAttempted
  <2>6. HeldIsUntouched'
    <3> SUFFICES ASSUME NEW p \in Punches, stage'[p] = "live", row'[p].held
                 PROVE  /\ row'[p].attempts = 0
                        /\ ~row'[p].error
                        /\ ~row'[p].delivered
                        /\ log'[p] = <<>>
                        /\ \A w \in Workers : ~InHand(w, p)'
      BY DEF HeldIsUntouched, Live
    <3>1. CASE p \in batch
      BY <3>1, <2>1, <2>2, <2>3 DEF DeliveryInv, LogBelongsToRow, HandsHoldRows
    <3>2. CASE p \notin batch
      BY <3>2, <2>2, <2>3 DEF DeliveryInv, HeldIsUntouched, Live
    <3> QED BY <3>1, <3>2
  <2>7. DeliveredMatchesLog'
    <3> SUFFICES ASSUME NEW p \in Punches, stage'[p] = "live"
                 PROVE  row'[p].delivered <=> \E i \in DOMAIN log'[p] : log'[p][i].ok
      BY DEF DeliveredMatchesLog, Live
    <3>1. CASE p \in batch
      <4>1. log'[p] = <<>> /\ ~row'[p].delivered
        BY <3>1, <2>1, <2>2 DEF DeliveryInv, LogBelongsToRow
      <4> QED BY <4>1
    <3>2. CASE p \notin batch
      BY <3>2, <2>2 DEF DeliveryInv, DeliveredMatchesLog, Live
    <3> QED BY <3>1, <3>2
  <2> QED BY <2>4, <2>5, <2>6, <2>7 DEF DeliveryInv
<1> QED BY <1>1, <1>2 DEF StartUpload, UploadFails, InsertBatch

\* A step that leaves the table alone and puts nothing new into a hand.
LEMMA LocalStep ==
  ASSUME TypeOK, DeliveryInv, UNCHANGED table, HandsBusy',
         \A w \in Workers, p \in Punches : InHand(w, p)' => InHand(w, p)
  PROVE  DeliveryInv'
<1>1. \A p \in Punches : QuietRow(p)
  BY DEF table, QuietRow, SameHistory
<1>2. QuietHands
  BY DEF QuietHands
<1> QED BY <1>1, <1>2, QuietStep

\* The row and the log of the record whose attempt is recorded.
LEMMA RecordDelivery ==
  ASSUME TypeOK, DeliveryInv, NEW w \in Workers, RecordAttempt(w), stage[cur[w]] = "live"
  PROVE  DeliveryInv'
<1> DEFINE p == cur[w]
           n == seen[w] + 1
           entry == [attempt |-> n, ok |-> answer[w]]
           fresh == IF answer[w] THEN DeliveredRow(row[p], n) ELSE FailedRow(row[p], n, limit[w])
<1>1. p \in Punches /\ InHand(w, p) /\ row[p] \in PunchRow /\ log[p] \in Seq(Delivery)
  BY DEF RecordAttempt, DeliveryInv, HandsBusy, TypeOK, InHand
<1>2. n \in Nat /\ n > 0
  BY DEF TypeOK
<1>3. limit[w] \in Nat
  BY SettingsAssumption DEF TypeOK
<1>4. answer[w] \in BOOLEAN
  BY DEF TypeOK
<1>5. ~row[p].held
  BY <1>1 DEF DeliveryInv, HeldIsUntouched, Live
<1>6. /\ fresh.delivered <=> row[p].delivered \/ answer[w]
      /\ ~fresh.held
      /\ fresh.attempts = n
  <2>1. CASE answer[w]
    BY <2>1, <1>1, <1>2, <1>5, RowFields
  <2>2. CASE ~answer[w]
    BY <2>2, <1>1, <1>2, <1>3, <1>5, RowFields
  <2> QED BY <2>1, <2>2, <1>4
<1>7. stage' = stage /\ row' = [row EXCEPT ![p] = fresh]
      /\ log' = [log EXCEPT ![p] = Append(log[p], entry)]
  BY DEF RecordAttempt
<1>8. UNCHANGED queue /\ cur' = [cur EXCEPT ![w] = NoPunch] /\ pc' = [pc EXCEPT ![w] = "loop"]
  BY DEF RecordAttempt, PutDown
<1>9. \A v \in Workers, q \in Punches : InHand(v, q)' => InHand(v, q)
  BY <1>8, NoPunchAssumption DEF InHand, TypeOK
<1>10. entry.ok = answer[w]
  OBVIOUS
<1> HIDE DEF p, n, entry, fresh
<1>11. /\ row'[p] = fresh /\ log'[p] = Append(log[p], entry)
       /\ \A q \in Punches \ {p} : row'[q] = row[q] /\ log'[q] = log[q]
  BY <1>1, <1>7 DEF TypeOK
<1>12. HandsHoldRows' /\ HandsBusy'
  BY <1>7, <1>8, <1>9 DEF DeliveryInv, HandsHoldRows, HandsBusy, TypeOK
<1>13. LogBelongsToRow'
  BY <1>7, <1>11 DEF DeliveryInv, LogBelongsToRow, p
<1>14. ErrorMeansAttempted'
  BY <1>2, <1>6, <1>11 DEF DeliveryInv, ErrorMeansAttempted
<1>15. HeldIsUntouched'
  BY <1>6, <1>7, <1>9, <1>11 DEF DeliveryInv, HeldIsUntouched, Live
<1>16. DeliveredMatchesLog'
  <2> SUFFICES ASSUME NEW q \in Punches, stage[q] = "live"
               PROVE  row'[q].delivered <=> \E i \in DOMAIN log'[q] : log'[q][i].ok
    BY <1>7 DEF DeliveredMatchesLog, Live
  <2>1. row[q].delivered <=> \E i \in DOMAIN log[q] : log[q][i].ok
    BY DEF DeliveryInv, DeliveredMatchesLog, Live
  <2>2. CASE q = p
    <3> DEFINE old == log[p]
               new == Append(old, entry)
    <3>1. old \in Seq(Delivery) /\ new = log'[p]
      BY <1>1, <1>11
    <3>2. /\ DOMAIN old = 1 .. Len(old) /\ Len(old) \in Nat
          /\ DOMAIN new = 1 .. Len(old) + 1
          /\ \A i \in 1 .. Len(old) : new[i] = old[i]
          /\ new[Len(old) + 1] = entry
      BY <3>1
    <3> HIDE DEF old, new
    <3>3. (\E i \in DOMAIN new : new[i].ok) <=> (\E i \in DOMAIN old : old[i].ok) \/ answer[w]
      <4>1. \A i : i \in DOMAIN new <=> i \in DOMAIN old \/ i = Len(old) + 1
        BY <3>2
      <4>2. \A i \in DOMAIN old : new[i] = old[i]
        BY <3>2
      <4> QED BY <4>1, <4>2, <3>2, <1>10
    <3> QED BY <2>1, <2>2, <3>1, <3>3, <1>6, <1>11 DEF old
  <2>3. CASE q # p
    BY <2>1, <2>3, <1>11
  <2> QED BY <2>2, <2>3
<1> QED BY <1>12, <1>13, <1>14, <1>15, <1>16 DEF DeliveryInv

LEMMA WorkerDelivery ==
  ASSUME TypeOK, DeliveryInv, NEW w \in Workers, WorkerStep(w) \/ WorkerFault(w)
  PROVE  DeliveryInv'
<1> USE NoPunchAssumption DEF table, InHand, HandsBusy, DeliveryInv
<1>1. CASE StartTick(w)
  BY <1>1, LocalStep DEF StartTick, TypeOK
<1>2. ASSUME NEW ids \in SUBSET Claimable, Claim(w, ids)
      PROVE  DeliveryInv'
  <2>1. \A p \in Punches : SameHistory(p)
    BY <1>2, RowFields DEF Claim, SameHistory, TypeOK
  <2>2. \A p \in ids : stage[p] = "live" /\ ~row[p].held
    BY DEF Claimable, Live
  <2>3. QuietHands
    BY <1>2, <2>1, <2>2 DEF QuietHands, Claim, TypeOK
  <2>4. HandsBusy'
    BY <1>2 DEF Claim, TypeOK
  <2> QED BY <2>1, <2>3, <2>4, QuietStep DEF QuietRow
<1>3. ASSUME NEW p \in Punches, ReadRecord(w, p)
      PROVE  DeliveryInv'
  <2>1. HandsBusy'
    BY <1>3 DEF ReadRecord, TypeOK
  <2>2. \A v \in Workers, q \in Punches : InHand(v, q)' => InHand(v, q)
    BY <1>3 DEF ReadRecord, TypeOK
  <2>3. UNCHANGED table
    BY <1>3 DEF ReadRecord
  <2> QED BY <2>1, <2>2, <2>3, LocalStep
<1>4. ASSUME NEW ok \in BOOLEAN, Dispatch(w, ok)
      PROVE  DeliveryInv'
  BY <1>4, LocalStep DEF Dispatch, TypeOK
<1>5. CASE RecordAttempt(w)
  <2>1. CASE stage[cur[w]] # "live"
    BY <1>5, <2>1, LocalStep DEF RecordAttempt, PutDown, TypeOK
  <2> QED BY <1>5, <2>1, RecordDelivery
<1>6. CASE EndLoop(w)
  BY <1>6, LocalStep DEF EndLoop, TypeOK
<1>7. ASSUME NEW expired \in SUBSET Live, Sweep(w, expired)
      PROVE  DeliveryInv'
  <2>1. \A p \in Punches : QuietRow(p)
    BY <1>7, RemoveQuiet DEF Sweep, Live
  <2>2. QuietHands /\ HandsBusy'
    BY <1>7 DEF Sweep, QuietHands, TypeOK
  <2> QED BY <2>1, <2>2, QuietStep
<1>8. CASE Stop(w)
  BY <1>8, LocalStep DEF Stop, TypeOK
<1>9. CASE Restart(w)
  BY <1>9, LocalStep DEF Restart, TypeOK
<1>10. CASE WorkerFault(w)
  <2>1. CASE TickFails(w)
    BY <2>1, LocalStep DEF TickFails, Fault, TypeOK
  <2>2. ASSUME NEW p \in Punches, ReadFails(w, p)
        PROVE  DeliveryInv'
    BY <2>2, LocalStep DEF ReadFails, Fault, TypeOK
  <2>3. CASE RecordFails(w)
    BY <2>3, LocalStep DEF RecordFails, PutDown, Fault, TypeOK
  <2>4. CASE Shutdown(w)
    BY <2>4, LocalStep DEF Shutdown, Fault, TypeOK
  <2>5. CASE Crash(w)
    BY <2>5, LocalStep DEF Crash, Fault, TypeOK
  <2> QED BY <1>10, <2>1, <2>2, <2>3, <2>4, <2>5 DEF WorkerFault
<1> QED BY <1>1, <1>2, <1>3, <1>4, <1>5, <1>6, <1>7, <1>8, <1>9, <1>10 DEF WorkerStep

LEMMA ElapseDelivery ==
  ASSUME TypeOK, DeliveryInv, NEW p \in Punches, Elapse(p)
  PROVE  DeliveryInv'
<1>1. \A q \in Punches : SameHistory(q)
  BY DEF Elapse, SameHistory, TypeOK, PunchRow
<1>2. QuietHands /\ HandsBusy'
  BY DEF Elapse, QuietHands, InHand, DeliveryInv, HandsBusy, locals
<1> QED BY <1>1, <1>2, QuietStep DEF QuietRow

LEMMA AdminDelivery ==
  ASSUME TypeOK, DeliveryInv, Admin
  PROVE  DeliveryInv'
<1>1. UNCHANGED locals
  BY DEF Admin, AskRetry, ResetForRetry, DeletePunches, DeleteDevice, SetWebhook, SetMaxAttempts
<1>2. QuietHands /\ HandsBusy'
  BY <1>1 DEF QuietHands, InHand, DeliveryInv, HandsBusy, locals
<1>3. \A p \in Punches : QuietRow(p)
  <2>1. ASSUME ResetForRetry
        PROVE  \A p \in Punches : QuietRow(p)
    BY <2>1, RowFields DEF ResetForRetry, QuietRow, SameHistory, TypeOK
  <2>2. ASSUME NEW ids \in SUBSET Live, DeletePunches(ids)
        PROVE  \A p \in Punches : QuietRow(p)
    BY <2>2, RemoveQuiet DEF DeletePunches, Live
  <2>3. ASSUME NEW d \in Devices, DeleteDevice(d)
        PROVE  \A p \in Punches : QuietRow(p)
    BY <2>3, RemoveQuiet DEF DeleteDevice, Live
  <2>4. ASSUME UNCHANGED table
        PROVE  \A p \in Punches : QuietRow(p)
    BY <2>4 DEF table, QuietRow, SameHistory
  <2> QED BY <2>1, <2>2, <2>3, <2>4 DEF Admin, AskRetry, SetWebhook, SetMaxAttempts
<1> QED BY <1>2, <1>3, QuietStep

LEMMA NextDelivery == TypeOK /\ DeliveryInv /\ [Next]_vars => DeliveryInv'
<1> SUFFICES ASSUME TypeOK, DeliveryInv, [Next]_vars PROVE DeliveryInv'
  OBVIOUS
<1>1. CASE UNCHANGED vars
  BY <1>1, LocalStep DEF vars, table, locals, InHand, DeliveryInv, HandsBusy
<1> QED BY <1>1, IngestDelivery, WorkerDelivery, ElapseDelivery, AdminDelivery DEF Next

THEOREM DeliveryInvariant == Spec => [](TypeOK /\ DeliveryInv)
BY InitType, NextType, InitDelivery, NextDelivery, PTL DEF Spec

\* However many workers, devices and faults: a held punch is never claimed,
\* attempted, delivered or marked with an error until it is retried.
THEOREM HeldIsNeverTouched == Spec => []HeldIsUntouched
BY DeliveryInvariant, PTL DEF DeliveryInv

\* However many workers report on it: a record is marked delivered exactly
\* when its delivery log holds a success.
THEOREM DeliveredHasSuccess == Spec => []DeliveredMatchesLog
BY DeliveryInvariant, PTL DEF DeliveryInv

\* The rows ?status=s lists are those whose badge is s, in every reachable state.
THEOREM FilterAlwaysMatchesBadge == Spec => []FilterMatchesBadge
<1>1. TypeOK => FilterMatchesBadge
  <2> SUFFICES ASSUME TypeOK, NEW p \in Live, NEW s \in Statuses
               PROVE  StatusCondition(s, row[p], hook[DeviceOf[p]], maxAttempts)
                        <=> ComputeStatus(row[p], hook[DeviceOf[p]], maxAttempts) = s
    BY DEF FilterMatchesBadge
  <2>1. /\ row[p] \in PunchRow
        /\ hook[DeviceOf[p]] \in Webhook
        /\ maxAttempts \in Nat \ {0}
    BY DeviceAssumption, SettingsAssumption DEF TypeOK, Live
  <2> QED BY <2>1, StatusFilterAgrees
<1> QED BY <1>1, TypeCorrect, PTL

\* Whatever happens to settings and webhooks meanwhile, no row of the Failed
\* Webhooks page has the badge not_applicable.
THEOREM FailedPageIsNeverNA == Spec => []FailedPageNeverNA
<1>1. TypeOK /\ DeliveryInv => FailedPageNeverNA
  <2> SUFFICES ASSUME TypeOK, DeliveryInv, NEW p \in Live, OnFailedPage(row[p], maxAttempts)
               PROVE  ComputeStatus(row[p], hook[DeviceOf[p]], maxAttempts) # "not_applicable"
    BY DEF FailedPageNeverNA
  <2>1. p \in Punches /\ row[p] \in PunchRow /\ maxAttempts \in Nat \ {0}
    BY SettingsAssumption DEF Live, TypeOK
  <2>2. row[p].attempts > 0
    <3>1. row[p].attempts \in Nat
      BY <2>1 DEF PunchRow
    <3>2. row[p].error => row[p].attempts > 0
      BY <2>1 DEF DeliveryInv, ErrorMeansAttempted
    <3> QED BY <2>1, <3>1, <3>2 DEF OnFailedPage
  <2>3. ~row[p].held
    BY <2>2 DEF DeliveryInv, HeldIsUntouched
  <2> QED BY <2>2, <2>3 DEF ComputeStatus, OnFailedPage
<1> QED BY <1>1, DeliveryInvariant, PTL

\* A row's history changes only when it is inserted or an attempt is recorded.
LEMMA RowStep ==
  ASSUME TypeOK, Next, NEW p \in Punches
  PROVE  \/ QuietRow(p)
         \/ stage[p] = "new"
         \/ \E w \in Workers : RecordAttempt(w) /\ p = cur[w] /\ stage[p] = "live"
<1> SUFFICES ASSUME ~QuietRow(p), stage[p] # "new"
             PROVE  \E w \in Workers : RecordAttempt(w) /\ p = cur[w] /\ stage[p] = "live"
  OBVIOUS
<1>1. ~UNCHANGED table
  BY DEF table, QuietRow, SameHistory
<1>2. ~Ingest
  <2>1. ASSUME NEW d \in Devices,
               NEW batch \in SUBSET {q \in Punches : stage[q] = "new" /\ DeviceOf[q] = d},
               InsertBatch(d, batch)
        PROVE  QuietRow(p)
    BY <2>1 DEF InsertBatch, QuietRow, SameHistory, TypeOK
  <2> QED BY <1>1, <2>1 DEF Ingest, StartUpload, UploadFails
<1>3. ~Admin
  <2>1. ASSUME ResetForRetry
        PROVE  QuietRow(p)
    BY <2>1, RowFields DEF ResetForRetry, QuietRow, SameHistory, TypeOK
  <2>2. ASSUME NEW ids \in SUBSET Live, DeletePunches(ids)
        PROVE  QuietRow(p)
    BY <2>2, RemoveQuiet DEF DeletePunches, Live
  <2>3. ASSUME NEW d \in Devices, DeleteDevice(d)
        PROVE  QuietRow(p)
    BY <2>3, RemoveQuiet DEF DeleteDevice, Live
  <2> QED BY <1>1, <2>1, <2>2, <2>3 DEF Admin, AskRetry, SetWebhook, SetMaxAttempts
<1>4. ASSUME NEW q \in Punches, Elapse(q)
      PROVE  FALSE
  <2>1. SameHistory(p)
    BY <1>4 DEF Elapse, SameHistory, TypeOK, PunchRow
  <2> QED BY <2>1 DEF QuietRow
<1>5. PICK w \in Workers : WorkerStep(w) \/ WorkerFault(w)
  BY <1>2, <1>3, <1>4 DEF Next
<1>6. ~WorkerFault(w)
  BY <1>1 DEF WorkerFault, TickFails, ReadFails, RecordFails, Shutdown, Crash, Fault
<1>7. ASSUME NEW ids \in SUBSET Claimable, Claim(w, ids)
      PROVE  FALSE
  <2>1. SameHistory(p)
    BY <1>7, RowFields DEF Claim, SameHistory, TypeOK
  <2> QED BY <2>1 DEF QuietRow
<1>8. \A expired \in SUBSET Live : ~Sweep(w, expired)
  BY RemoveQuiet DEF Sweep, Live
<1>9. RecordAttempt(w)
  BY <1>1, <1>5, <1>6, <1>7, <1>8
  DEF WorkerStep, StartTick, ReadRecord, Dispatch, EndLoop, Stop, Restart
<1> QED BY <1>1, <1>9 DEF RecordAttempt, QuietRow, SameHistory, TypeOK, table

\* A late report never takes a delivery back: webhookDelivered only goes away
\* with its row.
THEOREM DeliveryNeverTakenBack == Spec => DeliveryIsFinal
<1> DEFINE Final == \A p \in Punches : stage[p] = "live" /\ row[p].delivered
                        => row'[p].delivered \/ stage'[p] = "gone"
<1>1. TypeOK /\ DeliveryInv /\ [Next]_vars => [Final]_vars
  <2> SUFFICES ASSUME TypeOK, DeliveryInv, Next,
                      NEW p \in Punches, stage[p] = "live", row[p].delivered
               PROVE  row'[p].delivered \/ stage'[p] = "gone"
    OBVIOUS
  <2>1. CASE QuietRow(p)
    BY <2>1 DEF QuietRow, SameHistory, Removed
  <2>2. ASSUME NEW w \in Workers, RecordAttempt(w), p = cur[w]
        PROVE  row'[p].delivered
    <3> DEFINE n == seen[w] + 1
    <3>1. /\ n \in Nat /\ limit[w] \in Nat /\ row[p] \in PunchRow
      <4>1. seen[w] \in Nat /\ limit[w] \in MaxChoices /\ row[p] \in PunchRow
        BY DEF TypeOK
      <4>2. limit[w] \in Nat
        BY <4>1, SettingsAssumption
      <4> QED BY <4>1, <4>2
    <3>2. row'[p] = IF answer[w] THEN DeliveredRow(row[p], n) ELSE FailedRow(row[p], n, limit[w])
      BY <2>2 DEF RecordAttempt, TypeOK
    <3> HIDE DEF n
    <3>3. DeliveredRow(row[p], n).delivered /\ FailedRow(row[p], n, limit[w]).delivered
      BY <3>1, RowFields
    <3> QED BY <3>2, <3>3
  <2> QED BY <2>1, <2>2, RowStep
<1> QED BY <1>1, DeliveryInvariant, PTL DEF Spec, DeliveryIsFinal

-----------------------------------------------------------------------------
(* PunchDelivery implements PunchLifecycle. *)

LEMMA LifeStutter ==
  ASSUME \A p \in Punches : /\ stage'[p] = stage[p] /\ log'[p] = log[p]
                            /\ row'[p].delivered = row[p].delivered
                            /\ row'[p].held = row[p].held
  PROVE  UNCHANGED Life!vars
<1>1. \A p \in Punches : Phase(p)' = Phase(p)
  BY DEF Phase
<1> QED BY <1>1 DEF Life!vars

\* An upload.
LEMMA LifeArrives ==
  ASSUME TypeOK, NEW d \in Devices, NEW batch,
         batch \subseteq {p \in Punches : stage[p] = "new" /\ DeviceOf[p] = d},
         InsertBatch(d, batch), d \in devs
  PROVE  Life!Next
<1> DEFINE fresh == IngestedRow(upload[d] = "active")
           to == IF fresh.held THEN "held" ELSE "open"
<1>1. ~fresh.delivered
  BY DEF IngestedRow, DefaultRow
<1>2. UNCHANGED log /\ stage' = [p \in Punches |-> IF p \in batch THEN "live" ELSE stage[p]]
      /\ row' = [p \in Punches |-> IF p \in batch THEN fresh ELSE row[p]]
  BY DEF InsertBatch
<1> HIDE DEF fresh
<1>3. \A p \in Punches : Phase(p)' = IF p \in batch THEN to ELSE Phase(p)
  BY <1>1, <1>2 DEF Phase
<1>4. \A p \in batch : Phase(p) = "absent"
  BY DEF Phase
<1>5. to \in {"open", "held"}
  OBVIOUS
<1> HIDE DEF to
<1>6. Life!Arrive(batch, to)
  BY <1>2, <1>3, <1>4 DEF Life!Arrive, Life!Move
<1> QED BY <1>5, <1>6 DEF Life!Next

\* A retry opens the held ones.
LEMMA LifeReleases ==
  ASSUME TypeOK, ResetForRetry
  PROVE  Life!Next
<1> DEFINE ids == {p \in asked \cap Live : row[p].held /\ ~row[p].delivered}
<1>1. UNCHANGED <<stage, log>>
  BY DEF ResetForRetry
<1>2. \A p \in Punches : /\ row'[p].delivered = row[p].delivered
                         /\ row'[p].held <=> row[p].held /\ p \notin asked \cap Live
  BY RowFields DEF ResetForRetry, TypeOK
<1>3. \A p \in Punches : Phase(p)' = IF p \in ids THEN "open" ELSE Phase(p)
  BY <1>1, <1>2 DEF Phase, Live
<1>4. \A p \in ids : p \in Punches /\ Phase(p) = "held"
  BY DEF Phase, Live
<1> HIDE DEF ids
<1>5. Life!Release(ids)
  BY <1>1, <1>3, <1>4 DEF Life!Release, Life!Move
<1>6. ids \in SUBSET Punches
  BY <1>4
<1> QED BY <1>5, <1>6 DEF Life!Next

\* A deletion, whoever does it.
LEMMA LifeForgets ==
  ASSUME TypeOK, NEW ids \in SUBSET Live, Remove(ids)
  PROVE  Life!Next
<1>1. \A p \in ids : p \in Punches /\ stage[p] = "live"
  BY DEF Live
<1>2. \A p \in Punches : /\ stage'[p] = IF p \in ids THEN "gone" ELSE stage[p]
                         /\ row'[p] = IF p \in ids THEN DefaultRow ELSE row[p]
                         /\ log'[p] = IF p \in ids THEN <<>> ELSE log[p]
  BY DEF Remove
<1>3. \A p \in Punches : Phase(p)' = IF p \in ids THEN "gone" ELSE Phase(p)
  BY <1>2 DEF Phase
<1>4. \A p \in ids : Phase(p) \in {"held", "open", "delivered"}
  BY <1>1 DEF Phase
<1>5. \A p \in Punches : Len(log'[p]) = IF p \in ids THEN 0 ELSE Len(log[p])
  BY <1>2
<1>6. Life!Forget(ids)
  BY <1>1, <1>3, <1>4, <1>5 DEF Life!Forget, Life!Move
<1>7. ids \in SUBSET Punches
  BY <1>1
<1> QED BY <1>6, <1>7 DEF Life!Next

\* A recorded attempt.
LEMMA LifeTries ==
  ASSUME TypeOK, DeliveryInv, NEW w \in Workers, RecordAttempt(w),
         NEW p, p = cur[w], stage[p] = "live"
  PROVE  Life!Next
<1> DEFINE n == seen[w] + 1
           entry == [attempt |-> n, ok |-> answer[w]]
           fresh == IF answer[w] THEN DeliveredRow(row[p], n) ELSE FailedRow(row[p], n, limit[w])
<1>1. p \in Punches /\ InHand(w, p) /\ row[p] \in PunchRow /\ log[p] \in Seq(Delivery)
  BY DEF RecordAttempt, DeliveryInv, HandsBusy, TypeOK, InHand
<1>2. ~row[p].held
  BY <1>1 DEF DeliveryInv, HeldIsUntouched, Live
<1>3. n \in Nat /\ limit[w] \in Nat
  <2>1. limit[w] \in MaxChoices /\ seen[w] \in Nat
    BY DEF TypeOK
  <2>2. limit[w] \in Nat
    BY <2>1, SettingsAssumption
  <2> QED BY <2>1, <2>2
<1>4. /\ fresh.delivered <=> row[p].delivered \/ answer[w]
      /\ ~fresh.held
  <2>1. CASE answer[w]
    BY <2>1, <1>1, <1>2, <1>3, RowFields
  <2>2. CASE ~answer[w]
    BY <2>2, <1>1, <1>2, <1>3, RowFields
  <2> QED BY <2>1, <2>2
<1>5. stage' = stage /\ row' = [row EXCEPT ![p] = fresh]
      /\ log' = [log EXCEPT ![p] = Append(log[p], entry)]
  BY DEF RecordAttempt
<1>6. PICK ok \in BOOLEAN : ok = answer[w]
  BY DEF TypeOK
<1> HIDE DEF n, entry, fresh
<1>7. /\ row'[p] = fresh /\ log'[p] = Append(log[p], entry)
      /\ \A q \in Punches \ {p} : row'[q] = row[q] /\ log'[q] = log[q]
  BY <1>1, <1>5 DEF TypeOK
<1>8. Phase(p) \in {"open", "delivered"}
  BY <1>2 DEF Phase
<1>9. \A q \in Punches : Phase(q)' = IF q \in {p}
                                     THEN IF answer[w] THEN "delivered" ELSE Phase(p)
                                     ELSE Phase(q)
  <2>1. Phase(p)' = IF answer[w] THEN "delivered" ELSE Phase(p)
    BY <1>2, <1>4, <1>5, <1>7 DEF Phase
  <2>2. \A q \in Punches \ {p} : Phase(q)' = Phase(q)
    BY <1>5, <1>7 DEF Phase
  <2> QED BY <2>1, <2>2
<1>10. \A q \in Punches : Len(log'[q]) = IF q = p THEN Len(log[q]) + 1 ELSE Len(log[q])
  BY <1>1, <1>7
<1>11. Life!Try(p, ok)
  BY <1>1, <1>6, <1>8, <1>9, <1>10 DEF Life!Try, Life!Move
<1> QED BY <1>1, <1>11 DEF Life!Next

LEMMA LifeStep ==
  ASSUME TypeOK, DeliveryInv, [Next]_vars
  PROVE  [Life!Next]_Life!vars
<1>1. CASE UNCHANGED table
  BY <1>1, LifeStutter DEF table
<1>2. CASE Ingest
  <2>1. ASSUME NEW d \in Devices,
               NEW batch \in SUBSET {p \in Punches : stage[p] = "new" /\ DeviceOf[p] = d},
               InsertBatch(d, batch)
        PROVE  [Life!Next]_Life!vars
    <3>1. CASE d \in devs
      BY <2>1, <3>1, LifeArrives
    <3>2. CASE d \notin devs
      BY <2>1, <3>2, <1>1 DEF InsertBatch, table
    <3> QED BY <3>1, <3>2
  <2> QED BY <1>1, <1>2, <2>1 DEF Ingest, StartUpload, UploadFails
<1>3. CASE Admin
  <2>1. ASSUME NEW ids \in SUBSET Live, DeletePunches(ids)
        PROVE  Life!Next
    BY <2>1, LifeForgets DEF DeletePunches
  <2>2. ASSUME NEW d \in Devices, DeleteDevice(d)
        PROVE  Life!Next
    BY <2>2, LifeForgets DEF DeleteDevice
  <2> QED BY <1>1, <1>3, <2>1, <2>2, LifeReleases DEF Admin, AskRetry, SetWebhook, SetMaxAttempts
<1>4. ASSUME NEW p \in Punches, Elapse(p)
      PROVE  UNCHANGED Life!vars
  BY <1>4, LifeStutter DEF Elapse, TypeOK, PunchRow
<1>5. ASSUME NEW w \in Workers, WorkerStep(w) \/ WorkerFault(w)
      PROVE  [Life!Next]_Life!vars
  <2>1. ASSUME NEW ids \in SUBSET Claimable, Claim(w, ids)
        PROVE  UNCHANGED Life!vars
    BY <2>1, LifeStutter, RowFields DEF Claim, TypeOK
  <2>2. CASE RecordAttempt(w)
    <3>1. CASE stage[cur[w]] = "live"
      BY <2>2, <3>1, LifeTries DEF TypeOK
    <3>2. CASE stage[cur[w]] # "live"
      BY <2>2, <3>2, <1>1 DEF RecordAttempt, table
    <3> QED BY <3>1, <3>2
  <2>3. ASSUME NEW expired \in SUBSET Live, Sweep(w, expired)
        PROVE  Life!Next
    BY <2>3, LifeForgets DEF Sweep
  <2>4. CASE WorkerFault(w)
    BY <1>1, <2>4 DEF WorkerFault, TickFails, ReadFails, RecordFails, Shutdown, Crash, Fault
  <2> QED BY <1>1, <1>5, <2>1, <2>2, <2>3, <2>4
          DEF WorkerStep, StartTick, ReadRecord, Dispatch, EndLoop, Stop, Restart
<1> QED BY <1>1, <1>2, <1>3, <1>4, <1>5 DEF Next, vars

\* However many workers, crashes and late reports there are, every punch goes
\* through the life PunchLifecycle describes.
THEOREM DeliveryIsLifecycle == Spec => IsLifecycle
<1>1. Init => Life!Init
  <2> SUFFICES ASSUME Init PROVE Life!Init
    OBVIOUS
  <2>1. \A p \in Punches : Phase(p) = "absent" /\ Len(log[p]) = 0
    BY DEF Init, Phase
  <2> QED BY <2>1 DEF Life!Init
<1>2. TypeOK /\ DeliveryInv /\ [Next]_vars => [Life!Next]_Life!vars
  BY LifeStep
<1> QED BY <1>1, <1>2, DeliveryInvariant, PTL DEF Spec, IsLifecycle, Life!Spec

-----------------------------------------------------------------------------
(* The count of attempts, with any number of workers: what each statement       *)
(* writes into a row, and what a worker has read of the record in its hands.    *)

Kept(p) == row'[p] = row[p] /\ log'[p] = log[p]
Cleared(p) == row'[p] = DefaultRow /\ log'[p] = <<>>
Attempted(p) == \E w \in Workers : RecordAttempt(w) /\ p = cur[w] /\ stage[p] = "live"
Rescheduled(p) ==
  /\ row'[p].next # "parked" /\ log'[p] = log[p]
  /\ row'[p].attempts \in {0, row[p].attempts}

LEMMA RowSlots ==
  /\ DefaultRow.next = "due"
  /\ \A r \in PunchRow : LeasedRow(r).next = "leased" /\ RetriedRow(r).next = "due"
  /\ \A r \in PunchRow, n \in Nat, max \in Nat :
       FailedRow(r, n, max).next = "parked" => n >= max
BY DEF PunchRow, DefaultRow, LeasedRow, RetriedRow, FailedRow

LEMMA RowWrites ==
  ASSUME TypeOK, [Next]_vars, NEW p \in Punches
  PROVE  Kept(p) \/ Cleared(p) \/ Rescheduled(p) \/ Attempted(p)
<1>1. CASE UNCHANGED table
  BY <1>1 DEF table, Kept
<1>2. ASSUME NEW ids, Remove(ids)
      PROVE  Kept(p) \/ Cleared(p)
  BY <1>2 DEF Remove, Kept, Cleared
<1>3. CASE Ingest
  <2>1. ASSUME NEW d, NEW batch, InsertBatch(d, batch)
        PROVE  Kept(p) \/ Rescheduled(p)
    <3> DEFINE fresh == IngestedRow(upload[d] = "active")
    <3>1. fresh.next = "due" /\ fresh.attempts = 0
      BY DEF IngestedRow, DefaultRow
    <3> HIDE DEF fresh
    <3>2. row' = row \/ row' = [q \in Punches |-> IF q \in batch THEN fresh ELSE row[q]]
      BY <2>1 DEF InsertBatch, fresh
    <3>3. log' = log
      BY <2>1 DEF InsertBatch
    <3> QED BY <3>1, <3>2, <3>3 DEF Kept, Rescheduled
  <2> QED BY <1>1, <1>3, <2>1 DEF Ingest, StartUpload, UploadFails
<1>4. CASE Admin
  <2>1. ASSUME ResetForRetry
        PROVE  Kept(p) \/ Rescheduled(p)
    BY <2>1, RowSlots, RowFields DEF ResetForRetry, TypeOK, Kept, Rescheduled
  <2> QED BY <1>1, <1>2, <1>4, <2>1
          DEF Admin, AskRetry, DeletePunches, DeleteDevice, SetWebhook, SetMaxAttempts
<1>5. ASSUME NEW q \in Punches, Elapse(q)
      PROVE  Kept(p) \/ Rescheduled(p)
  BY <1>5 DEF Elapse, TypeOK, PunchRow, Kept, Rescheduled
<1>6. ASSUME NEW w \in Workers, NEW ids \in SUBSET Claimable, Claim(w, ids)
      PROVE  Kept(p) \/ Rescheduled(p)
  BY <1>6, RowSlots, RowFields DEF Claim, TypeOK, Kept, Rescheduled
<1>7. ASSUME NEW w \in Workers, RecordAttempt(w)
      PROVE  Kept(p) \/ Attempted(p)
  BY <1>7 DEF RecordAttempt, TypeOK, Kept, Attempted
<1>8. ASSUME NEW w \in Workers, WorkerStep(w) \/ WorkerFault(w)
      PROVE  Kept(p) \/ Cleared(p) \/ Rescheduled(p) \/ Attempted(p)
  BY <1>1, <1>2, <1>6, <1>7, <1>8
  DEF WorkerStep, StartTick, ReadRecord, Dispatch, EndLoop, Sweep, Stop, Restart, WorkerFault,
      TickFails, ReadFails, RecordFails, Shutdown, Crash, Fault
<1> QED BY <1>1, <1>3, <1>4, <1>5, <1>8 DEF Next, vars

\* What a worker remembers of its record is what it has read of it.
LEMMA SeenStep ==
  ASSUME TypeOK, [Next]_vars, NEW w \in Workers
  PROVE  \/ cur'[w] = NoPunch
         \/ cur'[w] = cur[w] /\ seen'[w] = seen[w]
         \/ /\ cur'[w] \in Punches /\ seen'[w] = row[cur'[w]].attempts
            /\ log' = log
<1>1. CASE UNCHANGED locals
  BY <1>1 DEF locals
<1>2. ASSUME NEW v \in Workers, WorkerStep(v)
      PROVE  \/ cur'[w] = NoPunch
             \/ cur'[w] = cur[w] /\ seen'[w] = seen[w]
             \/ /\ cur'[w] \in Punches /\ seen'[w] = row[cur'[w]].attempts
                /\ log' = log
  <2>1. ASSUME NEW p \in Punches, ReadRecord(v, p)
        PROVE  \/ cur'[w] = cur[w] /\ seen'[w] = seen[w]
               \/ /\ cur'[w] \in Punches /\ seen'[w] = row[cur'[w]].attempts
                  /\ log' = log
    BY <2>1 DEF ReadRecord, TypeOK, table
  <2> QED BY <1>2, <2>1 DEF WorkerStep, StartTick, Claim, Dispatch, RecordAttempt, PutDown,
                            EndLoop, Sweep, Stop, Restart, TypeOK
<1>3. ASSUME NEW v \in Workers, WorkerFault(v)
      PROVE  cur'[w] = NoPunch \/ (cur'[w] = cur[w] /\ seen'[w] = seen[w])
  BY <1>3 DEF WorkerFault, TickFails, ReadFails, RecordFails, PutDown, Shutdown, Crash, TypeOK
<1>4. CASE Ingest \/ Admin \/ \E p \in Punches : Elapse(p)
  BY <1>1, <1>4 DEF Ingest, StartUpload, UploadFails, InsertBatch, Elapse, Admin, AskRetry,
     ResetForRetry, DeletePunches, DeleteDevice, SetWebhook, SetMaxAttempts
<1> QED BY <1>1, <1>2, <1>3, <1>4 DEF Next, vars

\* The record of an attempt: one entry more, numbered from what was read.
LEMMA AttemptCounted ==
  ASSUME TypeOK, DeliveryInv, CountInv, NEW p \in Punches, Attempted(p)
  PROVE  /\ Len(log'[p]) = Len(log[p]) + 1
         /\ row'[p].attempts <= Len(log'[p])
         /\ row'[p].next = "parked" =>
              row'[p].delivered \/ \E m \in MaxChoices : m <= row'[p].attempts
<1>1. PICK w \in Workers : RecordAttempt(w) /\ p = cur[w] /\ stage[p] = "live"
  BY DEF Attempted
<1> DEFINE n == seen[w] + 1
           entry == [attempt |-> n, ok |-> answer[w]]
<1>2. /\ n \in Nat /\ row[p] \in PunchRow /\ log[p] \in Seq(Delivery)
      /\ limit[w] \in MaxChoices
  BY DEF TypeOK
<1>3. limit[w] \in Nat
  BY <1>2, SettingsAssumption
<1>4. seen[w] <= Len(log[p]) /\ seen[w] \in Nat
  BY <1>1 DEF CountInv, Live, TypeOK
<1>5. log'[p] = Append(log[p], entry)
  BY <1>1 DEF RecordAttempt, TypeOK
<1>6. \/ row'[p] = DeliveredRow(row[p], n)
      \/ row'[p] = FailedRow(row[p], n, limit[w])
  BY <1>1 DEF RecordAttempt, TypeOK
<1>7. n <= Len(log[p]) + 1
  BY <1>4
<1> HIDE DEF n, entry
<1>8. Len(log'[p]) = Len(log[p]) + 1
  BY <1>2, <1>5
<1>9. CASE row'[p] = DeliveredRow(row[p], n)
  BY <1>2, <1>7, <1>8, <1>9, RowFields
<1>10. CASE row'[p] = FailedRow(row[p], n, limit[w])
  <2>1. row'[p].attempts = n
    BY <1>2, <1>3, <1>10, RowFields
  <2>2. row'[p].next = "parked" => limit[w] <= n
    BY <1>2, <1>3, <1>10, RowSlots
  <2> QED BY <1>2, <1>7, <1>8, <2>1, <2>2
<1> QED BY <1>6, <1>9, <1>10, <1>8

LEMMA InitCount == Init => CountInv
BY RowSlots, RowFields, NoPunchAssumption DEF Init, CountInv, ParkedIsExhausted, Live

LEMMA CountStep ==
  ASSUME TypeOK, TypeOK', DeliveryInv, CountInv, [Next]_vars
  PROVE  CountInv'
<1>1. \A p \in Punches :
        /\ row[p] \in PunchRow /\ row[p].attempts \in Nat
        /\ Len(log[p]) \in Nat /\ row[p].attempts <= Len(log[p])
  BY DEF TypeOK, PunchRow, CountInv
<1>2. ASSUME NEW p \in Punches
      PROVE  /\ row'[p].next = "parked" =>
                  row'[p].delivered \/ \E m \in MaxChoices : m <= row'[p].attempts
             /\ row'[p].attempts <= Len(log'[p])
  <2>1. CASE Kept(p)
    BY <1>1, <2>1 DEF Kept, CountInv, ParkedIsExhausted
  <2>2. CASE Cleared(p)
    BY <2>2, RowSlots, RowFields DEF Cleared
  <2>3. CASE Rescheduled(p)
    BY <1>1, <2>3 DEF Rescheduled
  <2> QED BY <2>1, <2>2, <2>3, RowWrites, AttemptCounted
<1>3. ASSUME NEW w \in Workers, cur'[w] \in Live'
      PROVE  seen'[w] <= Len(log'[cur'[w]])
  <2> DEFINE p == cur'[w]
  <2>1. p \in Punches /\ p # NoPunch /\ stage'[p] = "live"
    BY <1>3, NoPunchAssumption DEF Live
  <2>2. CASE seen'[w] = row[p].attempts /\ log' = log
    BY <1>1, <2>1, <2>2
  <2>3. CASE p = cur[w] /\ seen'[w] = seen[w]
    <3>1. stage[p] # "new"
      BY <2>1, <2>3 DEF DeliveryInv, HandsHoldRows, InHand
    <3>2. stage[p] = "live" /\ Len(log'[p]) >= Len(log[p])
      <4>1. CASE UNCHANGED vars
        BY <4>1, <1>1, <2>1 DEF vars, table
      <4>2. CASE QuietRow(p)
        BY <4>2, <1>1, <2>1 DEF QuietRow, SameHistory, Removed
      <4>3. CASE Attempted(p)
        <5>1. Len(log'[p]) = Len(log[p]) + 1
          BY <4>3, <2>1, AttemptCounted
        <5> QED BY <5>1, <4>3, <1>1, <2>1 DEF Attempted
      <4> QED BY <2>1, <3>1, <4>1, <4>2, <4>3, RowStep DEF Attempted
    <3>3. seen[w] <= Len(log[p]) /\ seen[w] \in Nat
      BY <2>1, <2>3, <3>2 DEF CountInv, Live, TypeOK
    <3>4. Len(log[p]) \in Nat /\ Len(log'[p]) \in Nat
      BY <2>1 DEF TypeOK
    <3> QED BY <2>3, <3>2, <3>3, <3>4
  <2> QED BY <2>1, <2>2, <2>3, SeenStep
<1> QED BY <1>2, <1>3 DEF CountInv, ParkedIsExhausted

LEMMA CountInvariant == Spec => []CountInv
<1>1. TypeOK /\ TypeOK' /\ DeliveryInv /\ CountInv /\ [Next]_vars => CountInv'
  BY CountStep
<1> QED BY <1>1, InitCount, TypeCorrect, DeliveryInvariant, PTL DEF Spec

\* With any number of workers, which may overwrite each other's totals: no
\* record counts an attempt its log lacks, and an undelivered one is parked only
\* after as many attempts as some limit asks.
THEOREM GivenUpInTime == Spec => []NeverGivenUpEarly
<1>1. CountInv => NeverGivenUpEarly
  BY DEF CountInv, ParkedIsExhausted, NeverGivenUpEarly, Live
<1> QED BY <1>1, CountInvariant, PTL

\* As long as nobody changes webhookMaxAttempts, and however many workers there
\* are, a record with the badge "pending" is never parked.
THEOREM PendingStaysScheduled ==
  ASSUME NEW m, MaxChoices = {m}
  PROVE  Spec => []PendingIsScheduled
<1>1. TypeOK /\ CountInv => PendingIsScheduled
  <2> SUFFICES ASSUME TypeOK, CountInv, NEW p \in Live, row[p].next = "parked"
               PROVE  ComputeStatus(row[p], hook[DeviceOf[p]], maxAttempts) # "pending"
    BY DEF PendingIsScheduled
  <2>1. maxAttempts = m /\ (row[p].delivered \/ m <= row[p].attempts)
    BY DEF TypeOK, CountInv, ParkedIsExhausted, Live
  <2>2. m \in Nat /\ row[p].attempts \in Nat
    BY SettingsAssumption DEF TypeOK, PunchRow, Live
  <2> QED BY <2>1, <2>2 DEF ComputeStatus
<1> QED BY <1>1, CountInvariant, TypeCorrect, PTL

-----------------------------------------------------------------------------
(* What holds when one worker process runs, which is how docker-compose.yml     *)
(* deploys it: the attempt count is the number of delivery rows, it stays within  *)
(* the limit plus the manual retries, and nothing is sent after a recorded        *)
(* success.  Crashes, restarts, shutdowns, database errors and every              *)
(* administrator action are allowed; with a second worker none of the three holds *)
(* (see the runs).                                                                *)

OneWorker == \E w : Workers = {w}

\* A row whose history and retries stay and that is not newly parked, or that
\* is deleted.
CalmRow(p) ==
  \/ /\ SameHistory(p)
     /\ retried'[p] >= retried[p]
     /\ row'[p].next = "parked" => row[p].next = "parked" \/ row[p].delivered
     /\ row[p].next = "parked" /\ row'[p].next # "parked" => retried'[p] > retried[p]
  \/ Removed(p)

\* The worker takes claimable rows only, and keeps what it read of them.
CalmHands ==
  /\ \A w \in Workers, p \in Punches : InHand(w, p)' => InHand(w, p) \/ p \in Claimable
  /\ \A w \in Workers : cur'[w] \notin queue'[w]
  /\ \A w \in Workers : \/ cur'[w] = NoPunch
                        \/ cur'[w] = cur[w] /\ seen'[w] = seen[w]
                        \/ cur'[w] \in Live /\ seen'[w] = row[cur'[w]].attempts

LEMMA LeftOver ==
  ASSUME TypeOK, NEW p \in Punches, SameHistory(p), retried'[p] >= retried[p],
         retried'[p] \in Nat, AttemptLeft(p)
  PROVE  AttemptLeft(p)'
<1>1. PICK m \in MaxChoices : row[p].attempts < m + retried[p]
  BY DEF AttemptLeft
<1>2. m \in Nat /\ retried[p] \in Nat /\ row[p].attempts \in Nat
  BY SettingsAssumption DEF TypeOK, PunchRow
<1>3. row'[p].attempts < m + retried'[p]
  BY <1>1, <1>2 DEF SameHistory
<1> QED BY <1>3 DEF AttemptLeft

LEMMA CalmStep ==
  ASSUME TypeOK, TypeOK', SingleWorkerInv, \A p \in Punches : CalmRow(p), CalmHands
  PROVE  SingleWorkerInv'
<1>1. ASSUME NEW p \in Live'
      PROVE  /\ p \in Live /\ SameHistory(p) /\ retried'[p] >= retried[p]
             /\ row'[p].next = "parked" => row[p].next = "parked" \/ row[p].delivered
             /\ row[p].next = "parked" /\ row'[p].next # "parked" => retried'[p] > retried[p]
  BY <1>1 DEF CalmRow, Removed, SameHistory, Live
<1>2. ASSUME NEW p \in Live'
      PROVE  /\ p \in Punches
             /\ row[p].attempts \in Nat /\ retried[p] \in Nat /\ retried'[p] \in Nat
             /\ row'[p].delivered \in BOOLEAN
             /\ row[p].attempts = Len(log[p])
  BY <1>1 DEF TypeOK, PunchRow, Live, SingleWorkerInv, AttemptsCountLog
<1>3. AttemptsCountLog'
  BY <1>1 DEF SingleWorkerInv, AttemptsCountLog, SameHistory
<1>4. AttemptBudget'
  <2> SUFFICES ASSUME NEW p \in Live'
               PROVE  \E m \in MaxChoices : Len(log'[p]) <= m + retried'[p]
    BY DEF AttemptBudget
  <2>1. p \in Live /\ log'[p] = log[p] /\ retried'[p] >= retried[p]
    BY <1>1 DEF SameHistory
  <2>2. PICK m \in MaxChoices : Len(log[p]) <= m + retried[p]
    BY <2>1 DEF SingleWorkerInv, AttemptBudget
  <2>3. m \in Nat /\ Len(log[p]) \in Nat
    BY <1>2, SettingsAssumption
  <2> QED BY <2>1, <2>2, <2>3, <1>2
<1>5. SuccessIsLast'
  BY <1>1 DEF SingleWorkerInv, SuccessIsLast, SameHistory
<1>6. \A w \in Workers : cur'[w] \in Live' => seen'[w] = row'[cur'[w]].attempts
  BY <1>1, NoPunchAssumption DEF CalmHands, SingleWorkerInv, SameHistory, Live
<1>7. ASSUME NEW p \in Live, row[p].delivered \/ row[p].next = "parked" \/ AttemptLeft(p),
             p \in Live'
      PROVE  row'[p].delivered \/ row'[p].next = "parked" \/ AttemptLeft(p)'
  <2>1. CASE AttemptLeft(p)
    BY <2>1, <1>1, <1>2, <1>7, LeftOver
  <2>2. CASE row[p].delivered
    BY <2>2, <1>1, <1>7 DEF SameHistory
  <2>3. CASE row[p].next = "parked" /\ row'[p].next # "parked"
    <3>1. retried'[p] > retried[p] /\ row'[p].attempts = Len(log[p])
      BY <2>3, <1>1, <1>2, <1>7 DEF SameHistory
    <3>2. PICK m \in MaxChoices : Len(log[p]) <= m + retried[p]
      BY DEF SingleWorkerInv, AttemptBudget
    <3>3. m \in Nat /\ Len(log[p]) \in Nat
      BY <1>2, <1>7, SettingsAssumption
    <3>4. row'[p].attempts < m + retried'[p]
      BY <3>1, <3>2, <3>3, <1>2, <1>7
    <3> QED BY <3>4 DEF AttemptLeft
  <2> QED BY <1>7, <2>1, <2>2, <2>3
<1>8. \A p \in Live' : row'[p].delivered \/ row'[p].next = "parked" \/ AttemptLeft(p)'
  BY <1>1, <1>7 DEF SingleWorkerInv
<1>9. ASSUME NEW w \in Workers, NEW p \in Live', InHand(w, p)'
      PROVE  ~row'[p].delivered /\ AttemptLeft(p)'
  <2>1. p \in Live /\ SameHistory(p) /\ retried'[p] >= retried[p]
    BY <1>1
  <2>2. ~row[p].delivered /\ AttemptLeft(p)
    <3>1. CASE InHand(w, p)
      BY <3>1, <2>1 DEF SingleWorkerInv
    <3>2. CASE p \in Claimable
      BY <3>2, <2>1 DEF SingleWorkerInv, Claimable
    <3> QED BY <3>1, <3>2, <1>2, <1>9 DEF CalmHands
  <2> QED BY <2>1, <2>2, <1>2, LeftOver DEF SameHistory
<1> QED BY <1>3, <1>4, <1>5, <1>6, <1>8, <1>9 DEF SingleWorkerInv, CalmHands

LEMMA InitSingle == Init => SingleWorkerInv
BY NoPunchAssumption
DEF Init, SingleWorkerInv, AttemptsCountLog, AttemptBudget, SuccessIsLast, InHand, Live

LEMMA RemoveCalm ==
  ASSUME TypeOK, NEW ids \in SUBSET Punches, Remove(ids)
  PROVE  \A p \in Punches : CalmRow(p)
BY DEF Remove, TypeOK, CalmRow, SameHistory, Removed

\* A step that changes neither a row nor what a worker holds.
LEMMA IdleStep ==
  ASSUME TypeOK, TypeOK', SingleWorkerInv, UNCHANGED table, retried' = retried, CalmHands
  PROVE  SingleWorkerInv'
<1>1. \A p \in Punches : CalmRow(p)
  BY DEF CalmRow, SameHistory, table, TypeOK
<1> QED BY <1>1, CalmStep

LEMMA SameHands ==
  ASSUME SingleWorkerInv, UNCHANGED locals
  PROVE  CalmHands
BY DEF CalmHands, InHand, locals, SingleWorkerInv

LEMMA IngestSingle ==
  ASSUME TypeOK, TypeOK', DeliveryInv, SingleWorkerInv, Ingest
  PROVE  SingleWorkerInv'
<1> USE DEF table, config, ghosts
<1> PICK d \in Devices :
           \/ StartUpload(d)
           \/ UploadFails(d)
           \/ \E batch \in SUBSET {p \in Punches : stage[p] = "new" /\ DeviceOf[p] = d} :
                InsertBatch(d, batch)
  BY DEF Ingest
<1>1. UNCHANGED locals /\ retried' = retried /\ CalmHands
  BY SameHands DEF StartUpload, UploadFails, InsertBatch
<1>2. CASE UNCHANGED table
  BY <1>1, <1>2, IdleStep
<1>3. ASSUME NEW batch \in SUBSET {p \in Punches : stage[p] = "new" /\ DeviceOf[p] = d},
             InsertBatch(d, batch), d \in devs
      PROVE  SingleWorkerInv'
  <2> DEFINE fresh == IngestedRow(upload[d] = "active")
  <2>1. fresh.attempts = 0 /\ ~fresh.delivered
    BY DEF IngestedRow, DefaultRow
  <2> HIDE DEF fresh
  <2>2. /\ log' = log
        /\ \A p \in Punches : IF p \in batch
                              THEN stage[p] = "new" /\ stage'[p] = "live" /\ row'[p] = fresh
                              ELSE stage'[p] = stage[p] /\ row'[p] = row[p]
    BY <1>3 DEF InsertBatch, fresh, TypeOK
  <2>3. \A p \in batch : log'[p] = <<>> /\ \A w \in Workers : ~InHand(w, p)
    BY <2>2 DEF DeliveryInv, LogBelongsToRow, HandsHoldRows
  <2>4. \A p \in Live' : p \in batch \/ (p \in Live /\ row'[p] = row[p])
    BY <2>2 DEF Live
  <2>5. \A w \in Workers, p \in Punches : InHand(w, p)' <=> InHand(w, p)
    BY <1>1 DEF InHand, locals
  <2>6. \A p \in batch : AttemptLeft(p)'
    <3> SUFFICES ASSUME NEW p \in batch
                 PROVE  \E m \in MaxChoices : row'[p].attempts < m + retried'[p]
      BY DEF AttemptLeft
    <3>1. PICK m \in MaxChoices : m \in Nat \ {0}
      BY SettingsAssumption
    <3>2. row'[p].attempts = 0 /\ retried'[p] \in Nat
      BY <2>1, <2>2 DEF TypeOK
    <3> QED BY <3>1, <3>2
  <2>7. \A p \in Punches : AttemptLeft(p) /\ row'[p] = row[p] => AttemptLeft(p)'
    BY <1>1 DEF AttemptLeft
  <2>8. AttemptsCountLog'
    BY <2>1, <2>2, <2>3, <2>4 DEF AttemptsCountLog, SingleWorkerInv
  <2>9. AttemptBudget'
    <3> SUFFICES ASSUME NEW p \in Live'
                 PROVE  \E m \in MaxChoices : Len(log'[p]) <= m + retried'[p]
      BY DEF AttemptBudget
    <3>1. CASE p \in batch
      <4>1. PICK m \in MaxChoices : m \in Nat \ {0}
        BY SettingsAssumption
      <4>2. Len(log'[p]) = 0 /\ retried'[p] \in Nat
        BY <3>1, <2>3 DEF TypeOK
      <4> QED BY <4>1, <4>2
    <3>2. CASE p \in Live
      BY <3>2, <2>2, <1>1 DEF SingleWorkerInv, AttemptBudget
    <3> QED BY <2>4, <3>1, <3>2
  <2>10. SuccessIsLast'
    BY <2>2, <2>3, <2>4 DEF SuccessIsLast, SingleWorkerInv
  <2>11. \A w \in Workers : cur'[w] \notin queue'[w]
    BY <1>1 DEF SingleWorkerInv, locals
  <2>12. \A w \in Workers : cur'[w] \in Live' => seen'[w] = row'[cur'[w]].attempts
    BY <1>1, <2>3, <2>4 DEF SingleWorkerInv, locals, InHand
  <2>13. \A w \in Workers, p \in Live' : InHand(w, p)' => ~row'[p].delivered /\ AttemptLeft(p)'
    BY <2>3, <2>4, <2>5, <2>7 DEF SingleWorkerInv, Live
  <2>14. \A p \in Live' : row'[p].delivered \/ row'[p].next = "parked" \/ AttemptLeft(p)'
    BY <2>4, <2>6, <2>7 DEF SingleWorkerInv, Live
  <2> QED BY <2>8, <2>9, <2>10, <2>11, <2>12, <2>13, <2>14 DEF SingleWorkerInv
<1> QED BY <1>2, <1>3 DEF StartUpload, UploadFails, InsertBatch

LEMMA ElapseSingle ==
  ASSUME TypeOK, TypeOK', SingleWorkerInv, NEW p \in Punches, Elapse(p)
  PROVE  SingleWorkerInv'
<1>1. \A q \in Punches : CalmRow(q)
  BY DEF Elapse, CalmRow, SameHistory, TypeOK, PunchRow, ghosts
<1>2. CalmHands
  BY SameHands DEF Elapse
<1> QED BY <1>1, <1>2, CalmStep

LEMMA AdminSingle ==
  ASSUME TypeOK, TypeOK', SingleWorkerInv, Admin
  PROVE  SingleWorkerInv'
<1>1. CalmHands
  BY SameHands DEF Admin, AskRetry, ResetForRetry, DeletePunches, DeleteDevice, SetWebhook, SetMaxAttempts
<1>2. ASSUME ResetForRetry
      PROVE  \A p \in Punches : CalmRow(p)
  <2> SUFFICES ASSUME NEW p \in Punches
               PROVE  CalmRow(p)
    OBVIOUS
  <2>1. row[p] \in PunchRow /\ retried[p] \in Nat
    BY DEF TypeOK
  <2>2. /\ stage' = stage /\ log' = log
        /\ row'[p] = IF p \in asked \cap Live THEN RetriedRow(row[p]) ELSE row[p]
        /\ retried'[p] = IF p \in asked \cap Live THEN retried[p] + 1 ELSE retried[p]
    BY <1>2 DEF ResetForRetry
  <2>3. CASE p \in asked \cap Live
    <3>1. retried'[p] > retried[p]
      BY <2>1, <2>2, <2>3
    <3> QED BY <2>1, <2>2, <2>3, <3>1, RowFields, RowSlots DEF CalmRow, SameHistory
  <2>4. CASE p \notin asked \cap Live
    BY <2>1, <2>2, <2>4 DEF CalmRow, SameHistory
  <2> QED BY <2>3, <2>4
<1>3. ASSUME NEW ids \in SUBSET Live, DeletePunches(ids)
      PROVE  \A p \in Punches : CalmRow(p)
  BY <1>3, RemoveCalm DEF DeletePunches, Live
<1>4. ASSUME NEW d \in Devices, DeleteDevice(d)
      PROVE  \A p \in Punches : CalmRow(p)
  BY <1>4, RemoveCalm DEF DeleteDevice, Live
<1>5. ASSUME UNCHANGED table, retried' = retried
      PROVE  SingleWorkerInv'
  BY <1>1, <1>5, IdleStep
<1> QED BY <1>1, <1>2, <1>3, <1>4, <1>5, CalmStep DEF Admin, AskRetry, SetWebhook, SetMaxAttempts, ghosts

LEMMA RecordSingle ==
  ASSUME TypeOK, TypeOK', DeliveryInv, SingleWorkerInv,
         NEW w \in Workers, Workers = {w}, RecordAttempt(w), stage[cur[w]] = "live"
  PROVE  SingleWorkerInv'
<1> DEFINE p == cur[w]
           n == seen[w] + 1
           entry == [attempt |-> n, ok |-> answer[w]]
           fresh == IF answer[w] THEN DeliveredRow(row[p], n) ELSE FailedRow(row[p], n, limit[w])
<1>1. p \in Live /\ p \in Punches /\ InHand(w, p)
  BY DEF RecordAttempt, DeliveryInv, HandsBusy, TypeOK, InHand, Live
<1>2. /\ row[p] \in PunchRow /\ log[p] \in Seq(Delivery) /\ row[p].attempts \in Nat
      /\ limit[w] \in MaxChoices /\ answer[w] \in BOOLEAN
      /\ retried[p] \in Nat
  BY <1>1 DEF TypeOK, PunchRow
<1>3. limit[w] \in Nat /\ n \in Nat /\ n = row[p].attempts + 1 /\ n = Len(log[p]) + 1
  <2>1. limit[w] \in Nat
    BY <1>2, SettingsAssumption
  <2>2. seen[w] = row[p].attempts /\ row[p].attempts = Len(log[p])
    BY <1>1 DEF SingleWorkerInv, AttemptsCountLog
  <2> QED BY <2>1, <2>2, <1>2
<1>4. ~row[p].delivered /\ AttemptLeft(p)
  BY <1>1 DEF SingleWorkerInv
<1>5. /\ stage' = stage /\ retried' = retried
      /\ row' = [row EXCEPT ![p] = fresh]
      /\ log' = [log EXCEPT ![p] = Append(log[p], entry)]
      /\ queue' = queue /\ cur' = [cur EXCEPT ![w] = NoPunch]
  BY DEF RecordAttempt, PutDown, ghosts
<1>6. entry.attempt = n /\ entry.ok = answer[w]
  OBVIOUS
<1>7. /\ fresh.attempts = n
      /\ fresh.delivered \/ fresh.next = "parked" \/ n < limit[w]
  <2>1. CASE answer[w]
    BY <2>1, <1>2, <1>3, RowFields
  <2>2. CASE ~answer[w]
    <3>1. FailedRow(row[p], n, limit[w]).attempts = n
      BY <1>2, <1>3, RowFields
    <3>2. FailedRow(row[p], n, limit[w]).next = IF n >= limit[w] THEN "parked" ELSE "backoff"
      BY <1>2 DEF FailedRow, PunchRow
    <3> QED BY <2>2, <3>1, <3>2, <1>3
  <2> QED BY <2>1, <2>2, <1>2
<1>8. \A v \in Workers, q \in Punches : InHand(v, q)' => InHand(v, q) /\ q # p
  BY <1>5, NoPunchAssumption DEF InHand, TypeOK, SingleWorkerInv
<1> HIDE DEF n, entry, fresh
<1>9. /\ row'[p] = fresh /\ log'[p] = Append(log[p], entry)
      /\ \A q \in Punches \ {p} : row'[q] = row[q] /\ log'[q] = log[q]
      /\ Live' = Live
  BY <1>1, <1>5 DEF TypeOK, Live
<1>10. /\ Len(log'[p]) = n /\ DOMAIN log'[p] = 1 .. n /\ log'[p][n] = entry
       /\ DOMAIN log[p] = 1 .. n - 1
       /\ \A i \in 1 .. n - 1 : log'[p][i] = log[p][i]
  BY <1>2, <1>3, <1>9
<1>11. \A q \in Live \ {p} : AttemptLeft(q) => AttemptLeft(q)'
  BY <1>5, <1>9 DEF AttemptLeft, Live
<1> HIDE DEF p
<1>12. AttemptsCountLog'
  <2> SUFFICES ASSUME NEW q \in Live
               PROVE  /\ row'[q].attempts = Len(log'[q])
                      /\ \A i \in DOMAIN log'[q] : log'[q][i].attempt = i
    BY <1>9 DEF AttemptsCountLog
  <2>1. CASE q = p
    <3>1. \A i \in 1 .. n - 1 : log'[p][i].attempt = i
      BY <1>1, <1>10 DEF SingleWorkerInv, AttemptsCountLog
    <3>2. \A i \in 1 .. n : i = n \/ i \in 1 .. n - 1
      BY <1>3
    <3> QED BY <2>1, <3>1, <3>2, <1>6, <1>7, <1>9, <1>10
  <2>2. CASE q # p
    BY <2>2, <1>9 DEF SingleWorkerInv, AttemptsCountLog, Live
  <2> QED BY <2>1, <2>2
<1>13. AttemptBudget'
  <2> SUFFICES ASSUME NEW q \in Live
               PROVE  \E m \in MaxChoices : Len(log'[q]) <= m + retried[q]
    BY <1>5, <1>9 DEF AttemptBudget
  <2>1. CASE q = p
    <3>1. PICK m \in MaxChoices : row[p].attempts < m + retried[p]
      BY <1>4 DEF AttemptLeft
    <3>2. m \in Nat
      BY SettingsAssumption
    <3>3. n <= m + retried[p]
      BY <3>1, <3>2, <1>2, <1>3
    <3> QED BY <2>1, <3>3, <1>10
  <2>2. CASE q # p
    BY <2>2, <1>9 DEF SingleWorkerInv, AttemptBudget, Live
  <2> QED BY <2>1, <2>2
<1>14. SuccessIsLast'
  <2> SUFFICES ASSUME NEW q \in Live, NEW i \in DOMAIN log'[q], log'[q][i].ok
               PROVE  i = Len(log'[q])
    BY <1>9 DEF SuccessIsLast
  <2>1. CASE q = p
    <3>1. \A j \in 1 .. n - 1 : ~log[p][j].ok
      BY <1>1, <1>4, <1>10 DEF DeliveryInv, DeliveredMatchesLog
    <3>2. i = n \/ i \in 1 .. n - 1
      BY <2>1, <1>3, <1>10
    <3> QED BY <2>1, <3>1, <3>2, <1>10
  <2>2. CASE q # p
    BY <2>2, <1>9 DEF SingleWorkerInv, SuccessIsLast, Live
  <2> QED BY <2>1, <2>2
<1>15. \A v \in Workers : cur'[v] = NoPunch /\ NoPunch \notin queue'[v] /\ NoPunch \notin Live'
  BY <1>5, NoPunchAssumption DEF TypeOK, Live
<1>16. \A v \in Workers, q \in Live' : InHand(v, q)' => ~row'[q].delivered /\ AttemptLeft(q)'
  BY <1>8, <1>9, <1>11 DEF SingleWorkerInv, Live
<1>17. \A q \in Live' : row'[q].delivered \/ row'[q].next = "parked" \/ AttemptLeft(q)'
  <2> SUFFICES ASSUME NEW q \in Live
               PROVE  row'[q].delivered \/ row'[q].next = "parked" \/ AttemptLeft(q)'
    BY <1>9
  <2>1. CASE q = p
    <3>1. n < limit[w] => AttemptLeft(q)'
      <4>1. retried'[q] = retried[q] /\ row'[q].attempts = n
        BY <2>1, <1>5, <1>7, <1>9
      <4>2. retried[q] \in Nat /\ limit[w] \in Nat /\ n \in Nat
        BY <2>1, <1>2, <1>3
      <4>3. n < limit[w] => n < limit[w] + retried[q]
        BY <4>2
      <4>4. limit[w] \in MaxChoices
        BY <1>2
      <4> QED BY <4>1, <4>3, <4>4 DEF AttemptLeft
    <3> QED BY <2>1, <3>1, <1>7, <1>9
  <2>2. CASE q # p
    BY <2>2, <1>9, <1>11 DEF SingleWorkerInv, Live
  <2> QED BY <2>1, <2>2
<1> QED BY <1>12, <1>13, <1>14, <1>15, <1>16, <1>17 DEF SingleWorkerInv

LEMMA WorkerSingle ==
  ASSUME TypeOK, TypeOK', DeliveryInv, SingleWorkerInv,
         NEW w \in Workers, Workers = {w}, WorkerStep(w) \/ WorkerFault(w)
  PROVE  SingleWorkerInv'
<1> USE NoPunchAssumption DEF InHand
<1>1. CASE StartTick(w)
  BY <1>1, IdleStep DEF StartTick, CalmHands, SingleWorkerInv, ghosts
<1>2. ASSUME NEW ids \in SUBSET Claimable, Claim(w, ids)
      PROVE  SingleWorkerInv'
  <2>1. \A p \in Punches : CalmRow(p)
    <3> SUFFICES ASSUME NEW p \in Punches
                 PROVE  CalmRow(p)
      OBVIOUS
    <3>1. /\ stage' = stage /\ log' = log /\ retried' = retried
          /\ row'[p] = IF p \in ids THEN LeasedRow(row[p]) ELSE row[p]
      BY <1>2 DEF Claim, ghosts
    <3>2. row[p] \in PunchRow /\ retried[p] \in Nat
      BY DEF TypeOK
    <3>3. p \in ids => row[p].next = "due"
      BY DEF Claimable
    <3> QED BY <3>1, <3>2, <3>3, RowFields, RowSlots DEF CalmRow, SameHistory
  <2>2. cur[w] = NoPunch /\ NoPunch \notin ids
    BY <1>2 DEF Claim, DeliveryInv, HandsBusy, Claimable, Live
  <2>3. CalmHands
    BY <1>2, <2>2 DEF CalmHands, Claim, TypeOK
  <2> QED BY <2>1, <2>3, CalmStep
<1>3. ASSUME NEW p \in Punches, ReadRecord(w, p)
      PROVE  SingleWorkerInv'
  <2>1. \/ UNCHANGED <<cur, seen>>
        \/ stage[p] = "live" /\ cur'[w] = p /\ seen'[w] = row[p].attempts
    BY <1>3 DEF ReadRecord, TypeOK
  <2>2. CalmHands
    BY <1>3, <2>1 DEF CalmHands, ReadRecord, TypeOK, SingleWorkerInv, Live
  <2> QED BY <1>3, <2>2, IdleStep DEF ReadRecord
<1>4. ASSUME NEW ok \in BOOLEAN, Dispatch(w, ok)
      PROVE  SingleWorkerInv'
  BY <1>4, IdleStep DEF Dispatch, CalmHands, SingleWorkerInv, ghosts
<1>5. CASE RecordAttempt(w)
  <2>1. CASE stage[cur[w]] # "live"
    <3>1. CalmHands
      BY <1>5 DEF RecordAttempt, PutDown, CalmHands, TypeOK
    <3> QED BY <1>5, <2>1, <3>1, IdleStep DEF RecordAttempt, table, ghosts
  <2> QED BY <1>5, <2>1, RecordSingle
<1>6. CASE EndLoop(w)
  <2>1. CalmHands
    BY <1>6 DEF EndLoop, CalmHands, TypeOK
  <2> QED BY <1>6, <2>1, IdleStep DEF EndLoop, ghosts
<1>7. ASSUME NEW expired \in SUBSET Live, Sweep(w, expired)
      PROVE  SingleWorkerInv'
  <2>1. \A p \in Punches : CalmRow(p)
    BY <1>7, RemoveCalm DEF Sweep, Live
  <2>2. CalmHands
    BY <1>7 DEF Sweep, CalmHands, SingleWorkerInv
  <2> QED BY <2>1, <2>2, CalmStep
<1>8. CASE Stop(w) \/ Restart(w)
  BY <1>8, IdleStep DEF Stop, Restart, CalmHands, SingleWorkerInv, ghosts
<1>9. CASE WorkerFault(w)
  <2>1. UNCHANGED table /\ retried' = retried
    BY <1>9 DEF WorkerFault, TickFails, ReadFails, RecordFails, Shutdown, Crash, Fault, ghosts
  <2>2. ASSUME TickFails(w) \/ Shutdown(w)
        PROVE  CalmHands
    BY <2>2 DEF TickFails, Shutdown, CalmHands, SingleWorkerInv
  <2>3. ASSUME NEW p \in Punches, ReadFails(w, p)
        PROVE  CalmHands
    BY <2>3 DEF ReadFails, CalmHands, SingleWorkerInv, TypeOK
  <2>4. ASSUME RecordFails(w)
        PROVE  CalmHands
    BY <2>4 DEF RecordFails, PutDown, CalmHands, TypeOK
  <2>5. ASSUME Crash(w)
        PROVE  CalmHands
    BY <2>5 DEF Crash, CalmHands, TypeOK
  <2>6. CASE CalmHands
    BY <2>1, <2>6, IdleStep
  <2> QED BY <1>9, <2>2, <2>3, <2>4, <2>5, <2>6 DEF WorkerFault
<1> QED BY <1>1, <1>2, <1>3, <1>4, <1>5, <1>6, <1>7, <1>8, <1>9 DEF WorkerStep


LEMMA SingleStep ==
  ASSUME OneWorker, TypeOK, TypeOK', DeliveryInv, SingleWorkerInv, [Next]_vars
  PROVE  SingleWorkerInv'
<1>1. PICK w : Workers = {w}
  BY DEF OneWorker
<1>2. CASE \E v \in Workers : WorkerStep(v) \/ WorkerFault(v)
  BY <1>1, <1>2, WorkerSingle
<1>3. CASE UNCHANGED vars
  BY <1>3, IdleStep, SameHands DEF vars, ghosts
<1> QED BY <1>2, <1>3, IngestSingle, ElapseSingle, AdminSingle DEF Next

(***************************************************************************)
(* With one worker process the attempt count of every record is the number  *)
(* of its delivery rows and they are numbered in order, a record is tried at *)
(* most as often as some limit allows plus once per manual retry, and no     *)
(* attempt follows a recorded success - for any number of punches, devices   *)
(* and limits, any batch size, and across crashes, restarts, rejected        *)
(* queries, deletions and changes of the settings.                           *)
(***************************************************************************)
THEOREM SingleWorkerSafety ==
  ASSUME OneWorker
  PROVE  Spec => [](AttemptsCountLog /\ AttemptBudget /\ SuccessIsLast)
<1>1. TypeOK /\ TypeOK' /\ DeliveryInv /\ SingleWorkerInv /\ [Next]_vars => SingleWorkerInv'
  BY SingleStep
<1>2. SingleWorkerInv => AttemptsCountLog /\ AttemptBudget /\ SuccessIsLast
  BY DEF SingleWorkerInv
<1> QED BY <1>1, <1>2, InitSingle, TypeCorrect, DeliveryInvariant, PTL DEF Spec

\* The attempt count of a record is the number of its delivery rows.
THEOREM AttemptsAreCounted == ASSUME OneWorker PROVE Spec => []AttemptsCountLog
BY SingleWorkerSafety, PTL

\* No attempt follows a recorded success.
THEOREM SuccessEndsTheLog == ASSUME OneWorker PROVE Spec => []SuccessIsLast
BY SingleWorkerSafety, PTL

=============================================================================
