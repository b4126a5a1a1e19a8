----------------------------- MODULE PunchStatus -----------------------------
(***************************************************************************)
(* The webhook-delivery columns of a punch_records row, and the two ways   *)
(* admin/punchRecords.ts reads a status out of them: computeStatus gives    *)
(* the badge of one row, statusCondition the WHERE clause of ?status=.      *)
(* A row is                                                                 *)
(*   delivered  webhookDelivered                                            *)
(*   held       webhookHeld                                                 *)
(*   attempts   webhookAttempts                                             *)
(*   error      lastWebhookError is not null (the text is abstracted)       *)
(*   next       nextAttemptAt, abstracted to what the worker's claim query   *)
(*              can tell apart (see PunchDelivery)                          *)
(***************************************************************************)
EXTENDS Naturals

Slots == {"due", "leased", "backoff", "parked"}

PunchRow == [delivered : BOOLEAN, held : BOOLEAN, attempts : Nat,
             error : BOOLEAN, next : Slots]

Webhook == [enabled : BOOLEAN, url : BOOLEAN]

Statuses == {"delivered", "pending", "failed", "not_applicable"}

HasActiveWebhook(h) == h.enabled /\ h.url

\* Badges of plausible bugs: the defect the comment of computeStatus reports
\* as fixed, and a badge that forgets the hold.
HistoryBlindStatus(r, h, max) ==
  IF r.delivered THEN "delivered"
  ELSE IF r.held \/ ~HasActiveWebhook(h) THEN "not_applicable"
  ELSE IF r.attempts >= max THEN "failed" ELSE "pending"

HoldBlindStatus(r, h, max) ==
  IF r.delivered THEN "delivered"
  ELSE IF ~HasActiveWebhook(h)
       THEN IF r.attempts > 0 THEN "failed" ELSE "not_applicable"
  ELSE IF r.attempts >= max THEN "failed" ELSE "pending"

\* The badge: the first rule that applies decides.
ComputeStatus(r, h, max) ==
  IF r.delivered THEN "delivered"
  ELSE IF r.held THEN "not_applicable"
  ELSE IF ~HasActiveWebhook(h)
       THEN IF r.attempts > 0 THEN "failed" ELSE "not_applicable"
  ELSE IF r.attempts >= max THEN "failed" ELSE "pending"

\* The filter: one condition per status.
StatusCondition(s, r, h, max) ==
  \/ /\ s = "delivered"
     /\ r.delivered
  \/ /\ s = "not_applicable"
     /\ ~r.delivered
     /\ r.held \/ (~HasActiveWebhook(h) /\ r.attempts = 0)
  \/ /\ s = "failed"
     /\ ~r.delivered
     /\ ~r.held
     /\ r.attempts >= max \/ (~HasActiveWebhook(h) /\ r.attempts > 0)
  \/ /\ s = "pending"
     /\ ~r.delivered
     /\ ~r.held
     /\ HasActiveWebhook(h)
     /\ r.attempts < max

\* The extra condition of GET /punch-records/failed.
OnFailedPage(r, max) == ~r.delivered /\ (r.attempts >= max \/ r.error)

=============================================================================
