----------------------------- MODULE CommandQueue -----------------------------
(***************************************************************************)
(* The command queue of one device: an administrator queues raw commands    *)
(* (POST /devices/:id/commands), the device polls for them (GET              *)
(* /iclock/getrequest, adms/getrequest.ts), executes what it receives and    *)
(* reports each one (POST /iclock/devicecmd, adms/devicecmd.ts).             *)
(*                                                                           *)
(* A poll looks the device up, reads the pending rows, marks them SENT and   *)
(* replies, one statement after the other.  A device that does not get the   *)
(* reply in time gives up and polls again while the server goes on with the  *)
(* first poll.                                                               *)
(***************************************************************************)
EXTENDS Naturals, FiniteSets

CONSTANTS
  Commands,   \* ids of device_commands rows
  Polls,      \* getrequest requests the server may be handling at a time
  PollLimit,  \* take: 10
  NoPoll,
  MaxFaults,  \* bound: time-outs, crashes, failed queries
  MaxChanges  \* bound: changes of the device's secret

ASSUME LimitAssumption == PollLimit \in Nat \ {0}
ASSUME NoPollAssumption == NoPoll \notin Polls

VARIABLES
  device,    \* the devices row: "trusted" when its secret is the one the device
             \* sends, "untrusted" when not, "absent" when deleted
  status,    \* status[c]: DeviceCommand.status, "none" before, "gone" after
  age,       \* age[c]: DeviceCommand.createdAt (0: not created); equal ages are
             \* those of one millisecond, or of creations that overlapped
  count,     \* the latest createdAt
  pc,        \* pc[q]: "idle", "resolve", "find", "mark", "reply"
  found,     \* found[q]: the commands poll q read
  waiting,   \* the poll the device waits for
  received,  \* the commands the device has received
  unreported,\* those it has not reported, or not been answered about
  faults, changes

rows == <<device, status, age, count>>
polls == <<pc, found, waiting>>
atDevice == <<received, unreported>>
bounds == <<faults, changes>>
vars == <<rows, polls, atDevice, bounds>>

Init ==
  /\ device = "trusted"
  /\ status = [c \in Commands |-> "none"]
  /\ age = [c \in Commands |-> 0]
  /\ count = 0
  /\ pc = [q \in Polls |-> "idle"]
  /\ found = [q \in Polls |-> {}]
  /\ waiting = NoPoll
  /\ received = {} /\ unreported = {}
  /\ faults = 0 /\ changes = 0

-----------------------------------------------------------------------------
(* The administrator, and the retention sweep. *)

\* POST /:id/commands.  The row is younger than those before it, or as old as
\* the youngest of them.
Queue(c) ==
  /\ device # "absent"
  /\ status[c] = "none"
  /\ status' = [status EXCEPT ![c] = "PENDING"]
  /\ count' \in {count, count + 1} \ {0}
  /\ age' = [age EXCEPT ![c] = count']
  /\ UNCHANGED <<device, polls, atDevice, bounds>>

Erase(S) == status' = [c \in Commands |-> IF c \in S THEN "gone" ELSE status[c]]
Existing == {c \in Commands : status[c] \notin {"none", "gone"}}

\* runRetentionSweep deletes the commands older than a cutoff, whatever their
\* status.
Expire(S) ==
  /\ \A c \in S, e \in Existing \ S : age[c] < age[e]
  /\ Erase(S)
  /\ UNCHANGED <<device, age, count, polls, atDevice, bounds>>

\* DELETE /devices/:id cascades to the commands.
DeleteDevice ==
  /\ device # "absent"
  /\ device' = "absent"
  /\ Erase(Existing)
  /\ UNCHANGED <<age, count, polls, atDevice, bounds>>

\* PATCH /devices/:id may change the secret the device is expected to send.
ChangeSecret ==
  /\ device # "absent"
  /\ changes < MaxChanges
  /\ changes' = changes + 1
  /\ device' \in {"trusted", "untrusted"} \ {device}
  /\ UNCHANGED <<status, age, count, polls, atDevice, faults>>

-----------------------------------------------------------------------------
(* GET /iclock/getrequest. *)

SendPoll(q) ==
  /\ waiting = NoPoll
  /\ pc[q] = "idle"
  /\ pc' = [pc EXCEPT ![q] = "resolve"]
  /\ waiting' = q
  /\ UNCHANGED <<rows, found, atDevice, bounds>>

\* A plausible bug: whatever was not reported yet is sent again.
NotAcked == {c \in Commands : status[c] \in {"PENDING", "SENT"}}

Pending == {c \in Commands : status[c] = "PENDING"}

\* Another one: no ORDER BY.
AnyOfThem(S) == S = Pending \/ Cardinality(S) = PollLimit

\* The oldest PollLimit of them.
Oldest(S) ==
  \/ S = Pending /\ Cardinality(S) <= PollLimit
  \/ /\ Cardinality(S) = PollLimit
     /\ \A c \in S, e \in Pending \ S : age[c] <= age[e]

\* resolveDevice.  A device that is not trusted gets 401, one that is not
\* registered a plain OK: nothing is read for either.
Resolve(q) ==
  /\ pc[q] = "resolve"
  /\ pc' = [pc EXCEPT ![q] = IF device = "trusted" THEN "find" ELSE "reply"]
  /\ UNCHANGED <<rows, found, waiting, atDevice, bounds>>

\* findMany, whatever the device has become since: its commands are read by the
\* id of the row that was resolved.
Find(q, S) ==
  /\ pc[q] = "find"
  /\ Oldest(S)
  /\ found' = [found EXCEPT ![q] = S]
  /\ pc' = [pc EXCEPT ![q] = IF S = {} THEN "reply" ELSE "mark"]
  /\ UNCHANGED <<rows, waiting, atDevice, bounds>>

\* The update of a plausible bug: none.
NothingMarked(q) == status

\* updateMany selects by id only: whatever the rows have become meanwhile.
Marked(q) ==
  [c \in Commands |-> IF c \in found[q] /\ status[c] # "gone" THEN "SENT" ELSE status[c]]

Mark(q) ==
  /\ pc[q] = "mark"
  /\ status' = Marked(q)
  /\ pc' = [pc EXCEPT ![q] = "reply"]
  /\ UNCHANGED <<device, age, count, found, waiting, atDevice, bounds>>

\* The request of poll q is over; the device stops waiting if it waited for it.
Finish(q) ==
  /\ pc' = [pc EXCEPT ![q] = "idle"]
  /\ found' = [found EXCEPT ![q] = {}]
  /\ waiting' = IF waiting = q THEN NoPoll ELSE waiting

\* The device executes what it receives; nobody receives the reply to a poll
\* that was given up.
Reply(q) ==
  /\ pc[q] = "reply"
  /\ Finish(q)
  /\ IF waiting = q
     THEN /\ received' = received \cup found[q]
          /\ unreported' = unreported \cup found[q]
     ELSE UNCHANGED atDevice
  /\ UNCHANGED <<rows, bounds>>

-----------------------------------------------------------------------------
(* POST /iclock/devicecmd. *)

\* The row is found by its id alone; a report for a row that is gone is
\* ignored.  A report that is not accepted or whose answer is lost may be sent
\* again.
Report(c) ==
  /\ c \in unreported
  /\ status' = IF device = "trusted" /\ status[c] # "gone"
               THEN [status EXCEPT ![c] = "ACKED"] ELSE status
  /\ unreported' \in {unreported, unreported \ {c}}
  /\ UNCHANGED <<device, age, count, polls, received, bounds>>

-----------------------------------------------------------------------------
(* Failures. *)

Fault ==
  /\ faults < MaxFaults
  /\ faults' = faults + 1
  /\ UNCHANGED <<rows, atDevice, changes>>

\* The device does not wait any longer, or the reply is lost on its way.
GiveUp ==
  /\ waiting # NoPoll
  /\ Fault
  /\ waiting' = NoPoll
  /\ UNCHANGED <<pc, found>>

\* The update of a report is rejected: that is caught, and answered OK.
ReportFails(c) ==
  /\ c \in unreported
  /\ device = "trusted"
  /\ faults < MaxFaults
  /\ faults' = faults + 1
  /\ unreported' \in {unreported, unreported \ {c}}
  /\ UNCHANGED <<rows, polls, received, changes>>

\* A query is rejected: the error middleware answers 500.
QueryFails(q) ==
  /\ pc[q] \in {"resolve", "find", "mark"}
  /\ Fault
  /\ Finish(q)

\* The server dies with all its requests.
Crash ==
  /\ Fault
  /\ pc' = [q \in Polls |-> "idle"]
  /\ found' = [q \in Polls |-> {}]
  /\ waiting' = NoPoll

-----------------------------------------------------------------------------

Serve(q) ==
  Resolve(q) \/ (\E S \in SUBSET Pending : Find(q, S)) \/ Mark(q) \/ Reply(q)

Next ==
  \/ \E c \in Commands : Queue(c) \/ Report(c) \/ ReportFails(c)
  \/ \E S \in SUBSET Existing : Expire(S)
  \/ DeleteDevice
  \/ ChangeSecret
  \/ \E q \in Polls : SendPoll(q) \/ Serve(q) \/ QueryFails(q)
  \/ GiveUp
  \/ Crash

Spec == Init /\ [][Next]_vars

\* The device polls again and again (Delay=30 of the handshake asks it to), the
\* server handles what it receives.
Fairness ==
  /\ WF_vars(\E q \in Polls : SendPoll(q))
  /\ \A q \in Polls : WF_vars(Serve(q))

FairSpec == Spec /\ Fairness

-----------------------------------------------------------------------------
(* Properties. *)

TypeOK ==
  /\ device \in {"trusted", "untrusted", "absent"}
  /\ status \in [Commands -> {"none", "PENDING", "SENT", "ACKED", "gone"}]
  /\ age \in [Commands -> Nat]
  /\ count \in Nat
  /\ pc \in [Polls -> {"idle", "resolve", "find", "mark", "reply"}]
  /\ found \in [Polls -> SUBSET Commands]
  /\ waiting \in Polls \cup {NoPoll}
  /\ received \subseteq Commands
  /\ unreported \subseteq received
  /\ faults \in Nat
  /\ changes \in Nat

\* A command that is shown as PENDING has not reached the device: it is marked
\* before the reply leaves, however many polls are under way.
PendingIsUnseen == \A c \in received : status[c] # "PENDING"

NothingFoundYet ==
  \A q \in Polls : pc[q] \in {"idle", "resolve", "find"} => found[q] = {}

\* What PendingIsUnseen needs to be inductive: what a poll is about to mark or
\* to reply was read by it and created before, and a reply is about rows that
\* were marked.
QueueInv ==
  /\ PendingIsUnseen
  /\ NothingFoundYet
  /\ \A q \in Polls : \A c \in found[q] :
       /\ status[c] # "none"
       /\ pc[q] = "reply" => status[c] # "PENDING"
  /\ \A c \in received : status[c] # "none"

\* A command whose execution was reported is shown as SENT again only by a poll
\* the device has given up: one that read the row before another poll handed the
\* command over, and marks it after the report (updateMany looks at no status).
OnlyLatePollUnacks ==
  [][\A c \in Commands :
       status[c] = "ACKED" /\ status'[c] \notin {"ACKED", "gone"} =>
         \E q \in Polls : q # waiting /\ pc[q] = "mark" /\ c \in found[q]]_vars

\* The commands that may still reach the device: those that are pending, and
\* those of the reply it waits for.
Reaching == Pending \cup (IF waiting = NoPoll THEN {} ELSE found[waiting])

\* However polls overlap, the queue is a lossy channel that neither repeats nor
\* hands over an older command after a younger one.
Channel == INSTANCE CommandChannel WITH queued <- Reaching, handed <- received
IsChannel == Channel!Spec

\* What OnlyLatePollUnacks and IsChannel need to be inductive: what the awaited
\* poll will hand over was never received and is no older than what was, and
\* what a poll read is no younger than what stays pending.
WaitingIsBusy == \A q \in Polls : waiting = q => pc[q] # "idle"
AgesCount ==
  \A c \in Commands : age[c] <= count /\ (age[c] = 0 <=> status[c] = "none")
NeverAgain == Reaching \cap received = {}
ReceivedAreOlder == \A c \in received, e \in Reaching : age[c] <= age[e]
OldestFirst ==
  \A q \in Polls : \A c \in found[q], e \in Pending \ found[q] : age[c] <= age[e]
AckedWasReceived == \A c \in Commands : status[c] = "ACKED" => c \in received

ChannelInv ==
  /\ WaitingIsBusy
  /\ AgesCount
  /\ NeverAgain
  /\ ReceivedAreOlder
  /\ OldestFirst
  /\ AckedWasReceived

\* No pending command waits for ever if the device stays registered with its
\* secret and keeps polling.
EverySent == \A c \in Commands : []<>(status[c] # "PENDING" \/ device # "trusted")

=============================================================================
