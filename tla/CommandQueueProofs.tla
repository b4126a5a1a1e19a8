-------------------------- MODULE CommandQueueProofs --------------------------
(* Theorems about CommandQueue, for any number of polls and commands. *)
EXTENDS CommandQueue, TLAPS

\* Every variable keeps its type.
THEOREM TypeCorrect == Spec => []TypeOK
<1>1. Init => TypeOK
  BY DEF Init, TypeOK
<1>2. TypeOK /\ [Next]_vars => TypeOK'
  <2> SUFFICES ASSUME TypeOK, [Next]_vars PROVE TypeOK'
    OBVIOUS
  <2> USE DEF TypeOK, rows, polls, atDevice, bounds
  <2>1. ASSUME NEW c \in Commands, Queue(c) PROVE TypeOK'
    BY <2>1 DEF Queue
  <2>2. ASSUME NEW c \in Commands, Report(c) PROVE TypeOK'
    BY <2>2 DEF Report
  <2>3. ASSUME NEW S \in SUBSET Existing, Expire(S) PROVE TypeOK'
    BY <2>3 DEF Expire, Erase
  <2>4. CASE DeleteDevice
    BY <2>4 DEF DeleteDevice, Erase
  <2>5. CASE ChangeSecret
    BY <2>5 DEF ChangeSecret
  <2>6. ASSUME NEW q \in Polls, SendPoll(q) PROVE TypeOK'
    BY <2>6 DEF SendPoll
  <2>7. ASSUME NEW q \in Polls, NEW S \in SUBSET Pending, Find(q, S) PROVE TypeOK'
    BY <2>7 DEF Find, Pending
  <2>8. ASSUME NEW q \in Polls, Mark(q) PROVE TypeOK'
    BY <2>8 DEF Mark, Marked
  <2>9. ASSUME NEW q \in Polls, Reply(q) PROVE TypeOK'
    BY <2>9 DEF Reply, Finish
  <2>10. ASSUME NEW q \in Polls, QueryFails(q) PROVE TypeOK'
    BY <2>10 DEF QueryFails, Finish, Fault
  <2>11. CASE GiveUp
    BY <2>11 DEF GiveUp, Fault
  <2>12. CASE Crash
    BY <2>12 DEF Crash, Fault
  <2>13. CASE UNCHANGED vars
    BY <2>13 DEF vars
  <2>14. ASSUME NEW q \in Polls, Resolve(q) PROVE TypeOK'
    BY <2>14 DEF Resolve
  <2>15. ASSUME NEW c \in Commands, ReportFails(c) PROVE TypeOK'
    BY <2>15 DEF ReportFails
  <2> QED
    BY <2>1, <2>2, <2>3, <2>4, <2>5, <2>6, <2>7, <2>8, <2>9, <2>10, <2>11, <2>12, <2>13,
       <2>14, <2>15
    DEF Next, Serve
<1> QED
  BY <1>1, <1>2, PTL DEF Spec

-----------------------------------------------------------------------------

\* The inductive invariant of the queue, whatever the number of polls the
\* server is handling.
THEOREM QueueInvariant == Spec => []QueueInv
<1>1. Init => QueueInv
  BY DEF Init, QueueInv, PendingIsUnseen, NothingFoundYet
<1>2. TypeOK /\ QueueInv /\ [Next]_vars => QueueInv'
  <2> SUFFICES ASSUME TypeOK, QueueInv, [Next]_vars PROVE QueueInv'
    OBVIOUS
  <2> USE DEF TypeOK, QueueInv, PendingIsUnseen, NothingFoundYet, rows, polls, atDevice, bounds
  <2>1. ASSUME NEW c \in Commands, Queue(c) PROVE QueueInv'
    BY <2>1 DEF Queue
  <2>2. ASSUME NEW c \in Commands, Report(c) PROVE QueueInv'
    BY <2>2 DEF Report
  <2>3. ASSUME NEW S \in SUBSET Existing, Expire(S) PROVE QueueInv'
    BY <2>3 DEF Expire, Erase
  <2>4. CASE DeleteDevice
    BY <2>4 DEF DeleteDevice, Erase
  <2>5. CASE ChangeSecret
    BY <2>5 DEF ChangeSecret
  <2>6. ASSUME NEW q \in Polls, SendPoll(q) PROVE QueueInv'
    BY <2>6 DEF SendPoll
  <2>7. ASSUME NEW q \in Polls, NEW S \in SUBSET Pending, Find(q, S) PROVE QueueInv'
    BY <2>7 DEF Find, Pending
  <2>8. ASSUME NEW q \in Polls, Mark(q) PROVE QueueInv'
    BY <2>8 DEF Mark, Marked
  <2>9. ASSUME NEW q \in Polls, Reply(q) PROVE QueueInv'
    BY <2>9 DEF Reply, Finish
  <2>10. ASSUME NEW q \in Polls, QueryFails(q) PROVE QueueInv'
    BY <2>10 DEF QueryFails, Finish, Fault
  <2>11. CASE GiveUp
    BY <2>11 DEF GiveUp, Fault
  <2>12. CASE Crash
    BY <2>12 DEF Crash, Fault
  <2>13. CASE UNCHANGED vars
    BY <2>13 DEF vars
  <2>14. ASSUME NEW q \in Polls, Resolve(q) PROVE QueueInv'
    BY <2>14 DEF Resolve
  <2>15. ASSUME NEW c \in Commands, ReportFails(c) PROVE QueueInv'
    BY <2>15 DEF ReportFails
  <2> QED
    BY <2>1, <2>2, <2>3, <2>4, <2>5, <2>6, <2>7, <2>8, <2>9, <2>10, <2>11, <2>12, <2>13,
       <2>14, <2>15
    DEF Next, Serve
<1> QED
  BY <1>1, <1>2, TypeCorrect, PTL DEF Spec

\* A command that is shown as PENDING has not reached the device.
THEOREM PendingNotDelivered == Spec => []PendingIsUnseen
<1>1. QueueInv => PendingIsUnseen
  BY DEF QueueInv
<1> QED
  BY <1>1, QueueInvariant, PTL

-----------------------------------------------------------------------------
(* What a poll may hand over. *)

LEMMA ChannelInductive ==
  ASSUME TypeOK, QueueInv, ChannelInv, [Next]_vars
  PROVE  ChannelInv'
<1> USE DEF TypeOK, ChannelInv, rows, polls, atDevice, bounds
<1> USE DEF WaitingIsBusy, AgesCount, NeverAgain, ReceivedAreOlder,
            OldestFirst, AckedWasReceived, Reaching, Pending
<1>1. ASSUME NEW c \in Commands, Queue(c) PROVE ChannelInv'
  BY <1>1 DEF Queue, QueueInv
<1>2. ASSUME NEW c \in Commands, Report(c) PROVE ChannelInv'
  BY <1>2 DEF Report, QueueInv, PendingIsUnseen
<1>3. ASSUME NEW S \in SUBSET Existing, Expire(S) PROVE ChannelInv'
  BY <1>3 DEF Expire, Erase, Existing
<1>4. CASE DeleteDevice
  BY <1>4 DEF DeleteDevice, Erase, Existing
<1>5. CASE ChangeSecret
  BY <1>5 DEF ChangeSecret
<1>6. ASSUME NEW q \in Polls, SendPoll(q) PROVE ChannelInv'
  BY <1>6, NoPollAssumption DEF SendPoll, QueueInv, NothingFoundYet
<1>7. ASSUME NEW q \in Polls, NEW S \in SUBSET Pending, Find(q, S) PROVE ChannelInv'
  BY <1>7, NoPollAssumption DEF Find, Oldest
<1>8. ASSUME NEW q \in Polls, Mark(q) PROVE ChannelInv'
  BY <1>8, NoPollAssumption DEF Mark, Marked, QueueInv
<1>9. ASSUME NEW q \in Polls, Reply(q) PROVE ChannelInv'
  BY <1>9, NoPollAssumption DEF Reply, Finish, QueueInv
<1>10. ASSUME NEW q \in Polls, QueryFails(q) PROVE ChannelInv'
  BY <1>10, NoPollAssumption DEF QueryFails, Finish, Fault
<1>11. CASE GiveUp
  BY <1>11, NoPollAssumption DEF GiveUp, Fault
<1>12. CASE Crash
  BY <1>12, NoPollAssumption DEF Crash, Fault
<1>13. CASE UNCHANGED vars
  BY <1>13 DEF vars
<1>14. ASSUME NEW q \in Polls, Resolve(q) PROVE ChannelInv'
  BY <1>14, NoPollAssumption DEF Resolve
<1>15. ASSUME NEW c \in Commands, ReportFails(c) PROVE ChannelInv'
  BY <1>15 DEF ReportFails
<1> QED
  BY <1>1, <1>2, <1>3, <1>4, <1>5, <1>6, <1>7, <1>8, <1>9, <1>10, <1>11, <1>12, <1>13,
     <1>14, <1>15
  DEF Next, Serve

LEMMA ChannelInvariant == Spec => []ChannelInv
<1>1. Init => ChannelInv
  BY NoPollAssumption
  DEF Init, ChannelInv, WaitingIsBusy, AgesCount, NeverAgain,
      ReceivedAreOlder, OldestFirst, AckedWasReceived, Reaching, Pending
<1>2. TypeOK /\ QueueInv /\ ChannelInv /\ [Next]_vars => ChannelInv'
  BY ChannelInductive
<1> QED
  BY <1>1, <1>2, TypeCorrect, QueueInvariant, PTL DEF Spec

\* A reported command is shown as SENT again only by a poll that was given up.
THEOREM AckedUndoneByLatePolls == Spec => OnlyLatePollUnacks
<1> DEFINE Late(c) == \E q \in Polls : q # waiting /\ pc[q] = "mark" /\ c \in found[q]
           Undone(c) == status[c] = "ACKED" /\ status'[c] \notin {"ACKED", "gone"}
           Kept == \A c \in Commands : Undone(c) => Late(c)
<1>1. ASSUME TypeOK, ChannelInv, [Next]_vars PROVE [Kept]_vars
  <2> USE DEF TypeOK
  <2>1. ASSUME NEW c \in Commands, Queue(c) PROVE Kept
    BY <2>1 DEF Queue
  <2>2. ASSUME NEW c \in Commands, Report(c) PROVE Kept
    BY <2>2 DEF Report
  <2>3. ASSUME NEW S \in SUBSET Existing, Expire(S) PROVE Kept
    BY <2>3 DEF Expire, Erase
  <2>4. ASSUME DeleteDevice PROVE Kept
    BY <2>4 DEF DeleteDevice, Erase
  <2>5. ASSUME NEW q \in Polls, Mark(q) PROVE Kept
    <3> SUFFICES ASSUME NEW c \in Commands, Undone(c) PROVE Late(c)
      OBVIOUS
    <3>1. pc[q] = "mark" /\ c \in found[q]
      BY <2>5 DEF Mark, Marked
    <3>2. c \in received
      BY <1>1 DEF ChannelInv, AckedWasReceived
    <3>3. q # waiting
      BY <1>1, <3>1, <3>2, NoPollAssumption DEF ChannelInv, NeverAgain, Reaching
    <3> QED
      BY <3>1, <3>3
  <2>6. ASSUME UNCHANGED status PROVE Kept
    BY <2>6
  <2>7. ASSUME NEW q \in Polls, SendPoll(q) \/ Resolve(q) \/ QueryFails(q)
        PROVE  UNCHANGED status
    BY <2>7 DEF SendPoll, Resolve, QueryFails, Fault, rows
  <2>8. ASSUME NEW q \in Polls, NEW S \in SUBSET Pending, Find(q, S) \/ Reply(q)
        PROVE  UNCHANGED status
    BY <2>8 DEF Find, Reply, rows
  <2>9. ASSUME ChangeSecret \/ GiveUp \/ Crash PROVE UNCHANGED status
    BY <2>9 DEF ChangeSecret, GiveUp, Crash, Fault, rows
  <2>10. ASSUME NEW c \in Commands, ReportFails(c) PROVE UNCHANGED status
    BY <2>10 DEF ReportFails, rows
  <2> HIDE DEF Kept
  <2> QED
    BY <1>1, <2>1, <2>2, <2>3, <2>4, <2>5, <2>6, <2>7, <2>8, <2>9, <2>10
    DEF Next, Serve
<1> QED
  BY <1>1, TypeCorrect, ChannelInvariant, PTL DEF Spec, OnlyLatePollUnacks

\* However polls overlap, the queue implements a channel that may lose commands
\* but neither repeats them nor hands over an older one after a younger one.
THEOREM QueueIsChannel == Spec => IsChannel
<1>1. Init => Channel!Init
  BY DEF Init, Channel!Init, Reaching, Pending
<1>2. ASSUME TypeOK, QueueInv, ChannelInv, [Next]_vars
      PROVE  [Channel!Next]_Channel!vars
  <2> DEFINE Fewer == Reaching' \subseteq Reaching /\ UNCHANGED <<age, count, received>>
  <2> USE DEF TypeOK, rows, polls, atDevice, bounds
  <2>1. ASSUME NEW c \in Commands, Queue(c) PROVE Channel!Next
    <3>1. Channel!Put(c)
      BY <1>2, <2>1 DEF Queue, Channel!Put, Reaching, Pending, ChannelInv, AgesCount
    <3> QED
      BY <3>1 DEF Channel!Next
  <2>2. ASSUME NEW q \in Polls, Reply(q), waiting = q PROVE Channel!Next
    <3>1. Reaching' = Pending
      BY <2>2, NoPollAssumption DEF Reply, Finish, Reaching, Pending
    <3>2. Pending = Reaching \ found[q]
      BY <1>2, <2>2, NoPollAssumption DEF Reply, Reaching, Pending, QueueInv
    <3>3. \A c \in found[q], e \in Reaching \ found[q] : age[c] <= age[e]
      BY <1>2, <3>2 DEF ChannelInv, OldestFirst
    <3>4. found[q] \subseteq Reaching
      BY <2>2, NoPollAssumption DEF Reaching
    <3>5. Channel!HandOver(found[q])
      BY <2>2, <3>1, <3>2, <3>3, <3>4 DEF Reply, Channel!HandOver
    <3> QED
      BY <3>4, <3>5 DEF Channel!Next
  <2>3. ASSUME Fewer PROVE [Channel!Next]_Channel!vars
    <3>1. Channel!Lose(Reaching \ Reaching')
      BY <2>3 DEF Channel!Lose
    <3> QED
      BY <3>1 DEF Channel!Next
  <2>4. ASSUME NEW c \in Commands, Report(c) PROVE Fewer
    BY <1>2, <2>4 DEF Report, Reaching, Pending, QueueInv, PendingIsUnseen
  <2>5. ASSUME NEW S \in SUBSET Existing, Expire(S) PROVE Fewer
    BY <2>5 DEF Expire, Erase, Reaching, Pending
  <2>6. ASSUME DeleteDevice PROVE Fewer
    BY <2>6 DEF DeleteDevice, Erase, Reaching, Pending
  <2>7. ASSUME ChangeSecret PROVE Fewer
    BY <2>7 DEF ChangeSecret, Reaching, Pending
  <2>8. ASSUME NEW q \in Polls, SendPoll(q) PROVE Fewer
    BY <1>2, <2>8 DEF SendPoll, Reaching, Pending, QueueInv, NothingFoundYet
  <2>9. ASSUME NEW q \in Polls, NEW S \in SUBSET Pending, Find(q, S) PROVE Fewer
    BY <2>9 DEF Find, Reaching, Pending
  <2>10. ASSUME NEW q \in Polls, Mark(q) PROVE Fewer
    BY <1>2, <2>10, NoPollAssumption DEF Mark, Marked, Reaching, Pending
  <2>11. ASSUME NEW q \in Polls, Reply(q), waiting # q PROVE Fewer
    BY <1>2, <2>11, NoPollAssumption DEF Reply, Finish, Reaching, Pending
  <2>12. ASSUME NEW q \in Polls, QueryFails(q) PROVE Fewer
    BY <1>2, <2>12, NoPollAssumption DEF QueryFails, Finish, Fault, Reaching, Pending
  <2>13. ASSUME GiveUp \/ Crash PROVE Fewer
    BY <2>13, NoPollAssumption DEF GiveUp, Crash, Fault, Reaching, Pending
  <2>14. ASSUME UNCHANGED vars PROVE Fewer
    BY <2>14 DEF vars, Reaching, Pending
  <2>15. ASSUME NEW q \in Polls, Resolve(q) PROVE Fewer
    BY <1>2, <2>15 DEF Resolve, Reaching, Pending
  <2>16. ASSUME NEW c \in Commands, ReportFails(c) PROVE Fewer
    BY <2>16 DEF ReportFails, Reaching, Pending
  <2> HIDE DEF Fewer
  <2> QED
    BY <1>2, <2>1, <2>2, <2>3, <2>4, <2>5, <2>6, <2>7, <2>8, <2>9, <2>10, <2>11, <2>12,
       <2>13, <2>14, <2>15, <2>16
    DEF Next, Serve
<1> QED
  BY <1>1, <1>2, TypeCorrect, QueueInvariant, ChannelInvariant, PTL
  DEF Spec, IsChannel, Channel!Spec

-----------------------------------------------------------------------------
(* What the channel promises, and with it the queue. *)

LEMMA ChannelSteps ==
  ASSUME Channel!ChannelInv, [Channel!Next]_Channel!vars
  PROVE  /\ Channel!ChannelInv'
         /\ received \subseteq received'
         /\ \A c \in received' \ received, d \in received : age[d] <= age[c]
<1> HIDE DEF Reaching
<1> USE DEF Channel!ChannelInv, Channel!TypeOK, Channel!NeverTwice
<1>1. ASSUME NEW c \in Commands, Channel!Put(c)
      PROVE  Channel!ChannelInv' /\ received' = received
  BY <1>1 DEF Channel!Put
<1>2. ASSUME NEW S \in SUBSET Reaching, Channel!Lose(S)
      PROVE  Channel!ChannelInv' /\ received' = received
  BY <1>2 DEF Channel!Lose
<1>3. ASSUME NEW S \in SUBSET Reaching, Channel!HandOver(S)
      PROVE  /\ Channel!ChannelInv'
             /\ received' = received \cup S
             /\ \A c \in S, d \in received : age[d] <= age[c]
  BY <1>3 DEF Channel!HandOver
<1>4. ASSUME UNCHANGED Channel!vars PROVE Channel!ChannelInv' /\ received' = received
  BY <1>4 DEF Channel!vars
<1> QED
  BY <1>1, <1>2, <1>3, <1>4 DEF Channel!Next

LEMMA ChannelHolds == Channel!Spec => []Channel!ChannelInv
<1>1. Channel!Init => Channel!ChannelInv
  BY DEF Channel!Init, Channel!ChannelInv, Channel!TypeOK, Channel!NeverTwice
<1>2. Channel!ChannelInv /\ [Channel!Next]_Channel!vars => Channel!ChannelInv'
  BY ChannelSteps
<1> QED
  BY <1>1, <1>2, PTL DEF Channel!Spec

\* A command the device has received is not in a reply under way and will not be in
\* one: a channel hands nothing over twice, so neither does the queue.
THEOREM NeverHandedTwice == Spec => []Channel!NeverTwice
<1>1. Channel!ChannelInv => Channel!NeverTwice
  BY DEF Channel!ChannelInv
<1> QED
  BY <1>1, ChannelHolds, QueueIsChannel, PTL DEF IsChannel

\* Commands reach the device in the order they were queued in, those of one moment
\* in any order.
THEOREM HandedInOrder == Spec => Channel!InOrder
<1>1. Channel!ChannelInv /\ [Channel!Next]_Channel!vars =>
        [/\ received \subseteq received'
         /\ \A c \in received' \ received, d \in received : age[d] <= age[c]]_Channel!vars
  BY ChannelSteps
<1>2. Channel!Spec => Channel!InOrder
  BY <1>1, ChannelHolds, PTL DEF Channel!Spec, Channel!InOrder
<1> QED
  BY <1>2, QueueIsChannel, PTL DEF IsChannel

=============================================================================
