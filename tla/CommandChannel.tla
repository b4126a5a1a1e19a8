---------------------------- MODULE CommandChannel ----------------------------
(***************************************************************************)
(* What an administrator may expect of a device's command queue: it is a    *)
(* channel that may lose commands, but never hands one over twice and never  *)
(* hands over an older one after a younger one.  Of commands that were queued *)
(* at the same time either may come first.  CommandQueue implements it.       *)
(***************************************************************************)
EXTENDS Naturals

CONSTANT Commands

VARIABLES
  age,     \* age[c]: when c was queued, 0: not queued yet
  count,   \* when the last one was queued
  queued,  \* the commands that may still reach the device
  handed   \* the commands the device has received

vars == <<age, count, queued, handed>>

Init ==
  /\ age = [c \in Commands |-> 0]
  /\ count = 0
  /\ queued = {} /\ handed = {}

Put(c) ==
  /\ age[c] = 0
  /\ count' \in {count, count + 1} \ {0}
  /\ age' = [age EXCEPT ![c] = count']
  /\ queued' = queued \cup {c}
  /\ UNCHANGED handed

Lose(S) ==
  /\ queued' = queued \ S
  /\ UNCHANGED <<age, count, handed>>

\* Some commands arrive together: the oldest ones that are queued.
HandOver(S) ==
  /\ S \subseteq queued
  /\ \A c \in S, e \in queued \ S : age[c] <= age[e]
  /\ queued' = queued \ S
  /\ handed' = handed \cup S
  /\ UNCHANGED <<age, count>>

Next ==
  \/ \E c \in Commands : Put(c)
  \/ \E S \in SUBSET queued : Lose(S) \/ HandOver(S)

Spec == Init /\ [][Next]_vars

-----------------------------------------------------------------------------

TypeOK ==
  /\ age \in [Commands -> Nat] /\ count \in Nat
  /\ queued \subseteq Commands /\ handed \subseteq Commands

\* A command that was handed over cannot reach the device again.
NeverTwice == queued \cap handed = {}

\* What is handed over is no older than all that was handed over before, and nothing
\* is taken back.
InOrder ==
  [][/\ handed \subseteq handed'
     /\ \A c \in handed' \ handed, d \in handed : age[d] <= age[c]]_vars

\* What makes InOrder hold: no command is younger than count, and what may still
\* reach the device is no older than what has.
ChannelInv ==
  /\ TypeOK
  /\ NeverTwice
  /\ \A c \in Commands : age[c] <= count
  /\ \A c \in handed, e \in queued : age[c] <= age[e]
  /\ \A c \in queued \cup handed : age[c] # 0

=============================================================================
