----------------------------- MODULE DeviceClock ------------------------------
(***************************************************************************)
(* A device whose clock is set by the handshake (GET /iclock/cdata, the     *)
(* TimeZone= line), the punches it takes and buffers, and the instants the   *)
(* server computes for them when they are uploaded (adms/cdata.ts).  One     *)
(* person punches, always the same way, so a reading is the dedupe key.      *)
(***************************************************************************)
EXTENDS DeviceTimezone

CONSTANTS
  Zones,        \* the zones an administrator may choose
  FirstOffsets, \* offsets a device's clock may have when it is unpacked
  Start,        \* the first instant
  Stride,       \* minutes between the instants that are looked at
  MaxTime,      \* bound: the last instant
  MaxPunches    \* bound: punches

ASSUME ZonesAssumption == Zones \subseteq {z \in Zone : Settled(z)}
ASSUME TimeAssumption ==
  /\ Start \in Int /\ MaxTime \in Int /\ MaxPunches \in Nat
  /\ Stride \in Nat \ {0}
  /\ FirstOffsets \subseteq Int

VARIABLES
  now,       \* the instant
  timezone,  \* Device.timezone
  clock,     \* the offset the device's clock runs at
  handshake, \* history: the last handshake, {} when there was none
  unsent,    \* punches the device has not uploaded
  stored,    \* the punch_records rows, with the history of their punch
  punches    \* how much of the bound is used

clockVars == <<now, timezone, clock, handshake, unsent, stored, punches>>

Handshakes == [at : Int, zone : Zones]
Taken == [at : Int, reading : Int, handshake : SUBSET Handshakes]
Row == [punch : Taken, punchTime : Int, punchTimeUtc : Int, zone : Zones]

ClockInit ==
  /\ now = Start
  /\ timezone \in Zones
  /\ clock \in FirstOffsets
  /\ handshake = {} /\ unsent = {} /\ stored = {}
  /\ punches = 0

Tick ==
  /\ now < MaxTime
  /\ now' = now + Stride
  /\ UNCHANGED <<timezone, clock, handshake, unsent, stored, punches>>

\* buildOptionsResponse sends the offset of this moment; the device keeps it
\* until its next handshake.
Handshake ==
  /\ clock' = OptionMeans(OptionValue(Offset(timezone, now)))
  /\ handshake' = {[at |-> now, zone |-> timezone]}
  /\ UNCHANGED <<now, timezone, unsent, stored, punches>>

Punch ==
  /\ punches < MaxPunches
  /\ punches' = punches + 1
  /\ unsent' = unsent \cup {[at |-> now, reading |-> now + clock, handshake |-> handshake]}
  /\ UNCHANGED <<now, timezone, clock, handshake, stored>>

StoredRow(p, z) ==
  [punch |-> p, punchTime |-> p.reading, punchTimeUtc |-> ToUtc(z, p.reading), zone |-> z]

\* storeAttlog: one row per reading; a row with that reading may be there
\* already, and then nothing is inserted or changed.
Upload ==
  /\ unsent # {}
  /\ \E fresh \in SUBSET {p \in unsent : \A r \in stored : r.punchTime # p.reading} :
       /\ \A p \in unsent :
            \/ \E r \in stored : r.punchTime = p.reading
            \/ \E q \in fresh : q.reading = p.reading
       /\ \A p, q \in fresh : p.reading = q.reading => p = q
       /\ stored' = stored \cup {StoredRow(p, timezone) : p \in fresh}
  /\ unsent' = {}
  /\ UNCHANGED <<now, timezone, clock, handshake, punches>>

\* PATCH /devices/:id: the device hears of it with its next handshake.
SetTimezone(z) ==
  /\ z # timezone
  /\ timezone' = z
  /\ UNCHANGED <<now, clock, handshake, unsent, stored, punches>>

ClockNext == Tick \/ Handshake \/ Punch \/ Upload \/ \E z \in Zones : SetTimezone(z)

ClockSpec == ClockInit /\ [][ClockNext]_clockVars

-----------------------------------------------------------------------------

ClockTypeOK ==
  /\ now \in Int
  /\ timezone \in Zones
  /\ clock \in Int
  /\ handshake \subseteq Handshakes
  /\ unsent \subseteq Taken
  /\ stored \subseteq Row
  /\ punches \in Nat

\* The zone's offset at the punch is the one its device was told last.
InStep(p, z) == \E h \in p.handshake : h.zone = z /\ Offset(z, h.at) = Offset(z, p.at)

\* A punch of a device that is in step with its zone is stored with the
\* instant it was taken at; when its reading occurs twice, with that instant or
\* the one a daylight-saving shift away.
ExactInStep ==
  \A r \in stored : InStep(r.punch, r.zone) =>
    \/ r.punchTimeUtc = r.punch.at
    \/ /\ Twice(r.zone, r.punchTime)
       /\ Reading(r.zone, r.punchTimeUtc) = r.punchTime

\* Every row has an instant that its zone's clocks show as its reading, or else
\* no instant does: the conversion never invents a third interpretation.
ValidInterpretation ==
  \A r \in stored :
    /\ r.punchTimeUtc \in {r.punchTime - r.zone.std, r.punchTime - r.zone.dst}
    /\ Shown(r.zone, r.punchTime) => Reading(r.zone, r.punchTimeUtc) = r.punchTime

\* What ExactInStep needs to be inductive.
ClockInv ==
  /\ \A h \in handshake : clock = Offset(h.zone, h.at)
  /\ \A p \in unsent : \A h \in p.handshake : p.reading = p.at + Offset(h.zone, h.at)
  /\ ExactInStep

=============================================================================
