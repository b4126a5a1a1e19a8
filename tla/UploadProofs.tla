---------------------------- MODULE UploadProofs ------------------------------
(***************************************************************************)
(* Theorems about what becomes of a punch on its way from a device to its     *)
(* row: AttlogIngest loses none that was answered OK, and DeviceClock stores   *)
(* the instant it was taken at.                                               *)
(***************************************************************************)
EXTENDS AttlogIngest, DeviceClock, TLAPS

-----------------------------------------------------------------------------
(* AttlogIngest: no record is lost. *)

\* Every variable keeps its type.
THEOREM TypeCorrect == Spec => []TypeOK
<1>1. Init => TypeOK
  <2> SUFFICES ASSUME Init PROVE TypeOK
    OBVIOUS
  <2> USE DEF Init
  <2>1. trusted \in BOOLEAN
    BY Zenon
  <2>2. pc \in [Requests -> {"idle", "resolve", "insert", "fallback", "ok", "retry"}]
    OBVIOUS
  <2>3. /\ batch \in [Requests -> SUBSET taken]
        /\ left \in [Requests -> SUBSET taken]
        /\ device \in [Requests -> Nat]
    OBVIOUS
  <2> QED
    BY <2>1, <2>2, <2>3 DEF TypeOK
<1>2. TypeOK /\ [Next]_vars => TypeOK'
  <2> SUFFICES ASSUME TypeOK, [Next]_vars PROVE TypeOK'
    OBVIOUS
  <2> USE DEF TypeOK, registry, atDevice, requests, history, bounds
  <2>1. ASSUME NEW x \in Records, Take(x) PROVE TypeOK'
    BY <2>1 DEF Take
  <2>2. ASSUME NEW x \in Records, Remove(x) PROVE TypeOK'
    BY <2>2 DEF Remove
  <2>3. ASSUME NEW r \in Requests, NEW records \in SUBSET buffer, Send(r, records)
        PROVE  TypeOK'
    BY <2>3 DEF Send
  <2>4. ASSUME NEW r \in Requests, Drop(r) PROVE TypeOK'
    BY <2>4 DEF Drop
  <2>5. ASSUME NEW r \in Requests, Resolve(r) PROVE TypeOK'
    BY <2>5 DEF Resolve
  <2>6. ASSUME NEW r \in Requests, InsertAll(r) PROVE TypeOK'
    BY <2>6 DEF InsertAll, Parsed, AfterRefusal
  <2>7. ASSUME NEW r \in Requests, NEW x \in Records, InsertOne(r, x) PROVE TypeOK'
    BY <2>7 DEF InsertOne, Stored
  <2>8. ASSUME NEW r \in Requests, Answer(r) PROVE TypeOK'
    BY <2>8 DEF Answer
  <2>9. ASSUME NEW r \in Requests, QueryFails(r) PROVE TypeOK'
    BY <2>9 DEF QueryFails, Fault, AnswerWithoutDatabase
  <2>10. CASE GiveUp
    BY <2>10 DEF GiveUp, Fault
  <2>11. CASE Crash
    BY <2>11 DEF Crash, Fault
  <2>12. CASE Register
    BY <2>12 DEF Register, Change
  <2>13. CASE ChangeSecret
    BY <2>13 DEF ChangeSecret, Change
  <2>14. CASE DeleteDevice
    <3>1. trusted' \in BOOLEAN
      BY <2>14, Zenon DEF DeleteDevice
    <3>2. UNION {batch[r] : r \in {q \in Requests : pc[q] \in {"insert", "fallback"}}}
            \subseteq taken
      OBVIOUS
    <3>3. orphaned' \subseteq taken
      BY <2>14, <3>2 DEF DeleteDevice
    <3> QED
      BY <2>14, <3>1, <3>3 DEF DeleteDevice
  <2>15. CASE UNCHANGED vars
    BY <2>15 DEF vars
  <2> QED
    BY <2>1, <2>2, <2>3, <2>4, <2>5, <2>6, <2>7, <2>8, <2>9, <2>10, <2>11, <2>12, <2>13,
       <2>14, <2>15
    DEF Next, Serve
<1> QED
  BY <1>1, <1>2, PTL DEF Spec

\* The inductive invariant of the upload: what a request is about to answer OK
\* is accounted for.
THEOREM IngestInvariant == Spec => []IngestInv
<1>1. Init => IngestInv
  BY DEF Init, IngestInv, NothingLost, Discarded
<1>2. TypeOK /\ IngestInv /\ [Next]_vars => IngestInv'
  <2> SUFFICES ASSUME TypeOK, IngestInv, [Next]_vars PROVE IngestInv'
    OBVIOUS
  <2> USE DEF TypeOK, IngestInv, NothingLost, Discarded, Accounted, Hopeless
  <2> USE DEF registry, atDevice, requests, history, bounds
  <2>1. ASSUME NEW x \in Records, Take(x) PROVE IngestInv'
    BY <2>1 DEF Take
  <2>2. ASSUME NEW x \in Records, Remove(x) PROVE IngestInv'
    BY <2>2 DEF Remove
  <2>3. ASSUME NEW r \in Requests, NEW records \in SUBSET buffer, Send(r, records)
        PROVE  IngestInv'
    BY <2>3 DEF Send
  <2>4. ASSUME NEW r \in Requests, Drop(r) PROVE IngestInv'
    BY <2>4 DEF Drop
  <2>5. ASSUME NEW r \in Requests, Resolve(r) PROVE IngestInv'
    BY <2>5 DEF Resolve
  <2>6. ASSUME NEW r \in Requests, InsertAll(r) PROVE IngestInv'
    BY <2>6 DEF InsertAll, Parsed, AfterRefusal, Refused
  <2>7. ASSUME NEW r \in Requests, NEW x \in Records, InsertOne(r, x) PROVE IngestInv'
    BY <2>7 DEF InsertOne, Stored
  <2>8. ASSUME NEW r \in Requests, Answer(r) PROVE IngestInv'
    BY <2>8 DEF Answer
  <2>9. ASSUME NEW r \in Requests, QueryFails(r) PROVE IngestInv'
    BY <2>9 DEF QueryFails, Fault, AnswerWithoutDatabase
  <2>10. CASE GiveUp
    BY <2>10 DEF GiveUp, Fault
  <2>11. CASE Crash
    BY <2>11 DEF Crash, Fault
  <2>12. CASE Register
    BY <2>12 DEF Register, Change
  <2>13. CASE ChangeSecret
    BY <2>13 DEF ChangeSecret, Change
  <2>14. CASE DeleteDevice
    BY <2>14 DEF DeleteDevice
  <2>15. CASE UNCHANGED vars
    BY <2>15 DEF vars
  <2> QED
    BY <2>1, <2>2, <2>3, <2>4, <2>5, <2>6, <2>7, <2>8, <2>9, <2>10, <2>11, <2>12, <2>13,
       <2>14, <2>15
    DEF Next, Serve
<1> QED
  BY <1>1, <1>2, TypeCorrect, PTL DEF Spec

\* A record the device has discarded was stored, or could never be, or belonged
\* to a body that was too large, or its device was deleted under the request.
THEOREM NothingIsLost == Spec => []NothingLost
<1>1. IngestInv => NothingLost
  BY DEF IngestInv
<1> QED
  BY <1>1, IngestInvariant, PTL

-----------------------------------------------------------------------------
(* DeviceClock: the conversion of readings into instants is exact for every zone *)
(* with one daylight-saving period, every instant and every offset.              *)

LEMMA ZoneFields ==
  ASSUME NEW z \in Zone
  PROVE  /\ z.std \in Int /\ z.dst \in Int /\ z.on \in Int /\ z.off \in Int
         /\ -840 <= z.std /\ z.std <= 840 /\ -840 <= z.dst /\ z.dst <= 840
         /\ z.std % 15 = 0 /\ z.dst % 15 = 0
<1>1. z.std \in ZoneOffset /\ z.dst \in ZoneOffset /\ z.on \in Int /\ z.off \in Int
  BY DEF Zone
<1>2. \A o \in ZoneOffset : o \in Int /\ -840 <= o /\ o <= 840 /\ o % 15 = 0
  BY DEF ZoneOffset, MaxOffset
<1> QED BY <1>1, <1>2

LEMMA OffsetType ==
  ASSUME NEW z \in Zone, NEW t \in Int
  PROVE  Offset(z, t) \in ZoneOffset
BY DEF Zone, Offset

\* zonedWallClockToUtc always answers one of the two interpretations of a
\* reading, and a valid one whenever the zone's clocks show that reading.
THEOREM ConversionIsValid ==
  ASSUME NEW z \in Zone, Settled(z), NEW w \in Int
  PROVE  /\ ToUtc(z, w) \in {w - z.std, w - z.dst}
         /\ Shown(z, w) => Reading(z, ToUtc(z, w)) = w
<1>1. z.on + 1680 < z.off
  BY DEF Settled, MaxOffset
<1>2. ToUtc(z, w) \in {w - z.std, w - z.dst}
  BY ZoneFields DEF ToUtc, Offset
<1>3. ASSUME Shown(z, w) PROVE Reading(z, ToUtc(z, w)) = w
  <2>1. \/ w - z.std + Offset(z, w - z.std) = w
        \/ w - z.dst + Offset(z, w - z.dst) = w
    BY <1>3 DEF Shown, Reading
  <2> QED BY <1>1, <2>1, ZoneFields DEF ToUtc, Offset, Reading
<1> QED BY <1>2, <1>3

\* A reading that was really shown converts back to its instant, or to another
\* instant with the same reading.
THEOREM ConversionIsExact ==
  ASSUME NEW z \in Zone, Settled(z), NEW t \in Int
  PROVE  \/ ToUtc(z, Reading(z, t)) = t
         \/ /\ Twice(z, Reading(z, t))
            /\ Reading(z, ToUtc(z, Reading(z, t))) = Reading(z, t)
<1> DEFINE w == Reading(z, t)
<1>1. w \in Int /\ t \in {w - z.std, w - z.dst}
  BY ZoneFields DEF Reading, Offset
<1>2. Shown(z, w)
  BY <1>1 DEF Shown
<1>3. ToUtc(z, w) \in {w - z.std, w - z.dst} /\ Reading(z, ToUtc(z, w)) = w
  BY <1>1, <1>2, ConversionIsValid
<1> QED BY <1>1, <1>3, ZoneFields DEF Twice

\* The TimeZone= option means the offset it encodes, for every offset in use.
LEMMA OptionIsUnambiguous ==
  ASSUME NEW o \in ZoneOffset
  PROVE  OptionMeans(OptionValue(o)) = o
<1>1. o \in Int /\ -840 <= o /\ o <= 840 /\ o % 15 = 0
  BY DEF ZoneOffset, MaxOffset
<1>2. CASE o % 60 = 0
  <2>1. PICK h \in Int : o = 60 * h
    BY <1>1, <1>2
  <2>2. o \div 60 = h /\ -15 < h /\ h < 15
    BY <1>1, <2>1
  <2> QED BY <1>2, <2>1, <2>2 DEF OptionValue, OptionMeans
<1>3. CASE o % 60 # 0
  <2>1. PICK q \in Int : o = 15 * q
    BY <1>1
  <2>2. q # 0
    BY <1>3, <2>1
  <2>3. ~(-15 < o /\ o < 15)
    BY <2>1, <2>2
  <2> QED BY <1>3, <2>3 DEF OptionValue, OptionMeans
<1> QED BY <1>2, <1>3

LEMMA ZonesAreZones == \A z \in Zones : z \in Zone /\ Settled(z)
BY ZonesAssumption

LEMMA ConversionType ==
  ASSUME NEW z \in Zones, NEW w \in Int
  PROVE  ToUtc(z, w) \in Int
BY ZonesAreZones, ConversionIsValid, ZoneFields

\* Every variable keeps its type.
THEOREM ClockTypes == ClockSpec => []ClockTypeOK
<1>1. ClockInit => ClockTypeOK
  BY TimeAssumption DEF ClockInit, ClockTypeOK
<1>2. ClockTypeOK /\ [ClockNext]_clockVars => ClockTypeOK'
  <2> SUFFICES ASSUME ClockTypeOK, [ClockNext]_clockVars PROVE ClockTypeOK'
    OBVIOUS
  <2> USE DEF ClockTypeOK
  <2>1. CASE Tick
    BY <2>1, TimeAssumption DEF Tick
  <2>2. CASE Handshake
    <3>1. OptionMeans(OptionValue(Offset(timezone, now))) \in Int
      BY ZonesAreZones, OffsetType, OptionIsUnambiguous DEF ZoneOffset
    <3> QED BY <2>2, <3>1 DEF Handshake, Handshakes
  <2>3. CASE Punch
    BY <2>3 DEF Punch, Taken
  <2>4. CASE Upload
    <3>1. ASSUME NEW p \in unsent PROVE StoredRow(p, timezone) \in Row
      BY ConversionType DEF StoredRow, Row, Taken
    <3>2. stored' \subseteq Row
      BY <2>4, <3>1 DEF Upload
    <3> QED BY <2>4, <3>2 DEF Upload
  <2>5. ASSUME NEW z \in Zones, SetTimezone(z) PROVE ClockTypeOK'
    BY <2>5 DEF SetTimezone
  <2>6. CASE UNCHANGED clockVars
    BY <2>6 DEF clockVars
  <2> QED BY <2>1, <2>2, <2>3, <2>4, <2>5, <2>6 DEF ClockNext
<1> QED BY <1>1, <1>2, PTL DEF ClockSpec

\* A punch taken by a device in step with its zone converts to the instant it
\* was taken at.
LEMMA InStepIsExact ==
  ASSUME NEW p \in Taken, NEW z \in Zones, InStep(p, z),
         \A h \in p.handshake : p.reading = p.at + Offset(h.zone, h.at)
  PROVE  \/ ToUtc(z, p.reading) = p.at
         \/ /\ Twice(z, p.reading)
            /\ Reading(z, ToUtc(z, p.reading)) = p.reading
<1>1. p.reading = Reading(z, p.at) /\ p.at \in Int
  BY DEF InStep, Reading, Taken
<1> QED BY <1>1, ZonesAreZones, ConversionIsExact

(***************************************************************************)
(* Across handshakes, buffering, re-uploads and changes of the timezone: a   *)
(* punch taken while its device is in step with the zone it is uploaded      *)
(* under is stored with its real instant, up to the one ambiguity of a       *)
(* reading that occurs twice.                                                *)
(***************************************************************************)
THEOREM PunchesAreExact == ClockSpec => []ExactInStep
<1>1. ClockInit => ClockInv
  BY DEF ClockInit, ClockInv, ExactInStep
<1>2. ClockTypeOK /\ ClockInv /\ [ClockNext]_clockVars => ClockInv'
  <2> SUFFICES ASSUME ClockTypeOK, ClockInv, [ClockNext]_clockVars PROVE ClockInv'
    OBVIOUS
  <2>1. CASE Handshake
    <3>1. OptionMeans(OptionValue(Offset(timezone, now))) = Offset(timezone, now)
      BY ZonesAreZones, OffsetType, OptionIsUnambiguous DEF ClockTypeOK
    <3>2. \A h \in handshake' : clock' = Offset(h.zone, h.at)
      BY <2>1, <3>1 DEF Handshake
    <3> QED BY <2>1, <3>2 DEF Handshake, ClockInv, ExactInStep
  <2>2. CASE Punch
    BY <2>2 DEF Punch, ClockInv, ExactInStep
  <2>3. CASE Upload
    <3>1. ASSUME NEW p \in unsent, InStep(p, timezone)
          PROVE  \/ ToUtc(timezone, p.reading) = p.at
                 \/ /\ Twice(timezone, p.reading)
                    /\ Reading(timezone, ToUtc(timezone, p.reading)) = p.reading
      BY <3>1, InStepIsExact DEF ClockInv, ClockTypeOK
    <3>2. \A r \in stored' : r \in stored \/ \E p \in unsent : r = StoredRow(p, timezone)
      BY <2>3 DEF Upload
    <3>3. ExactInStep'
      BY <3>1, <3>2 DEF ExactInStep, ClockInv, StoredRow
    <3> QED BY <2>3, <3>3 DEF Upload, ClockInv
  <2>4. CASE Tick \/ (\E z \in Zones : SetTimezone(z)) \/ UNCHANGED clockVars
    BY <2>4 DEF Tick, SetTimezone, clockVars, ClockInv, ExactInStep
  <2> QED BY <2>1, <2>2, <2>3, <2>4 DEF ClockNext
<1>3. ClockInv => ExactInStep
  BY DEF ClockInv
<1> QED BY <1>1, <1>2, <1>3, ClockTypes, PTL DEF ClockSpec

\* No stored instant is a third interpretation of its reading.
THEOREM RowsAreValid == ClockSpec => []ValidInterpretation
<1>1. ClockInit => ValidInterpretation
  BY DEF ClockInit, ValidInterpretation
<1>2. ClockTypeOK /\ ValidInterpretation /\ [ClockNext]_clockVars => ValidInterpretation'
  <2> SUFFICES ASSUME ClockTypeOK, ValidInterpretation, [ClockNext]_clockVars PROVE ValidInterpretation'
    OBVIOUS
  <2>1. CASE Upload
    <3>1. ASSUME NEW p \in unsent
          PROVE  /\ ToUtc(timezone, p.reading) \in {p.reading - timezone.std, p.reading - timezone.dst}
                 /\ Shown(timezone, p.reading) => Reading(timezone, ToUtc(timezone, p.reading)) = p.reading
      BY ZonesAreZones, ConversionIsValid DEF ClockTypeOK, Taken
    <3>2. \A r \in stored' : r \in stored \/ \E p \in unsent : r = StoredRow(p, timezone)
      BY <2>1 DEF Upload
    <3> QED BY <3>1, <3>2 DEF ValidInterpretation, StoredRow
  <2>2. CASE stored' = stored
    BY <2>2 DEF ValidInterpretation
  <2> QED BY <2>1, <2>2 DEF ClockNext, Tick, Handshake, Punch, SetTimezone, clockVars
<1> QED BY <1>1, <1>2, ClockTypes, PTL DEF ClockSpec

===============================================================================
