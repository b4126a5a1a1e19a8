---------------------------- MODULE DeviceTimezone ----------------------------
(***************************************************************************)
(* adms/timezone.ts: wall-clock readings, instants and the TimeZone= option. *)
(* Instants, readings and offsets are integers of one unit; a reading is the *)
(* instant whose UTC digits it has, as parseDeviceDatetime encodes it.       *)
(*                                                                           *)
(* The tz database is abstracted to one daylight-saving period per zone:     *)
(* the offset is std, and dst from the instant on until the instant off.     *)
(***************************************************************************)
EXTENDS Integers

\* Minutes: no zone is further from UTC than 14 hours, and all are a multiple
\* of a quarter of an hour from it.
MaxOffset == 840
ZoneOffset == {o \in -MaxOffset .. MaxOffset : o % 15 = 0}

Zone == [std : ZoneOffset, dst : ZoneOffset, on : Int, off : Int]

\* offsetMs: zonedWallClockNow(instant) - instant, by the tz database.
Offset(z, t) == IF z.on <= t /\ t < z.off THEN z.dst ELSE z.std

\* zonedWallClockNow: the reading that z shows at instant t.
Reading(z, t) == t + Offset(z, t)

\* Conversions of plausible bugs: a single pass, and the offset added.
OnePass(z, w) == w - Offset(z, w)
WrongSign(z, w) ==
  LET estimate == w + Offset(z, w)
  IN w + Offset(z, estimate)

\* zonedWallClockToUtc: guess with the offset at the reading itself, then once
\* more with the offset at the estimate.
ToUtc(z, w) ==
  LET offset1 == Offset(z, w)
      estimate == w - offset1
      offset2 == Offset(z, estimate)
  IN IF offset2 = offset1 THEN estimate ELSE w - offset2

\* computeTimeZoneOptionValue, offsets in minutes: whole hours as hours,
\* anything else as minutes ...
OptionValue(minutes) == IF minutes % 60 = 0 THEN minutes \div 60 ELSE minutes

\* ... and what a device makes of it (its firmware is not part of the
\* repository: the encodings are those the comment describes).
OptionMeans(v) == IF -15 < v /\ v < 15 THEN 60 * v ELSE v

\* Readings that no instant shows (the clocks went forward), or two.
Shown(z, w) == \E t \in {w - z.std, w - z.dst} : Reading(z, t) = w
Twice(z, w) == z.std # z.dst /\ \A t \in {w - z.std, w - z.dst} : Reading(z, t) = w

\* Daylight saving lasts long enough for a conversion to meet one of its ends
\* only.
Settled(z) == z.on + 2 * MaxOffset < z.off

=============================================================================
