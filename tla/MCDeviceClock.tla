---------------------------- MODULE MCDeviceClock -----------------------------
(* Small instances of DeviceClock for TLC: instants around the two ends of a *)
(* daylight-saving period, which is cut short to keep them few.              *)
EXTENDS DeviceClock

\* New York when daylight saving begins, Lord Howe Island (half an hour of it,
\* east of UTC) when it ends, both at instant 0, and Kathmandu without.
Eastern == [std |-> -300, dst |-> -240, on |-> 0, off |-> 1800]
LordHowe == [std |-> 630, dst |-> 660, on |-> -1800, off |-> 0]
Kathmandu == [std |-> 345, dst |-> 345, on |-> 0, off |-> 1800]
ThreeZones == {Eastern, LordHowe, Kathmandu}

\* Start is negative: a .cfg has no negative numbers.
BeforeSummer == -60

=============================================================================
