CONSTANTS
  Zones <- ThreeZones
  FirstOffsets = {480}
  Start <- BeforeSummer
  Stride = 30
  MaxTime = 90
  MaxPunches = 2
SPECIFICATION ClockSpec
INVARIANTS ExactInStep ValidInterpretation
