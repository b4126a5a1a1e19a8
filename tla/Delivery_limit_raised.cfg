CONSTANTS
  p1 = p1
  p2 = p2
  d1 = d1
  w1 = w1
  w2 = w2
  NoPunch = NoPunch
  Punches = {p1}
  Devices = {d1}
  DeviceOf <- OneDevice
  Workers = {w1}
  MaxChoices = {1, 2}
  BatchSize = 1
  MaxRetries = 0
  MaxFaults = 0
  MaxChanges = 1
SPECIFICATION Spec
INVARIANT PendingIsScheduled
