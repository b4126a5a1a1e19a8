CONSTANTS
  p1 = p1
  p2 = p2
  d1 = d1
  w1 = w1
  w2 = w2
  NoPunch = NoPunch
  Punches = {p1}
  Devices = {d1}
  DeviceOf <- OneDevice
  Workers = {w1, w2}
  MaxChoices = {2}
  BatchSize = 1
  MaxRetries = 1
  MaxFaults = 1
  MaxChanges = 1
SPECIFICATION Spec
SYMMETRY WorkerSymmetry
INVARIANTS DeliveredMatchesLog FilterMatchesBadge FailedPageNeverNA PendingIsScheduled NeverGivenUpEarly
PROPERTIES DeliveryIsFinal IsLifecycle
