CONSTANTS
  p1 = p1
  p2 = p2
  w1 = w1
  w2 = w2
  w3 = w3
  NoPunch = NoPunch
  Workers = {w1, w2}
  Punches = {p1}
  BatchSize = 1
  Lease = 2
  Timeout = 4
  Backoff = 1
  Ahead <- InStep
  MaxRetries = 0
  MaxTime = 8
SPECIFICATION Spec
INVARIANTS OneSender
CHECK_DEADLOCK FALSE
