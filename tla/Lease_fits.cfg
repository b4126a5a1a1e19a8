CONSTANTS
  p1 = p1
  p2 = p2
  w1 = w1
  w2 = w2
  w3 = w3
  NoPunch = NoPunch
  Workers = {w1, w2, w3}
  Punches = {p1, p2}
  BatchSize = 2
  Lease = 6
  Timeout = 2
  Backoff = 3
  Ahead <- Behind
  MaxRetries = 1
  MaxTime = 9
SPECIFICATION Spec
SYMMETRY Symmetry
INVARIANT OneHolderPerRetry
CHECK_DEADLOCK FALSE
