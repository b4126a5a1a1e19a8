CONSTANTS
  x1 = x1
  x2 = x2
  x3 = x3
  r1 = r1
  r2 = r2
  NoRequest = NoRequest
  Records = {x1, x2}
  Unparseable = {x2}
  Unstorable = {}
  MaxBody = 2
  Requests = {r1}
  MaxFaults = 0
  MaxChanges = 0
  MaxRemovals = 0
SPECIFICATION Spec
INVARIANT OnlyHopelessDropped
CHECK_DEADLOCK FALSE
