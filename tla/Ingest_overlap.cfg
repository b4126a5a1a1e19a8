CONSTANTS
  x1 = x1
  x2 = x2
  x3 = x3
  r1 = r1
  r2 = r2
  NoRequest = NoRequest
  Records = {x1, x2, x3}
  Unparseable = {x2}
  Unstorable = {x3}
  MaxBody = 2
  Requests = {r1, r2}
  MaxFaults = 1
  MaxChanges = 1
  MaxRemovals = 1
SPECIFICATION FairSpec
INVARIANTS TypeOK NothingLost
PROPERTIES NeverWedged
CHECK_DEADLOCK FALSE
