CONSTANTS
  s1 = s1
  s2 = s2
  t1 = t1
  k1 = k1
  k2 = k2
  a1 = a1
  None = None
  Generated = Generated
  Secrets = {s1, s2}
  Companies = {t1}
  Pings = {k1, k2}
  Claims = {a1}
  MaxFaults = 1
  MaxRows = 2

SPECIFICATION FairSpec
INVARIANTS TypeOK ReadStaysTrue FirstContactAccounted
PROPERTIES NeverOverwritten EventuallyListed
