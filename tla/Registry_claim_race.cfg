CONSTANTS
  s1 = s1
  s2 = s2
  t1 = t1
  k1 = k1
  k2 = k2
  a1 = a1
  None = None
  Generated = Generated
  Secrets = {s1, s2}
  Companies = {t1}
  Pings = {k1}
  Claims = {a1}
  MaxFaults = 0
  MaxRows = 2

SPECIFICATION Spec
PROPERTY ClaimCarriesSecret
