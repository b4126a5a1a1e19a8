CONSTANTS
  e1 = e1
  e2 = e2
  ip = ip
  ipSignup = ipSignup
  b = b
  c = c
  d = d
  None = None
  Emails = {e1, e2}
  Keys = {e1, e2, ip, ipSignup}
  Clients = {b, c, d}
  Panels = {b}
  Address <- OneAddress
  SignupKey <- OneSignupKey
  Limit <- SmallLimits
  Window <- SmallWindows
SPECIFICATION FairSpec
INVARIANTS TypeOK FailureBound PanelShowsSession
PROPERTY BlocksEnd
