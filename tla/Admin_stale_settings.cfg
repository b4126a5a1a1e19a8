CONSTANTS
  e1 = e1
  e2 = e2
  e3 = e3
  p1 = p1
  p2 = p2
  s1 = s1
  s2 = s2
  h1 = h1
  a = a
  b = b
  r1 = r1
  r2 = r2
  None = None
  NotLoaded = NotLoaded
  Emails = {e2, e3}
  Slugs = {s1, s2}
  Passwords = {p2}
  BootEmail = e1
  FirstPassword = p1
  Requests = {}
  FirstUsers <- TwoUsers
  FirstCompanies <- OneCompany
  MaxWrites = 4
  Tabs = {a, b}
  SettingFields = {"webhookMaxAttempts"}
  HookFields = {"webhookBodyTemplate"}
  Urls = {h1}
SPECIFICATION Spec
PROPERTY SavesWhatWasEdited
CHECK_DEADLOCK FALSE
