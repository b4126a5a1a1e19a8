CONSTANTS
  device = device
  otherDevice = otherDevice
  noDevice = noDevice
  all = all
  some = some
  None = None
  Ids = {1, 2, 3}
  FirstRows = {{1, 2, 3}}
  Value <- TwoAlike
  Filters = {device}
  Closed = {}
  Passing <- OfDevice
  Searches = {all}
  NoSearch = all
  Found <- FindsTwo
  PageSizes = {2}
  MaxEvents = 2
SPECIFICATION Spec
CHECK_DEADLOCK FALSE
INVARIANT ArrowTellsTheTruth
