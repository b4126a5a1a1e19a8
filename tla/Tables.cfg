CONSTANTS
  device = device
  otherDevice = otherDevice
  noDevice = noDevice
  all = all
  some = some
  None = None
  Ids = {1, 2, 3}
  FirstRows = {{1, 2}, {1, 2, 3}}
  Value <- TwoAlike
  Filters = {device, otherDevice, noDevice}
  Closed = {noDevice}
  Passing <- OfDevice
  Searches = {all, some}
  NoSearch = all
  Found <- FindsTwo
  PageSizes = {2}
  MaxEvents = 4
SPECIFICATION Spec
CHECK_DEADLOCK FALSE
INVARIANTS RowsMatchQuery SelectionIsShown WalkSeesAll
