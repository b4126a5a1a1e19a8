CONSTANTS
  c1 = c1
  c2 = c2
  c3 = c3
  q1 = q1
  q2 = q2
  NoPoll = NoPoll
  Commands = {c1, c2, c3}
  Polls = {q1, q2}
  PollLimit = 1
  MaxFaults = 1
  MaxChanges = 1
SPECIFICATION FairSpec
INVARIANT PendingIsUnseen
PROPERTIES OnlyLatePollUnacks IsChannel EverySent
