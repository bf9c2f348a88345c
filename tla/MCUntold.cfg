SPECIFICATION Spec
CONSTANTS
  Call = {s1}
  MaxPosts = 1
  MaxStamp = 0
  Slow = TRUE
  MaxToken = 4
  Inbound = {2, 3}
  PageSize = 2
  MaxAttempts = 2
  MaxFaults = 0
INVARIANT
  NoLostAlert
CHECK_DEADLOCK FALSE
