SPECIFICATION FairMCSpec
CONSTANTS
  older = older
  newer = newer
  Message = {older, newer}
  Timestamp <- Times
  Worker = {w1, w2}
  NoWorker = NoWorker
  MaxAttempts = 2
  Slow = TRUE
  RedisFails = TRUE
  Call = {s1, s2}
  MaxPosts = 1
  MaxStamp = 0
  MaxToken = 2
  Deposit = {2}
  PageSize = 2
  MaxFaults = 1
PROPERTIES
  OrderKept
  JobsSettle
  DepositsSettle
CHECK_DEADLOCK FALSE
