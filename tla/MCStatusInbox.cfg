SPECIFICATION FairSpec
CONSTANTS
  Call = {c1}
  MaxPosts = 1
  MaxStamp = 1
  Slow = TRUE
  Callback <- TwoCallbacks
  Stamp <- Stamps
  Background = {timer}
  Inline = {request}
  MaxAttempts = 2
  MaxFaults = 1
INVARIANTS
  CallbacksAccounted
PROPERTIES
  SendingEnds
  EventsSettle
CHECK_DEADLOCK FALSE
