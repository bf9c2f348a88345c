SPECIFICATION MCSpec
CONSTANTS
  Attempt = {a1, a2}
  FailureLimit = 2
  MaxGuesses = 4
  Admin = {d1, d2}
  MaxChanges = 4
  Challenge = {g1, g2}
  Login = {l1, l2, l3}
  Visit = {u1, u2}
  GeneralMax = 2
  SendMax = 1
  RateWindow = 2
  MaxMoment = 3
  MaxHits = 5
  Keyword = {k1, k2}
  Ask = {q1}
  Officer = {n1, n2}
  ById = {voice}
  ByRecord = {whatsapp}
  MaxTasks = 2
  Hold = {h1, h2}
  Old = {"Notification", "RestSession"}
  MaxSweeps = 2
  Key = {s1, s2}
  Caller = {n1, n2}
  MaxTries = 1
  Secret = {s1, s2}
  Rotator = {t1}
  Call = {n1, n2}
  MaxPosts = 1
  MaxStamp = 0
  Slow = TRUE
  MaxToken = 4
  Inbound = {2, 3}
  PageSize = 2
  MaxAttempts = 2
  MaxFaults = 1
  n1 = n1
  n2 = n2
  a1 = a1
  a2 = a2
  d1 = d1
  d2 = d2
  k1 = k1
  k2 = k2
  q1 = q1
  voice = voice
  whatsapp = whatsapp
  h1 = h1
  h2 = h2
  s1 = s1
  s2 = s2
  g1 = g1
  g2 = g2
  l1 = l1
  l2 = l2
  l3 = l3
  u1 = u1
  u2 = u2
  t1 = t1
SYMMETRY Alike
INVARIANTS
  AccessTells
  KeywordApplies
  CompletedIsErased
  WalletTells
  KeyServes
  RecordedBelowCursor
  DeliveredIsTold
  OneSender
PROPERTIES
  HeldDataStays
CHECK_DEADLOCK FALSE
