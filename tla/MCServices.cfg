SPECIFICATION MCSpec
CONSTANTS
  Message = {message}
  Timestamp <- Times
  Worker = {w1}
  NoWorker = NoWorker
  MaxAttempts = 2
  Slow = TRUE
  RedisFails = TRUE
  Handler = {h1, h2}
  Amounts <- TriedAmounts
  Rates <- TriedRates
  Precisions <- TriedPrecisions
  Fetch = {x1, x2}
  FreshAge = 1
  StaleAge = 2
  SourceAge = 1
  CircuitThreshold = 2
  Cooldown = 2
  MaxTries = 2
  MaxClock = 6
  Writer = {f1, f2, f3}
  Lagging = {f3}
  MaxRows = 4
  Event = {1, 2}
  Delivery = {d1, d2, d3}
  Endpoints <- TwoEndpoints
  Request = {r1, r2}
  Threshold = 2
  CoolDown = 2
  AdminUser = {a1, a2}
  Bootstrap = a1
  Session = {p1, p2}
  AdminCall = {p1, p2}
  MaxPassword = 2
  Chat = {g1, g2}
  Phone = {n1, n2}
  Update = {q1, q2, q3}
  Handling = {p1, p2}
  SendTries = 2
  Person = {m1, m2}
  Customer = {v1, v2, v3}
  Note = {y1, y2, y3}
  Contact = {y1, y2}
  MaxMigrations = 2
  Ids = {1, 2, 3}
  Matching = {1, 3}
  PageSize = 1
  MaxStamp = 1
  MaxFetches = 3
  Listed = {i1, i2}
  MaxLookups = 2
  Operator = {p1, p2}
  Letter = {l1}
  Runner = {p1, p2}
  MaxFailures = 1
  KycStaleAge = 2
  EscalateAge = 1
  ScreenAge = 2
  RepeatAge = 1
  MaxAge = 3
  l1 = l1
  message = message
  w1 = w1
  h1 = h1
  h2 = h2
  x1 = x1
  x2 = x2
  q1 = q1
  q2 = q2
  q3 = q3
  p1 = p1
  p2 = p2
  f1 = f1
  f2 = f2
  f3 = f3
  d1 = d1
  d2 = d2
  d3 = d3
  r1 = r1
  r2 = r2
  a1 = a1
  a2 = a2
  g1 = g1
  g2 = g2
  n1 = n1
  n2 = n2
  m1 = m1
  m2 = m2
  v1 = v1
  v2 = v2
  v3 = v3
  y1 = y1
  y2 = y2
  y3 = y3
  i1 = i1
  i2 = i2
SYMMETRY Alike
INVARIANTS
  QueuedHasJob
  MoneyExact
  RateAgeBounded
  LogStands
  EffectOnce
  WriteOnce
  AdministrationHolds
  AnswersGoHome
  NumbersMigrated
  ListsTell
  DoneOnce
PROPERTY RemindersSpaced
CHECK_DEADLOCK FALSE
