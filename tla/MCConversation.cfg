SPECIFICATION MCSpec
CONSTANTS
  yes = yes
  pin = pin
  no = no
  send = send
  pinAgain = pinAgain
  Message = {yes, pin, no, send, pinAgain}
  Timestamp <- Times
  Text <- Words
  MaxAsked = 2
  MaxSent = 2
  Worker = {w1, w2}
  NoWorker = NoWorker
  MaxAttempts = 2
  Slow = FALSE
  RedisFails = FALSE
  Quote = {q1, q2, q3}
  Payer = {p1, p2}
  Refund = {f1, f2, f3}
  Asked <- AskedAmounts
  Original = 5
  Send = {s1, s2, s3}
  Amount <- Amounts
  Customers <- Profiles
  Operator = {w1, w2}
  Approval = {v1}
  Override <- Overrides
  Application = {y1}
  Callback = {c1}
  Screening = {g1}
  MaxReviews = 2
  w1 = w1
  w2 = w2
  v1 = v1
  y1 = y1
  c1 = c1
  g1 = g1
SYMMETRY Workers
INVARIANTS
  PaidAsConfirmed
  RequestPaidOnce
  RefundedWithin
  DailyLimit
  UserFollows
PROPERTIES
  CancelledStaysUnpaid
  DecisionsStand
CHECK_DEADLOCK FALSE
