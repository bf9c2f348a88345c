SPECIFICATION MCSpec
CONSTANTS
  yes = yes
  pin = pin
  no = no
  send = send
  pinAgain = pinAgain
  Message = {pin, send}
  Timestamp <- Times
  Text <- Words
  MaxAsked = 2
  MaxSent = 2
  Worker = {w1, w2}
  NoWorker = NoWorker
  MaxAttempts = 2
  Slow = TRUE
  RedisFails = FALSE
  Quote = {}
  Payer = {}
  Refund = {}
  Asked <- AskedAmounts
  Original = 1
  Send = {}
  Amount <- Amounts
  Customers <- Profiles
  Operator = {}
  Approval = {}
  Override = {}
  Application = {}
  Callback = {}
  Screening = {}
  MaxReviews = 0
SYMMETRY Workers
INVARIANT PaidOnce
CHECK_DEADLOCK FALSE
