SPECIFICATION Spec
CONSTANTS
  r1 = r1
  r2 = r2
  r3 = r3
  api1 = api1
  api2 = api2
  Caller <- Requests
  Process = {api1, api2}
  ProcessOf <- Processes
  Fingerprint <- Parameters
  MaxAttempts = 2
  MaxSequence = 1
INVARIANT AppliedOnce
CHECK_DEADLOCK FALSE
