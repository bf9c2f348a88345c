SPECIFICATION Spec
CONSTANTS
  Payment = {p1, p2}
  Alike = {{p1, p2}}
  NoHash = NoHash
  MaxTime = 3
  StaleAge = 1
  LedgerWindow = 2
  Reconciler = {r1}
INVARIANTS
  SuccessIsOnChain
  NeverBothEntries
PROPERTIES
  DecisionsKept
CHECK_DEADLOCK FALSE
