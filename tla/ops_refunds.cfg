CONSTANTS
  p1 = p1
  p2 = p2
  None = None
  Payments = {p1, p2}
  Keys = {k1, k2}
  Workers = {w1, w2}
  Provider <- ProviderOf
  Authorized = {p1}
  Amount <- Two
  Requests <- Everything
  PartialFlag = FALSE
  Nameless = TRUE
  MaxCrashes = 1
SPECIFICATION Spec
SYMMETRY Symmetric
INVARIANTS TypeOK RefundsWithinPayment SuccessIsDone FailureIsNotDone OnePending CollectedIfCaptured
PROPERTIES BookSpec ResultIsFinal
CHECK_DEADLOCK FALSE
