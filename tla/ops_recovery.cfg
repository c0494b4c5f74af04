CONSTANTS
  p1 = p1
  p2 = p2
  None = None
  Payments = {p1}
  Keys = {k1}
  Workers = {w1, w2}
  Provider <- ProviderOf
  Authorized = {}
  Amount <- Two
  Requests <- Everything
  PartialFlag = FALSE
  Nameless = FALSE
  MaxCrashes = 1
SPECIFICATION FairSpec
PROPERTIES DoneIsRecorded
CHECK_DEADLOCK FALSE
