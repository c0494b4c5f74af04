CONSTANTS
  None = None
  Bills = {b1}
  Total <- OneTotal
  Intents = {1}
  Workers = {w1, w2}
  Providers = {"paymob"}
  Genuine = {TRUE}
  Commands = {"present", "manual", "cancel"}
  MaxAttempts = 1
  MaxCrashes = 0
SPECIFICATION Spec
SYMMETRY Symmetric
PROPERTIES FinalStatusStays
CHECK_DEADLOCK FALSE
