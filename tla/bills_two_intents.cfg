CONSTANTS
  None = None
  Bills = {b1}
  Total <- OneTotal
  Intents = {1, 2}
  Workers = {w1, w2}
  Providers = {"paymob"}
  Genuine = {TRUE}
  Commands = {"pay", "present", "manual", "webhook", "recover"}
  MaxAttempts = 1
  MaxCrashes = 0
SPECIFICATION Spec
SYMMETRY Symmetric
INVARIANTS SettledOnce OneActiveIntent PendingHasIntent
PROPERTIES LedgerSpec
CHECK_DEADLOCK FALSE
