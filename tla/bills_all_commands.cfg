CONSTANTS
  None = None
  Bills = {b1}
  Total <- OneTotal
  Intents = {1}
  Workers = {w1, w2}
  Providers = {"fawry"}
  Genuine = {TRUE, FALSE}
  Commands = {"pay", "manual", "cancel", "present", "represent", "close", "webhook", "recover"}
  MaxAttempts = 1
  MaxCrashes = 1
SPECIFICATION Spec
SYMMETRY Symmetric
INVARIANTS TypeOK BooksBalance SuccessIsReal IInv
PROPERTIES SuccessIsFinal NoMoneySkipped
CHECK_DEADLOCK FALSE
