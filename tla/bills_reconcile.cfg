CONSTANTS
  None = None
  Bills = {b1}
  Total <- OneTotal
  Intents = {1, 2}
  Workers = {w1}
  Providers = {"paymob", "fawry"}
  Genuine = {TRUE}
  Commands = {"pay", "present", "schedule", "webhook"}
  MaxAttempts = 1
  MaxCrashes = 0
SPECIFICATION FairSpec
PROPERTIES ActiveIntentEnds
CHECK_DEADLOCK FALSE
