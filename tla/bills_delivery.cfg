CONSTANTS
  None = None
  Bills = {b1}
  Total <- OneTotal
  Intents = {1}
  Workers = {w1, w2}
  Providers = {"paymob"}
  Genuine = {TRUE}
  Commands = {"pay", "present", "webhook", "recover"}
  MaxAttempts = 1
  MaxCrashes = 1
SPECIFICATION DeliverySpec
PROPERTIES ChargeReachesBooks EveryRequestEnds
CHECK_DEADLOCK FALSE
