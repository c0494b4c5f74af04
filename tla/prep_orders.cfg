CONSTANTS
  o1 = o1
  o2 = o2
  t1 = t1
  t2 = t2
  w1 = w1
  w2 = w2
  None = None
  Orders = {o1, o2}
  Tasks = {t1, t2}
  OrderOf <- OrderOfItem
  StationOf <- StationOfItem
  Workers = {w1, w2}
  Commands = {"accept", "autoaccept", "reject", "serve", "complete", "cancel", "start", "finish", "drop"}
SPECIFICATION Spec
SYMMETRY Symmetric
INVARIANTS TypeOK NothingLeftPending VoidReachesKitchen
PROPERTIES LifecycleSpec
CHECK_DEADLOCK FALSE
