SPECIFICATION Spec
CONSTANTS
  s1 = s1  s2 = s2  b1 = b1  b2 = b2  w1 = w1  w2 = w2
  Shifts = {s1, s2}
  Bills = {b1, b2}
  Amount <- AmountOf
  Floats = {1}
  Adjustments <- SomeAdjustments
  Counts = {4}
  MaxTime = 1
  MaxDrawer = 1
  MaxSuccesses = 1
  Workers = {w1, w2}
  None = None
INVARIANTS TypeOK OpenNeverCollides TotalsAreRows ZReportCovers
SYMMETRY Symmetric
PROPERTIES ClosedShiftIsFrozen
CHECK_DEADLOCK FALSE
