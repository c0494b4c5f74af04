CONSTANTS
  i1 = i1
  i2 = i2
  o1 = o1
  o2 = o2
  p1 = p1
  w1 = w1
  w2 = w2
  None = None
  Items = {i1, i2}
  Orders = {o1, o2}
  Needs <- NeedsOf
  Purchases = {p1}
  Ordered <- OrderedOf
  Deltas <- MinusOne
  Finals = {2}
  MaxStock = 2
  Workers = {w1, w2}
SPECIFICATION Spec
SYMMETRY Symmetric
INVARIANTS TypeOK LevelIsLedger LedgerMatchesOrders NothingOverReceived PartialIsIncomplete
CHECK_DEADLOCK FALSE
