CONSTANTS
  s1 = s1
  s2 = s2
  c1 = c1
  c2 = c2
  i1 = i1
  k1 = k1
  k2 = k2
  w1 = w1
  w2 = w2
  None = None
  Sessions = {s1, s2}
  Carts = {c1, c2}
  Items = {i1}
  Keys = {k1, k2}
  SessionOf <- OneSession
  Workers = {w1, w2}
SPECIFICATION Spec
SYMMETRY Symmetric
INVARIANTS TypeOK ScanNeverCollides RetryFindsOrder OneOrderPerCart
CHECK_DEADLOCK FALSE
