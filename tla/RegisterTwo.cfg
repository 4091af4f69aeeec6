CONSTANTS
  r1 = r1
  r2 = r2
  k1 = k1
  k2 = k2
  m1 = m1
  Runs = {r1, r2}
  Keys = {k1}
  Movable = {}
  Group = Group
  Elsewhere = Elsewhere
  Web = Web
  None = None
  Settle = 2
  Lag = 1
  MaxTx = 1
  MaxOthers = 1
SPECIFICATION Spec
SYMMETRY Symmetry
CHECK_DEADLOCK FALSE
INVARIANT RegisteredOnce
