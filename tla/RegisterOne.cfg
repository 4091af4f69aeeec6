CONSTANTS
  r1 = r1
  r2 = r2
  k1 = k1
  k2 = k2
  m1 = m1
  Runs = {r1}
  Keys = {k1, k2}
  Movable = {m1}
  Group = Group
  Elsewhere = Elsewhere
  Web = Web
  None = None
  Settle = 2
  Lag = 1
  MaxTx = 2
  MaxOthers = 3
SPECIFICATION Spec
SYMMETRY KeySymmetry
CHECK_DEADLOCK FALSE
INVARIANTS TypeOK NoCollision Resumable HonestReceipt NoticesInOrder
