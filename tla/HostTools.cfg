CONSTANTS
  r1 = r1
  w1 = w1
  w2 = w2
  Recs = {r1}
  Splitters = {w1, w2}
  MaxT = 3
  HourTicks = 2
  None = None
  RecFaults = {"zcatDies"}
  MaxTx = 5
  NhFaults = {}
SPECIFICATION Spec
INVARIANT StatusTells
INVARIANT SlicesWhole
INVARIANT OnlyOursUndone
SYMMETRY Symmetry
CHECK_DEADLOCK FALSE
