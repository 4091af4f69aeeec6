CONSTANTS
  d = d
  e = e
  x = x
  y = y
  o1 = o1
  o2 = o2
  Devs = {d, e}
  Names = {x, y}
  First = x
  Ops = {o1, o2}
  MaxOthers = 1
  Edits <- MCEdits
  None = None
  Faults = {}
SPECIFICATION Spec
INVARIANT TypeOK
INVARIANT ToldOrPending
INVARIANT GoneForGood
PROPERTY LiveValuesKept
SYMMETRY Symmetry
CHECK_DEADLOCK FALSE
