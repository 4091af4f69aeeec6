CONSTANTS
  c1 = c1
  c2 = c2
  p1 = p1
  p2 = p2
  Calls = {c1, c2}
  Login = "liz"
  Passwords = {p1, Temp}
  Temp = Temp
  None = None
  MaxEntries = 4
  Faults = {"journal", "overlap"}
SPECIFICATION Spec
SYMMETRY CallSymmetry
CHECK_DEADLOCK FALSE
INVARIANTS TypeOK JournalMatches
