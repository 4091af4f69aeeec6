CONSTANTS
  c1 = c1
  c2 = c2
  p1 = p1
  p2 = p2
  Calls = {c1}
  Login = "liz"
  Passwords = {p1, p2, Temp}
  Temp = Temp
  None = None
  MaxEntries = 5
  Faults = {"crash", "drop", "store"}
SPECIFICATION Spec
SYMMETRY PasswordSymmetry
CHECK_DEADLOCK FALSE
INVARIANTS LedgerTells SudoWorks RenewKeepsLogin
PROPERTY SyncsToReal
