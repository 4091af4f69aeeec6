CONSTANTS
  p = p
  i = i
  j = j
  log = log
  Clients = {p}
  Ids = {i, j}
  Entries = {log}
  Mode <- MCMode
  Names = {1}
  Disk = 6
  Reserve = 1
  Margin = 1
  None = None
  Faults = {"drop", "linger", "crash", "torn", "silent", "keep"}
SPECIFICATION Spec
INVARIANT TypeOK
INVARIANT Accounted
INVARIANT LeftoversAreTold
INVARIANT ReserveKept
PROPERTY HandsOver
SYMMETRY Symmetry
CHECK_DEADLOCK FALSE
