CONSTANTS
  c1 = c1
  c2 = c2
  a = a
  b = b
  Caps = {c1}
  Callers = {a, b}
  None = None
  Faults = {"reboot", "oom", "oomStart", "stubborn", "lateChild"}
  Kinds = {"namesake", "reader"}
SPECIFICATION CallsSpec
INVARIANT OthersUntouched
INVARIANT DoneIsOver
INVARIANT NothingOpenDeleted
CHECK_DEADLOCK FALSE
