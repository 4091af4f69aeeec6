CONSTANTS
  c1 = c1
  c2 = c2
  a = a
  b = b
  Caps = {c1}
  Callers = {a}
  None = None
  Faults = {"reboot", "oom", "oomStart", "stubborn", "lateChild"}
  Kinds = {"reader"}
SPECIFICATION FairSpec
INVARIANT InterruptedDied
PROPERTY CapturesEnd
PROPERTY EndsAreTold
CHECK_DEADLOCK FALSE
