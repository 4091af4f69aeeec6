CONSTANTS
  s1 = s1
  s2 = s2
  d1 = d1
  i1 = i1
  Starts = {s1, s2}
  Stops = {d1}
  Intervals = {i1}
  None = None
  MaxStreams = 2
  Serial = TRUE
SPECIFICATION FairSpec
CHECK_DEADLOCK FALSE
INVARIANTS TypeOK TableIsOpen NoLeak Watched
PROPERTY LostIsNoticed
