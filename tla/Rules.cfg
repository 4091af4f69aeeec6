CONSTANTS
  Hosts <- MCHosts
  Blank = ""
  Client = "app"
  MaxHops = 3
  MaxPaths = 2
  Junk = Junk
  MaxPort = 5
  MaxPortRanges = 2
  Bits = 2
  MaxSec = 4
  MaxMB = 3
  MinMinFree = 2
  DefaultSec = 3
  DefaultMB = 2
  DefaultMinFree = 2
  Catalog <- MCCatalog
  Rank <- MCRank
  OddPath = "odd"
  DayTicks = 4
  ServerDir = "srv"
  HostOrder <- MCHostOrder
  Networks <- MCNetworks
  CapRequests <- MCCapRequests
  Packets <- MCPackets
  LogRequests <- MCLogRequests
  Now = 15
  FilterRuns <- MCFilterRuns
  Farms <- MCFarms
  Environments <- MCEnvironments
  Digits = {"7"}
  MaxRounds = 1
SPECIFICATION Spec
INVARIANT RoutesRight
INVARIANT CapturesRight
INVARIANT CollectsRight
INVARIANT RegistersRight
CHECK_DEADLOCK FALSE
