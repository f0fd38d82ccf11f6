CONSTANTS
  UINT32_MAX = 99
  IdModulus = 200
  MAX_GRAPH_NODES = 90
  MAX_GRAPH_EDGES = 90
  MAX_PATH_DEPTH = 50
  NoClock = NoClock
  kMaxDepth = 3
  kGrayWalkDepth = 4
  kMaxHops = 8
  LooksSequential <- MCLooksSequential
  Designs <- MCDesigns
SPECIFICATION Spec
INVARIANTS
  ConnectivityExact
  ReachabilityKept
  MergedAlike
  OkMeansComplete
  ClockStructureKept
CHECK_DEADLOCK FALSE
