CONSTANTS
  UINT32_MAX = 9
  IdModulus = 20
  MAX_GRAPH_NODES = 9
  MAX_GRAPH_EDGES = 30
  MAX_PATH_DEPTH = 4
  NoClock = NoClock
  NoReset = NoReset
  MaxPaths = 3
  MaxDescendants = 2
  MaxPairsPerSource = 2
  Sketches <- MCSketches
  PathLimits = {1, 2, 9}
SPECIFICATION Spec
INVARIANTS
  WalksExact
  UntruncatedMeansComplete
  CrossingsExact
  PatternIsChain
  SafeChainIsClean
  UncertaintyIsReported
  ReconvergenceExact
  ResetCrossingsReported
  IsolationIsNarrow
CHECK_DEADLOCK FALSE
