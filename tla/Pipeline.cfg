CONSTANTS
  UINT32_MAX = 9
  IdModulus = 20
  MAX_GRAPH_NODES = 9
  MAX_GRAPH_EDGES = 30
  MAX_PATH_DEPTH = 4
  NoClock = NoClock
  NoReset = NoReset
  MaxPaths = 3
  MaxDescendants = 4
  MaxPairsPerSource = 3
  Requests <- PassingRequests
  ClockNames <- MCClockNames
  Edits <- MCEdits
  HasNetlistFrontend = FALSE
  LastDay = 3
  MaxCalls = 2
  Commands <- MCCommands
  CommandRequests <- Asked
  Earlier <- MCEarlier
SPECIFICATION MainSpec
INVARIANTS
  PassIsAuthorised
  WaivedUnderAuthority
  UnusedMeansUnused
  CoverageMatchesFindings
  LayersRespected
  IncrementalAgreesWithRun
  ArtifactsWhole
  OkMeansDone
  ComparisonOnlyCounts
CHECK_DEADLOCK FALSE
