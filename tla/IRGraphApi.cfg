CONSTANTS
  UINT32_MAX = 3
  IdModulus = 6
  MAX_GRAPH_NODES = 2
  MAX_GRAPH_EDGES = 2
  NoClock = NoClock
  Names = {n1, n2, n3}
  Clocks = {clk}
  NodeLimits = {0, 9}
  EdgeLimits = {0}
  LogicTypes = {"Buf"}
  MaxInputs = 1
  MaxGeneration = 7
SPECIFICATION Spec
SYMMETRY NameSymmetry
INVARIANTS
  IndicesExact
  AdjacencyExact
PROPERTIES
  CallsAccounted
CHECK_DEADLOCK FALSE
