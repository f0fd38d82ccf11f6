\* A peer that stops reading while the server writes to it.
SPECIFICATION Spec
CONSTANTS
  Peers = {p1, p2}
  Remote = {p2}
  Stubborn = {p1}
  MaxStarts = 1
  MaxConnects = 1
  MaxBatch = 2
CHECK_DEADLOCK FALSE
PROPERTY StopReturns
