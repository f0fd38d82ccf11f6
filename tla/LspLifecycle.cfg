\* A peer on loopback that may stop reading, and one that is not on loopback.
SPECIFICATION Spec
CONSTANTS
  Peers = {p1, p2}
  Remote = {p2}
  Stubborn = {p1}
  MaxStarts = 2
  MaxConnects = 2
  MaxBatch = 2
CHECK_DEADLOCK FALSE
INVARIANT DescriptorsAccounted
PROPERTIES
  StopReturnsWhenRead
  DeadPeerReleased
