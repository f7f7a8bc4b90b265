SPECIFICATION Spec
CONSTANTS
  MaxPackets = 3
  Pages = {t1, t2}
  Streams = {s1, s2}
  Cap = 2
  Limit = 1
  MaxEpoch = 2
  None = None
INVARIANTS OneScheduler BufferSound StreamsExact
SYMMETRY Symmetry
CHECK_DEADLOCK FALSE
