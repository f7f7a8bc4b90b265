SPECIFICATION Spec
CONSTANTS
  MaxPackets = 3
  Pages = {t1, t2}
  Streams = {s1, s2}
  Cap = 2
  Limit = 1
  MaxEpoch = 2
  None = None
CHECK_DEADLOCK FALSE
INVARIANT StopClosesStream
