SPECIFICATION MCSpec
CONSTANTS
  h1 = h1
  h2 = h2
  r = r
  s = s
  Hosts = {h1, h2}
  Routers = {r}
  Server = s
  Wires <- MCWires
  PoolStart = 3
  PoolEnd = 4
  Gateway = 1
  NoAddr = NoAddr
  None = None
  Starts <- MCStarts
  Touched = {h1, r}
  Typed = {NoAddr, 4}
  MaxEdits = 2
  i = i
  w = w
  d = d
  n = n
  Stations = {i, w, d, n}
  Kind <- MCKind
  Cables <- MCCables
  Hash <- MCHash
  Cap = 1
  Bursts = {0, 1}
  MaxFaults = 1
  q1 = q1
  q2 = q2
  q3 = q3
  q4 = q4
  Boxes = {q1, q2, q3, q4}
  Links <- MCLinks
  From = q1
  To = q3
  NoTrace = NoTrace
  MaxChanges = 2
  MaxSends = 2
  Width = 5
  PrivateBlocks <- MCPrivate
  NoIp = NoIp
  NoPrefix = NoPrefix
  Sites <- MCSites
  LanPrefixLength = 3
  WanBase = 8
  Tries = 2
  LanAddresses = {10, 29}
  MaxClicks = 4
INVARIANTS
  ConversationsCoherent
  SitesLinked
  ReservationsHeld
  LeasesUnique
  OneTimer
  NeverSails
PROPERTIES
  HostsAddressed
  TrafficDrains
  AnimationEnds
CHECK_DEADLOCK FALSE
