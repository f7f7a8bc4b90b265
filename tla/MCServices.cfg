SPECIFICATION MCSpec
CONSTANTS
  h = h
  x = x
  y = y
  z = z
  Width = 4
  PrivateBlocks <- MCPrivate
  NoIp = NoIp
  NoPrefix = NoPrefix
  Topologies <- MCTopologies
  Inspected <- MCInspected
  Requests <- MCRequests
  DefaultPrefix = 2
  PublicSource = 13
  PublicDestination = 14
  PublicNat = 15
  NoVlan = NoVlan
  NoPort = NoPort
  Nobody = Nobody
  NoTable = NoTable
  Inputs <- MCInputs
  Counts = {1, 3}
  Unset = Unset
  Failed = Failed
  MaxCalls = 3
  ClientHost = "client"
  LocalServer = "server"
  Gateway = "gateway"
  WebServer = "web"
  Resolver = "resolver"
  Multicast = "multicast"
  SeqWidth = 3
  Digit = 3
  Isns = {6}
  Rounds = {2}
  BufferCap = 14
  MaxTime = 15
  MaxSessions = 2
  LastStart = 3
  Ids = {1, 2}
  Configs = {0, 1}
  Fresh = 0
  Stock <- MCStock
  Base = 0
  HistoryCap = 2
  NoDraft = NoDraft
  NoReport = NoReport
  Selectable = {h, x}
  TypeOf <- MCTypeOf
  Hosting = {"server", "www"}
  Settings <- MCSettings
  Catalog <- MCCatalog
  WebPorts = {80, 443}
  Text = {"x"}
  NumbersTyped = {0, 2}
  NotANumber = NotANumber
  Absent = Absent
  MaxStrokes = 2
  MaxOthers = 1
  Parts <- MCParts
  PartType <- MCPartType
  Cabling <- MCCabling
  Canvases <- MCCanvases
  Owners = {"local", "account"}
  Visitors = {h, x, y, z}
  OwnerOf <- MCOwnerOf
  Seeds = {y}
  Nothing = Nothing
  MaxDocs = 3
  MaxActs = 4
  MaxRequests = 2
INVARIANTS
  RoutingSound
  AdjacenciesAgree
  CalculatorExact
  CaptureReadsInOrder
  SegmentsAcceptable
  SegmentsKeptApart
  FirewallsObeyed
  DeliveredMeansArp
  SpanningTreesAgree
  ShadowedIsDead
  PageConsistent
  ServerFollows
  ReportFits
  TickedMeansGuarded
  WorkReopens
PROPERTIES
  EditsUndoable
  OneSettingAtATime
CHECK_DEADLOCK FALSE
