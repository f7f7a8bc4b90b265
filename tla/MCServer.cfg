SPECIFICATION MCSpec
CONSTANTS
  Ids = {u1, u2, u3}
  Identities = {alice, bob}
  Requests = {q1, q2}
  None = None
  x = x
  y = y
  e = e
  a = a
  b = b
  plain = plain
  renamed = renamed
  Absent = Absent
  Calls = {r1, r2, r3}
  KnownNodes = {x, y}
  KnownEdges = {e}
  Configs = {a, b}
  Names = {plain, renamed}
  Ends <- MCEnds
  Seed <- MCSeed
  Patches <- MCPatches
SYMMETRY AccountSymmetry
CHECK_DEADLOCK FALSE
INVARIANTS
  TypeOK
  OneAccountPerIdentity
  SerialGuardKeepsAdmin
  SweepOnlyAfterRemoval
  StoreTypeOK
  VersionsGapless
  RestoreLosesOnlyRaces
PROPERTY WritesAreAtomic
