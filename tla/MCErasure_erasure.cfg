SPECIFICATION ErasureFairSpec
CONSTANTS
  Ids = {u1, u2}
  Identities = {alice, bob}
  Requests = {r1}
  Writers = {w1}
  None = None
INVARIANTS OrphansExplained
PROPERTIES LiveDataOnlyLeavesByOwner ErasureCompletes
