SPECIFICATION Spec
CONSTANTS
  Ids = {u1, u2, u3}
  Identities = {alice, bob}
  Requests = {r1, r2}
  None = None
PROPERTY DemotedLosesAdmin
