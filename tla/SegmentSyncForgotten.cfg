SPECIFICATION Spec
CONSTANTS
  None = None
  r1 = r1
  r2 = r2
  z1 = z1
  z2 = z2
  Readers = {r1}
  Zones = {z1}
  MaxUpdates = 0
  ResetMayFail = FALSE
  LoadMayFail = FALSE
INVARIANT UnsubscribedIsRemoved
CHECK_DEADLOCK FALSE
