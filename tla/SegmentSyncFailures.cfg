SPECIFICATION Spec
CONSTANTS
  None = None
  r1 = r1
  r2 = r2
  z1 = z1
  z2 = z2
  Readers = {r1, r2}
  Zones = {z1, z2}
  MaxUpdates = 1
  ResetMayFail = TRUE
  LoadMayFail = TRUE
INVARIANTS NoWriteWhileMapped NeverFails OneCommandInFlight WaitsForAnswer
SYMMETRY Symmetry
CHECK_DEADLOCK FALSE
