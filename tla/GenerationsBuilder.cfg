SPECIFICATION Spec
CONSTANTS
  None = None
  r1 = r1
  r2 = r2
  Readers = {r1}
  MaxGeneration = 2
  Plans <- Brief
INVARIANT BuilderAlive
CHECK_DEADLOCK FALSE
