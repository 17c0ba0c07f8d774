SPECIFICATION FairSpec
CONSTANTS
  None = None
  r1 = r1
  r2 = r2
  Readers = {r1, r2}
  MaxGeneration = 3
  Plans <- Histories
INVARIANTS TypeOK RemovedIsUnused AuthNeverTerminates MappedIsSubscribed
PROPERTIES GenerationsGrow EventuallyCurrent
CHECK_DEADLOCK FALSE
