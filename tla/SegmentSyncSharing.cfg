SPECIFICATION FairSpec
CONSTANTS
  None = None
  r1 = r1
  r2 = r2
  z1 = z1
  z2 = z2
  Readers = {r1, r2}
  Zones = {z1, z2}
  MaxUpdates = 1
  ResetMayFail = FALSE
  LoadMayFail = FALSE
INVARIANTS TypeOK MappedFileComplete UpdatesNameUsableFile ReadyIsCurrent
PROPERTIES NoDataRegression EventuallyQuiet EventuallyServed
CHECK_DEADLOCK FALSE
