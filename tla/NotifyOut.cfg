SPECIFICATION FairSpec
CONSTANTS
  z1 = z1
  z2 = z2
  Zones = {z1, z2}
  Slaves <- SomeSlaves
  MaxNotifyNum = 2
  MaxNotifyTryNum = 2
  MaxRequests = 4
  SocketMayFail = TRUE
  ZoneMayBreak = TRUE
INVARIANTS TypeOK InProgressIsListed LimitRespected
PROPERTIES NoEarlyGiveUp StartedIsCompleted
CHECK_DEADLOCK FALSE
