SPECIFICATION FairSpec
CONSTANTS
  z1 = z1
  z2 = z2
  Zones = {z1}
  Slaves <- SomeSlaves
  MaxNotifyNum = 2
  MaxNotifyTryNum = 2
  MaxRequests = 1
  SocketMayFail = FALSE
  ZoneMayBreak = FALSE
PROPERTY EventuallyNotified
CHECK_DEADLOCK FALSE
