SPECIFICATION Spec
CONSTANTS
    Addresses = {1, 2, 3}
    Pools <- OnePool
    Attempts = 3
    Valid = 1
    MaxSendQueue = 1
    Devices = {1, 2, 3}
    ClientId <- SecondHasClientId
    Named = {1, 2, 3}
    Card <- Cards
    Spares = {3}
    Hints = {0}
    MaxTime = 0
    MaxFaults = 0
    MaxConfigs = 0
INVARIANT
    AckedIsStored
CHECK_DEADLOCK FALSE
