SPECIFICATION Spec
CONSTANTS
    Addresses <- TwoAddresses
    Pools <- TwoPools
    Attempts = 2
    Valid = 1
    MaxSendQueue = 1
    Devices = {1, 2}
    ClientId <- SecondHasClientId
    Named = {1}
    Card <- Cards
    Spares = {3}
    Hints = {0}
    MaxTime = 2
    MaxFaults = 1
    MaxConfigs = 1
INVARIANTS
    TypeOK
    NoDoubleBindingWhileSorted
    ReplayAgrees
    
PROPERTY
    RenewalKeepsAddress
CHECK_DEADLOCK FALSE
