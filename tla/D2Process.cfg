SPECIFICATION FairSpec
CONSTANTS
  Dhcids = {c1, c2, c3}
  Unmatched = {c3}
  MaxQueueSize = 2
  MaxTransactions = 2
  MaxRequests = 3
  MaxFaults = 1
  Commands <- Sessions
INVARIANTS TypeOK RunningMeansReceiving NoDanglingHandler FifoPerClient
PROPERTY EventuallyPickedUp
CHECK_DEADLOCK FALSE
