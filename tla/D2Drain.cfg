SPECIFICATION FairSpec
CONSTANTS
  Dhcids = {c1, c2}
  Unmatched = {c2}
  MaxQueueSize = 2
  MaxTransactions = 1
  MaxRequests = 3
  MaxFaults = 0
  Commands <- Sessions
PROPERTY DrainEmptiesQueue
CHECK_DEADLOCK FALSE
