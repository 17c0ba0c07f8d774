SPECIFICATION FairSpec
CONSTANTS
  c1 = c1
  c2 = c2
  host = host
  printer = printer
  x1 = x1
  x2 = x2
  y1 = y1
  Dhcids = {c1, c2}
  Fqdns = {host, printer}
  Ips = {x1, x2, y1}
  V4 = {x1, x2}
  StaticRecords <- PrinterIsStatic
  ForwardNames = {host, printer}
  ReverseNames = {x1, x2}
  Servers = 2
  MaxTries = 2
  MaxTransactions = 2
  Scripts <- Stories
  MaxLate = 1
INVARIANTS TypeOK NeverAborts 
PROPERTIES RegistrySpec 
