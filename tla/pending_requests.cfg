SPECIFICATION Spec
CONSTANTS
  a1 = a1
  a2 = a2
  b1 = b1
  ta = ta
  tb = tb
  c1 = c1
  c2 = c2
  Requests <- MCRequests
  Threads <- MCThreads
  ThreadOf <- MCThreadOf
  Supported <- MCSupported
  Undetected <- MCUndetected
  Clients <- MCOneClient
  MaxReplays = 1
  MaxResponses = 1
CHECK_DEADLOCK FALSE
INVARIANTS
  TypeOK
  TablesAgree
  PendingIsKnown
  RequestsReachConnectedClients
