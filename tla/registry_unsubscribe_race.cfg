SPECIFICATION Spec
CONSTANTS
  c1 = c1
  c2 = c2
  c3 = c3
  t1 = t1
  Clients <- MCClients
  Threads <- MCThreads
  ThreadOf <- MCThreadOf
  UpstreamMayFail = FALSE
CHECK_DEADLOCK FALSE
PROPERTIES
  UnsubscribesOnlyWithoutSubscribers
