SPECIFICATION PartSpec
CONSTANTS
  c1 = c1
  c2 = c2
  c3 = c3
  t1 = t1
  Clients <- MCClients
  Threads = {t1}
  ThreadOf <- MCThreadOf
  UpstreamMayFail = TRUE
  Requests = {a1}
  Known = ta
  New = tb
  Runtimes = {r1, r2}
  MaxReplays = 1
  MaxResponses = 2
  SentMessages = {m1, m2}
  MaxTurns = 3
  MaxTroubles = 0
  None = None
CHECK_DEADLOCK FALSE
INVARIANTS
  TypeOK
  PhantomsAreLeaks
  BroadcastsOnlyToHeld
  AbandonedThreadHasCleanup
PROPERTIES
  EventuallyUnsubscribed
  AnsweredIsForgotten
  QueuedIsSent
