SPECIFICATION BoundedSpec
CONSTANTS
  Threads = {t1, t2}
  Untroubled = {t2}
  Loads = {l1}
  MaxEvents = 1
  MaxAttempts = 1
  MaxFailures = 1
  MaxAgings = 1
  None = None
INVARIANTS
  TypeOK
  FollowsSelection
  DetailIsComplete
PROPERTY Recovers
