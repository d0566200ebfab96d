SPECIFICATION FairSpec
CONSTANTS
  m1 = m1
  m2 = m2
  None = None
  Messages <- MCTwoMessages
  MaxTurns = 3
  MaxTroubles = 0
CHECK_DEADLOCK FALSE
PROPERTY
  TurnEndsDrainQueue
