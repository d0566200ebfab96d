SPECIFICATION Spec
CONSTANTS
  m1 = m1
  m2 = m2
  None = None
  Messages <- MCTwoMessages
  MaxTurns = 3
  MaxTroubles = 2
CHECK_DEADLOCK FALSE
SYMMETRY MessageSymmetry
INVARIANTS
  TypeOK
  NeverSentTwice
  DrainIsUnderWay
  ViewSettles
PROPERTY
  DeliversMessages
