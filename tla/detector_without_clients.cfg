SPECIFICATION Spec
CONSTANTS
  s1 = s1
  s2 = s2
  s3 = s3
  f1 = f1
  f2 = f2
  n1 = n1
  n2 = n2
  None = None
  Detectors <- MCTwoStreams
  Files <- MCOneFile
  Names <- MCOneName
  MaxChanges = 1
CHECK_DEADLOCK FALSE
INVARIANTS
  DetectorOnlyWhileConnected
