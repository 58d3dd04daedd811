SPECIFICATION FairSpec
CONSTANTS
  s1 = s1
  s2 = s2
  s3 = s3
  Sats = {s1, s2, s3}
  CoordId = coord
  Order <- OrderTwice
  NumTasks <- TasksTwice
  Garbled = {2}
  MayTimeOut = FALSE
INVARIANTS
  SuccessIsEarned
PROPERTIES
  RunReturns
