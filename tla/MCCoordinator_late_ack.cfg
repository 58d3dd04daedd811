SPECIFICATION Spec
CONSTANTS
  s1 = s1
  s2 = s2
  s3 = s3
  Sats = {s1, s2}
  CoordId = coord
  Order <- OrderPair
  NumTasks <- TasksPair
  Garbled = {}
  MayTimeOut = TRUE
INVARIANTS
  TimedOutStaysFailed
