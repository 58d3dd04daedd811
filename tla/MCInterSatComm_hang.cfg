SPECIFICATION FairSpec
CONSTANTS
  c1 = c1
  c2 = c2
  x = x
  y = y
  f1 = f1
  f2 = f2
  Conns = {c1}
  Names = {x}
  Fds = {f1}
  None = None
  CloseWakes = FALSE
PROPERTIES
  StopReturns
CHECK_DEADLOCK FALSE
