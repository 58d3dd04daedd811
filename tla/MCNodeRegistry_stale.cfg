SPECIFICATION Spec
CONSTANTS
  a = a
  b = b
  c = c
  d = d
  Empty = Empty
  Names = {a, b, c, d}
  Messages <- ScheduleMessages
INVARIANTS
  NoDanglingAlias
