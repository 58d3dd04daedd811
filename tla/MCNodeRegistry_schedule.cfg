SPECIFICATION Spec
CONSTANTS
  a = a
  b = b
  c = c
  d = d
  Empty = Empty
  Names = {a, b, c, d}
  Messages <- ScheduleMessages
INVARIANTS
  TypeOK
  NodesAnswerToTheirId
  NodesAnswerToTheirSatellite
  DrainIsExact
PROPERTIES
  NamesReturnByRegistration
