SPECIFICATION Spec
CONSTANTS
  Executors = {"S1"}
  Callers = {"c1"}
  ExecutorOf <- SearchExecutorOf
  Work <- SearchWork
  Schedule <- MCSchedule
  EnableRollback = TRUE
  TextSensors = {"REC", "REC_TRUE"}
  FlagSensors = {}
  Nodes <- SearchNodes
  Def <- SearchDef
  ValueOf <- MCValue
  IsTrue <- MCHolds
  TextBefore <- NoOrder
  Nobody = "nobody"
INVARIANTS
  AssignFollowsTheList
