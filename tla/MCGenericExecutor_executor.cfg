SPECIFICATION FairSpec
CONSTANTS
  Executors = {"S1", "S2"}
  Callers = {"c1", "c2", "c3"}
  ExecutorOf <- MCExecutorOf
  Work <- MCWork
  Schedule <- MCSchedule
  EnableRollback = TRUE
  TextSensors = {"REC"}
  FlagSensors = {"IS_LIT"}
  Nodes <- MCNodes
  Def <- MCDef
  ValueOf <- MCValue
  IsTrue <- MCHolds
  TextBefore <- NoOrder
  Nobody = "nobody"
INVARIANTS
  TypeOK
  ScopesAreClean
  ShutdownReaches
  CancelledTasksStop
  MailboxIsOnePacket
PROPERTIES
  
  EveryTaskReturns
