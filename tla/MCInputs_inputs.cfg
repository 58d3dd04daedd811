SPECIFICATION Spec
CONSTANTS
  TextBefore <- NoOrder
  Symbols <- MCSymbols
  Leaves <- MCLeaves
  Env <- MCEnv
  MaxLeaves = 3
  MaxOps = 3
  Json <- MCJson
  Depth <- MCDepth
  MaxDepth = 8
  Schedules <- MCSchedules
  Behaviors <- MCBehaviors
  BehaviorName <- MCName
  Peer <- MCPeer
  Self <- MCSelf
  Outgoing <- MCOutgoing
  Arrives <- MCArrives
  Byte = 4
  MaxQueue = 2
  MaxFrame = 20
  MaxClock = 3
  MaxLinks = 2
INVARIANTS
  NumericAgrees
  
  
  ExpectedAreSent
  
  
  
  OrderKept
CHECK_DEADLOCK FALSE
