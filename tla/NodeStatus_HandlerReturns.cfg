SPECIFICATION Spec
CONSTANTS
  Names = {n1}
  NoFault = NoFault
  NoCache = NoCache
  MaxSlot = 1
  MaxGeneration = 3
  MaxEvents = 1
  Cap = 2
PROPERTY HandlerReturns
CHECK_DEADLOCK FALSE
