CONSTANTS
  Cap = 4
  MaxCalls = 2
  MaxSteers = 1
  MaxRuns = 1
  HasCompactor = FALSE
  MaxCompactions = 2
  KeepLast = 4
  HasCheckpointer = FALSE
SPECIFICATION Spec
INVARIANTS
  TypeOK
  ConversationWellFormed
  CapHidesNoAnswer
  BreakerIsExact
CHECK_DEADLOCK FALSE
