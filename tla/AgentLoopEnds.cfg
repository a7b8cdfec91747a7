CONSTANTS
  Cap = 3
  MaxCalls = 1
  MaxSteers = 2
  MaxRuns = 1
  HasCompactor = TRUE
  MaxCompactions = 2
  KeepLast = 4
  HasCheckpointer = TRUE
SPECIFICATION FairSpec
INVARIANTS
  SteersKeepOrder
  CheckpointLacksOnlyResults
PROPERTIES
  EveryRunEnds
CHECK_DEADLOCK FALSE
