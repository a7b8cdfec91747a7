CONSTANTS
  Runners = {r1, r2}
  Steps = {1, 2, 3, 4}
  Deps <- ChainsDeps
  Order <- ChainsOrder
  MaxAttempts = 2
  MaxTotalTurns = 3
  StepTurns = {0, 2}
  MaxLaunches = 3
  Overlap = FALSE
SPECIFICATION FairSpec
INVARIANTS
  TypeOK
  DepsClosed
  RowsArePrefix
  DonePlanHasNoWorkLeft
PROPERTIES
  DoneIsFinal
  ResultAgreesWithRows
  ImplementsLedger
  ImplementsExecution
  EveryRunEnds
CHECK_DEADLOCK FALSE
