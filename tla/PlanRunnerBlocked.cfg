CONSTANTS
  Runners = {r1}
  Steps = {1, 2, 3}
  Deps <- JoinDeps
  Order <- JoinOrder
  MaxAttempts = 2
  MaxTotalTurns = 20
  StepTurns = {1}
  MaxLaunches = 3
  Overlap = FALSE
SPECIFICATION Spec
INVARIANTS
  DonePlanBlocksForAReason
CHECK_DEADLOCK FALSE
