CONSTANTS
  StepIds = {1, 2, 3, 4}
  Unknown = {9}
SPECIFICATION DagSpec
INVARIANTS
  ValidatesExactlyDags
  SortedIsLinearExtension
CHECK_DEADLOCK FALSE
