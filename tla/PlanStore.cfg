CONSTANTS
  Commands = {c1, c2}
  NoOne = NoOne
  MaxSteps = 3
  Answers <- MCAnswers
  MaxAttempts = 3
  MaxResumes = 2
SPECIFICATION FairSpec
INVARIANTS
  TypeOK
  PlanIsWhole
  DepsPointBack
  GoalMatchesPlan
PROPERTIES
  EveryCommandEnds
CHECK_DEADLOCK FALSE
