CONSTANTS
  Commands = {c1, c2}
  NoOne = NoOne
  MaxSteps = 3
  Answers <- MCAnswers
  MaxAttempts = 3
  MaxResumes = 2
SPECIFICATION Spec
INVARIANTS
  ValidPlansAreStored
CHECK_DEADLOCK FALSE
