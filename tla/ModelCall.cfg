CONSTANTS
  Ids = {"x", "y"}
  NoId = "noid"
  Lines <- MCLines
  MaxLines = 3
  MaxRetries = 2
  PerStep = 1
  PerPlan = 1
  PerSession = 2
  MaxTurns = 2
  MaxSteps = 2
SPECIFICATION Spec
INVARIANTS TypeOK ReplyTellsAttempt BooksBalance
PROPERTIES RequestsEnd
CHECK_DEADLOCK FALSE
