CONSTANTS
  Agents = {a1, a2}
  Starters = {s1}
  Nobody = Nobody
  MaxStarts = 2
  MaxAsks = 3
  MaxOut = 2
SPECIFICATION Spec
INVARIANTS TypeOK OwnAnswers
CHECK_DEADLOCK FALSE
