CONSTANTS
  s1 = s1
  s2 = s2
  s3 = s3
  p1 = p1
  p2 = p2
  Procs = {p1, p2}
  Searches <- MCSearches
  ProcOf <- MCProcOf
  Queries = {"q", "r"}
  Providers = {"tavily", "ddg"}
  Asks <- MCAsks
  Nobody = Nobody
  Interval = 1
  TTL = 0
  MaxTime = 1
SPECIFICATION Spec
SYMMETRY MCSymmetry
INVARIANTS TypeOK AnswersAreOwn
PROPERTIES RequestsSpaced CacheSurvives
CHECK_DEADLOCK FALSE
