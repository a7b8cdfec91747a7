CONSTANTS
  Paths <- MCPaths
  Inside <- MCInside
  Absent = Absent
  Empty = "empty"
  Texts <- MCTexts
  Size <- MCSize
  Lf <- MCLf
  Calls <- MCCalls
  Hooked <- MCHooked
  Tracked <- MCTracked
  MaxTicks = 1
  MaxCalls = 1
SPECIFICATION Spec
INVARIANTS TypeOK ResultTellsDisk CachedMeansSame
PROPERTY SandboxHolds
CHECK_DEADLOCK FALSE
