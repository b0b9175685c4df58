CONSTANTS
  Clients = {c1, c2}
  Starters = {c1}
  MaxRuns = 1
  MaxGen = 1
  Steps = 1
  GivesUp = {}
  StartsOverlap = TRUE
  None = None
SPECIFICATION Spec
INVARIANT NoCircularWait
CHECK_DEADLOCK FALSE
