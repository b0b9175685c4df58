CONSTANTS
  Clients = {c1, c2}
  Starters = {c1}
  MaxRuns = 2
  MaxGen = 2
  Steps = 2
  GivesUp = {"reset", "import"}
  StartsOverlap = FALSE
  None = None
SPECIFICATION Spec
INVARIANTS TypeOK NoStaleWrite StopIsFinal NoCircularWait
PROPERTY CallsReturn
CHECK_DEADLOCK FALSE
