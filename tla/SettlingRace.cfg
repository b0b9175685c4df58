CONSTANTS
  Vendors = {"s1"}
  Commanders = {c1}
  Readers = {r1}
  Second = 2
  Overlap = TRUE
  LastAsk = 6
  MaxCommands = 2
  MaxLoads = 0
  None = None
SPECIFICATION Spec
PROPERTY PendingSettles
CHECK_DEADLOCK FALSE
