CONSTANTS
  Vendors = {"s1", "falcon", "cortex", "defender", "elastic"}
  Commanders = {c1}
  Readers = {r1}
  Second = 2
  Overlap = FALSE
  LastAsk = 7
  MaxCommands = 2
  MaxLoads = 1
  None = None
SPECIFICATION Spec
INVARIANTS TypeOK DatedWhenAnswered SiemAgrees LastAskedWins
PROPERTIES PendingSettles SeedsStay
CHECK_DEADLOCK FALSE
