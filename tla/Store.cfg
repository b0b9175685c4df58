CONSTANTS
  Ids = {i1, i2, i3}
  Records = {r1, r2}
  Cap = 2
  ActivityCap = 2
  LogCap = 2
  Logs = {"request_logs"}
SYMMETRY Symmetry
SPECIFICATION Spec
INVARIANTS TypeOK ActivitiesAgree LogsAgree
PROPERTIES EvictsOldestFirst UpdateEvictsNobody ChangesNotify ActivitiesAreABoundedLog
