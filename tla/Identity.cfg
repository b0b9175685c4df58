CONSTANTS
  Ids = {1, 2, 3, 4}
  Records = {r1}
  Cap = 1
  ActivityCap = 3
  LogCap = 1
  Logs = {"request_logs"}
  Threads = {t1, t2}
  Earlier = 1
  Seeded = 1
  None = None
SPECIFICATION IdSpec
INVARIANT ActivitiesAgree
CHECK_DEADLOCK FALSE
