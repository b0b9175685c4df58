CONSTANTS
  Subs = {s1}
  Threads = {t1}
  Workers = {w1}
  MaxRetries = 3
  LogSize = 3
  MaxDeliveries = 1
  MaxResets = 1
  None = None
SPECIFICATION Spec
INVARIANT LogIsOfThisEra
