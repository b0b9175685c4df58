CONSTANTS
  Subs = {s1, s2}
  Threads = {t1, t2}
  Workers = {w1, w2}
  MaxRetries = 2
  LogSize = 2
  MaxDeliveries = 2
  MaxResets = 1
  None = None
SPECIFICATION Spec
INVARIANTS TypeOK OpenIsExact RetriesOnlyErrors LogIsTruthful
PROPERTIES WaitIsABarrier DeliveriesFinish
