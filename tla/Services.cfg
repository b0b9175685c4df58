\* Every component's clients, under the clock, the sweep and the reset.
CONSTANTS
  MaxTime = 5
  None = None
  SessionCap = 2
  BearerCap = 2
  TokenCap = 2
  MaxSessions = 3
  MaxBearers = 3
  Users = {u1}
  SessionTTL = 2
  TokenLife = 1
  DocumentLife = 2
  BearerLife = 1
  Grace = 1
  MaxTokens = 3
  ContextCap = 1
  MaxContexts = 2
  KeepAlives = {0, 1, 2}
  JobCap = 1
  MaxJobs = 2
  Dispatch = 2
  JobTtl = 1
  Ttls = {0, 1, 2}
  SavedTtl = 4
  Channels = {h1}
  Pollers = {p1, p2}
  MaxLives = 1
  Questions = {{0, 1}}
  MaxIdle = 1
  MaxAcks = 2
  Tokens = {t1}
  Window = 2
  Limits = {1, 2}
  MaxRequests = 3
  MaxConfigs = 2
  DocIds = {d1, d2}
  Writers = {w1}
  Ops = {"index", "create", "update", "scripted_delete", "delete", "bulk_create", "bulk_delete"}
  Overlap = FALSE
  MaxWrites = 4
  Nothing = Nothing
SYMMETRY Symmetry
SPECIFICATION Spec
INVARIANTS
  TypeOK
  UsedStaysUsable
  RevokedStaysRevoked
  RefreshedOnce
  ProgressIsRunTime
  AcksAreTruthful
  SearchAgrees
  WindowBudget
PROPERTY SweepChangesNoVerdict
