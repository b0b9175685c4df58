CONSTANTS
  MaxVer = 3
  MaxEpoch = 1
  Debounce = 1
  MaxDelay = 2
  MayFail = TRUE
  MayCrash = TRUE
  None = None
  Torn = Torn
SPECIFICATION Spec
INVARIANTS TypeOK CrashLeavesAWholeSnapshot UnsavedWritesAreYoung FlushCoversAQuietManager
PROPERTY WritesAreEventuallySaved
