CONSTANTS
  MaxVer = 2
  MaxEpoch = 0
  Debounce = 1
  MaxDelay = 2
  MayFail = FALSE
  MayCrash = FALSE
  None = None
  Torn = Torn
SPECIFICATION Spec
INVARIANT FlushIsFinal
