SPECIFICATION Spec
CONSTANTS
  Outputs = {o1, o2}
  OtherStates <- Unavailable
  QueueCap = 2
  WatchInterval = 1
  ForceOffEvery = 2
  ActiveThreshold = 2
  Hour = 4
  HasInput = TRUE
  CanQuery = TRUE
  Faults <- AllFaults
  Punctual = FALSE
  MaxTime = 3
  MaxRestarts = 1
INVARIANTS
  TypeOK
  OnIsNeverStale
PROPERTIES
  OffModeEndsLit
  InputWindowStable
  WakeIsFresh
  PolicySpec
