SPECIFICATION SystemSpec
CONSTANTS
  Outputs = {o1}
  OtherStates <- NoOtherStates
  QueueCap = 1
  WatchInterval = 1
  ForceOffEvery = 2
  ActiveThreshold = 2
  Hour = 2
  HasInput = TRUE
  CanQuery = TRUE
  Faults <- NoFaults
  Punctual = FALSE
  MaxTime = 2
  MaxRestarts = 0
  NoState = "none"
  MaxEvents = 1
  MaxChanges = 1
  Blanks <- NoOtherStates
  TurnOnFaults <- NoFaults
INVARIANTS
  WakeHolds
