SPECIFICATION FairSystemSpec
CONSTANTS
  Outputs = {o1}
  OtherStates <- OnlyBlank
  QueueCap = 1
  WatchInterval = 1
  ForceOffEvery = 1
  ActiveThreshold = 2
  Hour = 2
  HasInput = TRUE
  CanQuery = TRUE
  Faults <- ScreenFaults
  Punctual = FALSE
  MaxTime = 1
  MaxRestarts = 1
  NoState = "none"
  MaxEvents = 1
  MaxChanges = 1
  Blanks <- OnlyBlank
  TurnOnFaults <- LateOrReject
PROPERTIES
  SettlesOn
  SettlesOff
