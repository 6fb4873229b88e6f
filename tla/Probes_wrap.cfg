\* A tick count that wraps in off-mode.
SPECIFICATION ProbeSpec
CONSTANTS
  Outputs = {o1}
  OtherStates <- NoOtherStates
  QueueCap = 1
  WatchInterval = 1
  ForceOffEvery = 3
  ActiveThreshold = 2
  Hour = 9
  HasInput = TRUE
  CanQuery = TRUE
  Faults <- NoFaults
  Punctual = TRUE
  MaxTime = 5
  MaxRestarts = 0
  TTL = 2
  Wrap = 4
  BootTick = 1
  Kinds <- OnlyTicks
PROPERTIES
  WakeIsAfterOff
CHECK_DEADLOCK FALSE
