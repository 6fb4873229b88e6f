\* Every watcher, with a punctual goroutine and screen commands that work.
SPECIFICATION FairProbeSpec
CONSTANTS
  Outputs = {o1, o2}
  OtherStates <- NoOtherStates
  QueueCap = 1
  WatchInterval = 1
  ForceOffEvery = 2
  ActiveThreshold = 3
  Hour = 9
  HasInput = TRUE
  CanQuery = TRUE
  Faults <- ProbeFaults
  Punctual = TRUE
  MaxTime = 5
  MaxRestarts = 0
  TTL = 2
  Wrap = 5
  BootTick = 1
  Kinds <- AllKinds
INVARIANTS
  DarkAgain
  TouchWakes
PROPERTIES
  ShutdownRestores
  WakeIsRecent
  ReturnIsNoticed
CHECK_DEADLOCK FALSE
