\* Two commands typed while the config file is rewritten, with the children they spawn.
CONSTANTS
  Procs = {1, 2, 3}
  MaxLaunches = 2
  Default = 2
  Limit = 5
  Seeds <- MCSeeds
  Numbers <- MCNumbers
  Invocations <- MCInvocations
SPECIFICATION Spec
INVARIANTS
  RunsWhatWasWritten
  TaskKeepsControl
  HeadlessIsLogged
PROPERTIES
  SetupRepairs
CHECK_DEADLOCK FALSE
