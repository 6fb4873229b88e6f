SPECIFICATION Spec
CONSTANTS
  Pids = {p1, p2}
  Spawners = {}
  Stoppers = {s1}
  NoPid = NoPid
  Graceful = TRUE
  WriteFails = FALSE
  Tolerance = 0
  MaxTime = 1
  p1 = p1
  p2 = p2
  s1 = s1
INVARIANTS
  StopFindsRunner
CHECK_DEADLOCK FALSE
