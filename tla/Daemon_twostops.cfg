SPECIFICATION Spec
CONSTANTS
  Pids = {p1}
  Spawners = {}
  Stoppers = {s1, s2}
  NoPid = NoPid
  Graceful = TRUE
  WriteFails = FALSE
  Tolerance = 0
  MaxTime = 2
  p1 = p1
  s1 = s1
  s2 = s2
INVARIANTS
  StopTouchesNoOther
CHECK_DEADLOCK FALSE
