SPECIFICATION FairSpec
CONSTANTS
  Pids = {p1, p2}
  Spawners = {d1}
  Stoppers = {s1}
  NoPid = NoPid
  Graceful = TRUE
  WriteFails = TRUE
  Tolerance = 0
  MaxTime = 2
  p1 = p1
  p2 = p2
  d1 = d1
  s1 = s1
INVARIANTS
  TypeOK
  OneWatchdog
  PidFileNamesRunner
  StopSparesOthers
PROPERTIES
  NoOrphan
  StopWorks
CHECK_DEADLOCK FALSE
