SPECIFICATION FairSpec
CONSTANTS
  Devices = {kbd, mouse}
  Fds = {f1, f2}
  NoPath = NoPath
  MaxQueue = 2
  MaxTime = 2
  MaxUnplugs = 1
  kbd = kbd
  mouse = mouse
  f1 = f1
  f2 = f2
INVARIANTS
  ClosesOwn
  OneReaderPerDevice
  NoFdLeak
  NeverTooFresh
PROPERTIES
  PicksUp
