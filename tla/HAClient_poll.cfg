SPECIFICATION FairSpec
CONSTANTS
  States = {"on", "off"}
  Blanks = {"blank"}
  NoState = "none"
  MaxChanges = 2
  MaxEvents = 2
  Aliens <- MCAliens
  Conns = {1, 2}
  Faults <- AllFaults
INVARIANTS
  AuthNeverHammers
  RotationIsOwn
PROPERTIES
  AllExit
  CatchesUp
  FeedSpec
