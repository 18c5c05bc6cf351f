SPECIFICATION FairSpec
CONSTANTS
  Procs = {q1, q2}
  GhostTime = 4
  OutfitTime = 6
  DeadTime = 1
  ExplodeTime = 1
  Tries = 2
  Slack = 1
  RetryTime = 2
  AutoQuit = 1
  SlowExit = FALSE
  Hasty = FALSE
  PingBust = FALSE
INVARIANTS OneOwner
PROPERTIES BustsOnlyTheDead DeadMakeWay
