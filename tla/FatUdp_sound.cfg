SPECIFICATION FairSpec
CONSTANTS
  Objects = {o1, o2, o3}
  Forced = {o1, o3}
  Big = {o3}
  BigSize = 3
  SmallSize = 2
  MaxFatList = 3
  MaxFatData = 5
  MaxNonFat = 1
  NULL = NULL
  Late = FALSE
  Denials = FALSE
  MaxChanges = 1
  MaxLosses = 3
  MaxSwitches = 4
INVARIANTS TypeOK
PROPERTIES Queues EveryPacketQueued Recovers
