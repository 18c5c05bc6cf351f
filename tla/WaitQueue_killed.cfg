CONSTANTS
  a = a
  b = b
  c = c
  r = r
  s = s
  NoProc = NoProc
  Procs <- Three
  NumSlots = 1
  NTesters = 0
  Overload <- Nobody
  Side <- Neither3
  Seat <- Seat3
  League = FALSE
  Preempt = FALSE
  MaxAhead = 1
  OutfitTime = 8
  MaxQuits = 0
  MaxCrashes = 0
  DaemonMayDie = TRUE
SPECIFICATION FairSpec
PROPERTIES QueueKilled
