CONSTANTS
  a = a
  b = b
  c = c
  d = d
  e = e
  r = r
  NoProc = NoProc
  Procs <- Six
  NumSlots = 1
  NTesters = 0
  Overload <- Nobody
  Side <- Neither6
  Seat <- Seat6
  League = FALSE
  Preempt = FALSE
  MaxAhead = 18
  OutfitTime = 2
  MaxQuits = 0
  MaxCrashes = 2
  DaemonMayDie = FALSE
SPECIFICATION SpecScheduled
INVARIANT PositionHonest
