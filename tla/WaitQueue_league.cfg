CONSTANTS
  a = a
  b = b
  c = c
  r = r
  s = s
  NoProc = NoProc
  Procs <- League4
  NumSlots = 2
  NTesters = 0
  Overload <- Nobody
  Side <- Sides4
  Seat <- SeatL
  League = TRUE
  Preempt = FALSE
  MaxAhead = 1
  OutfitTime = 8
  MaxQuits = 0
  MaxCrashes = 0
  DaemonMayDie = FALSE
SPECIFICATION Spec
INVARIANTS NoCrowding
