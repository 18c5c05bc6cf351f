CONSTANTS
  a = a
  b = b
  c = c
  r = r
  s = s
  NoProc = NoProc
  Procs <- Four
  NumSlots = 1
  NTesters = 0
  Overload <- Nobody
  Side <- Neither4
  Seat <- Seat4
  League = FALSE
  Preempt = FALSE
  MaxAhead = 1
  OutfitTime = 2
  MaxQuits = 1
  MaxCrashes = 0
  DaemonMayDie = FALSE
SPECIFICATION Spec
INVARIANTS TypeOK NumbersDistinct
PROPERTIES SeatsArePooled
SYMMETRY Alike
