CONSTANTS
  a = a
  b = b
  c = c
  r = r
  s = s
  NoProc = NoProc
  Procs <- Three
  NumSlots = 1
  NTesters = 0
  Overload <- Nobody
  Side <- Neither3
  Seat <- Seat3
  League = FALSE
  Preempt = TRUE
  MaxAhead = 1
  OutfitTime = 4
  MaxQuits = 0
  MaxCrashes = 1
  DaemonMayDie = TRUE
SPECIFICATION FairSpec
PROPERTIES FreeSlotTaken MailboxFreed
