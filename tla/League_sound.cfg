CONSTANTS
  Empires = {fed, rom}
  Warmup = 1
  Regulation = 2
  Resume = 2
  Preempt = {"draw", "pause"}
  MayCrash = TRUE
  MaxPauses = 2
  None = None
SPECIFICATION FairSpec
INVARIANTS TypeOK Opponents
PROPERTIES FullTime PauseEnds
