CONSTANTS
  Empires = {fed, rom}
  Warmup = 1
  Regulation = 2
  Resume = 2
  Preempt = {"clock"}
  MayCrash = FALSE
  MaxPauses = 3
  None = None
SPECIFICATION Spec
PROPERTIES FullTime
