CONSTANTS
  Empires = {fed, rom}
  Warmup = 1
  Regulation = 2
  Resume = 2
  Preempt = {}
  MayCrash = FALSE
  MaxPauses = 0
  None = None
SPECIFICATION Spec
PROPERTIES BothSaidStart
