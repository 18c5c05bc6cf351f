CONSTANTS
  NumPlayers = 3
  NumPorts = 2
  Preempt = FALSE
  NoAim = NoAim
SPECIFICATION ExitSpec
INVARIANTS BerthsCounted
