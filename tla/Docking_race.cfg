CONSTANTS
  NumPlayers = 3
  NumPorts = 2
  Preempt = TRUE
  NoAim = NoAim
SPECIFICATION Spec
INVARIANTS RecordsAgree
