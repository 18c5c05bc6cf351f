CONSTANTS
  NumPlayers = 3
  NumPorts = 2
  Preempt = FALSE
  NoAim = NoAim
SPECIFICATION Spec
INVARIANTS TypeOK RecordsAgree BerthsCounted
PROPERTIES OneToAPort
