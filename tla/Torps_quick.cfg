CONSTANTS
  NumPlayers = 2
  MaxTorp = 2
  Preempt = FALSE
  Quick = TRUE
  MaxFighters = 0
  Nothing = Nothing
SPECIFICATION Spec
PROPERTIES OwnTubes
