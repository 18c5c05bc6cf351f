CONSTANTS
  NumPlayers = 2
  MaxTorp = 2
  Preempt = FALSE
  Quick = FALSE
  MaxFighters = 0
  Nothing = Nothing
SPECIFICATION ResetSpec
PROPERTIES OwnTubes
