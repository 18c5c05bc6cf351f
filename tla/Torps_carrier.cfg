CONSTANTS
  NumPlayers = 2
  MaxTorp = 2
  Preempt = FALSE
  Quick = FALSE
  MaxFighters = 1
  Nothing = Nothing
SPECIFICATION CarrierSpec
PROPERTIES OwnTubes
