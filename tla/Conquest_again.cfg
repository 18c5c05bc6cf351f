CONSTANTS
  Planets = {1, 2, 3, 4}
  NumTeams = 3
  TournPlayers = 1
  SurrStart = 1
  SurrEnd = 2
  SurrLength = 1
  VictoryPlanets = 0
  StartRev = 1
  Few = 2
  MaxShips = 1
  MaxArmies = 2
  MaxTotal = 5
  MaxUnrest = 0
SPECIFICATION ConquestSpec
PROPERTY SurrendersOnce
CHECK_DEADLOCK FALSE
