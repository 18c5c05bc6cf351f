CONSTANTS
  Planets = {1, 2, 3, 4}
  NumTeams = 2
  TournPlayers = 1
  SurrStart = 1
  SurrEnd = 2
  SurrLength = 2
  VictoryPlanets = 0
  StartRev = 2
  Few = 2
  MaxShips = 1
  MaxArmies = 3
  MaxTotal = 5
  MaxUnrest = 1
SPECIFICATION ConquestSpec

PROPERTY PeaceForTheNext
CHECK_DEADLOCK FALSE
