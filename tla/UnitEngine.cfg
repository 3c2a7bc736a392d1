CONSTANTS
  p1 = p1
  p2 = p2
  Players <- MCPlayers
  MaxUnitPerPlayer = 2
  MaxID = 4
  NoSlot = NoSlot
  DeathTimer = 3
  Remote <- MCRemote
  Games <- MCGames
SPECIFICATION FairSpec
INVARIANTS TypeOK NoUnitSkipped IdsUnique
PROPERTIES ImplementsPool DeadAreRemoved
CHECK_DEADLOCK FALSE
