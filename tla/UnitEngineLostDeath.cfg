CONSTANTS
  p1 = p1
  p2 = p2
  Players <- MCPlayers
  MaxUnitPerPlayer = 2
  MaxID = 4
  NoSlot = NoSlot
  DeathTimer = 3
  Remote <- MCRemote
  Games <- MCRemoteGames
SPECIFICATION Spec
INVARIANTS DeathHonoured
CHECK_DEADLOCK FALSE
