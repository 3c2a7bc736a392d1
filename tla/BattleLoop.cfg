SPECIFICATION FairSpec
CONSTANTS
  Server = server
  Client = client
  Second = 1
  Games <- MCGames
INVARIANTS TypeOK InStep NobodyFarAhead QuietWhileSaving
PROPERTIES MainFinishes GameGoesOn
CHECK_DEADLOCK FALSE
