SPECIFICATION FairSpec
CONSTANTS
  Server = server
  Clients = {c1, c2}
  NbSlots = 3
  Limits = {1, 2}
  Units = {u}
  Games <- AllGames
INVARIANTS TypeOK OthersKnown SameGame UnitsOnAll
PROPERTY EveryoneBegins
CHECK_DEADLOCK FALSE
