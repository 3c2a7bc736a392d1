SPECIFICATION FairSpec
CONSTANTS
  tnt = tnt
  lua = lua
  MapFiles = {tnt}
  Script = lua
  Size <- Sizes
  Even = {tnt}
  Window = 1
  MaxRequests = 2
CHECK_DEADLOCK FALSE
INVARIANTS TypeOK FilesAreWhole WindowKept
PROPERTIES GettersEnd StreamMoves
