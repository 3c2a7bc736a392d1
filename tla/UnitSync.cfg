CONSTANTS
  Machines = {host, guest}
  host = host
  guest = guest
  Server = host
  MaxUnitPerPlayer = 3
  MaxUnits = 4
  Games <- Peaceful
SPECIFICATION Spec
INVARIANTS TypeOK Agreement EventsFindTheirUnit
CHECK_DEADLOCK FALSE
