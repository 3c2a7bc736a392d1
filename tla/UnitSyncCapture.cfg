CONSTANTS
  Machines = {host, guest}
  host = host
  guest = guest
  Server = host
  MaxUnitPerPlayer = 3
  MaxUnits = 4
  Games <- Contested
SPECIFICATION Spec
INVARIANTS Agreement
CHECK_DEADLOCK FALSE
