CONSTANTS
  Players = {p1, p2}
  MaxUnitPerPlayer = 2
  MaxID = 6
  NoSlot = NoSlot
SPECIFICATION Spec
SYMMETRY Symmetry
INVARIANTS TypeOK EachSlotOnce IdsNameUnits
PROPERTY OthersSurvive
