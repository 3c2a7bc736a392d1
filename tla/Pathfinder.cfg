CONSTANTS
  NoUnit = NoUnit
  NoGoal = NoGoal
  Units = {u1,u2}
  Goals = {g1}
  u1 = u1
  u2 = u2
  g1 = g1
  MaxID = 2
  MaxRequests = 3
SPECIFICATION FairSpec
INVARIANTS TypeOK IndexSound PathIsOwn WaitsForSomething
PROPERTIES AnsweredUnlessMissed Ends
