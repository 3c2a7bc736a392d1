CONSTANTS
  NoUnit = NoUnit
  NoGoal = NoGoal
  Units = {u1}
  Goals = {g1}
  u1 = u1
  g1 = g1
  MaxID = 1
  MaxRequests = 2
SPECIFICATION FairSpec
PROPERTIES Answered
