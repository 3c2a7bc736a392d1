CONSTANTS
  Root = Root
  Kids = {k1, k2}
  NoThread = NoThread
  Signals = {s}
  MaxCode = 2
  MaxDepth = 2
  MaxSleep = 2
SPECIFICATION FairSpec
INVARIANTS TypeOK EachThreadOnce TickServesAll
PROPERTIES OneTurnEach ReloadKeeps TicksEnd
