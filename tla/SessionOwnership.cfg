SPECIFICATION FairSpec
CONSTANTS
  Threads = {a, b}
  NoThread = none
  MaxCalls = 4
  MaxSteps = 2
INVARIANTS OneOperationRuns ExchangesDoNotInterleave
PROPERTY CallsReturn
CHECK_DEADLOCK FALSE
