SPECIFICATION Spec
CONSTANTS
  Strategies <- AllStrategies
  InitialNodes = 2
  MaxNodes = 3
  RunTimes = {2}
  Weights = {1, 3}
  DefaultWeight = 2
  Retries = 6
  MaxInFlight = 2
  MaxChanges = 2
  MaxClock = 1
  MaxCount = 2
CHECK_DEADLOCK FALSE
INVARIANT TypeOK
INVARIANT LeastUsedBalances
PROPERTY ChoosesListedNode
PROPERTY VirtualTimeAdvances
PROPERTY EveryNodeServed
