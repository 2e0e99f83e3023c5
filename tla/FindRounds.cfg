SPECIFICATION Spec
CONSTANTS
  Strategies = {"INTERLEAVED_WEIGHTED_ROUND_ROBIN"}
  InitialNodes = 2
  MaxNodes = 2
  RunTimes = {1}
  Weights = {1, 3}
  DefaultWeight = 2
  Retries = 6
  MaxInFlight = 2
  MaxChanges = 0
  MaxClock = 0
  MaxCount = 3
CHECK_DEADLOCK FALSE
PROPERTY NextRoundStarts
