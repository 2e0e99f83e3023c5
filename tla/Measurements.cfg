SPECIFICATION Spec
CONSTANTS
  f = f
  g = g
  FunctionNames <- TwoNames
  MaxTasks = 3
  MaxInFlight = 2
  Durations = {1, 3}
  WaitTimes = {2}
  Lifetime = 9
  HistorySize = 2
  Scale = 2
  Strategies = {"LEAST_BUSY", "FAIR_SHARE"}
  MaxChanges = 1
CHECK_DEADLOCK FALSE
SYMMETRY NameSymmetry
INVARIANT TypeOK
INVARIANT StatisticsDescribeMeasurements
INVARIANT FunctionsAddUp
INVARIANT CurrentAnswersMeasured
INVARIANT ArraysKeepBound
PROPERTY RequiredStatisticIsKept
