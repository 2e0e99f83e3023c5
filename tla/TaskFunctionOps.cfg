SPECIFICATION Spec
CONSTANTS
  Names <- FunctionNames
  FileNames = {"a"}
  FileDefault = "a"
  MinSize = 1
  MaxSize = 2
  Workers = 2
  Operations = 2
  MaxDeaths = 1
CHECK_DEADLOCK FALSE
INVARIANT TypeOK
INVARIANT NamesFollow
INVARIANT NodesCatchUp
INVARIANT CrashOnlyAfterRemoval
PROPERTY ResolvedMeansDone
PROPERTY OperationsSettle
