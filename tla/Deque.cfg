SPECIFICATION Spec
CONSTANTS
  d1 = d1
  d2 = d2
  Data <- TwoData
  MaxNodes = 5
INVARIANT IteratorsVisitAll
INVARIANT Linked
PROPERTY ImplementsSequence
