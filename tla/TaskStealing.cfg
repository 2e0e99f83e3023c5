SPECIFICATION Spec
CONSTANTS
  Nodes = 3
  Tasks = 4
  InitialOptions <- SmallQueues
  LaterOptions <- Options
  MaxDisturbances = 1
CHECK_DEADLOCK FALSE
INVARIANT TypeOK
INVARIANT TasksConserved
INVARIANT CallbacksRearmed
INVARIANT OneStealingLoop
INVARIANT InFlightBounded
INVARIANT InfoAddsUp
PROPERTY HandlersEnd
PROPERTY StealersHelp
