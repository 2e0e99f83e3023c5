--------------------------- MODULE MCTaskStealing ---------------------------
(* An instance of TaskStealing for TLC.                                    *)
EXTENDS TaskStealing

SmallQueues == [size |-> 2]
StealNever == [size |-> 1, taskStealing |-> FALSE,
               tasksStealingOnBackPressure |-> FALSE]
Options == {SmallQueues, StealNever, [concurrency |-> 1], [concurrency |-> 0]}
=============================================================================
