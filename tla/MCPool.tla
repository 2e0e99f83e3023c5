------------------------------- MODULE MCPool -------------------------------
(* Instances of Pool for TLC: tasks are model values.                      *)
EXTENDS Pool, TLC

CONSTANTS t1, t2, t3

TwoTasks == {t1, t2}
ThreeTasks == {t1, t2, t3}
=============================================================================
