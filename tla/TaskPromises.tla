---------------------------- MODULE TaskPromises ----------------------------
(***************************************************************************)
(* What a pool promises to the callers of execute(), whatever it does with *)
(* worker nodes, queues and messages: every call gets a promise, the task  *)
(* function of an accepted task is called at most once, and only then is   *)
(* the promise settled, for good.  A call can also be refused, in which    *)
(* case its task function is never called.                                 *)
(***************************************************************************)
EXTENDS Naturals

CONSTANT Tasks

VARIABLES
  promise,  \* the promise returned to the caller of each task
  runs      \* how many times the function of each task was called

vars == <<promise, runs>>

Init ==
  /\ promise = [t \in Tasks |-> "none"]
  /\ runs = [t \in Tasks |-> 0]

\* execute() takes the task, or refuses it.
Accept(t) ==
  /\ promise[t] = "none"
  /\ promise' = [promise EXCEPT ![t] = "pending"]
  /\ UNCHANGED runs

Refuse(t) ==
  /\ promise[t] = "none"
  /\ promise' = [promise EXCEPT ![t] = "rejected"]
  /\ UNCHANGED runs

\* A worker calls the task function, once.
Run(t) ==
  /\ promise[t] = "pending" /\ runs[t] = 0
  /\ runs' = [runs EXCEPT ![t] = 1]
  /\ UNCHANGED promise

\* The outcome of that call settles the promise.
Settle(t) ==
  /\ promise[t] = "pending" /\ runs[t] = 1
  /\ \E outcome \in {"resolved", "rejected"} :
       promise' = [promise EXCEPT ![t] = outcome]
  /\ UNCHANGED runs

Next == \E t \in Tasks : Accept(t) \/ Refuse(t) \/ Run(t) \/ Settle(t)

Spec == Init /\ [][Next]_vars
=============================================================================
