---------------------------- MODULE TaskStealing ----------------------------
(***************************************************************************)
(* Task stealing: the tasks queues of the worker nodes of a pool with the  *)
(* callbacks that run inside their operations.  A queue that runs empty    *)
(* lets its node steal, at once and then after ever longer delays; a queue *)
(* that reaches its size lets the other nodes steal from it.  A theft is   *)
(* itself a queue operation of two nodes, so that callbacks nest.          *)
(*                                                                         *)
(* The calls that are under way are a stack of frames, the innermost one   *)
(* first, and a step runs the innermost frame: what a nested call does     *)
(* happens before the rest of its caller.  An exception drops the frames   *)
(* up to the one that catches it.  No other handler runs until the stack   *)
(* is empty.                                                               *)
(*                                                                         *)
(* The node a task is first given to is any listed one (see                *)
(* ChoiceStrategies); workers are not restarted (see Pool); `stolen', a    *)
(* count nothing depends on, is left out.                                  *)
(***************************************************************************)
EXTENDS Integers, Sequences, FiniteSets, FiniteSetsExt, TLC

CONSTANTS
  Nodes,           \* number of worker nodes at the start
  Tasks,           \* number of calls of execute()
  InitialOptions,  \* the tasksQueueOptions the pool is constructed with
  LaterOptions,    \* those the queues are later used with, or refused
  MaxDisturbances  \* bound: changes of the options, and workers that fail or
                   \* are destroyed

\* TasksQueueOptions, all given.
TasksQueueOptions == [size : Nat \ {0}, concurrency : Nat \ {0},
                      taskStealing : BOOLEAN,
                      tasksStealingOnBackPressure : BOOLEAN]

\* No tasksQueueOptions: what is compared with one of them compares as false.
NoOptions == <<>>

\* checkValidTasksQueueOptions
ValidTasksQueueOptions(given) ==
  \A option \in {"size", "concurrency"} \cap DOMAIN given : given[option] > 0

\* The size of a queue, unless an option gives another.
DefaultSize == Nodes ^ 2

\* buildTasksQueueOptions: what is not given has its default.
BuildTasksQueueOptions(given) ==
  given @@ [size |-> DefaultSize, concurrency |-> 1, taskStealing |-> TRUE,
            tasksStealingOnBackPressure |-> TRUE]

ASSUME SizeAssumption == /\ Nodes \in Nat \ {0} /\ Tasks \in Nat
                         /\ MaxDisturbances \in Nat
ASSUME OptionsAssumption ==
  /\ ValidTasksQueueOptions(InitialOptions)
  /\ \A given \in {InitialOptions} \cup LaterOptions :
       ValidTasksQueueOptions(given) =>
         BuildTasksQueueOptions(given) \in TasksQueueOptions

VARIABLES
  enableTasksQueue, tasksQueueOptions,   \* of the pool's options
  workerNodes,             \* this.workerNodes, as ids of workers
  keyOfTask,               \* the position kept in promiseResponseMap, or None
  \* of the worker node of each worker
  ready,                   \* info.ready
  open,                    \* messageChannel is set
  executing, tasksQueue,
  onEmptyQueue, onBackPressure,   \* which nodes have the callback
  backPressureSize,        \* tasksQueueBackPressureSize
  onEmptyQueueCount,       \* 0, or 1 for any number above
  onBackPressureStarted,
  timer,                   \* startOnEmptyQueue sleeps
  \* the calls under way and the workers
  stack,
  crashed,                 \* an exception nobody catches ended the process
  inFlight,                \* tasks each worker has been sent, unanswered
  answered,                \* tasks answered
  lost,                    \* tasks that were held by a call that threw
  strayed,                 \* history: counts no longer are those of the workers
  disturbances             \* bound

optionVars == <<enableTasksQueue, tasksQueueOptions, onEmptyQueue,
                onBackPressure, backPressureSize>>
listVars == <<workerNodes, ready, open>>
queueVars == <<executing, tasksQueue, inFlight>>
callbackVars == <<onEmptyQueueCount, onBackPressureStarted, timer>>
endVars == <<crashed, lost>>
taskVars == <<keyOfTask, answered, strayed>>
vars == <<optionVars, listVars, queueVars, callbackVars, endVars, taskVars,
          disturbances, stack>>

None == 0
Ids == 1 .. Nodes
Listed == {workerNodes[i] : i \in DOMAIN workerNodes}
Position(w) == IF w \in Listed
                 THEN CHOOSE i \in DOMAIN workerNodes : workerNodes[i] = w
                 ELSE None
Queued(w) == Len(tasksQueue[w])

\* The innermost call, and what its callers still have to do.
Frame(at, node, task) == [at |-> at, node |-> node, task |-> task]
Loop(node, order) == [at |-> "tasksStealingOnBackPressure", node |-> node,
                      task |-> None, order |-> order]
Top == stack[1]
Callers == Tail(stack)
At(at) == stack # <<>> /\ ~crashed /\ Top.at = at

\* Whether nodes have a callback: where the queues and the option are on.
InitiallyOn(option) ==
  enableTasksQueue /\ BuildTasksQueueOptions(InitialOptions)[option]

\* A pool that has started: only the options of queues that are on are built.
Init ==
  /\ enableTasksQueue \in BOOLEAN
  /\ tasksQueueOptions = IF enableTasksQueue
                           THEN BuildTasksQueueOptions(InitialOptions)
                           ELSE NoOptions
  /\ workerNodes = [i \in Ids |-> i]
  /\ keyOfTask = [t \in 1 .. Tasks |-> None]
  /\ ready = [w \in Ids |-> TRUE] /\ open = [w \in Ids |-> TRUE]
  /\ executing = [w \in Ids |-> 0]
  /\ tasksQueue = [w \in Ids |-> <<>>]
  /\ onEmptyQueue = [w \in Ids |-> InitiallyOn("taskStealing")]
  /\ onBackPressure = [w \in Ids |-> InitiallyOn("tasksStealingOnBackPressure")]
  /\ backPressureSize = [w \in Ids |-> IF enableTasksQueue
                         THEN tasksQueueOptions.size ELSE DefaultSize]
  /\ onEmptyQueueCount = [w \in Ids |-> 0]
  /\ onBackPressureStarted = [w \in Ids |-> FALSE]
  /\ timer = [w \in Ids |-> FALSE]
  /\ stack = <<>> /\ crashed = FALSE
  /\ inFlight = [w \in Ids |-> {}]
  /\ answered = {} /\ lost = {} /\ strayed = ~enableTasksQueue
  /\ disturbances = 0

-----------------------------------------------------------------------------
(* The operations of a worker node, as the innermost call runs them.       *)

\* An exception: startOnEmptyQueue is asynchronous and its promise is caught,
\* so what it throws goes no further than its frame "sleep"; what goes further
\* than an event listener ends the process.
Throw ==
  LET Caught(i) == stack[i].at = "sleep"
      catch == CHOOSE i \in DOMAIN stack :
                 /\ Caught(i) \/ i = Len(stack)
                 /\ \A j \in 1 .. i - 1 : ~Caught(j)
  IN  /\ stack' = SubSeq(stack, catch + 1, Len(stack))
      /\ crashed' = (stack[catch].at = "listener")
      /\ lost' = lost \cup ({stack[i].task : i \in 1 .. catch} \ {None})

\* executeTask: the task is counted before it is sent.
ExecuteTask(w, t) ==
  /\ executing' = [executing EXCEPT ![w] = @ + 1]
  /\ IF open[w]
       THEN /\ inFlight' = [inFlight EXCEPT ![w] = @ \cup {t}]
            /\ stack' = Callers /\ UNCHANGED endVars
       ELSE Throw /\ UNCHANGED inFlight

\* A slip to be noticed: the callback is called while it is under way.
NestingCallback(w) == onBackPressure[w] /\ Queued(w) + 1 >= backPressureSize[w]

\* Whether a task more makes the node call onBackPressure.
CallsOnBackPressure(w) ==
  /\ onBackPressure[w]
  /\ Queued(w) + 1 >= backPressureSize[w]
  /\ ~onBackPressureStarted[w]

EnqueueTask(w, t) ==
  /\ tasksQueue' = [tasksQueue EXCEPT ![w] = Append(@, t)]
  /\ IF CallsOnBackPressure(w)
       THEN /\ onBackPressureStarted' = [onBackPressureStarted EXCEPT ![w] = TRUE]
            /\ stack' = <<Frame("onBackPressure", w, None),
                          Frame("onBackPressureEnd", w, None)>> \o Callers
       ELSE stack' = Callers /\ UNCHANGED onBackPressureStarted

\* What dequeueTask and popTask call when they take the last task.
EmptyQueueCalls(w) ==
  IF onEmptyQueue[w] /\ Queued(w) = 1 /\ onEmptyQueueCount[w] = 0
    THEN <<Frame("startOnEmptyQueue", w, None)>> ELSE <<>>

\* A slip to be noticed: a node that has nothing queued is never busy.
ShallExecuteUnlessQueued(w) == tasksQueue[w] = <<>>

\* Whether the node, executing so many tasks, may execute one more.
HasRoom(count) ==
  tasksQueueOptions # NoOptions /\ count < tasksQueueOptions.concurrency

\* shallExecuteTask
ShallExecuteTask(w) == tasksQueue[w] = <<>> /\ HasRoom(executing[w])

\* The task is given to the node, once what taking it has called has returned.
Deliver ==
  /\ At("deliver")
  /\ CASE Top.node = None ->
            Throw /\ UNCHANGED <<queueVars, callbackVars>>
       [] Top.node # None /\ ShallExecuteTask(Top.node) ->
            ExecuteTask(Top.node, Top.task) /\ UNCHANGED <<tasksQueue, callbackVars>>
       [] OTHER ->
            /\ EnqueueTask(Top.node, Top.task)
            /\ UNCHANGED <<executing, inFlight, onEmptyQueueCount, timer, endVars>>
  /\ UNCHANGED <<optionVars, listVars, taskVars, disturbances>>

Run ==
  /\ At("executeTask")
  /\ ExecuteTask(Top.node, Top.task)
  /\ UNCHANGED <<optionVars, listVars, tasksQueue, callbackVars, taskVars,
                 disturbances>>

-----------------------------------------------------------------------------
(* Stealing on an empty queue.                                             *)

\* A slip to be noticed: the loop ends without leaving its count at zero.
StopKeepingCount(w) == UNCHANGED onEmptyQueueCount

\* The loop ends.
StopStealing(w) == onEmptyQueueCount' = [onEmptyQueueCount EXCEPT ![w] = 0]

\* The node goes on stealing until it has something to do.
StartOnEmptyQueue ==
  LET w == Top.node IN
  /\ At("startOnEmptyQueue")
  /\ IF onEmptyQueueCount[w] > 0 /\ (executing[w] > 0 \/ Queued(w) > 0)
       THEN /\ StopStealing(w)
            /\ stack' = Callers
       ELSE /\ onEmptyQueueCount' = [onEmptyQueueCount EXCEPT ![w] = 1]
            /\ stack' = (IF onEmptyQueue[w]
                           THEN <<Frame("onEmptyQueue", w, None)>> ELSE <<>>)
                          \o <<Frame("sleep", w, None)>> \o Callers
  /\ UNCHANGED <<optionVars, listVars, queueVars, onBackPressureStarted, timer,
                 endVars, taskVars, disturbances>>

\* A slip to be noticed: a single task is not worth stealing.
RichestOfMany(w) ==
  {workerNodes[i] : i \in {i \in DOMAIN workerNodes :
     /\ ready[workerNodes[i]] /\ workerNodes[i] # w
     /\ Queued(workerNodes[i]) > 1
     /\ \A j \in DOMAIN workerNodes :
          ready[workerNodes[j]] /\ workerNodes[j] # w =>
            Queued(workerNodes[j]) <= Queued(workerNodes[i])}}

\* The first of the ready nodes with the most tasks queued.
Richest(w) ==
  {workerNodes[i] : i \in {i \in DOMAIN workerNodes :
     /\ ready[workerNodes[i]] /\ workerNodes[i] # w
     /\ Queued(workerNodes[i]) > 0
     /\ \A j \in DOMAIN workerNodes :
          LET v == workerNodes[j] IN
          ready[v] /\ v # w =>
            \/ Queued(v) < Queued(workerNodes[i])
            \/ Queued(v) = Queued(workerNodes[i]) /\ i <= j}}

\* A slip to be noticed: the task is left where it is stolen from.
Copied(w) == tasksQueue

\* popTask
Popped(w) == [tasksQueue EXCEPT ![w] = SubSeq(@, 1, Len(@) - 1)]
LastTask(w) == tasksQueue[w][Queued(w)]

\* taskStealingOnEmptyQueue: a node that is no longer listed is not found, but
\* the task is popped before that is noticed.
StealOnEmptyQueue ==
  LET w == Top.node
      thief == IF w \in Listed THEN w ELSE None
  IN  /\ At("onEmptyQueue")
      /\ \/ /\ Richest(w) = {}
            /\ stack' = Callers /\ UNCHANGED tasksQueue
         \/ \E source \in Richest(w) :
              /\ tasksQueue' = Popped(source)
              /\ stack' = EmptyQueueCalls(source)
                            \o <<Frame("deliver", thief, LastTask(source))>>
                            \o Callers
      /\ UNCHANGED <<optionVars, listVars, executing, inFlight, callbackVars,
                     endVars, taskVars, disturbances>>

\* A slip to be noticed: the next round does not wait.
Sleepless ==
  /\ At("sleep")
  /\ stack' = <<Frame("startOnEmptyQueue", Top.node, None)>> \o Callers
  /\ UNCHANGED <<optionVars, listVars, queueVars, callbackVars, endVars,
                 taskVars, disturbances>>

\* The delay before the next round begins.
Sleep ==
  /\ At("sleep")
  /\ timer' = [timer EXCEPT ![Top.node] = TRUE]
  /\ stack' = Callers
  /\ UNCHANGED <<optionVars, listVars, queueVars, onEmptyQueueCount,
                 onBackPressureStarted, endVars, taskVars, disturbances>>

-----------------------------------------------------------------------------
(* Stealing under back pressure.                                           *)

\* The sorted copy: fewest tasks first, equals in the order of the nodes.
Sorted ==
  CHOOSE order \in [DOMAIN workerNodes -> Listed] :
    \A i, j \in DOMAIN order : i < j =>
      \/ Queued(order[i]) < Queued(order[j])
      \/ /\ Queued(order[i]) = Queued(order[j])
         /\ Position(order[i]) < Position(order[j])

OnBackPressure ==
  /\ At("onBackPressure")
  /\ stack' = (IF tasksQueueOptions.size <= 1 THEN <<>>
               ELSE <<Loop(Top.node, [i \in DOMAIN Sorted |->
                        [key |-> i, node |-> Sorted[i]]])>>) \o Callers
  /\ UNCHANGED <<optionVars, listVars, queueVars, callbackVars, endVars,
                 taskVars, disturbances>>

\* One iteration: the node looked at is that of the sorted copy, the node the
\* task goes to the one that has that position among the pool's nodes.
StealOnBackPressure ==
  LET w == Top.node
      entry == Top.order[1]
      rest == IF Len(Top.order) = 1 THEN <<>> ELSE <<Loop(w, Tail(Top.order))>>
  IN  /\ At("tasksStealingOnBackPressure")
      /\ IF /\ Queued(w) > 0
            /\ ready[entry.node] /\ entry.node # w
            /\ Queued(entry.node) < tasksQueueOptions.size - 1
           THEN /\ tasksQueue' = Popped(w)
                /\ stack' = EmptyQueueCalls(w)
                     \o <<Frame("deliver", workerNodes[entry.key], LastTask(w))>>
                     \o rest \o Callers
           ELSE stack' = rest \o Callers /\ UNCHANGED tasksQueue
      /\ UNCHANGED <<optionVars, listVars, executing, inFlight, callbackVars,
                     endVars, taskVars, disturbances>>

OnBackPressureEnd ==
  /\ At("onBackPressureEnd")
  /\ onBackPressureStarted' = [onBackPressureStarted EXCEPT ![Top.node] = FALSE]
  /\ stack' = Callers
  /\ UNCHANGED <<optionVars, listVars, queueVars, onEmptyQueueCount, timer,
                 endVars, taskVars, disturbances>>

-----------------------------------------------------------------------------
(* Emptying the queue of a node.                                           *)

\* Where redistributeQueuedTasks moves a task: the first node, whatever it is,
\* unless a ready one has fewer tasks queued.
Poorest ==
  LET Fewer(i, j) == Queued(workerNodes[i]) < Queued(workerNodes[j])
      better == {i \in DOMAIN workerNodes : ready[workerNodes[i]] /\ Fewer(i, 1)}
  IN  IF better = {} THEN workerNodes[1]
      ELSE workerNodes[CHOOSE i \in better : \A j \in better :
                         Fewer(i, j) \/ (~Fewer(j, i) /\ i <= j)]

Dequeued(w) == [tasksQueue EXCEPT ![w] = Tail(@)]

\* One iteration of redistributeQueuedTasks: the destination is chosen before
\* the task is taken, which may call onEmptyQueue of the failed node.
Redistribute ==
  LET w == Top.node IN
  /\ At("redistributeQueuedTasks")
  /\ IF Queued(w) > 0
       THEN /\ tasksQueue' = Dequeued(w)
            /\ stack' = EmptyQueueCalls(w)
                 \o <<Frame("deliver", Poorest, tasksQueue[w][1])>> \o stack
       ELSE stack' = Callers /\ UNCHANGED tasksQueue
  /\ UNCHANGED <<optionVars, listVars, executing, inFlight, callbackVars,
                 endVars, taskVars, disturbances>>

\* flushTasksQueues, when no node has a callback any more.
Flush ==
  LET full == {w \in Listed : Queued(w) > 0}
      first == CHOOSE w \in full : \A v \in full : Position(w) <= Position(v)
  IN  /\ At("flushTasksQueues")
      /\ IF full = {} THEN stack' = Callers /\ UNCHANGED tasksQueue
         ELSE /\ tasksQueue' = Dequeued(first)
              /\ stack' = <<Frame("executeTask", first, tasksQueue[first][1])>>
                             \o stack
      /\ UNCHANGED <<optionVars, listVars, executing, inFlight, callbackVars,
                     endVars, taskVars, disturbances>>

-----------------------------------------------------------------------------
(* The handlers: calls of the application, timers, messages and events.    *)

Idle == stack = <<>> /\ ~crashed
Call == Frame("call", None, None)          \* the caller gets the exception
Listener == Frame("listener", None, None)  \* nobody does

\* A handler returns.
Return ==
  /\ At("call") \/ At("listener")
  /\ stack' = Callers
  /\ UNCHANGED <<optionVars, listVars, queueVars, callbackVars, endVars,
                 taskVars, disturbances>>

\* execute(): the worker choice strategy may choose any listed node.
Execute(t, w) ==
  /\ Idle /\ keyOfTask[t] = None
  /\ t > 1 => keyOfTask[t - 1] # None
  /\ keyOfTask' = [keyOfTask EXCEPT ![t] = Position(w)]
  /\ stack' = <<Frame(IF enableTasksQueue THEN "deliver" ELSE "executeTask", w, t),
                Call>>
  /\ UNCHANGED <<optionVars, listVars, queueVars, callbackVars, endVars,
                 answered, strayed, disturbances>>

\* A slip to be noticed: an answer more than counted takes the count below zero.
OneFewerAtLeast(n) == n - 1

\* A slip to be noticed: the last task stays counted.
OneFewerUnlessLast(n) == IF n > 1 THEN n - 1 ELSE n

\* updateTaskStatisticsWorkerUsage
OneFewer(n) == IF n > 0 THEN n - 1 ELSE 0

\* handleTaskExecutionResponse: the answer is counted for the node the task was
\* first given to, or the one that now has its position, and it is that node
\* whose next task is executed.
Answer(w, t) ==
  LET key == keyOfTask[t]
      node == workerNodes[key]
      free == HasRoom(OneFewer(executing[node]))
  IN  /\ Idle /\ open[w] /\ t \in inFlight[w]
      /\ inFlight' = [inFlight EXCEPT ![w] = @ \ {t}]
      /\ answered' = answered \cup {t}
      /\ strayed' = (strayed \/ key # Position(w))
      /\ IF key \notin DOMAIN workerNodes
           THEN /\ crashed' = TRUE
                /\ UNCHANGED <<executing, tasksQueue, stack>>
           ELSE /\ executing' = [executing EXCEPT ![node] = OneFewer(@)]
                /\ IF enableTasksQueue /\ Queued(node) > 0 /\ free
                     THEN /\ tasksQueue' = Dequeued(node)
                          /\ stack' = EmptyQueueCalls(node)
                               \o <<Frame("executeTask", node, tasksQueue[node][1]),
                                    Listener>>
                     ELSE UNCHANGED <<tasksQueue, stack>>
                /\ UNCHANGED crashed
      /\ UNCHANGED <<optionVars, listVars, callbackVars, lost, keyOfTask,
                     disturbances>>

\* The delay of a node is over; a node that was removed goes on as well.
Timer(w) ==
  /\ Idle /\ timer[w]
  /\ timer' = [timer EXCEPT ![w] = FALSE]
  /\ stack' = <<Frame("startOnEmptyQueue", w, None), Call>>
  /\ UNCHANGED <<optionVars, listVars, queueVars, onEmptyQueueCount,
                 onBackPressureStarted, endVars, taskVars, disturbances>>

Disturbed == /\ disturbances < MaxDisturbances
             /\ disturbances' = disturbances + 1

\* The 'error' listener, with the restart left out.
WorkerError(w) ==
  /\ Idle /\ Disturbed /\ open[w]
  /\ ready' = [ready EXCEPT ![w] = FALSE]
  /\ open' = [open EXCEPT ![w] = FALSE]
  /\ stack' = IF enableTasksQueue
                THEN <<Frame("redistributeQueuedTasks", w, None), Listener>>
                ELSE <<>>
  /\ UNCHANGED <<optionVars, workerNodes, queueVars, callbackVars, endVars,
                 taskVars>>

\* The destruction of a dynamic node that has nothing to do has closed its
\* channel; it stays listed, and ready, until its worker exits.
NodeDestroyed(w) ==
  /\ Idle /\ Disturbed /\ open[w]
  /\ Queued(w) = 0 /\ inFlight[w] = {} /\ Len(workerNodes) > 1
  /\ open' = [open EXCEPT ![w] = FALSE]
  /\ UNCHANGED <<optionVars, workerNodes, ready, queueVars, callbackVars,
                 endVars, taskVars, stack>>

\* removeWorkerNode, on 'exit'.
WorkerExit(w) ==
  /\ Idle /\ ~open[w] /\ w \in Listed
  /\ workerNodes' = SubSeq(workerNodes, 1, Position(w) - 1)
                      \o SubSeq(workerNodes, Position(w) + 1, Len(workerNodes))
  /\ UNCHANGED <<optionVars, ready, open, queueVars, callbackVars, endVars,
                 taskVars, disturbances, stack>>

-----------------------------------------------------------------------------
(* The options.                                                            *)

\* setTaskStealing and setTasksStealingOnBackPressure, or unset.
Installed(callback, on) ==
  [w \in Ids |-> IF w \in Listed THEN on ELSE callback[w]]

\* setTasksQueueOptions, or enableTasksQueue(true) with these options.
SetTasksQueueOptions(given) ==
  LET options == BuildTasksQueueOptions(given) IN
  /\ Idle /\ Disturbed /\ ValidTasksQueueOptions(given)
  /\ enableTasksQueue' = TRUE
  /\ tasksQueueOptions' = options
  /\ strayed' = (strayed \/ options.concurrency < tasksQueueOptions.concurrency)
  /\ backPressureSize' = [w \in Ids |-> IF w \in Listed THEN options.size
                                                       ELSE backPressureSize[w]]
  /\ onEmptyQueue' = Installed(onEmptyQueue, options.taskStealing)
  /\ onBackPressure' = Installed(onBackPressure, options.tasksStealingOnBackPressure)
  /\ UNCHANGED <<listVars, queueVars, callbackVars, endVars, keyOfTask, answered,
                 stack>>

\* enableTasksQueue(true) with options that are not valid throws when the queues
\* are on already: they are left without any options.
RefuseTasksQueueOptions(given) ==
  /\ Idle /\ Disturbed /\ ~enableTasksQueue /\ ~ValidTasksQueueOptions(given)
  /\ enableTasksQueue' = TRUE
  /\ UNCHANGED <<tasksQueueOptions, onEmptyQueue, onBackPressure,
                 backPressureSize, listVars, queueVars, callbackVars, endVars,
                 taskVars, stack>>

\* enableTasksQueue(false): nobody steals, the queues are flushed, and only
\* then the queues are switched off.
DisableTasksQueue ==
  /\ Idle /\ Disturbed
  /\ enableTasksQueue /\ strayed' = TRUE
  /\ onEmptyQueue' = Installed(onEmptyQueue, FALSE)
  /\ onBackPressure' = Installed(onBackPressure, FALSE)
  /\ stack' = <<Frame("flushTasksQueues", None, None),
                Frame("disableTasksQueue", None, None), Call>>
  /\ UNCHANGED <<enableTasksQueue, tasksQueueOptions, backPressureSize, listVars,
                 queueVars, callbackVars, endVars, keyOfTask, answered>>

TasksQueueDisabled ==
  /\ At("disableTasksQueue")
  /\ enableTasksQueue' = FALSE
  /\ tasksQueueOptions' = NoOptions
  /\ stack' = Callers
  /\ UNCHANGED <<onEmptyQueue, onBackPressure,
                 backPressureSize, listVars, queueVars, callbackVars, endVars,
                 taskVars, disturbances>>

\* What the pool tells of its nodes and tasks when asked.
Info ==
  [workerNodes |-> Len(workerNodes),
   idleWorkerNodes |-> Cardinality({w \in Listed : executing[w] = 0}),
   busyWorkerNodes |-> Cardinality({w \in Listed : executing[w] > 0}),
   executingTasks |-> MapThenSumSet(LAMBDA w : executing[w], Listed),
   queuedTasks |-> MapThenSumSet(LAMBDA w : Queued(w), Listed),
   backPressure |-> enableTasksQueue
                      /\ \A w \in Listed : Queued(w) >= backPressureSize[w]]

-----------------------------------------------------------------------------
Step == \/ Deliver \/ Run \/ StartOnEmptyQueue \/ StealOnEmptyQueue \/ Sleep
        \/ OnBackPressure \/ StealOnBackPressure \/ OnBackPressureEnd
        \/ Redistribute \/ Flush \/ TasksQueueDisabled \/ Return

Next ==
  \/ Step
  \/ \E t \in 1 .. Tasks, w \in Listed : Execute(t, w)
  \/ \E w \in Ids, t \in 1 .. Tasks : Answer(w, t)
  \/ \E w \in Ids : Timer(w) \/ WorkerError(w) \/ NodeDestroyed(w) \/ WorkerExit(w)
  \/ \E given \in LaterOptions : \/ SetTasksQueueOptions(given)
                                \/ RefuseTasksQueueOptions(given)
  \/ DisableTasksQueue

\* Calls go on until they return, workers answer, and delays end.
Fairness ==
  /\ WF_vars(Step)
  /\ \A w \in Ids : WF_vars(Timer(w)) /\ WF_vars(\E t \in 1 .. Tasks : Answer(w, t))

Spec == Init /\ [][Next]_vars /\ Fairness

-----------------------------------------------------------------------------
(* Properties                                                              *)

\* How many places hold the task: queues, workers, calls under way, and the
\* histories of those answered and of those lost.
Places(t) ==
  Cardinality({place \in UNION {{w} \X DOMAIN tasksQueue[w] : w \in Ids} :
                 tasksQueue[place[1]][place[2]] = t})
    + Cardinality({w \in Ids : t \in inFlight[w]})
    + Cardinality({i \in DOMAIN stack : stack[i].task = t})
    + Cardinality({past \in {<<1, answered>>, <<2, lost>>} : t \in past[2]})

\* Types.
TypeOK ==
  /\ enableTasksQueue \in BOOLEAN
  /\ tasksQueueOptions \in TasksQueueOptions \cup {NoOptions}
  /\ workerNodes \in Seq(Ids) /\ keyOfTask \in [1 .. Tasks -> 0 .. Nodes]
  /\ {ready, open, onEmptyQueue, onBackPressure, onBackPressureStarted, timer}
       \subseteq [Ids -> BOOLEAN]
  /\ executing \in [Ids -> 0 .. Tasks] /\ onEmptyQueueCount \in [Ids -> 0 .. 1]
  /\ tasksQueue \in [Ids -> Seq(1 .. Tasks)]
  /\ inFlight \in [Ids -> SUBSET (1 .. Tasks)]
  /\ answered \subseteq 1 .. Tasks /\ lost \subseteq 1 .. Tasks

\* Whatever is stolen, redistributed or flushed, and however callbacks nest, a
\* task is in one place: it is never doubled nor dropped.  Tasks are only lost
\* when a node whose channel is closed is still given one or still steals.
TasksConserved ==
  /\ \A t \in 1 .. Tasks : Places(t) = (IF keyOfTask[t] = None THEN 0 ELSE 1)
  /\ lost # {} => \E w \in Ids : ~open[w]

\* The flags that keep callbacks from calling themselves do so, and are clear
\* again when the callback is over, or it would never be called again: only an
\* exception (it loses a task) leaves one set.
CallbacksRearmed ==
  \A w \in Ids :
    LET Calls(at) == {i \in DOMAIN stack : stack[i].at = at /\ stack[i].node = w}
    IN  /\ Cardinality(Calls("onBackPressureEnd")) <= 1
        /\ onBackPressureStarted[w] =>
             Calls("onBackPressureEnd") # {} \/ lost # {}

\* A node has one stealing loop at a time, and while its count says it has one,
\* the loop is under way or asleep: it was not left without its next delay.
OneStealingLoop ==
  \A w \in Ids :
    LET calls == {i \in DOMAIN stack : /\ stack[i].at \in {"startOnEmptyQueue", "sleep"}
                                       /\ stack[i].node = w}
        loops == Cardinality(calls) + (IF timer[w] THEN 1 ELSE 0)
    IN  /\ loops <= 1
        /\ onEmptyQueueCount[w] > 0 => loops = 1 \/ lost # {}

\* A worker is given one task more than its concurrency at most: the task a node
\* steals while the one it dequeues is not counted yet.  (Only until the answer
\* to a stolen task is counted for the node it was stolen from, a node before
\* the one that answers is removed, the concurrency is lowered, or the queues are
\* off.)
InFlightBounded ==
  ~strayed => \A w \in Ids :
    Cardinality(inFlight[w]) <= tasksQueueOptions.concurrency + 1

\* Between handlers, what the pool tells the application adds up: every task that
\* was given to it is counted as executing or queued until it is answered, and
\* the busy nodes are those whose workers have a task; for as long as no node
\* has left and no answer was counted for another node than the one that gave it.
InfoAddsUp ==
  stack = <<>> /\ ~crashed /\ ~strayed /\ lost = {} /\ Listed = Ids =>
    /\ Info.executingTasks + Info.queuedTasks + Cardinality(answered)
         = Cardinality({t \in 1 .. Tasks : keyOfTask[t] # None})
    /\ Info.busyWorkerNodes = Cardinality({w \in Ids : inFlight[w] # {}})
    /\ Info.backPressure => Info.idleWorkerNodes = 0

\* Callbacks that call each other come to an end: the pool's thread is free
\* again, unless it redistributes the queue of a failed worker.
HandlersEnd ==
  stack # <<>> ~> \/ stack = <<>>
                  \/ \E i \in DOMAIN stack : stack[i].at = "redistributeQueuedTasks"

\* A node that steals does not for ever see tasks wait at another node while it
\* counts nothing as executing and has nothing queued.
StealersHelp ==
  \A w \in Ids :
    ~ <>[](/\ onEmptyQueue[w] /\ onEmptyQueueCount[w] > 0 /\ w \in Listed
           /\ executing[w] = 0 /\ Queued(w) = 0 /\ lost = {} /\ ~crashed
           /\ \E v \in Listed : v # w /\ ready[v] /\ Queued(v) > 0)
=============================================================================
