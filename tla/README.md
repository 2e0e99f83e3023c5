# A TLA+ model of poolifier

[poolifier](../src/README.md) runs task functions on a pool of `worker_threads`
or `cluster` workers. The pool, on the main thread, keeps a *worker node* per
worker, chooses a node for every `execute()`, keeps an optional queue per node,
restarts workers that fail, creates and kills workers on demand, and hands
queued tasks around. This directory models that machinery in TLA+, checks it
with TLC on small instances, and proves with TLAPS, for all instances, every
safety property that is checked.

Source lines below are those of `../src/src/`.

## 1. The system

| component | source | state | operations |
|---|---|---|---|
| pool core | `pools/abstract-pool.ts` | `workerNodes`, `promiseResponseMap`, `started`, options | `start`, `execute`, `destroy`, `enableTasksQueue`, `setWorkerChoiceStrategy`, message and event listeners, redistribution, stealing |
| worker node | `pools/worker-node.ts` | `info`, `usage`, `tasksQueue`, `messageChannel` | enqueue and dequeue, close channel, empty queue and back pressure callbacks |
| thread pools | `pools/thread/{fixed,dynamic}.ts` | none of their own | how a worker is created, sent to, destroyed; `max` |
| cluster pools | `pools/cluster/{fixed,dynamic}.ts` | none of their own | the same over process messages |
| choice strategies | `pools/selection-strategies/*.ts` | next and previous key, weights, rounds, virtual times, retries | `choose`, `update`, `remove`, `reset`, `setOptions` |
| worker side | `worker/*.ts` | task functions, last task time, active interval | startup message, `run`, `checkActive`, kill handler |
| task function operations | `abstract-pool.ts` 686-853, `abstract-worker.ts` 118-364 | `taskFunctions` on both sides | add, remove, set default: broadcast and count answers |
| tasks queue | `deque.ts` | doubly linked list, size | push, unshift, pop, shift |
| measurements | `abstract-pool.ts` 1003-1151, `worker-node.ts`, `utils.ts`, `abstract-worker.ts` 515-609 | usages of nodes and task functions, what workers measure | the hooks around a task, `resetUsage`, statistics messages |
| measurement history | `circular-array.ts` | bounded array | push, unshift, concat, splice, resize |

How they interact. A caller's `execute()` asks the strategy for a key, stores
`{ workerNodeKey, resolve, reject }` in `promiseResponseMap` and either posts
the task on the node's `MessageChannel` or puts it in the node's queue. The
worker calls the task function and posts the result, or the error. The pool's
listener settles the promise, decrements the counter of the node that the kept
key names *by then*, and takes the next task from that node's queue. A dynamic
worker that has been inactive posts a kill request; the pool answers with a
kill message, the worker runs its kill handler, answers and closes its port,
the pool closes the channel and terminates the thread. An uncaught error of a
worker reaches the pool as an `error` event, on which it takes the node out of
service, adds a replacement and redistributes the queue; `exit` follows later,
and only then the node leaves the array.

What is hard about it:

- **Positions as names.** Nodes are named by array index in the promise map, in
  the strategies and in callbacks, while `splice` moves the indices.
- **Two moments of death.** A node is out of service at `error`, or when its
  worker handles the kill message, but stays in the array until `exit`.
- **Counters that decide.** `usage.tasks.executing` says whether a node is busy,
  whether a task is queued, and whether a worker may be killed.
- **Overlap.** Kills the workers ask for, `destroy()`, restarts and creation on
  demand run into each other; messages and worker events have separate queues.
- **Exceptions in listeners**, which end a Node.js process.
- **Synchronous callbacks in queue operations**, for stealing: they nest.
- **Answers without a name**: of a worker to one of several operations, to a
  measurement asked for by a strategy that is no longer in use.

What makes each component correct:

- *pool core*: a task function is called at most once per `execute()`, the
  promise is settled by its outcome only and, if nothing fails, always; the key
  kept names the node that has the task; counters count; static workers are
  kept, the maximum is kept; `destroy()` ends; no listener throws.
- *stealing*: a task is in one place; callbacks end and are armed again; an idle
  node that steals gets what waits elsewhere; workers are not overloaded.
- *strategies*: the key returned is one of a node; nodes are kept level; turns
  come to every node, whatever the weights.
- *worker side*: one answer per task; nothing is lost by a soft kill.
- *task function operations*: both sides agree once the operation is resolved.
- *measurements*: statistics are those of the tasks there were.
- *deque, circular array*: a sequence, resp. the last `size` items.

`PROJECT.json` lists the hazards one by one with their lines, and the
properties that are there for them.

## 2. The modules

| module | what it is |
|---|---|
| `Pool` | pool core, worker nodes, thread pools, round robin, and the threads at the other end: one action per method, listener, event and worker step |
| `TaskPromises` | the abstract specification: what callers of `execute()` are promised |
| `TaskStealing` | the tasks queues with the callbacks that run inside their operations, and their options |
| `TaskFunctionOps` | operations on task functions, in a cluster pool whose nodes come and go |
| `ChoiceStrategies` | the seven worker choice strategies and their context |
| `Measurements` | usages, statistics and what workers are told to measure |
| `CircularArray` | the measurement history: operators used by `Measurements` |
| `Deque`, `SequenceDeque` | the linked list under a tasks queue, and the sequence it implements |
| `PoolProofs`, `PoolTaskProofs`, `PoolBookProofs` | theorems about `Pool`, proved by TLAPS: its types, senders and queues; its tasks; its bookkeeping and its size |
| `TaskStealingProofs` | theorems about `TaskStealing`: every invariant its run checks |
| `TaskFunctionOpsProofs` | theorems about `TaskFunctionOps`: every safety property its run checks |
| `ChoiceStrategiesProofs` | theorems about `ChoiceStrategies`: every safety property its passing run checks |
| `MeasurementsProofs` | theorems about `Measurements`: every property its run checks |
| `DequeProofs` | theorems about `Deque`: every property its run checks |
| `MC...` | instances for TLC |

Each module is a view of the same pool with the state its question needs: nodes
are in an array in all of them, removed by position in `Pool`,
`ChoiceStrategies`, `TaskStealing` and `TaskFunctionOps` alike, and what one
module leaves open (which node is chosen, when a worker dies, which names
arrive) is a free choice there and determined in another. A property that
holds under the free choice holds for what the other module does.

### `Pool`

**State.** `workerNodes` is the array, as a sequence of worker ids (`threadId`,
never reused); the node's fields (`ready`, `dynamic`, `channel`, `executing`,
`tasksQueue`) are functions of the id, so that a node that has left the array
can still be talked about. `promise` and `promiseResponseMap` are per task. A
task is one call of `execute()` with its `taskId`. `toWorker` and `toPool` are
the two directions of a `MessageChannel`, in order and lossless, as it is,
until a port is closed. `thread` is the life cycle of a worker thread:

    none -> starting -> running -> closed -> terminating -> exited
              \_____________\_________\--> failed -> errored --^

`closed` has handled a kill message; `failed` died of an uncaught error whose
`error` event the pool has not seen; `errored` has had `error`, not `exit`.
`killing[w]` is who waits for the answer to a kill message. `runs` counts calls
of task functions: it is history, nothing reads it.

**Atomicity.** JavaScript runs a handler to its end, or to its first `await`, so
a method, listener or event is one action and contains every call it makes. The
only handler cut into steps is the one with an unbounded loop:
`redistributeQueuedTasks` takes a step per turn, with `redistributing` keeping
every other handler out (`MainIdle`) while the worker threads go on.
`destroyWorkerNode` is cut at its `await`: `DestroyWorkerNodes` is the part
before, `HandleKillSuccess` and `HandleWorkerExit` the rest.

**Actions and code.**

| action | code |
|---|---|
| `Start`, `ExecuteNotStarted`, `Execute`, `Destroy` | the methods, `abstract-pool.ts` 869-948 |
| `SetWorkerChoiceStrategy`, `SetEnableTasksQueue` | the methods, 532-598 |
| `HandleWorkerReadyResponse`, `HandleTaskExecutionResponse` | `workerMessageListener`, 1496-1554 |
| `HandleKillRequest` | the listener of `createAndSetupDynamicWorkerNode`, 1250-1297 |
| `HandleKillSuccess`, `HandleKillFailure` | `sendKillMessageToWorker` and the rest of `destroyWorkerNode` |
| `HandleWorkerError`, `RedistributeQueuedTask`, `HandleWorkerExit` | the `error` and `exit` listeners, 1209-1238, 1390-1409, 1610-1621 |
| `HandleReadyMessage`, `RunTask`, `AnswerTask`, `RequestKill`, `HandleKillMessage` | the worker, `abstract-worker.ts`, `thread-worker.ts` |
| `UncaughtError` | the runtime: a worker dies at any point of its life |

**What is abstracted.** Task data and names, results, all run time and ELU
measurements, events other than `error`, and option validation. Strategies other
than round robin are "any listed node" (`Strategy = "ANY"`, see
`ChoiceStrategies`); round robin is exact.
An exception that leaves a listener sets `crashed`, after which nothing happens:
that is what Node.js does with it. Both directions of the exactness matter:
where the code throws half way, the action has the assignments made before.

**Assumed.** Task stealing and stealing on back pressure are off (see
`TaskStealing`). Task functions return or throw; a worker does not call
`process.exit`. Application code calls `start()` and `destroy()` as the
constants bound it. The kill handler of a worker is the default one, which does
nothing and cannot fail (`KillHandler = "none"`), one that returns or throws
(`"sync"`), or an asynchronous one (`"async"`).

### `TaskPromises`

Two variables, `promise` and `runs`, and four actions: a call is accepted or
refused; an accepted task is run, once; only then its promise is settled, for
good. `Pool` implements it under the identity mapping (`RefinesTaskPromises`),
with the restriction that a task that was *refused* is never run. It says
nothing about tasks that are lost, since the library loses those in flight on a
worker that dies.

### `TaskStealing`

**State.** The queue, counter and callbacks of each node; `onEmptyQueueCount`,
as zero or not, `onBackPressureStarted` and the `timer` of the back-off; what
every worker has been sent (`inFlight`); the options, given, validated and built
as the code does. `keyOfTask` is the key kept in `promiseResponseMap`.

**Atomicity.** Here the calls are what matters: `dequeueTask` of a node may call
`startOnEmptyQueue`, which pops a task from another node, whose last task it may
be, before the first call goes on. So the call stack is a variable, a sequence
of frames, and a step runs the innermost one; handlers begin on an empty stack
only. An exception drops frames up to the one that catches it, the promise of
`startOnEmptyQueue`, or else ends the process (a listener) or reaches the caller.

| actions | code |
|---|---|
| `Execute`, `Answer`, `Timer` | `execute` 896-920, `handleTaskExecutionResponse` 1528-1554, the end of the back-off |
| `Deliver`, `Run` | `shallExecuteTask` 861-867, `executeTask`, `enqueueTask` |
| `StartOnEmptyQueue`, `StealOnEmptyQueue`, `Sleep` | `worker-node.ts` 192-204, `taskStealingOnEmptyQueue` 1430-1456 |
| `OnBackPressure`, `StealOnBackPressure`, `OnBackPressureEnd` | `worker-node.ts` 81-93, `tasksStealingOnBackPressure` 1458-1494 |
| `Redistribute`, `Flush` | `redistributeQueuedTasks`, `flushTasksQueues`, now with callbacks |
| `WorkerError`, `NodeDestroyed`, `WorkerExit` | what takes nodes away while others steal |
| `SetTasksQueueOptions`, `RefuseTasksQueueOptions`, `DisableTasksQueue`, `TasksQueueDisabled` | 565-612 |

`Info` is the part of `get info()` about nodes and queues, for `InfoAddsUp`.
The delay of the back-off, and the counts of stolen tasks, are left out. So is
the restart of a failed worker (see `Pool`).

### `TaskFunctionOps`

**State.** Each worker's map of functions, as the operation that defined each
one (functions are compared by identity, which is what makes a function *the*
default one); what the pool has on record of it (`taskFunctionNames`) and its
own map; the promise, listeners and answers of each operation; the two
directions of each worker's channel; the life of its process:

    none -> forked -> running -> left -> closed -> exited

An operation is broadcast in one action and counts every status that reaches
its listeners, as the code does: answers carry no name of the operation. A
dynamic node is sent the functions on record; the listeners for its answers
look it up by the position it was created at (`replaying`), and throw when there
is no such position any more (`crashed`).

The kill protocol is that of cluster pools: kill message, answer, `disconnect()`,
a signal, `exit`. Workers that die are not replaced: a cluster worker that ends
emits `exit`, not `error`, and only `error` restarts.

### `ChoiceStrategies`

**State.** The strategy in use with its properties, the weights, `retriesCount`
of the context, and of every node what the strategies compare. `chosen` is what
the last `execute()` returned. A choice is a record of the key and of the
properties `choose()` leaves, so that a retry is `Choose(Choose(c))`.

`Execute` chooses and gives the node a task; `TaskExecuted` and `TaskFailed` are
the two answers, `afterTaskExecutionHook` (1033-1151) and `update()`: a task that
failed is counted as `failed`, not as executed, and leaves no run time and no ELU
(1086-1090, 1097, 1124), only the time it has waited. An answer brings any of the
run times, and 0 only where the worker may not have been told to measure before
the task began (`Times`). `SetWorkerChoiceStrategy`, `SetWorkerChoiceStrategyOptions`,
`AddWorkerNode` and `RemoveWorkerNode` are the changes. Strategies not in use
are not represented: they are reset when they are chosen. The three that compare
return the first least value, as `reduce()` does; weighted and interleaved
weighted round robin are translated statement by statement, with the gaps that
`find_next_key`, `find_rounds` and observations 12 and 13 tell of. `strayed` remembers that the
removal of a lower key has led the keys astray, `disturbed` that usages do not
count every task.

### `Measurements` and `CircularArray`

One node, its worker and the two channels between them. The hooks around a task
update the usage of the node and of the task's function; a change of strategy
resets both and tells the worker, by a message, what to measure from then on, so
that answers overlap with it. Durations are small numbers, averages and medians
are multiplied by `Scale` to stay whole. `CircularArray` has every method of the
class as an operator on `[items, size]`; `Measurements` uses `PushItems` for its
histories and `ArraysKeepBound` tries the others on each history that comes up.

### `Deque` and `SequenceDeque`

`Deque` has the heap of `Node` objects with their pointers, an action per
method, and both iterators as functions of the number of steps. `order`, the
sequence of linked nodes, is history: it is what the refinement mapping to
`SequenceDeque` reads the contents from. `SequenceDeque` is a sequence, its
largest length so far, and what the last call returned.

## 3. The runs

Deadlock is not checked in any run but `deque`: a pool with nothing to do stops.

| run | instance | properties |
|---|---|---|
| `fixed_queue` | 2 workers, 2 tasks, any choice of node, queues, concurrency 1, one change of options, one error anywhere, no restart | `TypeOK`, `KeyNamesHolder`, `ExecutingCountsInFlight`, `QueuedOnlyWhenBusy`, `NoQueueWhenDisabled`, `EventuallySettled` |
| `dynamic` | minimum 1, maximum 2, up to 4 workers over time, 2 tasks, any choice of node, queues, one error, one kill request, `destroy()` at any time, kill handlers that succeed or fail | `InServiceWithinMax`, `StaticNodesKept`, `SendersListed`, `RefinesTaskPromises`, `DestroyEnds` |
| `stealing` | 3 nodes, 4 tasks, queues of size 2, 1 or 9, queues on or off at the start, one disturbance | `TypeOK`, `TasksConserved`, `CallbacksRearmed`, `OneStealingLoop`, `InFlightBounded`, `InfoAddsUp`, `HandlersEnd`, `StealersHelp` |
| `task_functions` | one static and one dynamic node, 2 operations, one worker that dies | `TypeOK`, `NamesFollow`, `NodesCatchUp`, `CrashOnlyAfterRemoval`, `ResolvedMeansDone`, `OperationsSettle` |
| `strategies` | 2 to 3 nodes, all strategies, weights 1 and 3, default 2, tasks of time 2, two in flight on each node, executed or failed, two changes | `TypeOK`, `LeastUsedBalances`, `ChoosesListedNode`, `VirtualTimeAdvances`, `EveryNodeServed` |
| `measurements` | 3 tasks, two functions, histories of 2, one change | `TypeOK`, `StatisticsDescribeMeasurements`, `FunctionsAddUp`, `CurrentAnswersMeasured`, `ArraysKeepBound`, `RequiredStatisticIsKept` |
| `deque` | 5 items ever added, of 2 values | `IteratorsVisitAll`, `Linked`, `ImplementsSequence` |

What they show.

- `KeyNamesHolder`, `ExecutingCountsInFlight`, `QueuedOnlyWhenBusy`: as long as
  nothing has disturbed the pool, positions name the right node, counters count
  what is sent and not answered, and a queue only holds what cannot run yet.
  They tie five variables together across caller, channel and thread.
- `EventuallySettled`: without errors, kills and `destroy()` every promise is
  settled, although the queues may be switched off and on and the counters
  reset in between.
- `SendersListed`: `checkMessageWorkerId` (498-505) never throws.
- `StaticNodesKept`, `InServiceWithinMax`: between restart, creation on demand
  and kills, the pool never has fewer static or more nodes than it should.
- `NoQueueWhenDisabled`: flushing leaves nothing behind, even with failed nodes.
- `DestroyEnds`: `destroy()` settles, although some of its workers are being
  killed already. Its condition is exact: see observation 6.
- `TasksConserved`: however callbacks nest, a task is in one queue, or with one
  worker, or in the hands of one call; it is lost only where a closed node is
  involved (observation 9).
- `CallbacksRearmed`, `OneStealingLoop`: the two flags that keep callbacks from
  calling themselves are clear again afterwards, and a node has one back-off
  loop, not none and not two.
- `HandlersEnd`: nested callbacks return. `StealersHelp`: a node that steals
  does not for ever watch tasks wait elsewhere.
- `InFlightBounded`: stealing inside `dequeueTask` may start one task more than
  the concurrency, and never two. `InfoAddsUp`: what `info` tells adds up.
- `ResolvedMeansDone`, `OperationsSettle`, `NodesCatchUp`, `NamesFollow`: the
  sides agree, for operations no other operation or departure upsets.
- `CrashOnlyAfterRemoval`: the one way in which listening for replayed functions
  ends the process (observation 17).
- `ChoosesListedNode`: strategies that take turns name a node. `EveryNodeServed`:
  they come to all of them, round robin always, the weighted ones unless every
  task is given to a node of which no time is measured (observation 14).
- `LeastUsedBalances`: least used keeps nodes level but for failures, whatever the
  order of the answers: a task that failed is forgotten, and its node given one
  more in its place (observation 14). `VirtualTimeAdvances`: fair share never
  forgets time it has charged.
- `StatisticsDescribeMeasurements` and the rest of `measurements`: what choices
  compare is what was measured, `RequiredStatisticIsKept` after a switch between
  average and median, `CurrentAnswersMeasured` after one of strategies.

**Fairness** is weak, on what event loops, processes and delays owe: pending
messages and events are handled, a call that has begun goes on, a worker answers
what it was sent, a timer ends. Callers, failures, kill requests and changes are
under no obligation. The exception is `EveryNodeServed`, which is about an
application that goes on calling `execute()`: tasks are given or answered, one or
the other, as long as either is possible. In what order, and whether a task is
executed or fails, is open.

**Bounds.** Two nodes are enough for every confusion between nodes, and two tasks
for one running and one queued on the same node, or one on each, as any node may
be chosen; one error meets every state of its worker. In `fixed_queue` a failed
worker is not replaced, and options change; in `dynamic` it is, and nodes come and
go. There four ids allow the static node, a dynamic one, and one replacement of
each kind. With a replacement and a change in the same run (1.5 million states)
all properties of `fixed_queue`, `SendersListed` and `RefinesTaskPromises` were
checked as well, which takes longer than the others. Round robin is used in the
runs of section 4. `MaxChanges = 1` lets one option change at any point: one is
enough, since what a change disturbs is there until the end of the run.
Stealing needs a third node, for a thief that is neither the node a task was
given to nor the one it is stolen from, and a fourth task to fill a queue of two
behind a task that executes, with one to spare. In `task_functions` two
operations are what overlap means, and a second node makes an answer missing; with a
single operation the properties were also checked for three nodes. In
`strategies` the weights 1 and 3 make two rounds, and tasks of time 2 a virtual
time that passes a weight at once or after two tasks. Two tasks in flight on each
node (`MaxInFlight`, of the node that is chosen) are answered in any order, and
both may fail; `MaxCount` ends runs that only count, and two changes let the
second strike in what the first has left. Histories of two are full after two
tasks, and the third pushes one out. Name symmetry is used in `measurements`,
which has no liveness property.

## 4. What the code does not keep

Five runs look for a statement of the documentation and find it violated.

| run | statement | what happens |
|---|---|---|
| `find_soft_kill` | `worker-options.ts:48`, SOFT workers are not terminated until the task is completed | a node chosen for a soft kill stays listed and ready: `execute()` gives it tasks behind the kill message, lost with it |
| `find_destroy_throws` | `docs/api.md:56`, `destroy()` terminates each worker | nodes leave the array while others still answer: a key kept is out of range, `getWorkerInfo` throws in the listener |
| `find_redistribution_loop` | `README.md:49`, tasks redistribution on worker error | the failed node can be its own destination, and the loop never ends |
| `find_next_key` | `docs/api.md:102`, round robin | removal of a lower node leaves the next key past the array, from where it only grows: every `execute()` is rejected |
| `find_rounds` | `docs/worker-choice-strategies.md:28`, "Once all workers weight have been tested, the next round starts." | the interleaved strategy begins its first round again (observation 13) |

`find_destroy_throws` has the default kill handler, so that nothing but the kept
key can go wrong: a task runs on each of two workers, the first one answers, is
terminated and leaves the array, and the response of the second is handled with
key 1. `find_redistribution_loop` has a single worker, with one task that executes
and one in its queue, which is moved to the queue it is taken from.

Further observations, which the model shows and no run of its own is spent on:

1. `redistributeQueuedTasks` moves a task without updating the key kept for it,
   so its answer decrements the counter of another node. Hence the condition
   `Undisturbed` of the bookkeeping properties.
2. `setWorkerChoiceStrategy` resets the counters of executing tasks.
3. Between `error` and `exit` the node is still listed, and `execute()` can put
   a task in its queue after the redistribution: it is dropped at `exit`.
4. Emitting `error` on the pool's emitter throws if nobody listens, before the
   restart (`ErrorListened = FALSE` ends in `crashed`).
5. The port of a thread worker is closed right after the kill handler is
   called, so the answer of an asynchronous handler is never heard
   (`KillHandler = "async"`) and `destroy()` waits for ever.
6. A kill handler that fails leaves the node listed and ready with its port
   closed: it takes tasks it never runs, and a later `destroy()` never ends.
7. `start()` after `destroy()` counts static nodes only, so the dynamic ones
   that `execute()` created while `destroy()` was pending come on top of them;
   `InServiceWithinMax` is stated for one `start()`.
8. Without `restartWorkerOnError`, or with tasks in flight on a worker that
   dies, promises stay pending for ever; nothing documents otherwise.
9. A node that has left the array still steals when its back-off ends: the task
   is popped before the missing node is noticed, and lost. A task stolen for a
   node whose channel is closed is lost as well, and a callback whose call was
   left by that exception stays marked as under way.
10. A stolen task keeps the key of the node it was stolen from. Its answer is
   counted there, where a queued task is started although the worker may be
   busy, while the thief counts a task that is gone (`strayed`).
11. `enableTasksQueue(true, options)` with invalid options throws after the queues
   were switched on: without `concurrency` every task is queued, none is run.
12. Weighted round robin throws a `TypeError` on every `execute()` after a lower
   node has left, as the usage of a missing node is read; the interleaved
   strategy goes on past the array. Neither holds `previousWorkerNodeKey` or
   eligibility against that: `isWorkerNodeEligible` is not called.
13. The interleaved strategy never leaves its first round (`find_rounds`):
   `choose()` runs through the later rounds in the same call, where the inner loop
   begins at the last node, and the first round begins again
   (`AlwaysStaysInFirstRound` proves it of any pool). Nor does it compare run
   times with the weight of the round, as the same line of the document has it,
   but with that of the worker. In a pool of one node it never chooses again once
   that node's virtual time has reached its weight. At the end of a turn it
   returns no key, so that without a retry `execute()` is rejected there;
   `retries: 0` is accepted by the validation of the options (`abstract-pool.ts`
   229-241), and one retry is enough. `retriesCount` is not reset when the context
   throws.
14. A task that fails is neither executed nor executing, so least used gives its
   node another one: nodes whose tasks fail at once are given most of them. With
   two tasks on each of two nodes, both failing on the first, the counts are 0 and
   2. Least ELU, fair share and, but for the time tasks wait, least busy do not
   see failed tasks either. The turn of a node whose tasks all fail, and that has
   executed none, never ends: weighted round robin gives it every task, however
   long they take, although `docs/worker-choice-strategies.md:23` says "Once the
   worker has reached its maximum tasks execution time, the next task is assigned
   to the next worker", and so does the interleaved strategy. `EveryNodeServed`
   has this exception and no other.
15. Answers to tasks that overlap a change of strategy are counted with a run
   time of 0, or with the ELU of the worker's whole life. A failed task has no
   name: its failure is counted under `undefined`, and its function keeps one
   task executing.
16. Two operations on task functions at once count each other's answers; a node
   that leaves after its last answer is needed leaves an operation pending, and
   one created during an operation misses the function. Replays do not include
   the default function, and replaced static nodes are sent nothing. Removing a
   function a worker does not have is answered with `false` and no error. A
   removal is refused by the workers whose default the function is and carried
   out by the others, a node created after the default was set among them: the
   promise is rejected and the pool still takes all of them to have the function.
   Hence the condition `RemovalTried` of `NodesCatchUp`.
17. The listeners for replayed functions look their node up by position: when a
   node before it leaves first, the lookup throws and ends the process.
18. While a dynamic pool is constructed its maximum is not set yet: the default
   queue size is the square of the minimum, 0 for a pool without static workers,
   whose first node is then refused; and one weight per *minimum* node is asked
   for. The modules start after the constructor.

## 5. The proofs

`PoolProofs` proves, for every number of tasks and workers and every setting of
the options that the assumptions of `Pool` allow:

- `TypesAlways`: `Spec => []TypeOK`;
- `SendersAlwaysListed`: `Spec => []SendersListed`;
- `NoQueueEverStranded`: `Spec => []NoQueueWhenDisabled`.

None of them is inductive. `HandleWorkerExit` splices the array at the key
of its worker: that the result is a sequence of workers needs the worker to be
listed. `RedistributeQueuedTask` takes the head of a queue: it must not be
empty, and the destination must exist. `HandleKillSuccess` closes a channel: it
must not be the channel of a thread that still posts. So the invariant `IInv`
adds to `TypeOK`:

- `IdsInOrder`: exactly the ids handed out have a thread;
- `NodesDistinct`: no worker is twice in the array;
- `ListedUntilExit`: listed means created and not exited;
- `TaskToRedistribute`: the loop has a task, and its node stays listed;
- `ChannelsOpen`: a running thread has a channel, messages wait on open
  channels only, a channel is closed before `exit`;
- `AnsweredWhenClosed`: a kill is confirmed only by a port that is closed.

The argument is the usual one: `InitIInv`, then `NextIInv` from one lemma per
action for the types and, for the rest, from four lemmas for the shapes a step
can have: messages are only taken (`KeptNodes`), nodes are added
(`AddedKeepsNodes`), a thread moves on and may post (`ThreadKeepsNodes`), a
node leaves (`HandleWorkerExitNodes`). `SplicedSeq` is the lemma about taking an
element out of an array, `DestinationListed` the one about the reduction over
the nodes.

`NoQueueEverStranded` has `QueuesInv` on top of `IInv`: `NoQueueWhenDisabled`
and `FreshQueuesEmpty`, since a worker that gets listed brings its queue along.
`KeptQueues` preserves it over every step that leaves the option alone and puts
a task only into the queue of a listed node while queues are on;
`SetEnableTasksQueueQueues` is the step that switches queues off, where either
every node is flushed (`AllReached`) or `execute` throws and the option stays
on.

`PoolTaskProofs` proves the refinement, `PoolKeepsPromises`: `Spec =>
RefinesTaskPromises`, for fixed pools, changes of the options and any number of
tasks as for the dynamic pool of the run that checks it. A promise is settled by `HandleTaskExecutionResponse`,
which looks only at the message; that the promise is still pending and the
function was called is known only from where the message has been. `PlacesInv`
(`PlacesInvAlways`) says so: no place holds a task twice (`NoRepeats`), no task
is at two of the places queue, message to a worker, worker, message back, of the
same node or of two (`OnePlace`), and the place says whether the function was
called (`PlaceTellsState`). Every step that touches tasks either moves them
nowhere but away (`FewerPlaces`), flushes a queue (`FlushKeepsPlaces`), or moves
one task (`OneTaskPlaces`), and has its lemma.

`PoolBookProofs` proves what holds until something disturbs the pool:
`KeyAlwaysNamesHolder`, `ExecutingAlwaysCountsInFlight`,
`AlwaysQueuedOnlyWhenBusy`. The three need each other: the response to a task
decrements the counter at the kept key, which is that of the worker that answers
only if keys name holders; whether the next task is taken depends on the
counter. `BookInv` is their conjunction with `NothingEnds`: no thread is on its
way out, and no message asks one to go.

Its second part proves `InServiceAlwaysWithinMax` and `StaticNodesAlwaysKept`.
`SizeInv` adds to them that a fixed pool has no dynamic nodes, that a pool that
is not started has no nodes unless it was destroyed, and `StaticSpared`: until
`destroy()`, no kill message is on its way to a static worker or from one.
`ServiceThreads` turns the set of nodes in service into a set of states of
threads, so that a step changes it only by the threads it changes;
`AddedService` counts what is added.

`TaskStealingProofs` proves every invariant of the `TaskStealing` run for any
number of nodes and tasks and any options: `TypeCorrect`,
`TasksAlwaysConserved`, `CallbacksAlwaysRearmed`, `AlwaysOneStealingLoop`,
`AlwaysInFlightBounded`, `InfoAlwaysAddsUp`. The difficulty is that callbacks
nest without a bound: taking the last task of one queue runs a theft that puts a
task into another queue and so calls that node's callback, inside it. The stack
of frames is therefore part of every invariant, and the proofs have three layers.

- *Shape* (`ShapeInv`): the stack holds frames of the kinds in `Frames`, each
  with a node and a task such a call can have. A frame that delivers a task has
  a listed node, or none only where some node has left; an `executeTask` frame
  has a listed node; the rest of a sorted copy names positions there are. That
  there is a sorted copy at all is proved from the ranks of the nodes
  (`RanksTaken`, `SortedNodes`).
- *Moves*: what a step does to the stack as a whole, whatever it holds below the
  innermost call. `Rewrites` says which tasks and which nodes at which kinds of
  frames go and come when the innermost frame is replaced; `Goes`, `Takes`,
  `Drops` are the shapes a step can have (nothing is moved, a task is taken from
  a queue and a call is opened for it, an exception drops frames). One `...Moves`
  lemma per action.
- *Invariants*, each from the moves: `PlacesInv` (a task is in one place; by
  itself inductive on `ShapeInv`), `CallbacksInv` (a flag is set exactly while a
  frame will clear it, or a task was lost), `LoopsInv`, `FlightInv`,
  `CountsBounded`, `SwitchInv`.

`LoopsInv` needs more than `OneStealingLoop` says: a round begins only as the
innermost call (`startOnEmptyQueue` is at the top of the stack or nowhere), and
between rounds, asleep or about to sleep, the count of the node is not zero.
Otherwise emptying the queue of a node that has just gone to sleep would begin a
second loop. `FlightInv` is why the bound of `InFlightBounded` is the concurrency
plus one and not more: a node may be one above its concurrency only when no
`executeTask` frame for it is under way, and there is one such frame at most. Its
second half, that the count of a node is exactly what its worker has and that a
node with a queue executes something or is about to, is what `InfoAddsUp` rests
on. The sums are unfolded without induction over nodes by the prover: the
function that gives a set of nodes the size of the union of their tasks satisfies
the equation of the fold (`SizesTotal`), and a function that does has its values,
by a smallest counterexample (`TotalIsSize`).

`TaskFunctionOpsProofs` proves every safety property of the `TaskFunctionOps`
run for any number of workers, names and operations: `TypesKept`,
`NamesAlwaysFollow`, `NodesAlwaysCatchUp`, `CrashAlwaysAfterRemoval` and the
action property `ResolvedAlwaysMeansDone`. Its `IInv` is the conjunction of

- `NodesInv`: a worker is listed from its creation to its exit, once; nothing
  waits for a worker that is gone; a worker that has not started has the
  functions of its file and the startup message first;
- `DefaultInv`: the default function of a worker has a name. It rests on
  `Removed` refusing and `Added` moving the default with its name;
- `NamesInv`: the last list of names on its way to the pool, or what is on
  record when there is none, is the worker's. A step either leaves a worker's
  functions alone or is followed by its news (`AnswersTo`);
- `CallsInv`: what was not called has no answers, and the pool's functions are
  those of resolved additions;
- `ReplayInv`: a position kept for worker `w` is at most `w`, by a count: workers
  are created in order, so those before it in the array have smaller ids
  (`ArrayWithinCreated`), and the array is shorter than a position only when one
  of them has exited (`PositionKept`);
- `OperationsInv`: of an operation nothing has upset there is, for some set of
  nodes as large as the number of answers received, no trace left on the way to
  or from a node of the set, and these have carried it out if all answers are
  good; each other node has one message of it ahead, or one answer. Answers are
  anonymous, so it is the set, not the sequence of answers, that the last one
  completes (`LastAnswer`, `AnswerCounted`);
- `CatchUpInv`: while nothing is upset, a message on its way to a worker is of
  the operation under way or replays what the pool has, and no later operation
  was accepted.

Only `NodesCatchUp` had to change on the way: its proof failed where one worker
refuses to remove its default function and another does not, which is the
condition `RemovalTried` and the end of observation 16.

`ChoiceStrategiesProofs` proves every safety property of the `strategies` run for
any number of nodes, any weights and measured times, and any sequence of
changes: `TypesKept`, `LeastUsedAlwaysBalances`, `AlwaysChoosesListedNode`,
`VirtualTimeAlwaysAdvances`; and, of any pool, what `find_rounds` shows:
`AlwaysStaysInFirstRound`. Its `IInv` adds to the types

- `TurnsInv`: until the keys are led astray, round robin and its weighted form
  look at a listed node next, and the interleaved strategy is at a listed node
  *in its first round*; when the context has spent its retries, at the first
  node;
- `BalanceInv`: least used counts as executing exactly what is in flight, so that
  an answer moves one task from one count to the other and leaves the sum, or
  moves it to `failed`, which the bound allows for.

`InterleavedChoice` is the lemma about one call of `choose()`. If a position fits,
the first such one is in the round under way, as the later rounds only repeat the
last node, whose virtual time is the same there. If none does, the call ends at
the first node of the first round. From there a pool of two nodes always has one
that fits: looking at the second resets the virtual time, and its weight is no
less than the smallest there is (`FirstRoundFits`). So one retry is enough, and
`AlwaysChoosesListedNode` has `Retries > 0` as its hypothesis where the
interleaved strategy is used; with `Retries = 0` TLC finds the rejection of
observation 13. The retries are a recursive function: `TriedUnfolded` shows that
it satisfies its equation, from the sequences of tries there are, and
`TriedWithin` that what one more try keeps holds of all of them. The attempt to
prove `TypeOK` found the model wrong: it took a change of the options to lead
the strategy astray and forgot that at the next change. It also showed why
no change does, which is a theorem: `AlwaysStaysInFirstRound`.

`MeasurementsProofs` proves every property of the `measurements` run for any
functions, durations, strategies and numbers of tasks and changes, and for any
size of the histories: `MeasurementsTyped`, `StatisticsAlwaysDescribe`,
`FunctionsAlwaysAddUp`, `CurrentAnswersAlwaysMeasured`,
`RequiredStatisticAlwaysKept`, `ArraysAlwaysKeepBound`. Its `IInv` adds to the types

- `MeasuresInv`: each statistic describes what has been measured (`Describes`:
  sum, extremes, history, and average and median where they are kept);
- `FunctionsInv`: `FunctionsAddUp`, for each kind of task count;
- `QueueInv`: the *statistics* messages on their way to the worker can be
  numbered up to `epoch` from `told` on, and the last one is of the strategy in
  use, which need not be true of those before it;
- `WorkerInv`: what the worker has begun since the last of these messages, in its
  hands or in an answer, is measured as the strategy requires.

The answers are why `QueueInv` is needed: that the worker measures for the right
strategy when it has handled the last message says nothing of the messages
before it, so `CurrentAnswersMeasured` is not inductive.

The lemmas come in layers. Sums over a set are functions of its subsets
(`Adds`), of which there is one (`SumsUnique`), so that the folds of the library
can be unfolded (`SumFolds`, `SumIs`). A median is where ranks are: each value
of a history has a rank of its own, ranks take every place (`RanksTaken`), and a
value in the middle has half of them on either side (`MedianSplits`), as has
what lies between the two in the middle of an even length. A history is the end
of what was measured (`PushedLatest`). The totals of the function usages change
by the one usage a hook changes (`TotalGrows`), and only shrink when one is
deleted (`TotalShrinks`). `ArraysAlwaysKeepBound` is proved method by method, of
any array within its bound and any arguments (`MethodsKeepBound`,
`SpliceKeepsBound`). The proofs need that every length of a history, and 2,
divides `Scale`: with another scale the averages of the model would be rounded,
which those of the code are not. The attempt to prove the medians found that the
assumption on `Scale` did not say so.

`DequeProofs` proves, for any data and any number of calls:

- `LinkedAlways`: `Spec => []Linked`;
- `DequeImplementsSequence`: `Spec => ImplementsSequence`, the refinement;
- `IteratorsAlwaysVisitAll`: `Spec => []IteratorsVisitAll`.

`Linked` says how pointers follow `order`; by itself it is not inductive, since
it does not say that `order` names nodes of the heap, each of them once: without
that, the assignment to one node's `next` could be the `prev` side of another.
`DequeInv` adds `Typed` and `LinkedOnce`. One lemma per method shows what it
does to the nodes (`PushNodes` ...), one that the invariant survives it
(`PushKeepsInv` ...), and one what becomes of the contents (`PushContents` ...),
from which every call of `Deque` is a step of `SequenceDeque` or a stutter. An
iterator is a recursive function of its steps: the function that gives the
linked nodes in their order, and then `None`, satisfies the same equation, and
two that do agree, since there is no first step where they differ
(`WalksAgree`, `ForwardVisits`, `BackwardVisits`).

The proofs use the assumptions on the constants and nothing else.

Where a proof would go by induction over a number, it takes the smallest
counterexample there could be (`SmallestElement`, `WalksAgree`, `TriedWithin`), as
the induction theorems of the library cannot be applied by the provers at hand.

Only model-checked: the liveness properties (`EveryNodeServed` among them), which
TLAPS cannot prove. The five runs that expect a violation check what the code
does not do; `AlwaysStaysInFirstRound` is what it does instead of `find_rounds`.

## 6. Not modelled, and what is left

Not modelled:

- argument checks and getters that only throw or only read (those whose outcome
  changes what happens are there: options of the queues and of the strategies);
- constructors, and with them observation 18;
- events emitted for information (`full`, `busy`, `ready`, `backPressure`,
  `taskError`): nothing in the pool reads them. `error` is in `Pool`, as its
  emission may throw;
- ELU utilizations and the pool-wide run time statistics of `info`: arithmetic
  on what `Measurements` has;
- tasks on cluster pools: the core they run on is that of `Pool`, and what is
  different, the end of a node, is in `TaskFunctionOps`;
- the restart of workers in `TaskStealing` and `TaskFunctionOps`: `Pool` has it.
  Together with stealing it would add a node that starts without a queue;
- types, entry point and version: no behaviour.

Every safety and action property of the passing runs is a theorem, and so are both
refinements. What would say more next is the composition of `Pool` with task
stealing, and the restart of workers in it.
