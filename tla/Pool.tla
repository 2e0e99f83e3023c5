-------------------------------- MODULE Pool --------------------------------
(***************************************************************************)
(* A poolifier thread pool: AbstractPool with its FixedThreadPool and      *)
(* DynamicThreadPool subclasses, one WorkerNode per worker, and the        *)
(* ThreadWorker at the other end of each message channel.                  *)
(*                                                                         *)
(* The pool runs on one JavaScript thread: every public method, message    *)
(* listener and worker event is one action, taken when no other handler is *)
(* under way.  The exception is the loop of redistributeQueuedTasks, whose *)
(* iterations are steps of their own (the variable redistributing keeps    *)
(* every other handler out), so that a loop that never ends is visible.    *)
(* The worker threads run between and during those actions.                *)
(*                                                                         *)
(* The pool is taken with task stealing and stealing on back pressure      *)
(* switched off; those two hooks run inside the queue operations.          *)
(***************************************************************************)
EXTENDS Integers, Sequences, FiniteSets

CONSTANTS
  Tasks,                \* the calls of execute(), each with its own taskId
  Workers,              \* bound: how many workers are ever created
  PoolType,             \* "fixed" or "dynamic"
  MinSize, MaxSize,     \* numberOfWorkers and max
  EnableTasksQueue,     \* opts.enableTasksQueue of the constructor
  Concurrency,          \* opts.tasksQueueOptions.concurrency
  RestartWorkerOnError, \* opts.restartWorkerOnError
  ErrorListened,        \* an 'error' listener is registered on pool.emitter
  Strategy,             \* "ROUND_ROBIN", or "ANY" listed node
  KillBehavior,         \* "SOFT" or "HARD": the worker option
  KillHandler,          \* the worker option: none (it cannot fail), sync or async
  MaxStarts,            \* bound: calls of start()
  MaxErrors,            \* bound: uncaught errors in workers
  MaxKillRequests,      \* bound: kill requests of inactive workers
  MaxChanges            \* bound: changes of the options while the pool runs

ASSUME WorkersAssumption == Workers \in Nat
ASSUME PoolTypeAssumption == PoolType \in {"fixed", "dynamic"}
\* checkNumberOfWorkers and checkDynamicPoolSize
ASSUME SizeAssumption ==
  /\ MinSize \in Nat /\ MaxSize \in Nat
  /\ IF PoolType = "fixed" THEN MinSize > 0 /\ MaxSize = MinSize
                           ELSE MinSize < MaxSize
ASSUME QueueAssumption ==
  /\ EnableTasksQueue \in BOOLEAN
  /\ Concurrency \in Nat \ {0}
ASSUME OptionAssumption ==
  /\ RestartWorkerOnError \in BOOLEAN
  /\ ErrorListened \in BOOLEAN
  /\ Strategy \in {"ROUND_ROBIN", "ANY"}
  /\ KillBehavior \in {"SOFT", "HARD"}
  /\ KillHandler \in {"none", "sync", "async"}
ASSUME BoundAssumption ==
  /\ MaxStarts \in Nat /\ MaxErrors \in Nat /\ MaxKillRequests \in Nat
  /\ MaxChanges \in Nat

\* Worker ids (Node's threadId): never used twice, in order of creation.
WorkerIds == 1 .. Workers

\* A promiseResponseMap value for "no such entry"; no strategy returns it.
NoEntry == -2

VARIABLES
  \* the pool object
  started,              \* this.started
  workerNodes,          \* this.workerNodes, as the ids of their workers
  promise,              \* the promise returned by execute() for each task
  promiseResponseMap,   \* the workerNodeKey kept for each task, or NoEntry
  nextWorkerNodeKey,    \* of the round robin strategy
  enableTasksQueue,     \* this.opts.enableTasksQueue
  redistributing,       \* worker whose queue is being redistributed, or 0
  crashed,              \* an exception nobody catches ended the process
  destroy,              \* the promise returned by destroy()
  awaiting,             \* the destroyWorkerNode calls destroy() waits for
  \* the worker node of each worker
  ready, dynamic,       \* info.ready, info.dynamic
  channel,              \* messageChannel is set
  executing,            \* usage.tasks.executing
  tasksQueue,           \* tasksQueue, front first
  killing,              \* callers waiting for the answer to a kill message
  \* the worker threads and the messages under way
  thread,               \* life cycle of the thread
  running,              \* tasks whose function has been called, unanswered
  toWorker, toPool,     \* the two directions of the message channel
  \* history and bounds
  runs,                 \* how many times each task's function was called
  created, starts, errors, killRequests, changes

poolVars == <<started, redistributing, crashed, nextWorkerNodeKey>>
settingVars == <<enableTasksQueue, changes>>
destroyVars == <<destroy, awaiting, killing>>
nodeVars == <<workerNodes, created, ready, dynamic, channel>>
queueVars == <<executing, tasksQueue>>
taskVars == <<promise, promiseResponseMap>>
channelVars == <<toWorker, toPool>>
threadVars == <<thread, running, runs>>
boundVars == <<starts, errors, killRequests>>
vars == <<poolVars, settingVars, destroyVars, nodeVars, queueVars, taskVars,
          channelVars, threadVars, boundVars>>

ThreadStates ==
  {"none",         \* id not used yet
   "starting",     \* created, startup message not handled yet
   "running",      \* listens to its port
   "closed",       \* handled a kill message and closed its port
   "failed",       \* died of an uncaught error, 'error' not emitted yet
   "errored",      \* 'error' emitted, 'exit' not yet
   "terminating",  \* terminate() called, 'exit' not emitted yet
   "exited"}

ToWorkerMessages == [type : {"task"}, task : Tasks] \cup [type : {"kill"}]
ToPoolMessages ==
  [type : {"ready"}]
    \cup [type : {"response"}, task : Tasks, ok : BOOLEAN]
    \cup [type : {"kill"}, kill : {"SOFT", "HARD", "success", "failure"}]

Init ==
  /\ started = FALSE
  /\ workerNodes = <<>>
  /\ promise = [t \in Tasks |-> "none"]
  /\ promiseResponseMap = [t \in Tasks |-> NoEntry]
  /\ nextWorkerNodeKey = 0
  /\ enableTasksQueue = EnableTasksQueue
  /\ redistributing = 0
  /\ crashed = FALSE
  /\ destroy = "none"
  /\ awaiting = {}
  /\ ready = [w \in WorkerIds |-> FALSE]
  /\ dynamic = [w \in WorkerIds |-> FALSE]
  /\ channel = [w \in WorkerIds |-> FALSE]
  /\ executing = [w \in WorkerIds |-> 0]
  /\ tasksQueue = [w \in WorkerIds |-> <<>>]
  /\ killing = [w \in WorkerIds |-> {}]
  /\ thread = [w \in WorkerIds |-> "none"]
  /\ running = [w \in WorkerIds |-> {}]
  /\ toWorker = [w \in WorkerIds |-> <<>>]
  /\ toPool = [w \in WorkerIds |-> <<>>]
  /\ runs = [t \in Tasks |-> 0]
  /\ created = 0 /\ starts = 0 /\ errors = 0 /\ killRequests = 0
  /\ changes = 0

-----------------------------------------------------------------------------
(* The worker nodes array.  Keys are JavaScript indices, from 0.           *)

Listed == {workerNodes[i] : i \in DOMAIN workerNodes}
Keys == 0 .. Len(workerNodes) - 1
Node(k) == workerNodes[k + 1]

\* A slip to be noticed: the key of the last node, which is what splice(-1)
\* removes.
LastKey(w) == Len(workerNodes) - 1

\* getWorkerNodeKeyByWorker and getWorkerNodeKeyByWorkerId, for listed nodes.
KeyOf(w) == CHOOSE k \in Keys : Node(k) = w

\* A slip to be noticed: one node too many.
FullAboveMax == Len(workerNodes) > MaxSize

\* get full: every listed node counts, dead ones included.
Full == Len(workerNodes) >= MaxSize

\* internalBusy: no ready node has room for a task.
InternalBusy ==
  \A w \in Listed :
    ready[w] => executing[w] >= (IF enableTasksQueue THEN Concurrency ELSE 1)

\* The handler of the pool that is about to run has the thread for itself.
MainIdle == redistributing = 0

\* createAndSetupWorkerNode and addWorkerNode, n times, in a handler that
\* also takes the nodes of the set gone out of service.
AddWorkers(n, isDynamic, isReady, gone) ==
  LET new == created + 1 .. created + n IN
  /\ created + n <= Workers
  /\ created' = created + n
  /\ workerNodes' = workerNodes \o [i \in 1 .. n |-> created + i]
  /\ ready' = [w \in WorkerIds |->
                 IF w \in new THEN isReady ELSE ready[w] /\ w \notin gone]
  /\ dynamic' = [w \in WorkerIds |->
                   IF w \in new THEN isDynamic ELSE dynamic[w]]
  /\ channel' = [w \in WorkerIds |->
                   w \in new \/ (channel[w] /\ w \notin gone)]
  /\ thread' = [w \in WorkerIds |->
                  IF w \in new THEN "starting"
                  ELSE IF w \in gone THEN "errored" ELSE thread[w]]

\* createAndSetupWorkerNode sends nothing the properties tell apart: the
\* startup message is what takes a thread from "starting" to "running", and
\* the checkActive message of a dynamic node is the first on its port, so the
\* interval is set as soon as the thread runs.

\* A slip to be noticed: what is sent before the thread listens is lost.
PortOpenOnceRunning(w) == thread[w] = "running"

\* The two ends of a channel. An id whose thread is "none" is the one the
\* running handler is creating. A port whose other end is closed takes
\* messages and drops them, and a node that has lost its channel has a dead
\* thread, so both lose what is sent.
HasChannel(w) == channel[w] \/ thread[w] = "none"
PortOpen(w) == thread[w] \in {"none", "starting", "running"}
SendToWorker(w, messages) ==
  toWorker' = IF PortOpen(w) THEN [toWorker EXCEPT ![w] = @ \o messages]
                             ELSE toWorker

TaskMessage(t) == [type |-> "task", task |-> t]
KillMessage == [type |-> "kill"]

\* A slip to be noticed: the front task is read and stays in the queue.
NotDequeued(w) == tasksQueue

\* The queues once dequeueTask has taken the front task of node w.
Dequeued(w) == [tasksQueue EXCEPT ![w] = Tail(@)]

\* Slips to be noticed: the concurrency is forgotten, or one too small.
ShallExecuteWhenQueueEmpty(w, queue) ==
  ~enableTasksQueue \/ queue[w] = <<>>
ShallExecuteBelowConcurrency(w, queue) ==
  \/ ~enableTasksQueue
  \/ queue[w] = <<>> /\ executing[w] + 1 < Concurrency

\* Whether the queue option leads the task past the queue of node w.
ShallExecuteTask(w, queue) ==
  \/ ~enableTasksQueue
  \/ queue[w] = <<>> /\ executing[w] < Concurrency

\* executeTask(key of w, t). It throws when the node has lost its channel,
\* after the executing counter went up.
ExecuteTask(w, t, counters) ==
  /\ executing' = [counters EXCEPT ![w] = @ + 1]
  /\ SendToWorker(w, <<TaskMessage(t)>>)

-----------------------------------------------------------------------------
(* Worker choice strategies.                                               *)

\* The keys choose() may return among n listed nodes. "ANY" stands for the
\* strategies that compare usages: they reduce over the listed nodes from 0.
Choices(n) ==
  IF Strategy = "ROUND_ROBIN" THEN {nextWorkerNodeKey}
                              ELSE 0 .. n - 1 \cup {0}

\* roundRobinNextWorkerNodeKey
RoundRobinNext(n) ==
  nextWorkerNodeKey' =
    IF Strategy # "ROUND_ROBIN" THEN nextWorkerNodeKey
    ELSE IF nextWorkerNodeKey = n - 1 THEN 0 ELSE nextWorkerNodeKey + 1

\* remove(key) of the round robin strategy, n nodes being left.
RoundRobinRemove(key, n) ==
  LET next == IF n = 0 THEN 0 ELSE nextWorkerNodeKey IN
  nextWorkerNodeKey' =
    IF Strategy = "ROUND_ROBIN" /\ next = key /\ next > n - 1
    THEN n - 1 ELSE next

-----------------------------------------------------------------------------
(* The caller's side of the pool.                                          *)

\* start(): tops the static nodes up to MinSize; the nodes made here are
\* flagged ready at once.
Start ==
  /\ MainIdle /\ ~started /\ starts < MaxStarts
  /\ LET static == {w \in Listed : ~dynamic[w]} IN
     AddWorkers(IF Cardinality(static) < MinSize
                THEN MinSize - Cardinality(static) ELSE 0, FALSE, TRUE, {})
  /\ started' = TRUE
  /\ starts' = starts + 1
  /\ UNCHANGED <<redistributing, crashed, nextWorkerNodeKey, settingVars,
                 destroyVars, queueVars, taskVars, channelVars, running,
                 runs, errors, killRequests>>

\* execute() on a pool that is not started.
ExecuteNotStarted(t) ==
  /\ MainIdle /\ ~started
  /\ promise[t] = "none"
  /\ promise' = [promise EXCEPT ![t] = "rejected"]
  /\ UNCHANGED <<poolVars, settingVars, destroyVars, nodeVars, queueVars,
                 promiseResponseMap, channelVars, threadVars, boundVars>>

\* execute(): chooseWorkerNode, which may create a dynamic node first, then
\* the task goes to the chosen node or to its queue. The promise is rejected
\* when the key names no node or the node has lost its channel; the entry of
\* promiseResponseMap stays behind.
Execute(t) ==
  /\ MainIdle /\ started
  /\ promise[t] = "none"
  /\ AddWorkers(IF PoolType = "dynamic" /\ ~Full /\ InternalBusy
                THEN 1 ELSE 0, TRUE, TRUE, {})
  /\ \E key \in Choices(Len(workerNodes')) :
       LET found == key \in 0 .. Len(workerNodes') - 1
           w == workerNodes'[key + 1]
       IN
       /\ RoundRobinNext(Len(workerNodes'))
       /\ promiseResponseMap' = [promiseResponseMap EXCEPT ![t] = key]
       /\ \/ /\ ~found
             /\ promise' = [promise EXCEPT ![t] = "rejected"]
             /\ UNCHANGED <<queueVars, toWorker>>
          \/ /\ found /\ ShallExecuteTask(w, tasksQueue)
             /\ ExecuteTask(w, t, executing)
             /\ promise' = [promise EXCEPT
                  ![t] = IF HasChannel(w) THEN "pending" ELSE "rejected"]
             /\ UNCHANGED tasksQueue
          \/ /\ found /\ ~ShallExecuteTask(w, tasksQueue)
             /\ tasksQueue' = [tasksQueue EXCEPT ![w] = Append(@, t)]
             /\ promise' = [promise EXCEPT ![t] = "pending"]
             /\ UNCHANGED <<executing, toWorker>>
  /\ UNCHANGED <<started, redistributing, crashed, settingVars, destroyVars,
                 toPool, running, runs, boundVars>>

\* flushTasksQueue for every node of ws, each followed by the messages of
\* last. A node that has lost its channel throws at its first queued task.
FlushTasksQueues(ws, last) ==
  /\ executing' = [w \in WorkerIds |->
       IF w \notin ws THEN executing[w]
       ELSE IF channel[w] THEN executing[w] + Len(tasksQueue[w])
       ELSE IF tasksQueue[w] # <<>> THEN executing[w] + 1 ELSE executing[w]]
  /\ tasksQueue' = [w \in WorkerIds |->
       IF w \notin ws \/ tasksQueue[w] = <<>> THEN tasksQueue[w]
       ELSE IF channel[w] THEN <<>> ELSE Tail(tasksQueue[w])]
  /\ toWorker' = [w \in WorkerIds |->
       IF w \in ws /\ PortOpen(w)
       THEN toWorker[w] \o [i \in DOMAIN tasksQueue[w] |->
                              TaskMessage(tasksQueue[w][i])] \o last
       ELSE toWorker[w]]

\* destroyWorkerNode for every node of ws, up to its first await: the queue
\* is flushed to the worker, then comes the kill message. A node that has
\* lost its channel throws before that.
DestroyWorkerNodes(ws, caller) ==
  /\ FlushTasksQueues(ws, <<KillMessage>>)
  /\ killing' = [w \in WorkerIds |->
       IF w \in ws /\ channel[w] THEN killing[w] \cup {caller} ELSE killing[w]]

\* destroy(): every listed node at once; it waits for all of them, and fails
\* with the first that fails. The pool counts as started until it is over.
Destroy ==
  /\ MainIdle /\ destroy = "none"
  /\ DestroyWorkerNodes(Listed, "destroy")
  /\ IF \E w \in Listed : ~channel[w]
     THEN destroy' = "rejected" /\ awaiting' = {} /\ UNCHANGED started
     ELSE /\ destroy' = IF Listed = {} THEN "resolved" ELSE "pending"
          /\ awaiting' = Listed
          /\ started' = (started /\ Listed # {})
  /\ UNCHANGED <<redistributing, crashed, nextWorkerNodeKey, settingVars,
                 nodeVars, taskVars, toPool, threadVars, boundVars>>

\* A slip to be noticed: the loop leaves the first node out.
ReachedAfterFirst(failing) == {Node(k) : k \in Keys \ {0}}

\* The nodes a loop over workerNodes gets to, the last of them included, if
\* it throws at the first node of the set failing.
ReachedBefore(failing) ==
  {Node(k) : k \in {i \in Keys : \A j \in Keys : Node(j) \in failing => i <= j}}

\* setWorkerChoiceStrategy, round robin or not as before: the strategy starts
\* over, and every node forgets its usage, counter of executing tasks
\* included. It throws at a node that has lost its channel.
SetWorkerChoiceStrategy ==
  /\ MainIdle /\ changes < MaxChanges
  /\ changes' = changes + 1
  /\ nextWorkerNodeKey' = 0
  /\ LET reached == ReachedBefore({w \in Listed : ~channel[w]}) IN
     executing' = [w \in WorkerIds |->
                     IF w \in reached THEN 0 ELSE executing[w]]
  /\ UNCHANGED <<started, redistributing, crashed, enableTasksQueue,
                 destroyVars, nodeVars, tasksQueue, taskVars, channelVars,
                 threadVars, boundVars>>

\* enableTasksQueue(), with the other queue options as before: switching the
\* queues off flushes them; if that throws, they stay on.
SetEnableTasksQueue(enable) ==
  LET failing == {w \in Listed : ~channel[w] /\ tasksQueue[w] # <<>>} IN
  /\ MainIdle /\ changes < MaxChanges
  /\ changes' = changes + 1
  /\ IF enableTasksQueue /\ ~enable
     THEN /\ FlushTasksQueues(ReachedBefore(failing), <<>>)
          /\ enableTasksQueue' = (failing # {})
     ELSE /\ enableTasksQueue' = enable
          /\ UNCHANGED <<queueVars, toWorker>>
  /\ UNCHANGED <<poolVars, destroyVars, nodeVars, taskVars, toPool,
                 threadVars, boundVars>>

-----------------------------------------------------------------------------
(* Messages from a worker, on the pool's side. Every listener of the port  *)
(* hears each of them; a message of a worker is handled only while its node*)
(* is listed, since the channel is closed before the node is removed.      *)

Received(w, type) ==
  /\ MainIdle
  /\ toPool[w] # <<>>
  /\ Head(toPool[w]).type = type
  /\ toPool' = [toPool EXCEPT ![w] = Tail(@)]

\* handleWorkerReadyResponse
HandleWorkerReadyResponse(w) ==
  /\ Received(w, "ready")
  /\ ready' = [ready EXCEPT ![w] = TRUE]
  /\ UNCHANGED <<poolVars, settingVars, destroyVars, workerNodes, created,
                 dynamic, channel, queueVars, taskVars, toWorker, threadVars,
                 boundVars>>

\* Slips to be noticed: the counter is decremented twice, or not at all.
DecrementedTwice(n) == IF n > 0 THEN n - 2 ELSE 0
NotDecremented(n) == n

\* The counter of afterTaskExecutionHook stops at 0.
Decremented(n) == IF n > 0 THEN n - 1 ELSE 0

\* handleTaskExecutionResponse: the promise is settled, then the node kept
\* in promiseResponseMap - whichever node its key names by now - gets its
\* counter decremented and, if its queue is not empty, its next task. A key
\* out of range ends the process right after the promise is settled, and so
\* does a next task for a node that has lost its channel.
HandleTaskExecutionResponse(w) ==
  /\ Received(w, "response")
  /\ LET message == Head(toPool[w])
         t == message.task
         key == promiseResponseMap[t]
         x == Node(key)
         left == Decremented(executing[x])
     IN
     /\ promise' = [promise EXCEPT
          ![t] = IF @ # "pending" \/ key = NoEntry THEN @
                 ELSE IF message.ok THEN "resolved" ELSE "rejected"]
     /\ \/ /\ key \notin Keys
           /\ crashed' = (key # NoEntry)
           /\ UNCHANGED <<promiseResponseMap, queueVars, toWorker>>
        \/ /\ key \in Keys
           /\ promiseResponseMap' = [promiseResponseMap EXCEPT ![t] = NoEntry]
           /\ IF enableTasksQueue /\ tasksQueue[x] # <<>> /\ left < Concurrency
              THEN /\ ExecuteTask(x, Head(tasksQueue[x]),
                                  [executing EXCEPT ![x] = left])
                   /\ tasksQueue' = Dequeued(x)
                   /\ crashed' = ~HasChannel(x)
              ELSE /\ executing' = [executing EXCEPT ![x] = left]
                   /\ UNCHANGED <<crashed, tasksQueue, toWorker>>
  /\ UNCHANGED <<started, redistributing, nextWorkerNodeKey, settingVars,
                 destroyVars, nodeVars, threadVars, boundVars>>

\* The listener that createAndSetupDynamicWorkerNode adds: a worker that has
\* been inactive asks to be killed.
HandleKillRequest(w) ==
  /\ Received(w, "kill")
  /\ Head(toPool[w]).kill \in {"SOFT", "HARD"}
  /\ IF \/ Head(toPool[w]).kill = "HARD"
        \/ executing[w] = 0 /\ (enableTasksQueue => tasksQueue[w] = <<>>)
     THEN DestroyWorkerNodes({w}, "listener")
     ELSE UNCHANGED <<queueVars, toWorker, killing>>
  /\ UNCHANGED <<poolVars, settingVars, destroy, awaiting, nodeVars,
                 taskVars, threadVars, boundVars>>

\* killMessageListener of sendKillMessageToWorker hears "success", and
\* destroyWorkerNode goes on: it closes the channel, with the messages still
\* on it, and terminates the thread.
HandleKillSuccess(w) ==
  /\ MainIdle
  /\ toPool[w] # <<>> /\ Head(toPool[w]).type = "kill"
  /\ Head(toPool[w]).kill = "success"
  /\ killing' = [killing EXCEPT ![w] = {}]
  /\ channel' = [channel EXCEPT ![w] = FALSE]
  /\ toPool' = [toPool EXCEPT ![w] = <<>>]
  /\ toWorker' = [toWorker EXCEPT ![w] = <<>>]
  /\ thread' = [thread EXCEPT
                  ![w] = IF @ = "closed" THEN "terminating" ELSE @]
  /\ UNCHANGED <<poolVars, settingVars, destroy, awaiting, workerNodes,
                 created, ready, dynamic, queueVars, taskVars, running, runs,
                 boundVars>>

\* killMessageListener hears "failure": destroyWorkerNode throws. destroy()
\* fails with it; the kill request listener emits 'error', which is an
\* unhandled rejection when nobody listens.
HandleKillFailure(w) ==
  /\ Received(w, "kill")
  /\ Head(toPool[w]).kill = "failure"
  /\ killing' = [killing EXCEPT ![w] = {}]
  /\ IF "destroy" \in killing[w] /\ destroy = "pending"
     THEN destroy' = "rejected" /\ awaiting' = {}
     ELSE UNCHANGED <<destroy, awaiting>>
  /\ crashed' = ("listener" \in killing[w] /\ ~ErrorListened)
  /\ UNCHANGED <<started, redistributing, nextWorkerNodeKey, settingVars,
                 nodeVars, queueVars, taskVars, toWorker, threadVars,
                 boundVars>>

-----------------------------------------------------------------------------
(* The pool's listeners of the events of a worker.                         *)

\* A slip to be noticed: the failed node, still listed, blocks its successor.
ReplacesWorkerWithinMax ==
  ErrorListened /\ started /\ RestartWorkerOnError /\ ~Full

\* Whether the 'error' listener gets past the emission of 'error' and
\* replaces the worker.
ReplacesWorker == ErrorListened /\ started /\ RestartWorkerOnError

\* 'error': the node is taken out of service; if 'error' has no listener on
\* the emitter, emitting it ends the process. Then comes the replacement, and
\* the redistribution of the queue.
HandleWorkerError(w) ==
  /\ MainIdle /\ thread[w] = "failed"
  /\ AddWorkers(IF ReplacesWorker THEN 1 ELSE 0, dynamic[w], dynamic[w], {w})
  /\ crashed' = ~ErrorListened
  /\ redistributing' = IF /\ ErrorListened /\ started /\ enableTasksQueue
                          /\ tasksQueue[w] # <<>>
                       THEN w ELSE 0
  /\ toPool' = [toPool EXCEPT ![w] = <<>>]
  /\ UNCHANGED <<started, nextWorkerNodeKey, settingVars, destroyVars,
                 queueVars, taskVars, toWorker, running, runs, boundVars>>

\* The destination redistributeQueuedTasks reduces to: the first of the ready
\* nodes with the shortest queue, if that is shorter than the queue of the
\* first node; otherwise the first node, whatever its state.
Destination ==
  LET queued(k) == Len(tasksQueue[Node(k)])
      shorter == {k \in Keys : ready[Node(k)] /\ queued(k) < queued(0)}
  IN IF shorter = {} THEN Node(0)
     ELSE Node(CHOOSE k \in shorter : \A j \in shorter :
                 queued(k) < queued(j) \/ (queued(k) = queued(j) /\ k <= j))

\* One turn of the loop of redistributeQueuedTasks. It throws, out of the
\* 'error' listener, when it sends the task to a node without a channel.
RedistributeQueuedTask ==
  LET w == redistributing
      t == Head(tasksQueue[w])
      rest == Dequeued(w)
  IN
  /\ redistributing # 0
  /\ \/ /\ ShallExecuteTask(Destination, rest)
        /\ ExecuteTask(Destination, t, executing)
        /\ tasksQueue' = rest
        /\ crashed' = ~HasChannel(Destination)
     \/ /\ ~ShallExecuteTask(Destination, rest)
        /\ tasksQueue' = [rest EXCEPT ![Destination] = Append(@, t)]
        /\ UNCHANGED <<executing, toWorker, crashed>>
  /\ redistributing' = IF tasksQueue'[w] = <<>> THEN 0 ELSE w
  /\ UNCHANGED <<started, nextWorkerNodeKey, settingVars, destroyVars,
                 nodeVars, taskVars, toPool, threadVars, boundVars>>

\* 'exit': removeWorkerNode, and the end of a destroyWorkerNode whose kill
\* message was answered. With the last of those destroy() is over.
HandleWorkerExit(w) ==
  LET key == KeyOf(w)
      left == awaiting \ (IF killing[w] = {} THEN {w} ELSE {})
      over == destroy = "pending" /\ left = {}
  IN
  /\ MainIdle /\ thread[w] \in {"errored", "terminating"}
  /\ thread' = [thread EXCEPT ![w] = "exited"]
  /\ workerNodes' = SubSeq(workerNodes, 1, key) \o
                    SubSeq(workerNodes, key + 2, Len(workerNodes))
  /\ RoundRobinRemove(key, Len(workerNodes) - 1)
  /\ awaiting' = left
  /\ destroy' = IF over THEN "resolved" ELSE destroy
  /\ started' = (started /\ ~over)
  /\ UNCHANGED <<redistributing, crashed, settingVars, killing, created,
                 ready, dynamic, channel, queueVars, taskVars, channelVars,
                 running, runs, boundVars>>

-----------------------------------------------------------------------------
(* The worker threads.                                                     *)

\* handleReadyMessage: the port is set up and the pool is told.
HandleReadyMessage(w) ==
  /\ thread[w] = "starting"
  /\ thread' = [thread EXCEPT ![w] = "running"]
  /\ toPool' = [toPool EXCEPT ![w] = Append(@, [type |-> "ready"])]
  /\ UNCHANGED <<poolVars, settingVars, destroyVars, nodeVars, queueVars,
                 taskVars, toWorker, running, runs, boundVars>>

WorkerReceives(w, type) ==
  /\ thread[w] = "running"
  /\ toWorker[w] # <<>>
  /\ Head(toWorker[w]).type = type

\* run: the task function is called.
RunTask(w) ==
  /\ WorkerReceives(w, "task")
  /\ toWorker' = [toWorker EXCEPT ![w] = Tail(@)]
  /\ LET t == Head(toWorker[w]).task IN
     /\ running' = [running EXCEPT ![w] = @ \cup {t}]
     /\ runs' = [runs EXCEPT ![t] = @ + 1]
  /\ UNCHANGED <<poolVars, settingVars, destroyVars, nodeVars, queueVars,
                 taskVars, toPool, thread, boundVars>>

\* runSync and runAsync answer with the result or with the error. A thread
\* that has closed its port answers nobody.
AnswerTask(w, t, ok) ==
  /\ thread[w] = "running" /\ t \in running[w]
  /\ running' = [running EXCEPT ![w] = @ \ {t}]
  /\ toPool' = [toPool EXCEPT ![w] =
                  Append(@, [type |-> "response", task |-> t, ok |-> ok])]
  /\ UNCHANGED <<poolVars, settingVars, destroyVars, nodeVars, queueVars,
                 taskVars, toWorker, thread, runs, boundVars>>

\* checkActive of a dynamic worker: no task has ended for maxInactiveTime,
\* which one that runs for longer does not prevent.
RequestKill(w) ==
  /\ thread[w] = "running" /\ dynamic[w]
  /\ killRequests < MaxKillRequests
  /\ killRequests' = killRequests + 1
  /\ toPool' = [toPool EXCEPT ![w] =
                  Append(@, [type |-> "kill", kill |-> KillBehavior])]
  /\ UNCHANGED <<poolVars, settingVars, destroyVars, nodeVars, queueVars,
                 taskVars, toWorker, threadVars, starts, errors>>

\* What a kill handler comes to: the default one does nothing.
KillOutcomes == IF KillHandler = "none" THEN {"success"} ELSE {"success", "failure"}

\* handleKillMessage of ThreadWorker: the kill handler, which returns or
\* throws, the answer, and the port is closed; an asynchronous handler answers
\* when it is closed already.
HandleKillMessage(w) ==
  /\ WorkerReceives(w, "kill")
  /\ thread' = [thread EXCEPT ![w] = "closed"]
  /\ toWorker' = [toWorker EXCEPT ![w] = <<>>]
  /\ \E outcome \in KillOutcomes :
       toPool' = IF KillHandler = "async" THEN toPool
                 ELSE [toPool EXCEPT ![w] =
                         Append(@, [type |-> "kill", kill |-> outcome])]
  /\ UNCHANGED <<poolVars, settingVars, destroyVars, nodeVars, queueVars,
                 taskVars, running, runs, boundVars>>

\* An error nobody catches in a thread: its file does not load, or code that
\* a task started throws after the task is over.
UncaughtError(w) ==
  /\ thread[w] \in {"starting", "running", "closed"}
  /\ errors < MaxErrors
  /\ errors' = errors + 1
  /\ thread' = [thread EXCEPT ![w] = "failed"]
  /\ running' = [running EXCEPT ![w] = {}]
  /\ toWorker' = [toWorker EXCEPT ![w] = <<>>]
  /\ UNCHANGED <<poolVars, settingVars, destroyVars, nodeVars, queueVars,
                 taskVars, toPool, runs, starts, killRequests>>

-----------------------------------------------------------------------------

Caller ==
  \/ Start
  \/ \E t \in Tasks : ExecuteNotStarted(t) \/ Execute(t)
  \/ SetWorkerChoiceStrategy
  \/ \E enable \in BOOLEAN : SetEnableTasksQueue(enable)
  \/ Destroy

Listener(w) ==
  \/ HandleWorkerReadyResponse(w)
  \/ HandleTaskExecutionResponse(w)
  \/ HandleKillRequest(w)
  \/ HandleKillSuccess(w)
  \/ HandleKillFailure(w)

WorkerEvent(w) == HandleWorkerError(w) \/ HandleWorkerExit(w)

Thread(w) ==
  \/ HandleReadyMessage(w)
  \/ RunTask(w)
  \/ \E t \in Tasks, ok \in BOOLEAN : AnswerTask(w, t, ok)
  \/ HandleKillMessage(w)

Environment(w) == RequestKill(w) \/ UncaughtError(w)

\* The end of the process ends its threads too.
Next ==
  /\ ~crashed
  /\ \/ Caller
     \/ RedistributeQueuedTask
     \/ \E w \in WorkerIds :
          Listener(w) \/ WorkerEvent(w) \/ Thread(w) \/ Environment(w)

Spec == Init /\ [][Next]_vars

\* The event loop of the pool serves every message and every event, threads
\* handle what they are sent, and task functions end. Callers need not call,
\* and nothing obliges a worker to fail or to be inactive.
Fairness ==
  /\ WF_vars(RedistributeQueuedTask /\ ~crashed)
  /\ \A w \in WorkerIds :
       /\ WF_vars(Listener(w) /\ ~crashed)
       /\ WF_vars(WorkerEvent(w) /\ ~crashed)
       /\ WF_vars((HandleReadyMessage(w) \/ RunTask(w) \/ HandleKillMessage(w))
                    /\ ~crashed)
       /\ \A t \in Tasks :
            WF_vars((\E ok \in BOOLEAN : AnswerTask(w, t, ok)) /\ ~crashed)

FairSpec == Spec /\ Fairness

-----------------------------------------------------------------------------
(* Properties.                                                             *)

\* Every variable keeps the type it is declared with in the code; an index
\* kept for a task is at least -1, which only an emptied pool produces.
TypeOK ==
  /\ started \in BOOLEAN /\ crashed \in BOOLEAN
  /\ workerNodes \in Seq(WorkerIds)
  /\ promise \in [Tasks -> {"none", "pending", "resolved", "rejected"}]
  /\ promiseResponseMap \in [Tasks -> Int]
  /\ nextWorkerNodeKey \in Int
  /\ redistributing \in WorkerIds \cup {0}
  /\ destroy \in {"none", "pending", "resolved", "rejected"}
  /\ awaiting \in SUBSET WorkerIds
  /\ ready \in [WorkerIds -> BOOLEAN]
  /\ dynamic \in [WorkerIds -> BOOLEAN]
  /\ channel \in [WorkerIds -> BOOLEAN]
  /\ executing \in [WorkerIds -> Nat]
  /\ tasksQueue \in [WorkerIds -> Seq(Tasks)]
  /\ killing \in [WorkerIds -> SUBSET {"listener", "destroy"}]
  /\ thread \in [WorkerIds -> ThreadStates]
  /\ running \in [WorkerIds -> SUBSET Tasks]
  /\ toWorker \in [WorkerIds -> Seq(ToWorkerMessages)]
  /\ toPool \in [WorkerIds -> Seq(ToPoolMessages)]
  /\ runs \in [Tasks -> Nat]
  /\ created \in 0 .. Workers
  /\ enableTasksQueue \in BOOLEAN /\ changes \in Nat
  /\ starts \in Nat /\ errors \in Nat /\ killRequests \in Nat

\* What a worker has of the pool's tasks, beyond its queue: sent and not yet
\* run, running, or answered and not yet heard of.
InFlight(w) ==
  {t \in Tasks :
     \/ \E i \in DOMAIN toWorker[w] : toWorker[w][i] = TaskMessage(t)
     \/ t \in running[w]
     \/ \E i \in DOMAIN toPool[w] : /\ toPool[w][i].type = "response"
                                    /\ toPool[w][i].task = t}
Queued(w) == {tasksQueue[w][i] : i \in DOMAIN tasksQueue[w]}

\* The nodes the pool counts on: listed, their 'error' not emitted yet.
InService == {w \in Listed : thread[w] # "errored"}

\* However creation on demand, kills of inactive workers and restarts after
\* errors interleave, no more than MaxSize nodes are in service.
\* (start() after destroy() tops static nodes up without counting the dynamic
\* ones that execute() made while destroy() was pending.)
InServiceWithinMax ==
  PoolType = "fixed" \/ MaxStarts <= 1 => Cardinality(InService) <= MaxSize

\* Until destroy() is called, a started pool that restarts workers on error
\* has exactly MinSize static nodes in service: no kill request takes one
\* down, and each restart replaces the node that failed, by one of its kind.
StaticNodesKept ==
  started /\ RestartWorkerOnError /\ destroy = "none" /\ ~crashed
    => Cardinality({w \in InService : ~dynamic[w]}) = MinSize

\* checkMessageWorkerId never throws: messages wait only on the channels of
\* listed nodes, and a thread that may still post belongs to such a node.
SendersListed ==
  \A w \in WorkerIds :
    toPool[w] # <<>> \/ thread[w] = "running" => w \in Listed /\ channel[w]

\* Nothing but execute() and the work itself has happened to the pool.
Undisturbed ==
  errors = 0 /\ killRequests = 0 /\ changes = 0 /\ destroy = "none"

\* As long as that is so, the key kept for an unsettled task is the key of
\* the node that has it, in flight or in its queue.
KeyNamesHolder ==
  Undisturbed =>
    \A t \in Tasks : promise[t] = "pending" =>
      /\ promiseResponseMap[t] \in Keys
      /\ t \in InFlight(Node(promiseResponseMap[t]))
                 \cup Queued(Node(promiseResponseMap[t]))

\* ... the counter on which busyness, queueing and kills are decided is the
\* number of tasks the worker has, and it respects the concurrency ...
ExecutingCountsInFlight ==
  Undisturbed =>
    \A w \in Listed :
      /\ executing[w] = Cardinality(InFlight(w))
      /\ enableTasksQueue => executing[w] <= Concurrency

\* ... and a task waits in a queue only while its node is at its concurrency.
QueuedOnlyWhenBusy ==
  Undisturbed =>
    \A w \in Listed : tasksQueue[w] # <<>> => executing[w] >= Concurrency

\* Whatever fails, switching the queues off leaves no task in the queue of a
\* listed node: none of them would be taken out again.
NoQueueWhenDisabled ==
  \A w \in Listed : tasksQueue[w] # <<>> => enableTasksQueue

\* Without errors and kills every accepted task is settled in the end, even
\* if the options change on the way.
EventuallySettled ==
  \A t \in Tasks :
    promise[t] = "pending" ~>
      \/ promise[t] \in {"resolved", "rejected"}
      \/ errors > 0 \/ killRequests > 0 \/ destroy # "none"

\* The answer of a worker that handled a kill message waits to be heard by
\* those it is meant for. It does not when the kill handler failed for an
\* earlier caller: the worker has closed its port and its node stays listed.
KillAnswered(w) ==
  thread[w] = "closed" /\ killing[w] # {} =>
    \E i \in DOMAIN toPool[w] :
      toPool[w][i].type = "kill" /\ toPool[w][i].kill \in {"success", "failure"}

\* Without errors destroy() ends, whatever kills the workers have asked for
\* before and meanwhile, if kill handlers are synchronous, no node is left
\* over from a kill handler that failed, and no listener throws.
DestroyEnds ==
  KillHandler # "async" =>
    (destroy = "pending" /\ (\A w \in awaiting : KillAnswered(w))
       ~> destroy # "pending" \/ errors > 0 \/ crashed)

\* What the pool does is what its callers are promised.
Promises == INSTANCE TaskPromises
RefinesTaskPromises == Promises!Spec

-----------------------------------------------------------------------------
(* Statements of the documentation that the code does not keep.            *)

\* worker-options.ts of SOFT: "your workers will not be terminated until your
\* task is completed". A kill that only the inactivity of the worker has
\* caused leaves no task behind on it.
SoftKillSparesTasks ==
  \A w \in WorkerIds :
    KillBehavior = "SOFT" /\ errors = 0 /\ destroy = "none"
    /\ thread[w] = "closed" => executing[w] = 0

\* docs/api.md of destroy(): "will call the terminate method on each worker".
DestroyTerminatesWorkers ==
  \A w \in WorkerIds :
    errors = 0 /\ destroy = "pending" /\ w \in awaiting
      ~> thread[w] \in {"terminating", "exited"}

\* README.md: "Tasks redistribution on worker error": it comes to an end.
RedistributionEnds == redistributing # 0 ~> redistributing = 0

\* docs/api.md of ROUND_ROBIN: "Submit tasks to worker in a round robin
\* fashion": the next key is the key of a worker.
NextKeyNamesWorker ==
  workerNodes # <<>> /\ destroy = "none" => nextWorkerNodeKey \in Keys
=============================================================================
