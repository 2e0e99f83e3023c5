--------------------------- MODULE PoolBookProofs ---------------------------
(***************************************************************************)
(* Theorems about the bookkeeping of Pool: until an error, a kill, a       *)
(* change of the options or destroy() disturbs it, the key kept for a task *)
(* names the node that has it, and the counter of a node is exact.         *)
(*                                                                         *)
(* And about its size: however creation on demand, restarts after errors,  *)
(* kills of inactive workers and destroy() interleave, no more than        *)
(* MaxSize nodes are in service, and none of the static nodes goes without *)
(* a successor.                                                            *)
(***************************************************************************)
EXTENDS PoolTaskProofs

\* What a worker has of the pool's tasks, beyond its queue: InFlight, as the
\* places of PoolTaskProofs.
flight == [w \in WorkerIds |-> sent[w] \cup running[w] \cup answered[w]]

\* Every message is of one of the types.
OfTypes(messages, types) ==
  \A i \in DOMAIN messages : messages[i].type \in types

\* No worker has failed or been asked to go, and no message tells one to.
NothingEnds ==
  /\ redistributing = 0
  /\ \A w \in WorkerIds :
       /\ thread[w] \in {"none", "starting", "running"}
       /\ OfTypes(toWorker[w], {"task"})
       /\ OfTypes(toPool[w], {"ready", "response"})

\* The counter of a node counts the tasks its worker has.
CountersExact ==
  \A w \in WorkerIds :
    /\ IsFiniteSet(flight[w])
    /\ executing[w] = Cardinality(flight[w])
    /\ enableTasksQueue => executing[w] <= Concurrency
    /\ tasksQueue[w] # <<>> => executing[w] >= Concurrency

\* The key kept for a task that is not settled is the key of its node.
KeysNameHolders ==
  \A t \in Tasks : promise[t] = "pending" =>
    /\ promiseResponseMap[t] \in Keys
    /\ t \in flight[Node(promiseResponseMap[t])]
               \cup queued[Node(promiseResponseMap[t])]

BookInv == Undisturbed => NothingEnds /\ CountersExact /\ KeysNameHolders

-----------------------------------------------------------------------------
(* The operations on channels and on the nodes array.                      *)

LEMMA TypesAppended ==
  ASSUME NEW M, NEW s \in Seq(M), NEW m \in M, NEW types,
         OfTypes(s, types), m.type \in types, NEW r, r = Append(s, m)
  PROVE  OfTypes(r, types)
<1>1. /\ DOMAIN s = 1 .. Len(s) /\ Len(s) \in Nat
      /\ DOMAIN r = 1 .. Len(s) + 1
      /\ \A i \in 1 .. Len(s) : r[i] = s[i]
      /\ r[Len(s) + 1] = m
  BY AppendProperties, LenProperties
<1> QED
  BY <1>1 DEF OfTypes

LEMMA TypesTaken ==
  ASSUME NEW M, NEW s \in Seq(M), s # <<>>, NEW types, OfTypes(s, types),
         NEW r, r = Tail(s)
  PROVE  OfTypes(r, types) /\ Head(s).type \in types
<1>1. /\ \A i \in DOMAIN r : i + 1 \in DOMAIN s /\ r[i] = s[i + 1]
      /\ 1 \in DOMAIN s /\ Head(s) = s[1]
  BY TailMessages
<1> QED
  BY <1>1 DEF OfTypes

\* The keys of the listed nodes stay what they are when nodes are added.
LEMMA AddedKeys ==
  ASSUME TypeOK, NEW n \in Nat, NEW isDynamic \in BOOLEAN,
         NEW isReady \in BOOLEAN, NEW gone,
         AddWorkers(n, isDynamic, isReady, gone)
  PROVE  \A k \in Keys : k \in Keys' /\ Node(k)' = Node(k)
<1>1. /\ Len(workerNodes') = Len(workerNodes) + n
      /\ \A i \in 1 .. Len(workerNodes') : workerNodes'[i] =
           IF i <= Len(workerNodes) THEN workerNodes[i]
           ELSE created + i - Len(workerNodes)
  BY AddedNodes
<1>2. Len(workerNodes) \in Nat
  BY LenProperties DEF TypeOK
<1>3. ASSUME NEW k \in Keys
      PROVE  /\ k \in 0 .. Len(workerNodes') - 1
             /\ workerNodes'[k + 1] = workerNodes[k + 1]
  <2>1. k + 1 \in 1 .. Len(workerNodes') /\ k + 1 <= Len(workerNodes)
    BY <1>1, <1>2 DEF Keys
  <2>2. workerNodes'[k + 1] = workerNodes[k + 1]
    BY <1>1, <2>1
  <2> QED
    BY <1>1, <1>2, <2>2 DEF Keys
<1> QED
  BY <1>3 DEF Keys, Node

-----------------------------------------------------------------------------
(* No step that leaves the pool undisturbed ends anything.                 *)

\* The steps left to a pool that has not been disturbed.
UndisturbedNext ==
  \/ Start
  \/ \E t \in Tasks : ExecuteNotStarted(t) \/ Execute(t)
  \/ \E w \in WorkerIds :
       \/ HandleWorkerReadyResponse(w) \/ HandleTaskExecutionResponse(w)
       \/ HandleReadyMessage(w) \/ RunTask(w)
       \/ \E t \in Tasks, ok \in BOOLEAN : AnswerTask(w, t, ok)

LEMMA UndisturbedSteps ==
  ASSUME TypeOK, NothingEnds, Undisturbed', Next
  PROVE  Undisturbed /\ UndisturbedNext
<1>1. /\ starts \in Nat /\ errors \in Nat /\ killRequests \in Nat
      /\ changes \in Nat /\ destroy \in {"none", "pending", "resolved", "rejected"}
  BY DEF TypeOK
<1>2. ~RedistributeQueuedTask
  BY DEF NothingEnds, RedistributeQueuedTask
<1>3. ~Destroy /\ ~SetWorkerChoiceStrategy
      /\ \A enable \in BOOLEAN : ~SetEnableTasksQueue(enable)
  <2>1. ~Destroy
    BY DEF Undisturbed, Destroy
  <2>2. ~SetWorkerChoiceStrategy
    BY <1>1 DEF Undisturbed, SetWorkerChoiceStrategy
  <2>3. \A enable \in BOOLEAN : ~SetEnableTasksQueue(enable)
    BY <1>1 DEF Undisturbed, SetEnableTasksQueue
  <2> QED
    BY <2>1, <2>2, <2>3
<1>4. ASSUME NEW w \in WorkerIds
      PROVE  /\ ~HandleKillRequest(w) /\ ~HandleKillSuccess(w)
             /\ ~HandleKillFailure(w) /\ ~HandleKillMessage(w)
  <2>1. toPool[w] # <<>> => Head(toPool[w]).type # "kill"
    <3>1. toPool[w] \in Seq(ToPoolMessages) /\ OfTypes(toPool[w], {"ready", "response"})
      BY DEF TypeOK, NothingEnds
    <3>2. toPool[w] # <<>> => Head(toPool[w]).type \in {"ready", "response"}
      BY <3>1, TypesTaken
    <3> QED
      BY <3>2
  <2>2. toWorker[w] # <<>> => Head(toWorker[w]).type # "kill"
    <3>1. toWorker[w] \in Seq(ToWorkerMessages) /\ OfTypes(toWorker[w], {"task"})
      BY DEF TypeOK, NothingEnds
    <3>2. toWorker[w] # <<>> => Head(toWorker[w]).type \in {"task"}
      BY <3>1, TypesTaken
    <3> QED
      BY <3>2
  <2> QED
    BY <2>1, <2>2
    DEF HandleKillRequest, HandleKillSuccess, HandleKillFailure,
        HandleKillMessage, Received, WorkerReceives
<1>5. ASSUME NEW w \in WorkerIds
      PROVE  /\ ~HandleWorkerError(w) /\ ~HandleWorkerExit(w)
             /\ ~RequestKill(w) /\ ~UncaughtError(w)
  <2>1. ~HandleWorkerError(w) /\ ~HandleWorkerExit(w)
    BY DEF NothingEnds, HandleWorkerError, HandleWorkerExit
  <2>2. ~RequestKill(w) /\ ~UncaughtError(w)
    BY <1>1 DEF Undisturbed, RequestKill, UncaughtError
  <2> QED
    BY <2>1, <2>2
<1>6. UndisturbedNext
  BY <1>2, <1>3, <1>4, <1>5
  DEF Next, Caller, Listener, WorkerEvent, Thread, Environment, UndisturbedNext
<1>7. UNCHANGED <<errors, killRequests, changes, destroy>>
  BY <1>6
  DEF UndisturbedNext, Start, ExecuteNotStarted, Execute,
      HandleWorkerReadyResponse, HandleTaskExecutionResponse,
      HandleReadyMessage, RunTask, AnswerTask, boundVars, settingVars,
      destroyVars
<1> QED
  BY <1>6, <1>7 DEF Undisturbed

\* No thread goes on to the end of its life.
LEMMA UndisturbedThreads ==
  ASSUME IInv, NothingEnds, UndisturbedNext
  PROVE  /\ UNCHANGED <<redistributing, enableTasksQueue>>
         /\ \A v \in WorkerIds : thread'[v] \in {"none", "starting", "running"}
<1>1. UNCHANGED <<redistributing, enableTasksQueue>>
  BY DEF UndisturbedNext, Start, ExecuteNotStarted, Execute,
         HandleWorkerReadyResponse, HandleTaskExecutionResponse,
         HandleReadyMessage, RunTask, AnswerTask, settingVars, poolVars
<1>2. TypeOK
  BY DEF IInv
<1>3. CASE Start \/ \E t \in Tasks : Execute(t)
  <2>1. \E n, isDynamic, isReady : AddWorkers(n, isDynamic, isReady, {})
    <3>1. CASE Start
      BY <3>1 DEF Start
    <3>2. CASE \E t \in Tasks : Execute(t)
      BY <3>2 DEF Execute
    <3> QED
      BY <1>3, <3>1, <3>2
  <2>2. \A v \in WorkerIds : thread'[v] \in {"starting", thread[v]}
    BY <2>1 DEF AddWorkers
  <2> QED
    BY <1>1, <2>2 DEF NothingEnds
<1>4. CASE ~(Start \/ \E t \in Tasks : Execute(t))
  <2>1. UNCHANGED thread
        \/ \E w \in WorkerIds : thread' = [thread EXCEPT ![w] = "running"]
    BY <1>4
    DEF UndisturbedNext, ExecuteNotStarted, HandleWorkerReadyResponse,
        HandleTaskExecutionResponse, HandleReadyMessage, RunTask, AnswerTask,
        threadVars
  <2> QED
    BY <1>1, <1>2, <2>1 DEF NothingEnds, TypeOK
<1> QED
  BY <1>3, <1>4

\* A task goes to a worker, and is not lost.
LEMMA SentType ==
  ASSUME TypeOK, NothingEnds, NEW w \in WorkerIds, NEW t \in Tasks,
         SendToWorker(w, <<TaskMessage(t)>>)
  PROVE  /\ PortOpen(w)
         /\ \A v \in WorkerIds : OfTypes(toWorker'[v], {"task"})
<1>1. PortOpen(w)
  BY DEF NothingEnds, PortOpen
<1> DEFINE m == TaskMessage(t)
           r == Append(toWorker[w], m)
           types == {"task"}
<1>2. m \in ToWorkerMessages /\ m.type \in types
  BY DEF TaskMessage, ToWorkerMessages
<1>3. toWorker[w] \in Seq(ToWorkerMessages) /\ OfTypes(toWorker[w], types)
  BY DEF TypeOK, NothingEnds
<1>4. toWorker[w] \o <<m>> = r
  BY <1>2, <1>3, AppendIsConcat
<1>5. toWorker' = [toWorker EXCEPT ![w] = r]
  BY <1>1, <1>4 DEF SendToWorker
<1> HIDE DEF m, types
<1>6. OfTypes(r, types)
  BY <1>2, <1>3, TypesAppended
<1> HIDE DEF r
<1>7. toWorker'[w] = r /\ \A v \in WorkerIds : v # w => toWorker'[v] = toWorker[v]
  BY <1>5 DEF TypeOK
<1> QED
  BY <1>1, <1>6, <1>7 DEF NothingEnds, types

LEMMA HeardTypes ==
  ASSUME TypeOK, NothingEnds, NEW w \in WorkerIds, toPool[w] # <<>>,
         toPool' = [toPool EXCEPT ![w] = Tail(@)]
  PROVE  \A v \in WorkerIds : OfTypes(toPool'[v], {"ready", "response"})
<1> DEFINE types == {"ready", "response"}
           r == Tail(toPool[w])
<1>1. toPool[w] \in Seq(ToPoolMessages) /\ OfTypes(toPool[w], types)
  BY DEF TypeOK, NothingEnds
<1> HIDE DEF types
<1>2. OfTypes(r, types)
  BY <1>1, TypesTaken
<1>3. toPool'[w] = r /\ \A v \in WorkerIds : v # w => toPool'[v] = toPool[v]
  BY DEF TypeOK
<1> QED
  BY <1>2, <1>3 DEF NothingEnds, types

LEMMA PostedType ==
  ASSUME TypeOK, NothingEnds, NEW w \in WorkerIds, NEW m \in ToPoolMessages,
         m.type \in {"ready", "response"},
         toPool' = [toPool EXCEPT ![w] = Append(@, m)]
  PROVE  \A v \in WorkerIds : OfTypes(toPool'[v], {"ready", "response"})
<1> DEFINE types == {"ready", "response"}
           r == Append(toPool[w], m)
<1>1. toPool[w] \in Seq(ToPoolMessages) /\ OfTypes(toPool[w], types)
  BY DEF TypeOK, NothingEnds
<1>2. m.type \in types
  OBVIOUS
<1> HIDE DEF types
<1>3. OfTypes(r, types)
  BY <1>1, <1>2, TypesAppended
<1> HIDE DEF r
<1>4. toPool'[w] = r /\ \A v \in WorkerIds : v # w => toPool'[v] = toPool[v]
  BY DEF TypeOK, r
<1> QED
  BY <1>3, <1>4 DEF NothingEnds, types

LEMMA ReceivedType ==
  ASSUME TypeOK, NothingEnds, NEW w \in WorkerIds, toWorker[w] # <<>>,
         toWorker' = [toWorker EXCEPT ![w] = Tail(@)]
  PROVE  \A v \in WorkerIds : OfTypes(toWorker'[v], {"task"})
<1> DEFINE types == {"task"}
           r == Tail(toWorker[w])
<1>1. toWorker[w] \in Seq(ToWorkerMessages) /\ OfTypes(toWorker[w], types)
  BY DEF TypeOK, NothingEnds
<1> HIDE DEF types
<1>2. OfTypes(r, types)
  BY <1>1, TypesTaken
<1>3. toWorker'[w] = r /\ \A v \in WorkerIds : v # w => toWorker'[v] = toWorker[v]
  BY DEF TypeOK
<1> QED
  BY <1>2, <1>3 DEF NothingEnds, types

LEMMA NothingEndsStep ==
  ASSUME IInv, IInv', NothingEnds, UndisturbedNext
  PROVE  NothingEnds'
<1>1. TypeOK
  BY DEF IInv
<1>2. \A v \in WorkerIds : OfTypes(toWorker'[v], {"task"})
  <2>1. ASSUME NEW t \in Tasks, Execute(t)
        PROVE  \A v \in WorkerIds : OfTypes(toWorker'[v], {"task"})
    <3>1. PICK key \in Choices(Len(workerNodes')) :
            \/ UNCHANGED toWorker
            \/ /\ key \in 0 .. Len(workerNodes') - 1
               /\ SendToWorker(workerNodes'[key + 1], <<TaskMessage(t)>>)
      BY <2>1 DEF Execute, ExecuteTask
    <3>2. key \in 0 .. Len(workerNodes') - 1 => workerNodes'[key + 1] \in WorkerIds
      <4>1. workerNodes' \in Seq(WorkerIds)
        BY DEF IInv, TypeOK
      <4>2. Len(workerNodes') \in Nat
        BY <4>1, LenProperties
      <4>3. key \in 0 .. Len(workerNodes') - 1
              => key + 1 \in 1 .. Len(workerNodes')
        BY <4>2
      <4> QED
        BY <4>1, <4>3, ElementOfSeq
    <3> QED
      BY <1>1, <3>1, <3>2, SentType DEF NothingEnds
  <2>2. ASSUME NEW w \in WorkerIds, HandleTaskExecutionResponse(w)
        PROVE  \A v \in WorkerIds : OfTypes(toWorker'[v], {"task"})
    <3> DEFINE key == promiseResponseMap[Head(toPool[w]).task]
               x == Node(key)
               u == Head(tasksQueue[x])
    <3>1. \/ UNCHANGED toWorker
          \/ /\ key \in Keys /\ tasksQueue[x] # <<>>
             /\ SendToWorker(x, <<TaskMessage(u)>>)
      BY <2>2 DEF HandleTaskExecutionResponse, ExecuteTask
    <3>2. key \in Keys => x \in WorkerIds
      BY <1>1, NodeIsListed
    <3>3. key \in Keys /\ tasksQueue[x] # <<>> => u \in Tasks
      BY <1>1, <3>2, DequeuedTypes
    <3> HIDE DEF u, x, key
    <3> QED
      BY <1>1, <3>1, <3>2, <3>3, SentType DEF NothingEnds
  <2>3. ASSUME NEW w \in WorkerIds, RunTask(w)
        PROVE  \A v \in WorkerIds : OfTypes(toWorker'[v], {"task"})
    BY <1>1, <2>3, ReceivedType DEF RunTask, WorkerReceives
  <2>4. CASE UNCHANGED toWorker
    BY <2>4 DEF NothingEnds
  <2> QED
    BY <2>1, <2>2, <2>3, <2>4
    DEF UndisturbedNext, Start, ExecuteNotStarted, HandleWorkerReadyResponse,
        HandleReadyMessage, AnswerTask, channelVars
<1>3. \A v \in WorkerIds : OfTypes(toPool'[v], {"ready", "response"})
  <2>1. ASSUME NEW w \in WorkerIds,
               HandleWorkerReadyResponse(w) \/ HandleTaskExecutionResponse(w)
        PROVE  \A v \in WorkerIds : OfTypes(toPool'[v], {"ready", "response"})
    BY <1>1, <2>1, HeardTypes
    DEF HandleWorkerReadyResponse, HandleTaskExecutionResponse, Received
  <2>2. ASSUME NEW w \in WorkerIds, HandleReadyMessage(w)
        PROVE  \A v \in WorkerIds : OfTypes(toPool'[v], {"ready", "response"})
    <3> DEFINE m == [type |-> "ready"]
    <3>1. m \in ToPoolMessages /\ m.type \in {"ready", "response"}
      BY DEF ToPoolMessages
    <3>2. toPool' = [toPool EXCEPT ![w] = Append(@, m)]
      BY <2>2 DEF HandleReadyMessage
    <3> HIDE DEF m
    <3> QED
      BY <1>1, <3>1, <3>2, PostedType
  <2>3. ASSUME NEW w \in WorkerIds, NEW t \in Tasks, NEW ok \in BOOLEAN,
               AnswerTask(w, t, ok)
        PROVE  \A v \in WorkerIds : OfTypes(toPool'[v], {"ready", "response"})
    <3> DEFINE m == [type |-> "response", task |-> t, ok |-> ok]
    <3>1. m \in ToPoolMessages /\ m.type \in {"ready", "response"}
      BY DEF ToPoolMessages
    <3>2. toPool' = [toPool EXCEPT ![w] = Append(@, m)]
      BY <2>3 DEF AnswerTask
    <3> HIDE DEF m
    <3> QED
      BY <1>1, <3>1, <3>2, PostedType
  <2>4. CASE UNCHANGED toPool
    BY <2>4 DEF NothingEnds
  <2> QED
    BY <2>1, <2>2, <2>3, <2>4
    DEF UndisturbedNext, Start, ExecuteNotStarted, Execute, RunTask, channelVars
<1> QED
  BY <1>2, <1>3, UndisturbedThreads DEF NothingEnds

-----------------------------------------------------------------------------
(* Every such step keeps the counters and the keys.                        *)

LEMMA FlightNow ==
  \A v \in WorkerIds : flight[v] = sent[v] \cup running[v] \cup answered[v]
BY DEF flight

LEMMA FlightNext ==
  \A v \in WorkerIds : flight'[v] = sent'[v] \cup running'[v] \cup answered'[v]
BY DEF flight

\* Steps by which no task changes hands, and none is taken over or settled.
LEMMA SameBook ==
  ASSUME CountersExact, KeysNameHolders,
         UNCHANGED <<executing, tasksQueue, enableTasksQueue>>,
         \A w \in WorkerIds : flight'[w] = flight[w],
         \A t \in Tasks : promise'[t] = "pending" =>
           /\ promise[t] = "pending"
           /\ promiseResponseMap'[t] = promiseResponseMap[t],
         TypeOK, \A k \in Keys : k \in Keys' /\ Node(k)' = Node(k)
  PROVE  CountersExact' /\ KeysNameHolders'
<1>1. CountersExact'
  BY DEF CountersExact
<1>2. queued' = queued
  BY KeptPlaces
<1>3. KeysNameHolders'
  <2> SUFFICES ASSUME NEW t \in Tasks, promise'[t] = "pending"
               PROVE  /\ promiseResponseMap'[t] \in Keys'
                      /\ t \in flight'[workerNodes'[promiseResponseMap'[t] + 1]]
                                 \cup queued'[workerNodes'[promiseResponseMap'[t] + 1]]
    BY DEF KeysNameHolders, Node
  <2> DEFINE k == promiseResponseMap[t]
  <2>1. /\ promiseResponseMap'[t] = k /\ k \in Keys
        /\ t \in flight[Node(k)] \cup queued[Node(k)]
    BY DEF KeysNameHolders
  <2> HIDE DEF k
  <2>2. k \in Keys' /\ workerNodes'[k + 1] = Node(k) /\ Node(k) \in WorkerIds
    BY <2>1, NodeIsListed DEF Node
  <2> QED
    BY <1>2, <2>1, <2>2
<1> QED
  BY <1>1, <1>3

LEMMA RunTaskBook ==
  ASSUME IInv, PlacesInv, CountersExact, KeysNameHolders,
         NEW w \in WorkerIds, RunTask(w)
  PROVE  CountersExact' /\ KeysNameHolders'
<1> DEFINE t == Head(toWorker[w]).task
<1>1. /\ TypeOK /\ NoRepeats
      /\ UNCHANGED <<promise, promiseResponseMap, executing, tasksQueue, toPool,
                     enableTasksQueue, workerNodes>>
      /\ toWorker[w] # <<>> /\ Head(toWorker[w]).type = "task"
      /\ toWorker' = [toWorker EXCEPT ![w] = Tail(@)]
      /\ running' = [running EXCEPT ![w] = @ \cup {t}]
  BY DEF IInv, PlacesInv, RunTask, WorkerReceives, queueVars, taskVars,
         settingVars, nodeVars
<1>2. /\ t \in Tasks /\ t \in sent[w]
      /\ \A v \in WorkerIds : sent'[v] = IF v = w THEN sent[v] \ {t} ELSE sent[v]
  BY <1>1, ReceivedPlaces
<1> HIDE DEF t
<1>3. answered' = answered
  BY <1>1, KeptPlaces
<1>4. \A v \in WorkerIds :
        running'[v] = IF v = w THEN running[v] \cup {t} ELSE running[v]
  BY <1>1 DEF TypeOK
<1>5. \A v \in WorkerIds : flight'[v] = flight[v]
  <2> SUFFICES ASSUME NEW v \in WorkerIds PROVE flight'[v] = flight[v]
    OBVIOUS
  <2>1. /\ flight[v] = sent[v] \cup running[v] \cup answered[v]
        /\ flight'[v] = sent'[v] \cup running'[v] \cup answered[v]
    BY <1>3, FlightNow, FlightNext
  <2>2. CASE v = w
    <3>1. t \in sent[v] /\ sent'[v] = sent[v] \ {t} /\ running'[v] = running[v] \cup {t}
      BY <1>2, <1>4, <2>2
    <3> QED
      BY <2>1, <3>1
  <2> QED
    BY <1>2, <1>4, <2>1, <2>2
<1>6. \A k \in Keys : k \in Keys' /\ Node(k)' = Node(k)
  BY <1>1 DEF Keys, Node
<1> QED
  BY <1>1, <1>5, <1>6, SameBook

LEMMA AnswerTaskBook ==
  ASSUME IInv, PlacesInv, CountersExact, KeysNameHolders,
         NEW w \in WorkerIds, NEW t \in Tasks, NEW ok \in BOOLEAN,
         AnswerTask(w, t, ok)
  PROVE  CountersExact' /\ KeysNameHolders'
<1> DEFINE m == [type |-> "response", task |-> t, ok |-> ok]
<1>1. /\ TypeOK /\ NoRepeats
      /\ UNCHANGED <<promise, promiseResponseMap, executing, tasksQueue, toWorker,
                     enableTasksQueue, workerNodes>>
      /\ t \in running[w]
      /\ running' = [running EXCEPT ![w] = @ \ {t}]
      /\ toPool' = [toPool EXCEPT ![w] = Append(@, m)]
  BY DEF IInv, PlacesInv, AnswerTask, queueVars, taskVars, settingVars, nodeVars
<1>2. m \in ToPoolMessages /\ m.type = "response" /\ m.task = t
  BY DEF ToPoolMessages
<1> HIDE DEF m
<1>3. t \notin answered[w]
  BY <1>1 DEF PlacesInv, OnePlace
<1>4. \A v \in WorkerIds : answered'[v] =
        IF v = w THEN answered[v] \cup {t} ELSE answered[v]
  BY <1>1, <1>2, <1>3, PostedPlaces
<1>5. sent' = sent
  BY <1>1, KeptPlaces
<1>6. \A v \in WorkerIds :
        running'[v] = IF v = w THEN running[v] \ {t} ELSE running[v]
  BY <1>1 DEF TypeOK
<1>7. \A v \in WorkerIds : flight'[v] = flight[v]
  <2> SUFFICES ASSUME NEW v \in WorkerIds PROVE flight'[v] = flight[v]
    OBVIOUS
  <2>1. /\ flight[v] = sent[v] \cup running[v] \cup answered[v]
        /\ flight'[v] = sent[v] \cup running'[v] \cup answered'[v]
    BY <1>5, FlightNow, FlightNext
  <2>2. CASE v = w
    <3>1. /\ t \in running[v] /\ running'[v] = running[v] \ {t}
          /\ answered'[v] = answered[v] \cup {t}
      BY <1>1, <1>4, <1>6, <2>2
    <3> QED
      BY <2>1, <3>1
  <2> QED
    BY <1>4, <1>6, <2>1, <2>2
<1>8. \A k \in Keys : k \in Keys' /\ Node(k)' = Node(k)
  BY <1>1 DEF Keys, Node
<1> QED
  BY <1>1, <1>7, <1>8, SameBook

LEMMA QuietBook ==
  ASSUME IInv, PlacesInv, CountersExact, KeysNameHolders,
         \/ Start \/ \E t \in Tasks : ExecuteNotStarted(t)
         \/ \E w \in WorkerIds :
              HandleWorkerReadyResponse(w) \/ HandleReadyMessage(w)
  PROVE  CountersExact' /\ KeysNameHolders'
<1>1. /\ TypeOK /\ UNCHANGED <<executing, tasksQueue, enableTasksQueue,
                               promiseResponseMap, toWorker, running>>
  BY DEF IInv, Start, ExecuteNotStarted, HandleWorkerReadyResponse,
         HandleReadyMessage, queueVars, settingVars, taskVars, channelVars,
         threadVars
<1>2. \A t \in Tasks : promise'[t] = "pending" => promise[t] = "pending"
  <2>1. UNCHANGED promise
        \/ \E t \in Tasks : promise' = [promise EXCEPT ![t] = "rejected"]
    BY DEF Start, ExecuteNotStarted, HandleWorkerReadyResponse,
           HandleReadyMessage, taskVars
  <2> QED
    BY <1>1, <2>1 DEF TypeOK
<1>3. \A v \in WorkerIds : answered'[v] = answered[v]
  <2>1. ASSUME NEW w \in WorkerIds, HandleWorkerReadyResponse(w)
        PROVE  \A v \in WorkerIds : answered'[v] = answered[v]
    BY <1>1, <2>1, HeardOther DEF HandleWorkerReadyResponse, Received
  <2>2. ASSUME NEW w \in WorkerIds, HandleReadyMessage(w)
        PROVE  \A v \in WorkerIds : answered'[v] = answered[v]
    <3> DEFINE m == [type |-> "ready"]
    <3>1. m \in ToPoolMessages /\ m.type # "response"
      BY DEF ToPoolMessages
    <3>2. toPool' = [toPool EXCEPT ![w] = Append(@, m)]
      BY <2>2 DEF HandleReadyMessage
    <3> HIDE DEF m
    <3> QED
      BY <1>1, <3>1, <3>2, PostedOther
  <2>3. CASE UNCHANGED toPool
    BY <2>3, KeptPlaces
  <2> QED
    BY <2>1, <2>2, <2>3 DEF Start, ExecuteNotStarted, channelVars
<1>4. \A v \in WorkerIds : flight'[v] = flight[v]
  BY <1>1, <1>3, KeptPlaces, FlightNow, FlightNext
<1>5. \A k \in Keys : k \in Keys' /\ Node(k)' = Node(k)
  <2>1. CASE Start
    <3>1. PICK n \in Nat : AddWorkers(n, FALSE, TRUE, {})
      BY <1>1, <2>1, StaticMissing
    <3> DEFINE isDynamic == FALSE
               isReady == TRUE
    <3>2. isDynamic \in BOOLEAN /\ isReady \in BOOLEAN
          /\ AddWorkers(n, isDynamic, isReady, {})
      BY <3>1
    <3> HIDE DEF isDynamic, isReady
    <3> QED
      BY <1>1, <3>2, AddedKeys
  <2>2. CASE UNCHANGED workerNodes
    BY <2>2 DEF Keys, Node
  <2> QED
    BY <2>1, <2>2
    DEF ExecuteNotStarted, HandleWorkerReadyResponse, HandleReadyMessage,
        nodeVars
<1> QED
  BY <1>1, <1>2, <1>4, <1>5, SameBook

\* Steps by which task t is taken over or settled, the others staying with the
\* nodes that have them.
LEMMA KeysStep ==
  ASSUME TypeOK, KeysNameHolders, NEW t \in Tasks,
         \A k \in Keys : k \in Keys' /\ Node(k)' = Node(k),
         \A o \in Tasks : o # t /\ promise'[o] = "pending" =>
           /\ promise[o] = "pending"
           /\ promiseResponseMap'[o] = promiseResponseMap[o]
           /\ \A v \in WorkerIds : o \in flight[v] \cup queued[v]
                                     => o \in flight'[v] \cup queued'[v],
         promise'[t] = "pending" =>
           /\ promiseResponseMap'[t] \in Keys'
           /\ t \in flight'[workerNodes'[promiseResponseMap'[t] + 1]]
                      \cup queued'[workerNodes'[promiseResponseMap'[t] + 1]]
  PROVE  KeysNameHolders'
<1> SUFFICES ASSUME NEW o \in Tasks, promise'[o] = "pending"
             PROVE  /\ promiseResponseMap'[o] \in Keys'
                    /\ o \in flight'[workerNodes'[promiseResponseMap'[o] + 1]]
                               \cup queued'[workerNodes'[promiseResponseMap'[o] + 1]]
  BY DEF KeysNameHolders, Node
<1>1. CASE o = t
  BY <1>1
<1>2. CASE o # t
  <2> DEFINE k == promiseResponseMap[o]
  <2>1. /\ promiseResponseMap'[o] = k /\ k \in Keys
        /\ o \in flight[Node(k)] \cup queued[Node(k)]
    BY <1>2 DEF KeysNameHolders
  <2> HIDE DEF k
  <2>2. k \in Keys' /\ workerNodes'[k + 1] = Node(k) /\ Node(k) \in WorkerIds
    BY <2>1, NodeIsListed DEF Node
  <2>3. o \in flight'[Node(k)] \cup queued'[Node(k)]
    BY <1>2, <2>1, <2>2
  <2> QED
    BY <2>1, <2>2, <2>3
<1> QED
  BY <1>1, <1>2

LEMMA ExecuteBook ==
  ASSUME IInv, IInv', PlacesInv, NothingEnds, CountersExact, KeysNameHolders,
         NEW t \in Tasks, Execute(t)
  PROVE  CountersExact' /\ KeysNameHolders'
<1>1. /\ promise[t] = "none" /\ TypeOK /\ NoRepeats
      /\ promise \in [Tasks -> {"none", "pending", "resolved", "rejected"}]
      /\ promiseResponseMap \in [Tasks -> Int]
      /\ executing \in [WorkerIds -> Nat]
      /\ UNCHANGED <<toPool, running, runs, enableTasksQueue>>
  BY DEF Execute, IInv, TypeOK, PlacesInv, settingVars
<1>2. /\ answered' = answered
      /\ \A v \in WorkerIds : /\ t \notin queued[v] /\ t \notin sent[v]
                              /\ t \notin running[v] /\ t \notin answered[v]
  BY <1>1, KeptPlaces, FreshNowhere
<1>3. \A k \in Keys : k \in Keys' /\ Node(k)' = Node(k)
  <2> DEFINE isDynamic == TRUE
             isReady == TRUE
             gone == {}
  <2>1. /\ isDynamic \in BOOLEAN /\ isReady \in BOOLEAN
        /\ \E n \in Nat : AddWorkers(n, isDynamic, isReady, gone)
    BY DEF Execute
  <2> HIDE DEF isDynamic, isReady, gone
  <2> QED
    BY <1>1, <2>1, AddedKeys
<1>4. PICK key \in Choices(Len(workerNodes')) :
        LET found == key \in 0 .. Len(workerNodes') - 1
            w == workerNodes'[key + 1]
        IN
        /\ promiseResponseMap' = [promiseResponseMap EXCEPT ![t] = key]
        /\ \/ /\ ~found
              /\ promise' = [promise EXCEPT ![t] = "rejected"]
              /\ UNCHANGED <<executing, tasksQueue, toWorker>>
           \/ /\ found /\ ShallExecuteTask(w, tasksQueue)
              /\ ExecuteTask(w, t, executing)
              /\ promise' = [promise EXCEPT
                   ![t] = IF HasChannel(w) THEN "pending" ELSE "rejected"]
              /\ UNCHANGED tasksQueue
           \/ /\ found /\ ~ShallExecuteTask(w, tasksQueue)
              /\ tasksQueue' = [tasksQueue EXCEPT ![w] = Append(@, t)]
              /\ promise' = [promise EXCEPT ![t] = "pending"]
              /\ UNCHANGED <<executing, toWorker>>
  BY DEF Execute, queueVars
<1> DEFINE w == workerNodes'[key + 1]
<1>5. key \in 0 .. Len(workerNodes') - 1 => w \in WorkerIds /\ key \in Keys'
  <2>1. workerNodes' \in Seq(WorkerIds)
    BY DEF IInv, TypeOK
  <2>2. Len(workerNodes') \in Nat
    BY <2>1, LenProperties
  <2>3. key \in 0 .. Len(workerNodes') - 1 => key + 1 \in 1 .. Len(workerNodes')
    BY <2>2
  <2> QED
    BY <2>1, <2>3, ElementOfSeq DEF Keys
<1>6. /\ promiseResponseMap'[t] = key
      /\ \A o \in Tasks : o # t =>
           promise'[o] = promise[o] /\ promiseResponseMap'[o] = promiseResponseMap[o]
  BY <1>1, <1>4
<1>7. w = workerNodes'[promiseResponseMap'[t] + 1]
  BY <1>6
<1> HIDE DEF w
<1>8. CASE /\ promise' = [promise EXCEPT ![t] = "rejected"]
           /\ UNCHANGED <<executing, tasksQueue, toWorker>>
  <2>1. \A v \in WorkerIds : flight'[v] = flight[v]
    BY <1>1, <1>2, <1>8, KeptPlaces, FlightNow, FlightNext
  <2>2. promise'[t] = "rejected"
    BY <1>1, <1>8
  <2> QED
    BY <1>1, <1>3, <1>6, <1>8, <2>1, <2>2, SameBook
<1>9. CASE /\ w \in WorkerIds /\ key \in Keys'
           /\ ShallExecuteTask(w, tasksQueue)
           /\ ExecuteTask(w, t, executing)
           /\ UNCHANGED tasksQueue
  <2>1. /\ PortOpen(w)
        /\ \A v \in WorkerIds : sent'[v] =
             IF v = w THEN sent[v] \cup {t} ELSE sent[v]
    BY <1>1, <1>2, <1>9, SentPlaces, SentType DEF ExecuteTask
  <2>2. \A v \in WorkerIds : flight'[v] =
          IF v = w THEN flight[v] \cup {t} ELSE flight[v]
    BY <1>1, <1>2, <2>1, FlightNow, FlightNext
  <2>3. /\ executing'[w] = executing[w] + 1
        /\ \A v \in WorkerIds : v # w => executing'[v] = executing[v]
    BY <1>1, <1>9 DEF ExecuteTask
  <2>4. t \notin flight[w]
    BY <1>2, <1>9, FlightNow
  <2>5. IsFiniteSet(flight[w]) /\ executing[w] = Cardinality(flight[w])
    BY <1>9 DEF CountersExact
  <2>6. /\ IsFiniteSet(flight'[w])
        /\ executing'[w] = Cardinality(flight'[w])
    <3>1. /\ IsFiniteSet(flight[w] \cup {t})
          /\ Cardinality(flight[w] \cup {t}) = Cardinality(flight[w]) + 1
      BY <2>4, <2>5, FS_AddElement
    <3>2. flight'[w] = flight[w] \cup {t}
      BY <1>9, <2>2
    <3> QED
      BY <2>3, <2>5, <3>1, <3>2
  <2>7. /\ enableTasksQueue' => executing'[w] <= Concurrency
        /\ tasksQueue'[w] = <<>> \/ executing'[w] >= Concurrency
    <3>1. executing[w] \in Nat /\ Concurrency \in Nat
      BY <1>1, <1>9, QueueAssumption
    <3>2. enableTasksQueue => executing[w] < Concurrency
      BY <1>9 DEF ShallExecuteTask
    <3>3. tasksQueue[w] = <<>> \/ executing[w] >= Concurrency
      BY <1>9 DEF CountersExact
    <3> QED
      BY <1>1, <1>9, <2>3, <3>1, <3>2, <3>3
  <2>8. CountersExact'
    BY <1>1, <1>9, <2>2, <2>3, <2>6, <2>7 DEF CountersExact
  <2>9. queued' = queued
    BY <1>9, KeptPlaces
  <2>10. t \in flight'[w]
    BY <1>9, <2>2
  <2>11. \A o \in Tasks : o # t /\ promise'[o] = "pending" =>
           /\ promise[o] = "pending"
           /\ promiseResponseMap'[o] = promiseResponseMap[o]
           /\ \A v \in WorkerIds : o \in flight[v] \cup queued[v]
                                     => o \in flight'[v] \cup queued'[v]
    BY <1>6, <2>2, <2>9
  <2>12. promise'[t] = "pending" =>
           /\ promiseResponseMap'[t] \in Keys'
           /\ t \in flight'[workerNodes'[promiseResponseMap'[t] + 1]]
                      \cup queued'[workerNodes'[promiseResponseMap'[t] + 1]]
    BY <1>6, <1>7, <1>9, <2>10
  <2> QED
    BY <1>1, <1>3, <2>8, <2>11, <2>12, KeysStep
<1>10. CASE /\ w \in WorkerIds /\ key \in Keys'
            /\ ~ShallExecuteTask(w, tasksQueue)
            /\ tasksQueue' = [tasksQueue EXCEPT ![w] = Append(@, t)]
            /\ UNCHANGED <<executing, toWorker>>
  <2>1. tasksQueue \in [WorkerIds -> Seq(Tasks)] /\ OnceInQueue(tasksQueue)
    BY <1>1 DEF TypeOK, NoRepeats
  <2>2. /\ tasksQueue'[w] = Append(tasksQueue[w], t)
        /\ \A v \in WorkerIds : v # w => tasksQueue'[v] = tasksQueue[v]
    BY <1>10, <2>1
  <2>3. \A v \in WorkerIds : queued'[v] =
          IF v = w THEN queued[v] \cup {t} ELSE queued[v]
    <3>1. queued = TasksOf(tasksQueue) /\ queued' = TasksOf(tasksQueue')
      BY DEF queued
    <3>2. t \notin TasksOf(tasksQueue)[w] /\ w \in WorkerIds
      BY <1>2, <1>10, <3>1
    <3>3. /\ \A v \in WorkerIds : TasksOf(tasksQueue')[v] =
               IF v = w THEN TasksOf(tasksQueue)[v] \cup {t}
               ELSE TasksOf(tasksQueue)[v]
          /\ OnceInQueue(tasksQueue')
      BY ONLY <2>1, <2>2, <3>2, t \in Tasks, QueuesAppended
    <3> QED
      BY <3>1, <3>3
  <2>4. \A v \in WorkerIds : flight'[v] = flight[v]
    <3>1. sent' = sent /\ answered' = answered /\ running' = running
      BY <1>1, <1>2, <1>10, KeptPlaces
    <3> QED
      BY ONLY <3>1, FlightNow, FlightNext
  <2>5. executing[w] >= Concurrency
    <3>1. executing[w] \in Nat /\ Concurrency \in Nat
      BY <1>1, <1>10, QueueAssumption
    <3> QED
      BY <1>10, <3>1 DEF ShallExecuteTask, CountersExact
  <2>6. CountersExact'
    BY <1>1, <1>10, <2>2, <2>4, <2>5 DEF CountersExact
  <2>7. t \in queued'[w]
    BY <1>10, <2>3
  <2>8. \A o \in Tasks : o # t /\ promise'[o] = "pending" =>
           /\ promise[o] = "pending"
           /\ promiseResponseMap'[o] = promiseResponseMap[o]
           /\ \A v \in WorkerIds : o \in flight[v] \cup queued[v]
                                     => o \in flight'[v] \cup queued'[v]
    BY <1>6, <2>3, <2>4
  <2>9. promise'[t] = "pending" =>
           /\ promiseResponseMap'[t] \in Keys'
           /\ t \in flight'[workerNodes'[promiseResponseMap'[t] + 1]]
                      \cup queued'[workerNodes'[promiseResponseMap'[t] + 1]]
    BY <1>6, <1>7, <1>10, <2>7
  <2> QED
    BY <1>1, <1>3, <2>6, <2>8, <2>9, KeysStep
<1> QED
  BY <1>4, <1>5, <1>8, <1>9, <1>10 DEF w

LEMMA HandleTaskExecutionResponseBook ==
  ASSUME IInv, QueuesInv, PlacesInv, NothingEnds, CountersExact, KeysNameHolders,
         NEW w \in WorkerIds, HandleTaskExecutionResponse(w)
  PROVE  CountersExact' /\ KeysNameHolders'
<1> DEFINE t == Head(toPool[w]).task
           left == Decremented(executing[w])
           u == Head(tasksQueue[w])
<1>1. /\ TypeOK /\ NoRepeats
      /\ promise \in [Tasks -> {"none", "pending", "resolved", "rejected"}]
      /\ promiseResponseMap \in [Tasks -> Int]
      /\ executing \in [WorkerIds -> Nat]
      /\ tasksQueue \in [WorkerIds -> Seq(Tasks)]
      /\ UNCHANGED <<running, enableTasksQueue, workerNodes>>
      /\ toPool[w] # <<>> /\ Head(toPool[w]).type = "response"
      /\ toPool' = [toPool EXCEPT ![w] = Tail(@)]
  BY DEF IInv, TypeOK, PlacesInv, HandleTaskExecutionResponse, Received,
         threadVars, settingVars, nodeVars
<1>2. /\ t \in Tasks /\ t \in answered[w]
      /\ \A v \in WorkerIds : answered'[v] =
           IF v = w THEN answered[v] \ {t} ELSE answered[v]
  BY <1>1, HeardPlaces
<1>3. promise[t] = "pending"
  BY <1>2 DEF PlacesInv, PlaceTellsState
<1>4. promiseResponseMap[t] \in Keys /\ Node(promiseResponseMap[t]) = w
  <2> DEFINE k == promiseResponseMap[t]
  <2>1. k \in Keys /\ t \in flight[Node(k)] \cup queued[Node(k)]
    BY <1>2, <1>3 DEF KeysNameHolders
  <2>2. Node(k) \in WorkerIds
    BY <1>1, <2>1, NodeIsListed
  <2> HIDE DEF k, t
  <2>3. t \in sent[Node(k)] \cup running[Node(k)] \cup answered[Node(k)] \cup queued[Node(k)]
    BY <2>1, <2>2, FlightNow
  <2>4. Node(k) = w
    BY <1>2, <2>2, <2>3 DEF PlacesInv, OnePlace
  <2> QED
    BY <2>1, <2>4 DEF k
<1>5. /\ promiseResponseMap' = [promiseResponseMap EXCEPT ![t] = NoEntry]
      /\ promise' = [promise EXCEPT
           ![t] = IF Head(toPool[w]).ok THEN "resolved" ELSE "rejected"]
      /\ IF enableTasksQueue /\ tasksQueue[w] # <<>> /\ left < Concurrency
         THEN /\ ExecuteTask(w, u, [executing EXCEPT ![w] = left])
              /\ tasksQueue' = Dequeued(w)
         ELSE /\ executing' = [executing EXCEPT ![w] = left]
              /\ UNCHANGED <<tasksQueue, toWorker>>
  <2>1. promiseResponseMap[t] # NoEntry
    <3>1. \A k \in Keys : k # NoEntry
      BY DEF Keys, NoEntry
    <3> QED
      BY <1>4, <3>1
  <2> QED
    BY <1>2, <1>3, <1>4, <2>1 DEF HandleTaskExecutionResponse
<1> HIDE DEF t
<1>6. /\ promise'[t] # "pending"
      /\ \A o \in Tasks : o # t =>
           promise'[o] = promise[o] /\ promiseResponseMap'[o] = promiseResponseMap[o]
  BY <1>1, <1>2, <1>5
<1>7. \A k \in Keys : k \in Keys' /\ Node(k)' = Node(k)
  BY <1>1 DEF Keys, Node
<1>8. /\ IsFiniteSet(flight[w]) /\ executing[w] = Cardinality(flight[w])
      /\ t \in flight[w]
      /\ enableTasksQueue => executing[w] <= Concurrency
      /\ tasksQueue[w] # <<>> => executing[w] >= Concurrency
  BY <1>2, FlightNow DEF CountersExact
<1>9. /\ executing[w] \in Nat /\ executing[w] > 0 /\ left = executing[w] - 1
      /\ IsFiniteSet(flight[w] \ {t}) /\ Cardinality(flight[w] \ {t}) = left
  <2>1. /\ IsFiniteSet(flight[w] \ {t})
        /\ Cardinality(flight[w] \ {t}) = Cardinality(flight[w]) - 1
    BY <1>8, FS_RemoveElement
  <2>2. Cardinality(flight[w] \ {t}) \in Nat /\ executing[w] \in Nat
    BY <1>1, <2>1, FS_CardinalityType
  <2> QED
    BY <1>8, <2>1, <2>2 DEF Decremented
<1> HIDE DEF left
<1>10. Concurrency \in Nat
  BY QueueAssumption
<1>11. tasksQueue[w] # <<>> => enableTasksQueue
  <2>1. toPool[w] # <<>> => w \in Listed
    BY DEF IInv, NodesInv, ListedUntilExit, ChannelsOpen
  <2> QED
    BY <1>1, <2>1 DEF QueuesInv, NoQueueWhenDisabled
<1>12. \A v \in WorkerIds :
         /\ t \notin queued[v] /\ t \notin sent[v] /\ t \notin running[v]
         /\ t \in answered[v] => v = w
  BY <1>2 DEF PlacesInv, OnePlace
<1>13. CASE ~(enableTasksQueue /\ tasksQueue[w] # <<>> /\ left < Concurrency)
  <2>1. /\ executing' = [executing EXCEPT ![w] = left]
        /\ UNCHANGED <<tasksQueue, toWorker>>
    BY <1>5, <1>13
  <2>2. queued' = queued /\ sent' = sent
    BY <2>1, KeptPlaces
  <2>3. \A v \in WorkerIds : flight'[v] = IF v = w THEN flight[v] \ {t} ELSE flight[v]
    <3> SUFFICES ASSUME NEW v \in WorkerIds
                 PROVE  flight'[v] = IF v = w THEN flight[v] \ {t} ELSE flight[v]
      OBVIOUS
    <3>1. /\ flight[v] = sent[v] \cup running[v] \cup answered[v]
          /\ flight'[v] = sent[v] \cup running[v] \cup answered'[v]
      BY <1>1, <2>2, FlightNow, FlightNext
    <3>2. CASE v = w
      <4>1. /\ answered'[v] = answered[v] \ {t}
            /\ t \notin sent[v] /\ t \notin running[v]
        BY <1>2, <1>12, <3>2
      <4> QED
        BY <3>1, <3>2, <4>1
    <3> QED
      BY <1>2, <3>1, <3>2
  <2>4. tasksQueue[w] = <<>>
    BY <1>8, <1>9, <1>10, <1>11, <1>13
  <2>5. /\ executing'[w] = left
        /\ \A v \in WorkerIds : v # w => executing'[v] = executing[v]
    BY <1>1, <2>1
  <2>6. enableTasksQueue => left <= Concurrency
    BY <1>8, <1>9, <1>10
  <2>7. CountersExact'
    <3>1. flight'[w] = flight[w] \ {t}
      BY <2>3
    <3>2. /\ IsFiniteSet(flight'[w]) /\ executing'[w] = Cardinality(flight'[w])
          /\ enableTasksQueue' => executing'[w] <= Concurrency
          /\ tasksQueue'[w] = <<>>
      BY <1>1, <1>9, <2>1, <2>4, <2>5, <2>6, <3>1
    <3>3. \A v \in WorkerIds : v # w => flight'[v] = flight[v]
      BY <2>3
    <3> QED
      BY <1>1, <2>1, <2>5, <3>2, <3>3 DEF CountersExact
  <2>8. \A o \in Tasks : o # t /\ promise'[o] = "pending" =>
          /\ promise[o] = "pending"
          /\ promiseResponseMap'[o] = promiseResponseMap[o]
          /\ \A v \in WorkerIds : o \in flight[v] \cup queued[v]
                                    => o \in flight'[v] \cup queued'[v]
    BY <1>6, <2>2, <2>3
  <2> QED
    BY <1>1, <1>2, <1>6, <1>7, <2>7, <2>8, KeysStep
<1>14. CASE enableTasksQueue /\ tasksQueue[w] # <<>> /\ left < Concurrency
  <2>1. /\ ExecuteTask(w, u, [executing EXCEPT ![w] = left])
        /\ tasksQueue' = Dequeued(w)
    BY <1>5, <1>14
  <2>2. tasksQueue \in [WorkerIds -> Seq(Tasks)] /\ OnceInQueue(tasksQueue)
    BY <1>1 DEF NoRepeats
  <2>3. /\ tasksQueue'[w] = Tail(tasksQueue[w])
        /\ \A v \in WorkerIds : v # w => tasksQueue'[v] = tasksQueue[v]
    BY <2>1, <2>2 DEF Dequeued
  <2>4. /\ u \in Tasks /\ u \in queued[w]
        /\ \A v \in WorkerIds : queued'[v] =
             IF v = w THEN queued[v] \ {u} ELSE queued[v]
    <3>1. queued = TasksOf(tasksQueue) /\ queued' = TasksOf(tasksQueue')
      BY DEF queued
    <3>2. tasksQueue[w] # <<>>
      BY <1>14
    <3>3. /\ u \in Tasks /\ u \in TasksOf(tasksQueue)[w]
          /\ \A v \in WorkerIds : TasksOf(tasksQueue')[v] =
               IF v = w THEN TasksOf(tasksQueue)[v] \ {u}
               ELSE TasksOf(tasksQueue)[v]
          /\ OnceInQueue(tasksQueue')
      BY ONLY <2>2, <2>3, <3>2, w \in WorkerIds, QueuesTaken DEF u
    <3> QED
      BY <3>1, <3>3
  <2> HIDE DEF u
  <2>5. \A v \in WorkerIds :
          u \notin sent[v] /\ u \notin running[v] /\ u \notin answered[v]
    BY <2>4 DEF PlacesInv, OnePlace
  <2>6. \A v \in WorkerIds : sent'[v] = IF v = w THEN sent[v] \cup {u} ELSE sent[v]
    BY <1>1, <2>1, <2>4, <2>5, SentPlaces, SentType DEF ExecuteTask
  <2>7. \A v \in WorkerIds : flight'[v] =
          IF v = w THEN (flight[v] \ {t}) \cup {u} ELSE flight[v]
    <3> SUFFICES ASSUME NEW v \in WorkerIds
                 PROVE  flight'[v] = IF v = w THEN (flight[v] \ {t}) \cup {u}
                                     ELSE flight[v]
      OBVIOUS
    <3>1. /\ flight[v] = sent[v] \cup running[v] \cup answered[v]
          /\ flight'[v] = sent'[v] \cup running[v] \cup answered'[v]
      BY <1>1, FlightNow, FlightNext
    <3>2. CASE v = w
      <4>1. /\ sent'[v] = sent[v] \cup {u} /\ answered'[v] = answered[v] \ {t}
            /\ t \notin sent[v] /\ t \notin running[v]
        BY <1>2, <1>12, <2>6, <3>2
      <4> QED
        BY <3>1, <3>2, <4>1
    <3> QED
      BY <1>2, <2>6, <3>1, <3>2
  <2>8. /\ executing'[w] = left + 1
        /\ \A v \in WorkerIds : v # w => executing'[v] = executing[v]
    BY <1>1, <2>1 DEF ExecuteTask
  <2>9. u \notin flight[w] \ {t}
    BY <2>5, FlightNow
  <2>10. /\ IsFiniteSet((flight[w] \ {t}) \cup {u})
         /\ Cardinality((flight[w] \ {t}) \cup {u}) = left + 1
    BY <1>9, <2>9, FS_AddElement
  <2>11. CountersExact'
    <3>1. flight'[w] = (flight[w] \ {t}) \cup {u}
      BY <2>7
    <3>2. /\ IsFiniteSet(flight'[w]) /\ executing'[w] = Cardinality(flight'[w])
          /\ executing'[w] = executing[w]
      BY <1>9, <2>8, <2>10, <3>1
    <3>3. \A v \in WorkerIds : v # w => flight'[v] = flight[v]
      BY <2>7
    <3>4. executing'[w] <= Concurrency /\ executing'[w] >= Concurrency
      BY <1>8, <1>14, <3>2
    <3> QED
      BY <2>3, <2>8, <3>2, <3>3, <3>4, <1>1 DEF CountersExact
  <2>12. \A o \in Tasks : o # t /\ promise'[o] = "pending" =>
           /\ promise[o] = "pending"
           /\ promiseResponseMap'[o] = promiseResponseMap[o]
           /\ \A v \in WorkerIds : o \in flight[v] \cup queued[v]
                                     => o \in flight'[v] \cup queued'[v]
    BY <1>6, <2>4, <2>7
  <2> QED
    BY <1>1, <1>2, <1>6, <1>7, <2>11, <2>12, KeysStep
<1> QED
  BY <1>13, <1>14

\* What disturbs the pool is never undone.
LEMMA StillUndisturbed ==
  ASSUME TypeOK, Undisturbed', Next
  PROVE  Undisturbed
<1>1. /\ starts \in Nat /\ errors \in Nat /\ killRequests \in Nat
      /\ changes \in Nat
  BY DEF TypeOK
<1>2. errors' = 0 /\ killRequests' = 0 /\ changes' = 0 /\ destroy' = "none"
  BY DEF Undisturbed
<1>3. CASE Caller
  <2>1. CASE Start
    BY <1>2, <2>1 DEF Start, settingVars, destroyVars, Undisturbed
  <2>2. CASE SetWorkerChoiceStrategy
    <3>1. changes' = changes + 1
      BY <2>2 DEF SetWorkerChoiceStrategy
    <3> QED
      BY <1>1, <1>2, <3>1
  <2>3. ASSUME NEW t \in Tasks, ExecuteNotStarted(t) \/ Execute(t)
        PROVE  Undisturbed
    BY <1>2, <2>3
    DEF ExecuteNotStarted, Execute, boundVars, settingVars, destroyVars,
        Undisturbed
  <2>4. ASSUME NEW enable \in BOOLEAN, SetEnableTasksQueue(enable)
        PROVE  Undisturbed
    BY <1>1, <1>2, <2>4
    DEF SetEnableTasksQueue, boundVars, destroyVars, Undisturbed
  <2>5. CASE Destroy
    BY <1>2, <2>5 DEF Destroy
  <2> QED
    BY <1>3, <2>1, <2>2, <2>3, <2>4, <2>5 DEF Caller
<1>4. CASE RedistributeQueuedTask
  BY <1>2, <1>4
  DEF RedistributeQueuedTask, boundVars, settingVars, destroyVars, Undisturbed
<1>5. ASSUME NEW w \in WorkerIds,
             Listener(w) \/ WorkerEvent(w) \/ Thread(w) \/ Environment(w)
      PROVE  Undisturbed
  <2>1. CASE HandleWorkerReadyResponse(w) \/ HandleTaskExecutionResponse(w)
             \/ HandleKillRequest(w) \/ HandleKillSuccess(w)
    BY <1>2, <2>1
    DEF HandleWorkerReadyResponse, HandleTaskExecutionResponse,
        HandleKillRequest, HandleKillSuccess, boundVars, settingVars,
        destroyVars, Undisturbed
  <2>2. CASE HandleKillFailure(w)
    BY <1>2, <2>2 DEF HandleKillFailure, boundVars, settingVars, Undisturbed
  <2>3. CASE HandleWorkerError(w) \/ HandleWorkerExit(w)
    BY <1>2, <2>3
    DEF HandleWorkerError, HandleWorkerExit, boundVars, settingVars,
        destroyVars, Undisturbed
  <2>4. CASE Thread(w)
    BY <1>2, <2>4
    DEF Thread, HandleReadyMessage, RunTask, AnswerTask, HandleKillMessage,
        boundVars, settingVars, destroyVars, Undisturbed
  <2>5. CASE Environment(w)
    BY <1>1, <1>2, <2>5
    DEF Environment, RequestKill, UncaughtError, settingVars, destroyVars,
        Undisturbed
  <2> QED
    BY <1>5, <2>1, <2>2, <2>3, <2>4, <2>5 DEF Listener, WorkerEvent
<1> QED
  BY <1>3, <1>4, <1>5 DEF Next

LEMMA BookStep ==
  ASSUME IInv, IInv', QueuesInv, PlacesInv, BookInv, Next
  PROVE  BookInv'
<1> SUFFICES ASSUME Undisturbed'
             PROVE  NothingEnds' /\ CountersExact' /\ KeysNameHolders'
  BY DEF BookInv
<1>1. NothingEnds /\ CountersExact /\ KeysNameHolders
  <2>1. Undisturbed
    BY StillUndisturbed DEF IInv
  <2> QED
    BY <2>1 DEF BookInv
<1>2. UndisturbedNext
  BY <1>1, UndisturbedSteps DEF IInv
<1>3. NothingEnds'
  BY <1>1, <1>2, NothingEndsStep
<1>4. CountersExact' /\ KeysNameHolders'
  BY <1>1, <1>2, QuietBook, ExecuteBook, HandleTaskExecutionResponseBook,
     RunTaskBook, AnswerTaskBook
  DEF UndisturbedNext
<1> QED
  BY <1>3, <1>4

LEMMA BookInit == Init => BookInv
<1> SUFFICES ASSUME Init PROVE NothingEnds /\ CountersExact /\ KeysNameHolders
  BY DEF BookInv
<1>1. \A w \in WorkerIds :
        /\ tasksQueue[w] = <<>> /\ toWorker[w] = <<>> /\ toPool[w] = <<>>
        /\ running[w] = {} /\ executing[w] = 0 /\ thread[w] = "none"
  BY DEF Init
<1>2. NothingEnds
  BY <1>1, EmptySeq DEF Init, NothingEnds, OfTypes
<1>3. \A w \in WorkerIds : flight[w] = {}
  BY <1>1, PlacesNow, FlightNow, MessagesEmpty
<1>4. CountersExact
  <2>1. IsFiniteSet({}) /\ Cardinality({}) = 0
    BY FS_EmptySet
  <2>2. 0 <= Concurrency
    BY QueueAssumption
  <2>3. \A w \in WorkerIds :
          /\ IsFiniteSet(flight[w]) /\ executing[w] = Cardinality(flight[w])
          /\ executing[w] <= Concurrency /\ tasksQueue[w] = <<>>
    BY <1>1, <1>3, <2>1, <2>2
  <2> QED
    BY <2>3 DEF CountersExact
<1>5. KeysNameHolders
  BY DEF Init, KeysNameHolders
<1> QED
  BY <1>2, <1>4, <1>5

\* Until something disturbs the pool, what it books of its tasks is true.
THEOREM BookInvAlways == Spec => []BookInv
<1>1. IInv /\ IInv' /\ QueuesInv /\ PlacesInv /\ BookInv /\ [Next]_vars => BookInv'
  <2>1. CASE UNCHANGED vars
    BY <2>1
    DEF vars, poolVars, settingVars, destroyVars, nodeVars, queueVars, taskVars,
        channelVars, threadVars, boundVars, BookInv, Undisturbed, NothingEnds,
        OfTypes, CountersExact, KeysNameHolders, Keys, Node, flight, queued,
        sent, answered
  <2> QED
    BY <2>1, BookStep
<1> QED
  BY <1>1, BookInit, IInvAlways, QueuesInvAlways, PlacesInvAlways, PTL DEF Spec

-----------------------------------------------------------------------------
(* The theorems.                                                           *)

LEMMA InFlightPlaces ==
  ASSUME TypeOK, NEW w \in WorkerIds
  PROVE  InFlight(w) = flight[w] /\ Queued(w) = queued[w]
<1>1. \A i \in DOMAIN toWorker[w] : toWorker[w][i] \in ToWorkerMessages
  BY LenProperties, ElementOfSeq DEF TypeOK
<1>2. \A i \in DOMAIN toPool[w] : toPool[w][i] \in ToPoolMessages
  BY LenProperties, ElementOfSeq DEF TypeOK
<1>3. ASSUME NEW m \in ToWorkerMessages, NEW t \in Tasks
      PROVE  m = TaskMessage(t) <=> AboutTask(m) /\ m.task = t
  BY DEF ToWorkerMessages, TaskMessage, AboutTask
<1>4. ASSUME NEW m \in ToPoolMessages
      PROVE  m.type = "response" <=> AboutTask(m)
  BY MessageTypes
<1>5. ASSUME NEW t \in Tasks
      PROVE  /\ t \in sent[w] <=>
                  \E i \in DOMAIN toWorker[w] : toWorker[w][i] = TaskMessage(t)
             /\ t \in answered[w] <=>
                  \E i \in DOMAIN toPool[w] : /\ toPool[w][i].type = "response"
                                              /\ toPool[w][i].task = t
  <2>1. t \in sent[w] <=> \E i \in DOMAIN toWorker[w] :
                            AboutTask(toWorker[w][i]) /\ toWorker[w][i].task = t
    BY PlacesNow DEF TasksIn
  <2>2. t \in answered[w] <=> \E i \in DOMAIN toPool[w] :
                                AboutTask(toPool[w][i]) /\ toPool[w][i].task = t
    BY PlacesNow DEF TasksIn
  <2> QED
    BY <1>1, <1>2, <1>3, <1>4, <2>1, <2>2
<1>6. sent[w] \subseteq Tasks /\ answered[w] \subseteq Tasks /\ running[w] \subseteq Tasks
  BY PlacesNow DEF TasksIn, TypeOK
<1>7. flight[w] = sent[w] \cup running[w] \cup answered[w]
  BY FlightNow
<1>8. \A t \in Tasks : t \in InFlight(w) <=> t \in flight[w]
  BY <1>5, <1>7 DEF InFlight
<1>9. InFlight(w) = flight[w]
  <2>1. InFlight(w) \subseteq Tasks /\ flight[w] \subseteq Tasks
    BY <1>6, <1>7 DEF InFlight
  <2> QED
    BY <1>8, <2>1
<1> QED
  BY <1>9, PlacesNow DEF Queued, Items

LEMMA BookTold ==
  ASSUME IInv, BookInv
  PROVE  KeyNamesHolder /\ ExecutingCountsInFlight /\ QueuedOnlyWhenBusy
<1>1. TypeOK
  BY DEF IInv
<1>2. KeyNamesHolder
  <2> SUFFICES ASSUME Undisturbed, NEW t \in Tasks, promise[t] = "pending"
               PROVE  /\ promiseResponseMap[t] \in Keys
                      /\ t \in InFlight(Node(promiseResponseMap[t]))
                                 \cup Queued(Node(promiseResponseMap[t]))
    BY DEF KeyNamesHolder
  <2> DEFINE k == promiseResponseMap[t]
  <2>1. k \in Keys /\ t \in flight[Node(k)] \cup queued[Node(k)]
    BY DEF BookInv, KeysNameHolders
  <2>2. Node(k) \in WorkerIds
    BY <1>1, <2>1, NodeIsListed
  <2> QED
    BY <1>1, <2>1, <2>2, InFlightPlaces
<1>3. \A w \in Listed : w \in WorkerIds /\ InFlight(w) = flight[w]
  BY <1>1, ListedWorkers, InFlightPlaces
<1>4. ExecutingCountsInFlight /\ QueuedOnlyWhenBusy
  BY <1>3
  DEF BookInv, CountersExact, ExecutingCountsInFlight, QueuedOnlyWhenBusy
<1> QED
  BY <1>2, <1>4

\* As long as nothing but execute() and the work itself has happened, the key
\* that execute() keeps in promiseResponseMap is the key of the node that has
\* the task, however many nodes have been added meanwhile: the response is
\* booked on the worker that sent it.
THEOREM KeyAlwaysNamesHolder == Spec => []KeyNamesHolder
<1>1. IInv /\ BookInv => KeyNamesHolder
  BY BookTold
<1> QED
  BY <1>1, IInvAlways, BookInvAlways, PTL

\* As long as that is so, usage.tasks.executing is the number of the tasks
\* that the worker has been sent and not been heard to have answered, and it
\* never passes the concurrency while tasks are queued.
THEOREM ExecutingAlwaysCountsInFlight == Spec => []ExecutingCountsInFlight
<1>1. IInv /\ BookInv => ExecutingCountsInFlight
  BY BookTold
<1> QED
  BY <1>1, IInvAlways, BookInvAlways, PTL

\* ... and no task waits in the queue of a node that has room for it.
THEOREM AlwaysQueuedOnlyWhenBusy == Spec => []QueuedOnlyWhenBusy
<1>1. IInv /\ BookInv => QueuedOnlyWhenBusy
  BY BookTold
<1> QED
  BY <1>1, IInvAlways, BookInvAlways, PTL

-----------------------------------------------------------------------------
(* The size of the pool: the inductive invariant.                          *)

\* A fixed pool has no dynamic node.
FixedHasNoDynamic ==
  PoolType = "fixed" => \A w \in WorkerIds : ~dynamic[w]

\* The pool stops being started only in the end of destroy(): one that is not
\* started and not destroyed has no nodes, nor has one that never was started.
NoNodesBeforeStart ==
  /\ starts = 0 => ~started
  /\ ~started /\ (destroy = "none" \/ starts = 0) => created = 0

\* A worker that no kill message has reached, and none is on its way.
TasksOnly(messages) == OfTypes(messages, {"task"})
NoneOfKills(messages) == OfTypes(messages, {"ready", "response"})
Dying == {"closed", "terminating"}
Spared(w) ==
  /\ thread[w] \notin Dying
  /\ TasksOnly(toWorker[w])
  /\ NoneOfKills(toPool[w])

\* Until destroy() is called only dynamic workers are killed.
StaticSpared ==
  destroy = "none" =>
    \A w \in WorkerIds : thread[w] = "none" \/ ~dynamic[w] => Spared(w)

SizeInv ==
  /\ FixedHasNoDynamic
  /\ NoNodesBeforeStart
  /\ StaticSpared
  /\ InServiceWithinMax
  /\ StaticNodesKept

-----------------------------------------------------------------------------
(* The sets of nodes in service, as the states of their threads.           *)

\* The static nodes among those in service.
static == {w \in InService : ~dynamic[w]}

OutOfService == {"none", "errored", "exited"}

LEMMA ServiceThreads ==
  ASSUME IInv, IInv'
  PROVE  /\ InService \subseteq WorkerIds /\ InService' \subseteq WorkerIds
         /\ \A w \in WorkerIds :
              /\ w \in InService <=> thread[w] \notin OutOfService
              /\ w \in InService' <=> thread'[w] \notin OutOfService
<1>1. Listed \subseteq WorkerIds
  BY ListedWorkers DEF IInv
<1>2. Listed' \subseteq WorkerIds
  BY LenProperties, ElementOfSeq DEF IInv, TypeOK, Listed
<1>3. \A w \in WorkerIds :
        /\ w \in Listed <=> thread[w] \notin {"none", "exited"}
        /\ w \in Listed' <=> thread'[w] \notin {"none", "exited"}
  BY DEF IInv, NodesInv, ListedUntilExit
<1> QED
  BY <1>1, <1>2, <1>3 DEF InService, OutOfService

LEMMA FiniteService ==
  ASSUME TypeOK
  PROVE  /\ IsFiniteSet(Listed) /\ IsFiniteSet(InService) /\ IsFiniteSet(static)
         /\ Cardinality(Listed) \in Nat /\ Cardinality(InService) \in Nat
         /\ Cardinality(static) \in Nat
         /\ Cardinality(InService) <= Cardinality(Listed)
<1>1. IsFiniteSet(WorkerIds)
  BY WorkersAssumption, FS_Interval DEF WorkerIds
<1>2. Listed \subseteq WorkerIds
  BY ListedWorkers
<1>3. IsFiniteSet(Listed)
  BY <1>1, <1>2, FS_Subset
<1>4. InService \subseteq Listed /\ static \subseteq Listed
  BY DEF InService, static
<1>5. /\ IsFiniteSet(InService) /\ IsFiniteSet(static)
      /\ Cardinality(InService) <= Cardinality(Listed)
  BY <1>3, <1>4, FS_Subset
<1> QED
  BY <1>3, <1>5, FS_CardinalityType

\* The array is at least as long as the set of its elements is large.
LEMMA ListedSize ==
  ASSUME TypeOK
  PROVE  Cardinality(Listed) <= Len(workerNodes)
<1> DEFINE n == Len(workerNodes)
           f == [i \in 1 .. n |-> workerNodes[i]]
<1>1. n \in Nat /\ DOMAIN workerNodes = 1 .. n
  BY LenProperties DEF TypeOK
<1>2. f \in [1 .. n -> Listed]
  BY <1>1 DEF Listed
<1>3. \A w \in Listed : \E i \in 1 .. n : f[i] = w
  BY <1>1 DEF Listed
<1> HIDE DEF f, n
<1>4. f \in Surjection(1 .. n, Listed)
  BY <1>2, <1>3 DEF Surjection
<1>5. ExistsSurjection(1 .. n, Listed)
  BY <1>4 DEF ExistsSurjection
<1>6. Cardinality(Listed) <= n
  BY <1>1, <1>5, FS_SurjCardinalityBound
<1> QED
  BY <1>6 DEF n

\* Steps that take no node into service, and none out of it.
LEMMA SameService ==
  ASSUME IInv, IInv', UNCHANGED dynamic,
         \A w \in WorkerIds :
           thread'[w] \in OutOfService <=> thread[w] \in OutOfService
  PROVE  InService' = InService /\ static' = static
<1>1. InService' = InService
  BY ServiceThreads
<1> QED
  BY <1>1 DEF static

\* Nodes are added, and those of failed workers taken out of service.
LEMMA AddedService ==
  ASSUME IInv, IInv', NEW n \in Nat, NEW isDynamic \in BOOLEAN, NEW isReady,
         NEW gone, AddWorkers(n, isDynamic, isReady, gone),
         \A w \in gone : w \in WorkerIds /\ thread[w] = "failed"
  PROVE  LET new == created + 1 .. created + n IN
         /\ InService' = (InService \ gone) \cup new
         /\ static' = (static \ gone) \cup (IF isDynamic THEN {} ELSE new)
         /\ IsFiniteSet(new) /\ Cardinality(new) = n
         /\ \A w \in new : w \notin InService /\ w \notin static
<1> DEFINE new == created + 1 .. created + n
<1>1. created \in Nat /\ created + n <= Workers /\ Workers \in Nat
  BY WorkersAssumption DEF IInv, TypeOK, AddWorkers
<1>2. new \subseteq WorkerIds
  BY <1>1 DEF WorkerIds
<1>3. \A w \in new : thread[w] = "none"
  BY <1>1, <1>2 DEF IInv, NodesInv, IdsInOrder
<1>4. IsFiniteSet(new) /\ Cardinality(new) = n
  <2> DEFINE a == created + 1
             b == created + n
  <2>1. a \in Int /\ b \in Int /\ (IF a > b THEN 0 ELSE b - a + 1) = n
    BY <1>1
  <2>2. IsFiniteSet(a .. b) /\ Cardinality(a .. b) = IF a > b THEN 0 ELSE b - a + 1
    BY ONLY <2>1, FS_Interval
  <2> QED
    BY <2>1, <2>2
<1>5. \A w \in WorkerIds :
        /\ thread'[w] = IF w \in new THEN "starting"
                        ELSE IF w \in gone THEN "errored" ELSE thread[w]
        /\ dynamic'[w] = IF w \in new THEN isDynamic ELSE dynamic[w]
  BY DEF AddWorkers
<1> HIDE DEF new
<1>6. InService' = (InService \ gone) \cup new
  BY <1>2, <1>3, <1>5, ServiceThreads DEF OutOfService
<1>7. \A w \in new : w \notin InService /\ w \notin static /\ w \notin gone
  BY <1>2, <1>3, ServiceThreads DEF static, OutOfService
<1>8. static' = (static \ gone) \cup (IF isDynamic THEN {} ELSE new)
  <2>1. InService \subseteq WorkerIds /\ static' = {w \in InService' : ~dynamic'[w]}
    BY ServiceThreads DEF static
  <2>2. \A w \in (InService \ gone) \cup new :
          dynamic'[w] = IF w \in new THEN isDynamic ELSE dynamic[w]
    BY <1>2, <1>5, <2>1
  <2> QED
    BY <1>6, <1>7, <2>1, <2>2 DEF static
<1> QED
  BY <1>4, <1>6, <1>7, <1>8 DEF new

-----------------------------------------------------------------------------
(* No more than MaxSize in service, and every static node kept.            *)

\* start() on a pool without nodes creates the static ones; on a fixed pool
\* it makes up for those that are gone.
LEMMA StartSize ==
  ASSUME IInv, IInv', FixedHasNoDynamic, NoNodesBeforeStart,
         InServiceWithinMax, Start
  PROVE  InServiceWithinMax' /\ StaticNodesKept'
<1> DEFINE listed == {w \in Listed : ~dynamic[w]}
           n == IF Cardinality(listed) < MinSize
                THEN MinSize - Cardinality(listed) ELSE 0
           new == created + 1 .. created + n
           gone == {}
<1>1. AddWorkers(n, FALSE, TRUE, gone)
  BY DEF Start
<1>2. TypeOK /\ Listed \subseteq WorkerIds
  BY ListedWorkers DEF IInv
<1>3. /\ MinSize \in Nat /\ MaxSize \in Nat /\ MinSize <= MaxSize
      /\ PoolType = "fixed" => MaxSize = MinSize
  BY SizeAssumption
<1>4. Cardinality(listed) \in Nat
  <2>1. IsFiniteSet(Listed) /\ listed \subseteq Listed
    BY <1>2, FiniteService
  <2> QED
    BY <2>1, FS_Subset, FS_CardinalityType
<1>5. n \in Nat
  BY <1>3, <1>4
<1> HIDE DEF n
<1>6. /\ InService' = InService \cup new
      /\ static' = static \cup new
      /\ IsFiniteSet(new) /\ Cardinality(new) = n
      /\ \A w \in new : w \notin InService
  <2>1. \A w \in gone : w \in WorkerIds /\ thread[w] = "failed"
    OBVIOUS
  <2> HIDE DEF gone
  <2>2. /\ InService' = (InService \ gone) \cup new
        /\ static' = (static \ gone) \cup (IF FALSE THEN {} ELSE new)
        /\ IsFiniteSet(new) /\ Cardinality(new) = n
        /\ \A w \in new : w \notin InService /\ w \notin static
    BY <1>1, <1>5, <2>1, AddedService
  <2> QED
    BY <2>2 DEF gone
<1> HIDE DEF new, gone
<1>7. ASSUME created = 0
      PROVE  InService' = new /\ static' = new /\ n = MinSize
  <2>1. Listed = {}
    BY <1>2, <1>7 DEF IInv, NodesInv, IdsInOrder, ListedUntilExit, WorkerIds
  <2>2. listed = {} /\ InService = {} /\ static = {}
    BY <2>1 DEF InService, static
  <2>3. Cardinality(listed) = 0
    BY <2>2, FS_EmptySet
  <2> HIDE DEF listed
  <2> QED
    BY <1>3, <1>6, <2>2, <2>3 DEF n
<1> HIDE DEF listed
<1>8. InServiceWithinMax'
  <2> SUFFICES ASSUME PoolType = "fixed" \/ MaxStarts <= 1
               PROVE  Cardinality(InService') <= MaxSize
    BY DEF InServiceWithinMax
  <2>1. CASE created = 0
    BY <1>3, <1>6, <1>7, <2>1
  <2>2. CASE created # 0
    <3>1. PoolType = "fixed"
      <4>1. starts # 0
        BY <2>2 DEF Start, NoNodesBeforeStart
      <4> QED
        BY <4>1, BoundAssumption DEF Start, IInv, TypeOK
    <3>2. listed = Listed
      BY <1>2, <3>1 DEF FixedHasNoDynamic, listed
    <3>3. /\ Cardinality(InService') = Cardinality(InService) + n
          /\ Cardinality(InService) \in Nat
          /\ Cardinality(InService) <= Cardinality(Listed)
      <4>1. InService \cap new = {}
        BY <1>6
      <4>2. /\ IsFiniteSet(InService) /\ Cardinality(InService) \in Nat
            /\ Cardinality(InService) <= Cardinality(Listed)
        BY <1>2, FiniteService
      <4>3. Cardinality(InService \cup new) =
              Cardinality(InService) + Cardinality(new)
                - Cardinality(InService \cap new)
        BY <1>6, <4>2, FS_Union
      <4>4. Cardinality(InService \cap new) = 0
        BY <4>1, FS_EmptySet
      <4> QED
        BY <1>5, <1>6, <4>2, <4>3, <4>4
    <3>4. CASE Cardinality(Listed) < MinSize
      <4>1. n = MinSize - Cardinality(Listed)
        BY <3>2, <3>4 DEF n
      <4>2. Cardinality(InService') <= MinSize
        <5>1. Cardinality(Listed) \in Nat
          BY <1>2, FiniteService
        <5> QED
          BY <1>3, <3>3, <4>1, <5>1
      <4> QED
        BY <1>3, <3>1, <4>2
    <3>5. CASE ~(Cardinality(Listed) < MinSize)
      <4>1. n = 0
        BY <3>2, <3>5 DEF n
      <4>2. new = {}
        BY <1>6, <4>1, FS_EmptySet
      <4>3. Cardinality(InService) <= MaxSize
        BY <3>1 DEF InServiceWithinMax
      <4> QED
        BY <1>6, <4>2, <4>3
    <3> QED
      BY <3>4, <3>5
  <2> QED
    BY <2>1, <2>2
<1>9. StaticNodesKept'
  <2> SUFFICES ASSUME destroy' = "none"
               PROVE  Cardinality(static') = MinSize
    BY DEF StaticNodesKept, static
  <2>1. created = 0
    BY DEF Start, NoNodesBeforeStart, destroyVars
  <2> QED
    BY <1>6, <1>7, <2>1
<1> QED
  BY <1>8, <1>9

\* execute() creates a dynamic node only when fewer than MaxSize are listed.
LEMMA ExecuteSize ==
  ASSUME IInv, IInv', InServiceWithinMax, StaticNodesKept, ~crashed,
         NEW t \in Tasks, Execute(t)
  PROVE  InServiceWithinMax' /\ StaticNodesKept'
<1> DEFINE n == IF PoolType = "dynamic" /\ ~Full /\ InternalBusy THEN 1 ELSE 0
           new == created + 1 .. created + n
           gone == {}
<1>1. AddWorkers(n, TRUE, TRUE, gone) /\ UNCHANGED <<started, crashed, destroy>>
  BY DEF Execute, destroyVars
<1>2. n \in Nat /\ TypeOK
  BY DEF IInv
<1>3. n = 1 => n <= 1 /\ Len(workerNodes) < MaxSize
  <2>1. Len(workerNodes) \in Nat /\ MaxSize \in Nat
    BY <1>2, LenProperties, SizeAssumption DEF TypeOK
  <2> QED
    BY <2>1 DEF Full
<1>4. n = 0 \/ n = 1
  OBVIOUS
<1> HIDE DEF n
<1>5. /\ InService' = InService \cup new
      /\ static' = static
      /\ IsFiniteSet(new) /\ Cardinality(new) = n
      /\ \A w \in new : w \notin InService
  <2>1. \A w \in gone : w \in WorkerIds /\ thread[w] = "failed"
    OBVIOUS
  <2> HIDE DEF gone
  <2>2. /\ InService' = (InService \ gone) \cup new
        /\ static' = (static \ gone) \cup (IF TRUE THEN {} ELSE new)
        /\ IsFiniteSet(new) /\ Cardinality(new) = n
        /\ \A w \in new : w \notin InService /\ w \notin static
    BY <1>1, <1>2, <2>1, AddedService
  <2> QED
    BY <2>2 DEF gone
<1> HIDE DEF new, gone
<1>6. InServiceWithinMax'
  <2>1. CASE n = 0
    <3>1. new = {}
      BY <1>5, <2>1, FS_EmptySet
    <3> QED
      BY <1>5, <3>1 DEF InServiceWithinMax
  <2>2. CASE n = 1
    <3>1. /\ IsFiniteSet(InService) /\ Cardinality(InService) \in Nat
          /\ Cardinality(InService) <= Cardinality(Listed)
          /\ Cardinality(Listed) \in Nat
      BY <1>2, FiniteService
    <3>2. Cardinality(InService \cup new) =
            Cardinality(InService) + Cardinality(new)
              - Cardinality(InService \cap new)
      BY <1>5, <3>1, FS_Union
    <3>3. Cardinality(InService \cap new) = 0
      <4>1. InService \cap new = {}
        BY <1>5
      <4> QED
        BY <4>1, FS_EmptySet
    <3>4. Len(workerNodes) \in Nat /\ MaxSize \in Nat
      BY <1>2, LenProperties, SizeAssumption DEF TypeOK
    <3>5. Cardinality(InService') <= MaxSize
      BY <1>2, <1>3, <1>5, <2>2, <3>1, <3>2, <3>3, <3>4, ListedSize
    <3> QED
      BY <3>5 DEF InServiceWithinMax
  <2> QED
    BY <1>4, <2>1, <2>2
<1>7. StaticNodesKept'
  BY <1>1, <1>5 DEF StaticNodesKept, static
<1> QED
  BY <1>6, <1>7

\* A failed worker goes out of service, and one of its kind takes its place.
LEMMA HandleWorkerErrorSize ==
  ASSUME IInv, IInv', InServiceWithinMax, StaticNodesKept, ~crashed,
         NEW w \in WorkerIds, HandleWorkerError(w)
  PROVE  InServiceWithinMax' /\ StaticNodesKept'
<1> DEFINE n == IF ReplacesWorker THEN 1 ELSE 0
           new == created + 1 .. created + n
           gone == {w}
           kind == dynamic[w]
<1>1. /\ AddWorkers(n, kind, kind, gone) /\ UNCHANGED <<started, destroy>>
      /\ crashed' = ~ErrorListened /\ thread[w] = "failed"
  BY DEF HandleWorkerError, destroyVars
<1>2. n \in Nat /\ TypeOK /\ kind \in BOOLEAN
  BY DEF IInv, TypeOK
<1>3. n \in {0, 1} /\ (n = 1 <=> ReplacesWorker)
  OBVIOUS
<1>4. w \in InService /\ (w \in static <=> ~kind)
  BY <1>1, ServiceThreads DEF OutOfService, static
<1> HIDE DEF n
<1>5. /\ InService' = (InService \ gone) \cup new
      /\ static' = (static \ gone) \cup (IF kind THEN {} ELSE new)
      /\ IsFiniteSet(new) /\ Cardinality(new) = n
      /\ \A v \in new : v \notin InService /\ v \notin static
  <2>1. \A v \in gone : v \in WorkerIds /\ thread[v] = "failed"
    BY <1>1
  <2> HIDE DEF gone, kind
  <2> QED
    BY <1>1, <1>2, <2>1, AddedService
<1> HIDE DEF new, kind
<1>6. ASSUME NEW S, IsFiniteSet(S), w \in S, \A v \in new : v \notin S
      PROVE  Cardinality((S \ gone) \cup new) = Cardinality(S) - 1 + n
             /\ Cardinality(S) \in Nat
  <2>1. /\ IsFiniteSet(S \ {w}) /\ Cardinality(S \ {w}) = Cardinality(S) - 1
        /\ Cardinality(S) \in Nat
    BY <1>6, FS_RemoveElement, FS_CardinalityType
  <2>2. (S \ {w}) \cap new = {}
    BY <1>6
  <2>3. Cardinality((S \ {w}) \cup new) =
          Cardinality(S \ {w}) + Cardinality(new) - Cardinality((S \ {w}) \cap new)
    BY <1>5, <2>1, FS_Union
  <2>4. Cardinality((S \ {w}) \cap new) = 0
    BY <2>2, FS_EmptySet
  <2> QED
    BY <1>2, <1>5, <2>1, <2>3, <2>4
<1>7. IsFiniteSet(InService) /\ IsFiniteSet(static)
  BY <1>2, FiniteService
<1>8. InServiceWithinMax'
  <2>1. /\ Cardinality(InService') = Cardinality(InService) - 1 + n
        /\ Cardinality(InService) \in Nat
    BY <1>4, <1>5, <1>6, <1>7
  <2> QED
    BY <1>3, <2>1, SizeAssumption DEF InServiceWithinMax
<1>9. StaticNodesKept'
  <2> SUFFICES ASSUME started, RestartWorkerOnError, destroy = "none",
                      ErrorListened
               PROVE  Cardinality(static') = MinSize
    BY <1>1, OptionAssumption DEF StaticNodesKept, static
  <2>1. n = 1 /\ Cardinality(static) = MinSize
    BY <1>3 DEF ReplacesWorker, StaticNodesKept, static
  <2>2. CASE kind
    <3>1. static' = static
      BY <1>4, <1>5, <2>2
    <3> QED
      BY <2>1, <3>1
  <2>3. CASE ~kind
    <3>1. static' = (static \ gone) \cup new
      BY <1>5, <2>3
    <3>2. /\ Cardinality((static \ gone) \cup new) = Cardinality(static) - 1 + n
          /\ Cardinality(static) \in Nat
      BY <1>4, <1>5, <1>6, <1>7, <2>3
    <3> QED
      BY <2>1, <3>1, <3>2
  <2> QED
    BY <2>2, <2>3
<1> QED
  BY <1>8, <1>9

\* A dead worker is taken off the list; until destroy() is called it was out
\* of service already, or is a dynamic one that was killed.
LEMMA HandleWorkerExitSize ==
  ASSUME IInv, IInv', InServiceWithinMax, StaticNodesKept, StaticSpared,
         NEW w \in WorkerIds, HandleWorkerExit(w)
  PROVE  InServiceWithinMax' /\ StaticNodesKept'
<1>1. /\ thread[w] \in {"errored", "terminating"}
      /\ \A v \in WorkerIds :
           thread'[v] = IF v = w THEN "exited" ELSE thread[v]
      /\ UNCHANGED <<dynamic, crashed>>
      /\ started' => started
      /\ destroy' = "none" => destroy = "none"
  BY DEF HandleWorkerExit, IInv, TypeOK
<1>2. InService' = InService \ {w}
  BY <1>1, ServiceThreads DEF OutOfService
<1>3. InServiceWithinMax'
  <2>1. IsFiniteSet(InService) /\ InService \ {w} \subseteq InService
    BY FiniteService DEF IInv
  <2>2. /\ Cardinality(InService \ {w}) <= Cardinality(InService)
        /\ Cardinality(InService \ {w}) \in Nat /\ Cardinality(InService) \in Nat
    BY <2>1, FS_Subset, FS_CardinalityType
  <2> QED
    BY <1>2, <2>2, SizeAssumption DEF InServiceWithinMax
<1>4. StaticNodesKept'
  <2> SUFFICES ASSUME destroy = "none" PROVE static' = static
    BY <1>1 DEF StaticNodesKept, static
  <2>1. w \notin static
    BY <1>1, ServiceThreads
    DEF StaticSpared, Spared, Dying, static, OutOfService
  <2> QED
    BY <1>1, <1>2, <2>1 DEF static
<1> QED
  BY <1>3, <1>4

\* The steps that neither create nodes nor take any out of service.
LEMMA OtherService ==
  ASSUME IInv, Next, ~Start, \A t \in Tasks : ~Execute(t),
         \A w \in WorkerIds : ~HandleWorkerError(w) /\ ~HandleWorkerExit(w)
  PROVE  /\ UNCHANGED dynamic
         /\ \A w \in WorkerIds :
              thread'[w] \in OutOfService <=> thread[w] \in OutOfService
         /\ started' => started
         /\ destroy' = "none" => destroy = "none"
<1>1. TypeOK /\ ~crashed
  BY DEF IInv, Next
<1>2. CASE Caller
  <2>1. CASE SetWorkerChoiceStrategy \/ \E t \in Tasks : ExecuteNotStarted(t)
    BY <1>1, <2>1
    DEF SetWorkerChoiceStrategy, ExecuteNotStarted, nodeVars, threadVars,
        poolVars, destroyVars
  <2>2. CASE \E enable \in BOOLEAN : SetEnableTasksQueue(enable)
    BY <1>1, <2>2
    DEF SetEnableTasksQueue, nodeVars, threadVars, poolVars, destroyVars
  <2>3. CASE Destroy
    BY <1>1, <2>3 DEF Destroy, nodeVars, threadVars
  <2> QED
    BY <1>2, <2>1, <2>2, <2>3 DEF Caller
<1>3. CASE RedistributeQueuedTask
  BY <1>3 DEF RedistributeQueuedTask, nodeVars, threadVars, destroyVars
<1>4. ASSUME NEW w \in WorkerIds, Listener(w)
      PROVE  /\ UNCHANGED <<dynamic, started>>
             /\ \A v \in WorkerIds :
                  \/ thread'[v] = thread[v]
                  \/ thread[v] = "closed" /\ thread'[v] = "terminating"
             /\ destroy' = "none" => destroy = "none"
  <2>1. CASE HandleWorkerReadyResponse(w) \/ HandleTaskExecutionResponse(w)
    BY <2>1
    DEF HandleWorkerReadyResponse, HandleTaskExecutionResponse, nodeVars,
        threadVars, poolVars, destroyVars
  <2>2. CASE HandleKillRequest(w)
    BY <2>2 DEF HandleKillRequest, nodeVars, threadVars, poolVars
  <2>3. CASE HandleKillSuccess(w)
    BY <1>1, <2>3 DEF HandleKillSuccess, TypeOK, poolVars
  <2>4. CASE HandleKillFailure(w)
    BY <2>4 DEF HandleKillFailure, nodeVars, threadVars, poolVars
  <2> QED
    BY <1>4, <2>1, <2>2, <2>3, <2>4 DEF Listener
<1>5. ASSUME NEW w \in WorkerIds, Thread(w) \/ Environment(w)
      PROVE  /\ UNCHANGED <<dynamic, started, destroy>>
             /\ \A v \in WorkerIds :
                  \/ thread'[v] = thread[v]
                  \/ /\ thread[v] \in {"starting", "running", "closed"}
                     /\ thread'[v] \in {"running", "closed", "failed"}
  <2>1. CASE HandleReadyMessage(w) \/ HandleKillMessage(w) \/ UncaughtError(w)
    BY <1>1, <2>1
    DEF HandleReadyMessage, HandleKillMessage, UncaughtError, WorkerReceives,
        TypeOK, nodeVars, poolVars, destroyVars
  <2>2. CASE \/ RunTask(w) \/ RequestKill(w)
             \/ \E t \in Tasks, ok \in BOOLEAN : AnswerTask(w, t, ok)
    BY <2>2
    DEF RunTask, RequestKill, AnswerTask, threadVars, nodeVars, poolVars,
        destroyVars
  <2> QED
    BY <1>5, <2>1, <2>2 DEF Thread, Environment
<1> QED
  BY <1>2, <1>3, <1>4, <1>5 DEF Next, WorkerEvent, OutOfService, Caller

\* ... nor does any of them start or add a node, and of them only destroy()
\* stops the pool.
LEMMA OtherStarts ==
  ASSUME IInv, Next, ~Start, \A t \in Tasks : ~Execute(t),
         \A w \in WorkerIds : ~HandleWorkerError(w) /\ ~HandleWorkerExit(w)
  PROVE  /\ UNCHANGED <<starts, created>>
         /\ started /\ ~started' => destroy' # "none"
<1>1. CASE Caller
  <2>1. CASE SetWorkerChoiceStrategy \/ \E t \in Tasks : ExecuteNotStarted(t)
    BY <2>1
    DEF SetWorkerChoiceStrategy, ExecuteNotStarted, nodeVars, boundVars, poolVars
  <2>2. CASE \E enable \in BOOLEAN : SetEnableTasksQueue(enable)
    BY <2>2 DEF SetEnableTasksQueue, nodeVars, boundVars, poolVars
  <2>3. CASE Destroy
    BY <2>3 DEF Destroy, nodeVars, boundVars
  <2> QED
    BY <1>1, <2>1, <2>2, <2>3 DEF Caller
<1>2. CASE RedistributeQueuedTask
  BY <1>2 DEF RedistributeQueuedTask, nodeVars, boundVars
<1>3. ASSUME NEW w \in WorkerIds, Listener(w)
      PROVE  UNCHANGED <<started, starts, created>>
  <2>1. CASE HandleWorkerReadyResponse(w)
    BY <2>1 DEF HandleWorkerReadyResponse, boundVars, poolVars
  <2>2. CASE HandleTaskExecutionResponse(w)
    BY <2>2 DEF HandleTaskExecutionResponse, nodeVars, boundVars, poolVars
  <2>3. CASE HandleKillRequest(w)
    BY <2>3 DEF HandleKillRequest, nodeVars, boundVars, poolVars
  <2>4. CASE HandleKillSuccess(w)
    BY <2>4 DEF HandleKillSuccess, boundVars, poolVars
  <2>5. CASE HandleKillFailure(w)
    BY <2>5 DEF HandleKillFailure, nodeVars, boundVars
  <2> QED
    BY <1>3, <2>1, <2>2, <2>3, <2>4, <2>5 DEF Listener
<1>4. ASSUME NEW w \in WorkerIds, Thread(w) \/ Environment(w)
      PROVE  UNCHANGED <<started, starts, created>>
  <2>1. CASE HandleReadyMessage(w) \/ RunTask(w)
    BY <2>1 DEF HandleReadyMessage, RunTask, nodeVars, boundVars, poolVars
  <2>2. CASE \E t \in Tasks, ok \in BOOLEAN : AnswerTask(w, t, ok)
    BY <2>2 DEF AnswerTask, nodeVars, boundVars, poolVars
  <2>3. CASE HandleKillMessage(w)
    BY <2>3 DEF HandleKillMessage, nodeVars, boundVars, poolVars
  <2>4. CASE RequestKill(w) \/ UncaughtError(w)
    BY <2>4 DEF RequestKill, UncaughtError, nodeVars, boundVars, poolVars
  <2> QED
    BY <1>4, <2>1, <2>2, <2>3, <2>4 DEF Thread, Environment
<1> QED
  BY <1>1, <1>2, <1>3, <1>4 DEF Next, WorkerEvent

LEMMA SizeStep ==
  ASSUME IInv, IInv', SizeInv, Next
  PROVE  InServiceWithinMax' /\ StaticNodesKept'
<1>1. ~crashed
  BY DEF Next
<1>2. CASE Start
  BY <1>2, StartSize DEF SizeInv
<1>3. CASE \E t \in Tasks : Execute(t)
  BY <1>1, <1>3, ExecuteSize DEF SizeInv
<1>4. CASE \E w \in WorkerIds : HandleWorkerError(w) \/ HandleWorkerExit(w)
  BY <1>1, <1>4, HandleWorkerErrorSize, HandleWorkerExitSize DEF SizeInv
<1>5. CASE ~(\/ Start \/ \E t \in Tasks : Execute(t)
             \/ \E w \in WorkerIds : HandleWorkerError(w) \/ HandleWorkerExit(w))
  <2>1. /\ UNCHANGED dynamic
        /\ \A w \in WorkerIds :
             thread'[w] \in OutOfService <=> thread[w] \in OutOfService
        /\ started' => started
        /\ destroy' = "none" => destroy = "none"
    BY <1>5, OtherService
  <2>2. InService' = InService /\ static' = static
    BY <2>1, SameService
  <2> QED
    BY <1>1, <2>1, <2>2 DEF SizeInv, InServiceWithinMax, StaticNodesKept, static
<1> QED
  BY <1>2, <1>3, <1>4, <1>5

\* The parts of the invariant about the kinds of nodes.
LEMMA KindsStep ==
  ASSUME IInv, IInv', SizeInv, Next
  PROVE  FixedHasNoDynamic' /\ NoNodesBeforeStart'
<1>1. TypeOK /\ FixedHasNoDynamic /\ NoNodesBeforeStart
  BY DEF IInv, SizeInv
<1>2. CASE Start
  <2>1. /\ started' /\ starts' = starts + 1
        /\ \E n : AddWorkers(n, FALSE, TRUE, {})
    BY <1>2 DEF Start
  <2>2. FixedHasNoDynamic'
    BY <1>1, <2>1 DEF FixedHasNoDynamic, AddWorkers
  <2>3. starts' # 0
    BY <1>1, <2>1 DEF TypeOK
  <2> QED
    BY <2>1, <2>2, <2>3 DEF NoNodesBeforeStart
<1>3. ASSUME NEW t \in Tasks, Execute(t)
      PROVE  FixedHasNoDynamic' /\ NoNodesBeforeStart'
  <2>1. /\ started /\ UNCHANGED <<started, starts>>
        /\ AddWorkers(IF PoolType = "dynamic" /\ ~Full /\ InternalBusy
                      THEN 1 ELSE 0, TRUE, TRUE, {})
    BY <1>3 DEF Execute, boundVars
  <2>2. ASSUME PoolType = "fixed" PROVE UNCHANGED dynamic
    <3>1. AddWorkers(0, TRUE, TRUE, {})
      BY <2>1, <2>2
    <3>2. created + 1 .. created + 0 = {}
      BY <1>1 DEF TypeOK
    <3> QED
      BY <1>1, <3>1, <3>2 DEF AddWorkers, TypeOK
  <2> QED
    BY <1>1, <2>1, <2>2 DEF FixedHasNoDynamic, NoNodesBeforeStart
<1>4. ASSUME NEW w \in WorkerIds, HandleWorkerError(w)
      PROVE  FixedHasNoDynamic' /\ NoNodesBeforeStart'
  <2> DEFINE n == IF ReplacesWorker THEN 1 ELSE 0
  <2>1. /\ UNCHANGED <<started, starts, destroy>>
        /\ AddWorkers(n, dynamic[w], dynamic[w], {w})
    BY <1>4 DEF HandleWorkerError, boundVars, destroyVars
  <2>2. FixedHasNoDynamic'
    BY <1>1, <2>1 DEF FixedHasNoDynamic, AddWorkers
  <2>3. created' = created + n /\ created \in Int /\ (~started => n = 0)
    BY <1>1, <2>1 DEF AddWorkers, TypeOK, ReplacesWorker
  <2> HIDE DEF n
  <2> QED
    BY <1>1, <2>1, <2>2, <2>3 DEF NoNodesBeforeStart
<1>5. ASSUME NEW w \in WorkerIds, HandleWorkerExit(w)
      PROVE  FixedHasNoDynamic' /\ NoNodesBeforeStart'
  <2>1. /\ UNCHANGED <<dynamic, created, starts>>
        /\ started' => started
        /\ destroy' = "none" => destroy = "none" /\ started' = started
    BY <1>1, <1>5 DEF HandleWorkerExit, boundVars, TypeOK
  <2> QED
    BY <1>1, <2>1 DEF FixedHasNoDynamic, NoNodesBeforeStart
<1>6. CASE ~(\/ Start \/ \E t \in Tasks : Execute(t)
             \/ \E w \in WorkerIds : HandleWorkerError(w) \/ HandleWorkerExit(w))
  <2>1. /\ UNCHANGED dynamic
        /\ started' => started
        /\ destroy' = "none" => destroy = "none"
    BY <1>6, OtherService
  <2>2. /\ UNCHANGED <<starts, created>>
        /\ started /\ ~started' => destroy' # "none"
    BY <1>6, OtherStarts
  <2> QED
    BY <1>1, <2>1, <2>2 DEF FixedHasNoDynamic, NoNodesBeforeStart
<1> QED
  BY <1>2, <1>3, <1>4, <1>5, <1>6

-----------------------------------------------------------------------------
(* Until destroy() is called only dynamic workers are killed.              *)

LEMMA TypesJoined ==
  ASSUME NEW M, NEW s \in Seq(M), NEW u \in Seq(M), NEW types,
         OfTypes(s, types), OfTypes(u, types), NEW r, r = s \o u
  PROVE  OfTypes(r, types)
<1>1. /\ DOMAIN s = 1 .. Len(s) /\ Len(s) \in Nat
      /\ DOMAIN u = 1 .. Len(u) /\ Len(u) \in Nat
      /\ r \in Seq(M) /\ Len(r) = Len(s) + Len(u)
      /\ \A i \in 1 .. Len(s) + Len(u) :
           r[i] = IF i <= Len(s) THEN s[i] ELSE u[i - Len(s)]
  BY LenProperties, ConcatProperties
<1>2. DOMAIN r = 1 .. Len(s) + Len(u)
  BY <1>1, LenProperties
<1> SUFFICES ASSUME NEW i \in DOMAIN r PROVE r[i].type \in types
  BY DEF OfTypes
<1>3. CASE i <= Len(s)
  BY <1>1, <1>2, <1>3 DEF OfTypes
<1>4. CASE ~(i <= Len(s))
  <2>1. i - Len(s) \in DOMAIN u /\ r[i] = u[i - Len(s)]
    BY <1>1, <1>2, <1>4
  <2> QED
    BY <2>1 DEF OfTypes
<1> QED
  BY <1>3, <1>4

LEMMA SentSpares ==
  ASSUME TypeOK, NEW w, NEW t \in Tasks, SendToWorker(w, <<TaskMessage(t)>>),
         NEW v \in WorkerIds, TasksOnly(toWorker[v])
  PROVE  TasksOnly(toWorker'[v])
<1> DEFINE types == {"task"}
           u == <<TaskMessage(t)>>
           r == toWorker[v] \o u
<1>1. u \in Seq(ToWorkerMessages) /\ toWorker[v] \in Seq(ToWorkerMessages)
  BY TaskMessageType DEF TypeOK
<1>2. OfTypes(u, types) /\ OfTypes(toWorker[v], types)
  BY DEF OfTypes, TaskMessage, TasksOnly
<1>3. toWorker'[v] \in {toWorker[v], r}
  BY DEF SendToWorker, TypeOK
<1> HIDE DEF types, u
<1>4. OfTypes(r, types)
  BY <1>1, <1>2, TypesJoined
<1> HIDE DEF r
<1> QED
  BY <1>2, <1>3, <1>4 DEF TasksOnly, types

LEMMA FlushedSpares ==
  ASSUME TypeOK, NEW ws, FlushTasksQueues(ws, <<>>),
         NEW v \in WorkerIds, TasksOnly(toWorker[v])
  PROVE  TasksOnly(toWorker'[v])
<1> DEFINE types == {"task"}
           q == tasksQueue[v]
           u == Flushed(q)
           last == <<>>
           both == toWorker[v] \o u
           r == both \o last
<1>1. /\ q \in Seq(Tasks) /\ toWorker[v] \in Seq(ToWorkerMessages)
      /\ OfTypes(toWorker[v], types)
  BY DEF TypeOK, TasksOnly
<1>2. toWorker'[v] = toWorker[v] \/ toWorker'[v] = r
  BY DEF FlushTasksQueues, Flushed
<1>3. last \in Seq(ToWorkerMessages) /\ OfTypes(last, types)
  BY EmptySeq DEF OfTypes
<1>4. u \in Seq(ToWorkerMessages) /\ OfTypes(u, types)
  <2>1. /\ Len(q) \in Nat /\ DOMAIN q = 1 .. Len(q)
        /\ \A i \in DOMAIN q : q[i] \in Tasks
    BY <1>1, LenProperties, ElementOfSeq
  <2>2. u \in [1 .. Len(q) -> ToWorkerMessages]
    BY <2>1 DEF Flushed, TaskMessage, ToWorkerMessages
  <2>3. OfTypes(u, types)
    BY DEF OfTypes, Flushed, TaskMessage
  <2> HIDE DEF u
  <2> QED
    BY <2>1, <2>2, <2>3, FunctionIsSeq
<1> HIDE DEF types, q, u, last
<1>5. both \in Seq(ToWorkerMessages) /\ OfTypes(both, types)
  BY <1>1, <1>4, ConcatProperties, TypesJoined
<1> HIDE DEF both
<1>6. OfTypes(r, types)
  BY <1>3, <1>5, TypesJoined
<1> HIDE DEF r
<1> QED
  BY <1>1, <1>2, <1>6 DEF TasksOnly, types

\* What is left of a channel's messages, and what is added to them.
LEMMA TakenSpares ==
  ASSUME TypeOK, NEW w \in WorkerIds, toWorker[w] # <<>>,
         toWorker' = [toWorker EXCEPT ![w] = Tail(@)],
         NEW v \in WorkerIds, TasksOnly(toWorker[v])
  PROVE  TasksOnly(toWorker'[v])
<1> DEFINE types == {"task"}
           r == Tail(toWorker[w])
<1>1. CASE v = w
  <2>1. toWorker[w] \in Seq(ToWorkerMessages) /\ OfTypes(toWorker[w], types)
    BY <1>1 DEF TypeOK, TasksOnly
  <2> HIDE DEF types
  <2>2. OfTypes(r, types)
    BY <2>1, TypesTaken
  <2>3. toWorker'[v] = r
    BY <1>1 DEF TypeOK
  <2> QED
    BY <2>2, <2>3 DEF TasksOnly, types
<1>2. CASE v # w
  BY <1>2 DEF TypeOK
<1> QED
  BY <1>1, <1>2

LEMMA HeardSpares ==
  ASSUME TypeOK, NEW w \in WorkerIds, toPool[w] # <<>>,
         toPool' = [toPool EXCEPT ![w] = Tail(@)],
         NEW v \in WorkerIds, NoneOfKills(toPool[v])
  PROVE  NoneOfKills(toPool'[v])
<1> DEFINE types == {"ready", "response"}
           r == Tail(toPool[w])
<1>1. CASE v = w
  <2>1. toPool[w] \in Seq(ToPoolMessages) /\ OfTypes(toPool[w], types)
    BY <1>1 DEF TypeOK, NoneOfKills
  <2> HIDE DEF types
  <2>2. OfTypes(r, types)
    BY <2>1, TypesTaken
  <2>3. toPool'[v] = r
    BY <1>1 DEF TypeOK
  <2> QED
    BY <2>2, <2>3 DEF NoneOfKills, types
<1>2. CASE v # w
  BY <1>2 DEF TypeOK
<1> QED
  BY <1>1, <1>2

LEMMA PostedSpares ==
  ASSUME TypeOK, NEW w \in WorkerIds, NEW m \in ToPoolMessages,
         m.type \in {"ready", "response"},
         toPool' = [toPool EXCEPT ![w] = Append(@, m)],
         NEW v \in WorkerIds, NoneOfKills(toPool[v])
  PROVE  NoneOfKills(toPool'[v])
<1> DEFINE types == {"ready", "response"}
           r == Append(toPool[w], m)
<1>1. CASE v = w
  <2>1. /\ toPool[w] \in Seq(ToPoolMessages) /\ OfTypes(toPool[w], types)
        /\ m.type \in types
    BY <1>1 DEF TypeOK, NoneOfKills
  <2> HIDE DEF types
  <2>2. OfTypes(r, types)
    BY <2>1, TypesAppended
  <2> HIDE DEF r
  <2>3. toPool'[v] = r
    BY <1>1 DEF TypeOK, r
  <2> QED
    BY <2>2, <2>3 DEF NoneOfKills, types
<1>2. CASE v # w
  BY <1>2 DEF TypeOK
<1> QED
  BY <1>1, <1>2

\* A spared worker has no message to be killed by at hand.
LEMMA SparedHeads ==
  ASSUME TypeOK, NEW w \in WorkerIds, Spared(w)
  PROVE  /\ toWorker[w] # <<>> => Head(toWorker[w]).type # "kill"
         /\ toPool[w] # <<>> => Head(toPool[w]).type # "kill"
<1>1. /\ toWorker[w] \in Seq(ToWorkerMessages) /\ OfTypes(toWorker[w], {"task"})
      /\ toPool[w] \in Seq(ToPoolMessages)
      /\ OfTypes(toPool[w], {"ready", "response"})
  BY DEF TypeOK, Spared, TasksOnly, NoneOfKills
<1>2. toWorker[w] # <<>> => Head(toWorker[w]).type \in {"task"}
  BY <1>1, TypesTaken
<1>3. toPool[w] # <<>> => Head(toPool[w]).type \in {"ready", "response"}
  BY <1>1, TypesTaken
<1> QED
  BY <1>2, <1>3

\* A static node, or an id to come, was one before the step.
LEMMA StaticBefore ==
  ASSUME IInv, IInv', Next, NEW v \in WorkerIds,
         thread'[v] = "none" \/ ~dynamic'[v]
  PROVE  thread[v] = "none" \/ ~dynamic[v]
<1>1. ASSUME NEW n, NEW isDynamic, NEW isReady, NEW gone,
             AddWorkers(n, isDynamic, isReady, gone)
      PROVE  thread[v] = "none" \/ ~dynamic[v]
  <2>1. CASE v \in created + 1 .. created + n
    <3>1. thread[v] = "none"
      BY <2>1 DEF IInv, TypeOK, NodesInv, IdsInOrder, WorkerIds
    <3> QED
      BY <3>1
  <2>2. CASE v \notin created + 1 .. created + n
    <3>1. thread'[v] \in {"errored", thread[v]} /\ dynamic'[v] = dynamic[v]
      BY <1>1, <2>2 DEF AddWorkers
    <3> QED
      BY <3>1
  <2> QED
    BY <2>1, <2>2
<1>2. CASE \/ Start \/ \E t \in Tasks : Execute(t)
           \/ \E w \in WorkerIds : HandleWorkerError(w)
  <2>1. \E n, isDynamic, isReady, gone : AddWorkers(n, isDynamic, isReady, gone)
    <3>1. CASE Start
      BY <3>1 DEF Start
    <3>2. CASE \E t \in Tasks : Execute(t)
      BY <3>2 DEF Execute
    <3>3. CASE \E w \in WorkerIds : HandleWorkerError(w)
      BY <3>3 DEF HandleWorkerError
    <3> QED
      BY <1>2, <3>1, <3>2, <3>3
  <2> QED
    BY <1>1, <2>1
<1>3. CASE \E w \in WorkerIds : HandleWorkerExit(w)
  BY <1>3 DEF HandleWorkerExit, IInv, TypeOK
<1>4. CASE ~(\/ Start \/ \E t \in Tasks : Execute(t)
             \/ \E w \in WorkerIds : HandleWorkerError(w) \/ HandleWorkerExit(w))
  <2>1. UNCHANGED dynamic /\ (thread'[v] = "none" => thread[v] \in OutOfService)
    BY <1>4, OtherService DEF OutOfService
  <2>2. thread'[v] = "none" => thread[v] = "none"
    <3>1. UNCHANGED created
      <4>1. CASE Caller
        BY <1>4, <4>1
        DEF Caller, ExecuteNotStarted, SetWorkerChoiceStrategy,
            SetEnableTasksQueue, Destroy, nodeVars
      <4>2. CASE \E w \in WorkerIds : Listener(w)
        BY <4>2
        DEF Listener, HandleWorkerReadyResponse, HandleTaskExecutionResponse,
            HandleKillRequest, HandleKillSuccess, HandleKillFailure, nodeVars
      <4>3. CASE \E w \in WorkerIds : WorkerEvent(w)
        BY <1>4, <4>3 DEF WorkerEvent
      <4>4. CASE \E w \in WorkerIds : Thread(w)
        BY <4>4
        DEF Thread, HandleReadyMessage, RunTask, AnswerTask, HandleKillMessage,
            nodeVars
      <4>5. CASE \E w \in WorkerIds : Environment(w)
        BY <4>5 DEF Environment, RequestKill, UncaughtError, nodeVars
      <4>6. CASE RedistributeQueuedTask
        BY <4>6 DEF RedistributeQueuedTask, nodeVars
      <4> QED
        BY <4>1, <4>2, <4>3, <4>4, <4>5, <4>6 DEF Next
    <3> QED
      BY <3>1 DEF IInv, NodesInv, IdsInOrder
  <2> QED
    BY <2>1, <2>2
<1> QED
  BY <1>2, <1>3, <1>4

\* What the pool sends to a spared worker are tasks.
LEMMA SparedChannelTo ==
  ASSUME IInv, IInv', Next, destroy' = "none", NEW v \in WorkerIds, Spared(v)
  PROVE  TasksOnly(toWorker'[v])
<1>1. TypeOK /\ TasksOnly(toWorker[v])
  BY DEF IInv, Spared
<1>2. CASE Caller
  <2>1. ASSUME NEW t \in Tasks, Execute(t)
        PROVE  TasksOnly(toWorker'[v])
    <3>1. \/ UNCHANGED toWorker
          \/ \E w : SendToWorker(w, <<TaskMessage(t)>>)
      BY <2>1 DEF Execute, ExecuteTask
    <3> QED
      BY <1>1, <3>1, SentSpares
  <2>2. ASSUME NEW enable \in BOOLEAN, SetEnableTasksQueue(enable)
        PROVE  TasksOnly(toWorker'[v])
    <3>1. UNCHANGED toWorker \/ \E ws : FlushTasksQueues(ws, <<>>)
      BY <2>2 DEF SetEnableTasksQueue
    <3> QED
      BY <1>1, <3>1, FlushedSpares
  <2>3. ~Destroy
    BY DEF Destroy
  <2>4. CASE \/ Start \/ SetWorkerChoiceStrategy
             \/ \E t \in Tasks : ExecuteNotStarted(t)
    BY <1>1, <2>4
    DEF Start, SetWorkerChoiceStrategy, ExecuteNotStarted, channelVars
  <2> QED
    BY <1>2, <2>1, <2>2, <2>3, <2>4 DEF Caller
<1>3. CASE RedistributeQueuedTask
  <2> DEFINE w == redistributing
             t == Head(tasksQueue[w])
  <2>1. w \in WorkerIds /\ tasksQueue[w] # <<>>
    BY <1>1, <1>3
    DEF IInv, NodesInv, TypeOK, TaskToRedistribute, RedistributeQueuedTask
  <2>2. t \in Tasks
    BY <1>1, <2>1, DequeuedTypes
  <2>3. \/ UNCHANGED toWorker
        \/ \E x : SendToWorker(x, <<TaskMessage(t)>>)
    BY <1>3 DEF RedistributeQueuedTask, ExecuteTask
  <2> HIDE DEF t, w
  <2> QED
    BY <1>1, <2>2, <2>3, SentSpares
<1>4. ASSUME NEW w \in WorkerIds, Listener(w)
      PROVE  TasksOnly(toWorker'[v])
  <2>1. CASE HandleWorkerReadyResponse(w) \/ HandleKillFailure(w)
    BY <1>1, <2>1 DEF HandleWorkerReadyResponse, HandleKillFailure
  <2>2. CASE HandleTaskExecutionResponse(w)
    <3> DEFINE key == promiseResponseMap[Head(toPool[w]).task]
               x == Node(key)
               u == Head(tasksQueue[x])
    <3>1. \/ UNCHANGED toWorker
          \/ /\ key \in Keys /\ tasksQueue[x] # <<>>
             /\ SendToWorker(x, <<TaskMessage(u)>>)
      BY <2>2 DEF HandleTaskExecutionResponse, ExecuteTask
    <3>2. key \in Keys => x \in WorkerIds
      BY <1>1, NodeIsListed
    <3>3. key \in Keys /\ tasksQueue[x] # <<>> => u \in Tasks
      BY <1>1, <3>2, DequeuedTypes
    <3> HIDE DEF u, x, key
    <3> QED
      BY <1>1, <3>1, <3>3, SentSpares
  <2>3. CASE HandleKillRequest(w)
    <3>1. toPool[w] # <<>> /\ Head(toPool[w]).type = "kill"
      BY <2>3 DEF HandleKillRequest, Received
    <3>2. v # w
      BY <1>1, <3>1, SparedHeads
    <3>3. toWorker'[v] = toWorker[v]
      BY <2>3, <3>2 DEF HandleKillRequest, DestroyWorkerNodes, FlushTasksQueues
    <3> QED
      BY <1>1, <3>3
  <2>4. CASE HandleKillSuccess(w)
    <3>1. toWorker'[v] \in {<<>>, toWorker[v]}
      BY <1>1, <2>4 DEF HandleKillSuccess, TypeOK
    <3> QED
      BY <1>1, <3>1, EmptySeq DEF TasksOnly, OfTypes
  <2> QED
    BY <1>4, <2>1, <2>2, <2>3, <2>4 DEF Listener
<1>5. ASSUME NEW w \in WorkerIds, WorkerEvent(w) \/ Thread(w) \/ Environment(w)
      PROVE  TasksOnly(toWorker'[v])
  <2>1. CASE HandleWorkerError(w) \/ HandleWorkerExit(w)
    BY <1>1, <2>1 DEF HandleWorkerError, HandleWorkerExit, channelVars
  <2>2. CASE RunTask(w)
    BY <1>1, <2>2, TakenSpares DEF RunTask, WorkerReceives
  <2>3. CASE HandleKillMessage(w) \/ UncaughtError(w)
    <3>1. toWorker'[v] \in {<<>>, toWorker[v]}
      BY <1>1, <2>3 DEF HandleKillMessage, UncaughtError, TypeOK
    <3> QED
      BY <1>1, <3>1, EmptySeq DEF TasksOnly, OfTypes
  <2>4. CASE \/ HandleReadyMessage(w) \/ RequestKill(w)
             \/ \E t \in Tasks, ok \in BOOLEAN : AnswerTask(w, t, ok)
    BY <1>1, <2>4 DEF HandleReadyMessage, RequestKill, AnswerTask
  <2> QED
    BY <1>5, <2>1, <2>2, <2>3, <2>4 DEF WorkerEvent, Thread, Environment
<1> QED
  BY <1>2, <1>3, <1>4, <1>5 DEF Next

\* Only a worker that is told to go, or is dynamic, speaks of kills.
LEMMA SparedChannelFrom ==
  ASSUME IInv, Next, destroy' = "none", NEW v \in WorkerIds, Spared(v),
         thread[v] = "none" \/ ~dynamic[v]
  PROVE  NoneOfKills(toPool'[v])
<1>1. TypeOK /\ NoneOfKills(toPool[v])
  BY DEF IInv, Spared
<1>2. CASE Caller \/ RedistributeQueuedTask
  BY <1>1, <1>2
  DEF Caller, Start, ExecuteNotStarted, Execute, SetWorkerChoiceStrategy,
      SetEnableTasksQueue, Destroy, RedistributeQueuedTask, channelVars
<1>3. ASSUME NEW w \in WorkerIds, Listener(w)
      PROVE  NoneOfKills(toPool'[v])
  <2>1. CASE \/ HandleWorkerReadyResponse(w) \/ HandleTaskExecutionResponse(w)
             \/ HandleKillRequest(w) \/ HandleKillFailure(w)
    <3>1. toPool[w] # <<>> /\ toPool' = [toPool EXCEPT ![w] = Tail(@)]
      BY <2>1
      DEF HandleWorkerReadyResponse, HandleTaskExecutionResponse,
          HandleKillRequest, HandleKillFailure, Received
    <3> QED
      BY <1>1, <3>1, HeardSpares
  <2>2. CASE HandleKillSuccess(w)
    <3>1. toPool'[v] \in {<<>>, toPool[v]}
      BY <1>1, <2>2 DEF HandleKillSuccess, TypeOK
    <3> QED
      BY <1>1, <3>1, EmptySeq DEF NoneOfKills, OfTypes
  <2> QED
    BY <1>3, <2>1, <2>2 DEF Listener
<1>4. ASSUME NEW w \in WorkerIds, WorkerEvent(w)
      PROVE  NoneOfKills(toPool'[v])
  <2>1. toPool'[v] \in {<<>>, toPool[v]}
    BY <1>1, <1>4
    DEF WorkerEvent, HandleWorkerError, HandleWorkerExit, channelVars, TypeOK
  <2> QED
    BY <1>1, <2>1, EmptySeq DEF NoneOfKills, OfTypes
<1>5. ASSUME NEW w \in WorkerIds, Thread(w) \/ Environment(w)
      PROVE  NoneOfKills(toPool'[v])
  <2>1. CASE HandleReadyMessage(w)
    <3> DEFINE m == [type |-> "ready"]
    <3>1. m \in ToPoolMessages /\ m.type \in {"ready", "response"}
      BY DEF ToPoolMessages
    <3>2. toPool' = [toPool EXCEPT ![w] = Append(@, m)]
      BY <2>1 DEF HandleReadyMessage
    <3> HIDE DEF m
    <3> QED
      BY <1>1, <3>1, <3>2, PostedSpares
  <2>2. ASSUME NEW t \in Tasks, NEW ok \in BOOLEAN, AnswerTask(w, t, ok)
        PROVE  NoneOfKills(toPool'[v])
    <3> DEFINE m == [type |-> "response", task |-> t, ok |-> ok]
    <3>1. m \in ToPoolMessages /\ m.type \in {"ready", "response"}
      BY DEF ToPoolMessages
    <3>2. toPool' = [toPool EXCEPT ![w] = Append(@, m)]
      BY <2>2 DEF AnswerTask
    <3> HIDE DEF m
    <3> QED
      BY <1>1, <3>1, <3>2, PostedSpares
  <2>3. CASE HandleKillMessage(w)
    <3>1. toWorker[w] # <<>> /\ Head(toWorker[w]).type = "kill"
      BY <2>3 DEF HandleKillMessage, WorkerReceives
    <3>2. v # w
      BY <1>1, <3>1, SparedHeads
    <3>3. toPool'[v] = toPool[v]
      BY <1>1, <2>3, <3>2 DEF HandleKillMessage, TypeOK
    <3> QED
      BY <1>1, <3>3
  <2>4. CASE RequestKill(w)
    <3>1. v # w
      BY <2>4 DEF RequestKill
    <3>2. toPool'[v] = toPool[v]
      BY <1>1, <2>4, <3>1 DEF RequestKill, TypeOK
    <3> QED
      BY <1>1, <3>2
  <2>5. CASE RunTask(w) \/ UncaughtError(w)
    BY <1>1, <2>5 DEF RunTask, UncaughtError
  <2> QED
    BY <1>5, <2>1, <2>2, <2>3, <2>4, <2>5 DEF Thread, Environment
<1> QED
  BY <1>2, <1>3, <1>4, <1>5 DEF Next

\* A thread closes its port when it is told to, and is terminated after that.
LEMMA SparedThread ==
  ASSUME IInv, Next, NEW v \in WorkerIds, Spared(v)
  PROVE  thread'[v] \notin Dying
<1>1. TypeOK /\ thread[v] \notin Dying
  BY DEF IInv, Spared
<1>2. ASSUME NEW n, NEW isDynamic, NEW isReady, NEW gone,
             AddWorkers(n, isDynamic, isReady, gone)
      PROVE  thread'[v] \notin Dying
  BY <1>1, <1>2 DEF AddWorkers, Dying
<1>3. CASE Caller
  <2>1. UNCHANGED thread
        \/ \E n, isDynamic, isReady, gone : AddWorkers(n, isDynamic, isReady, gone)
    <3>1. CASE Start
      BY <3>1 DEF Start
    <3>2. ASSUME NEW t \in Tasks, Execute(t)
          PROVE  \E n, isDynamic, isReady, gone :
                   AddWorkers(n, isDynamic, isReady, gone)
      BY <3>2 DEF Execute
    <3>3. CASE ~Start /\ \A t \in Tasks : ~Execute(t)
      BY <1>3, <3>3
      DEF Caller, ExecuteNotStarted, SetWorkerChoiceStrategy,
          SetEnableTasksQueue, Destroy, threadVars
    <3> QED
      BY <3>1, <3>2, <3>3
  <2> QED
    BY <1>1, <1>2, <2>1
<1>4. CASE RedistributeQueuedTask
  BY <1>1, <1>4 DEF RedistributeQueuedTask, threadVars
<1>5. ASSUME NEW w \in WorkerIds, Listener(w)
      PROVE  thread'[v] \notin Dying
  <2>1. CASE HandleKillSuccess(w)
    BY <1>1, <2>1 DEF HandleKillSuccess, TypeOK, Dying
  <2>2. CASE ~HandleKillSuccess(w)
    BY <1>1, <1>5, <2>2
    DEF Listener, HandleWorkerReadyResponse, HandleTaskExecutionResponse,
        HandleKillRequest, HandleKillFailure, threadVars
  <2> QED
    BY <2>1, <2>2
<1>6. ASSUME NEW w \in WorkerIds, WorkerEvent(w)
      PROVE  thread'[v] \notin Dying
  <2>1. CASE HandleWorkerError(w)
    BY <1>2, <2>1 DEF HandleWorkerError
  <2>2. CASE HandleWorkerExit(w)
    BY <1>1, <2>2 DEF HandleWorkerExit, TypeOK, Dying
  <2> QED
    BY <1>6, <2>1, <2>2 DEF WorkerEvent
<1>7. ASSUME NEW w \in WorkerIds, Thread(w) \/ Environment(w)
      PROVE  thread'[v] \notin Dying
  <2>1. CASE HandleKillMessage(w)
    <3>1. toWorker[w] # <<>> /\ Head(toWorker[w]).type = "kill"
      BY <2>1 DEF HandleKillMessage, WorkerReceives
    <3>2. v # w
      BY <1>1, <3>1, SparedHeads
    <3> QED
      BY <1>1, <2>1, <3>2 DEF HandleKillMessage, TypeOK
  <2>2. CASE HandleReadyMessage(w) \/ UncaughtError(w)
    BY <1>1, <2>2 DEF HandleReadyMessage, UncaughtError, TypeOK, Dying
  <2>3. CASE \/ RunTask(w) \/ RequestKill(w)
             \/ \E t \in Tasks, ok \in BOOLEAN : AnswerTask(w, t, ok)
    BY <1>1, <2>3 DEF RunTask, RequestKill, AnswerTask, threadVars
  <2> QED
    BY <1>7, <2>1, <2>2, <2>3 DEF Thread, Environment
<1> QED
  BY <1>3, <1>4, <1>5, <1>6, <1>7 DEF Next

LEMMA DestroyForGood ==
  ASSUME IInv, Next, destroy' = "none"
  PROVE  destroy = "none"
<1>1. CASE \/ Start \/ \E t \in Tasks : Execute(t)
           \/ \E w \in WorkerIds : HandleWorkerError(w)
  BY <1>1 DEF Start, Execute, HandleWorkerError, destroyVars
<1>2. CASE \E w \in WorkerIds : HandleWorkerExit(w)
  BY <1>2 DEF HandleWorkerExit
<1>3. CASE ~(\/ Start \/ \E t \in Tasks : Execute(t)
             \/ \E w \in WorkerIds : HandleWorkerError(w) \/ HandleWorkerExit(w))
  BY <1>3, OtherService
<1> QED
  BY <1>1, <1>2, <1>3

LEMMA SparedStep ==
  ASSUME IInv, IInv', StaticSpared, Next
  PROVE  StaticSpared'
<1> SUFFICES ASSUME destroy' = "none", NEW v \in WorkerIds,
                    thread'[v] = "none" \/ ~dynamic'[v]
             PROVE  /\ thread'[v] \notin Dying
                    /\ TasksOnly(toWorker'[v])
                    /\ NoneOfKills(toPool'[v])
  BY DEF StaticSpared, Spared, TasksOnly, NoneOfKills
<1>1. thread[v] = "none" \/ ~dynamic[v]
  BY StaticBefore
<1>2. Spared(v)
  BY <1>1, DestroyForGood DEF StaticSpared
<1> QED
  BY <1>1, <1>2, SparedThread, SparedChannelTo, SparedChannelFrom

-----------------------------------------------------------------------------
(* The theorems.                                                           *)

LEMMA SizeInit == Init => SizeInv
<1> SUFFICES ASSUME Init PROVE SizeInv
  OBVIOUS
<1>1. FixedHasNoDynamic /\ NoNodesBeforeStart /\ StaticNodesKept
  BY DEF Init, FixedHasNoDynamic, NoNodesBeforeStart, StaticNodesKept
<1>2. StaticSpared
  <2>1. OfTypes(<<>>, {"task"}) /\ OfTypes(<<>>, {"ready", "response"})
    BY EmptySeq DEF OfTypes
  <2> QED
    BY <2>1 DEF Init, StaticSpared, Spared, TasksOnly, NoneOfKills, Dying
<1>3. InServiceWithinMax
  <2>1. InService = {}
    BY EmptySeq DEF Init, InService, Listed
  <2>2. Cardinality({}) = 0 /\ MaxSize \in Nat
    BY FS_EmptySet, SizeAssumption
  <2> QED
    BY <2>1, <2>2 DEF InServiceWithinMax
<1> QED
  BY <1>1, <1>2, <1>3 DEF SizeInv

\* The invariant of the two theorems below.
THEOREM SizeInvAlways == Spec => []SizeInv
<1>1. IInv /\ IInv' /\ SizeInv /\ [Next]_vars => SizeInv'
  <2> SUFFICES ASSUME IInv, IInv', SizeInv, [Next]_vars PROVE SizeInv'
    OBVIOUS
  <2>1. CASE Next
    BY <2>1, SizeStep, KindsStep, SparedStep DEF SizeInv
  <2>2. CASE UNCHANGED vars
    <3>1. UNCHANGED <<started, starts, created, crashed, destroy, workerNodes,
                      dynamic, thread, toWorker, toPool>>
      BY <2>2
      DEF vars, poolVars, destroyVars, nodeVars, channelVars, threadVars,
          boundVars
    <3>2. InService' = InService
      BY <3>1 DEF InService, Listed
    <3> QED
      BY <3>1, <3>2
      DEF SizeInv, FixedHasNoDynamic, NoNodesBeforeStart, StaticSpared, Spared,
          InServiceWithinMax, StaticNodesKept
  <2> QED
    BY <2>1, <2>2
<1> QED
  BY <1>1, SizeInit, IInvAlways, PTL DEF Spec

\* However execute() on a busy dynamic pool, restarts after errors, kills of
\* inactive workers and destroy() interleave, no more than max nodes are in
\* service.
THEOREM InServiceAlwaysWithinMax == Spec => []InServiceWithinMax
<1>1. SizeInv => InServiceWithinMax
  BY DEF SizeInv
<1> QED
  BY <1>1, SizeInvAlways, PTL

\* Until destroy() is called a started pool that restarts workers on error
\* has exactly its numberOfWorkers static nodes in service, or the process
\* has ended because nobody listens to the pool's 'error' events.
THEOREM StaticNodesAlwaysKept == Spec => []StaticNodesKept
<1>1. SizeInv => StaticNodesKept
  BY DEF SizeInv
<1> QED
  BY <1>1, SizeInvAlways, PTL

=============================================================================
