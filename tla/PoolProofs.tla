----------------------------- MODULE PoolProofs -----------------------------
(***************************************************************************)
(* Theorems about Pool, for every value of its constants.                  *)
(***************************************************************************)
EXTENDS Pool, SequenceTheorems, FiniteSetTheorems,
        WellFoundedInduction, TLAPS

-----------------------------------------------------------------------------
(* The inductive invariant: the types, and what ties a worker's node, its  *)
(* channel and its thread together.                                        *)

\* Ids are handed out in order, each to a thread of its own.
IdsInOrder == \A w \in WorkerIds : thread[w] = "none" <=> w > created

\* No worker has two nodes.
NodesDistinct ==
  \A i, j \in DOMAIN workerNodes : workerNodes[i] = workerNodes[j] => i = j

\* A node is listed from the creation of its worker to its 'exit' event.
ListedUntilExit ==
  \A w \in WorkerIds : w \in Listed <=> thread[w] \notin {"none", "exited"}

\* The loop of redistributeQueuedTasks has a task to take at every turn, from
\* a node that stays listed for as long as it runs.
TaskToRedistribute ==
  redistributing # 0 =>
    /\ thread[redistributing] = "errored"
    /\ tasksQueue[redistributing] # <<>>

\* A channel is there as long as its thread is up, nothing waits on a closed
\* one, and it is closed before 'exit'.
ChannelsOpen ==
  \A w \in WorkerIds :
    /\ thread[w] \in {"starting", "running"} => channel[w]
    /\ toPool[w] # <<>> => channel[w]
    /\ channel[w] => thread[w] \in {"starting", "running", "closed", "failed"}

\* Only a worker that has closed its port has answered a kill message.
AnsweredWhenClosed ==
  \A w \in WorkerIds : \A i \in DOMAIN toPool[w] :
    toPool[w][i].type = "kill" /\ toPool[w][i].kill = "success"
      => thread[w] \in {"closed", "failed"}

NodesInv ==
  /\ IdsInOrder
  /\ NodesDistinct
  /\ ListedUntilExit
  /\ TaskToRedistribute
  /\ ChannelsOpen
  /\ AnsweredWhenClosed

IInv == TypeOK /\ NodesInv

-----------------------------------------------------------------------------
(* The helpers keep the types.                                             *)

LEMMA FunctionIsSeq ==
  ASSUME NEW S, NEW n \in Nat, NEW f \in [1 .. n -> S]
  PROVE  f \in Seq(S) /\ Len(f) = n
<1>1. f \in Seq(S)
  BY SeqDef
<1>2. DOMAIN f = 1 .. Len(f) /\ Len(f) \in Nat
  BY <1>1, LenProperties
<1> QED
  BY <1>1, <1>2

\* The new workers' ids follow the old ones in the array.
LEMMA AddedNodes ==
  ASSUME TypeOK, NEW n \in Nat, NEW isDynamic \in BOOLEAN,
         NEW isReady \in BOOLEAN, NEW gone, 
         AddWorkers(n, isDynamic, isReady, gone)
  PROVE  /\ workerNodes' \in Seq(WorkerIds)
         /\ Len(workerNodes') = Len(workerNodes) + n
         /\ \A i \in 1 .. Len(workerNodes') : workerNodes'[i] =
              IF i <= Len(workerNodes) THEN workerNodes[i]
              ELSE created + i - Len(workerNodes)
<1> DEFINE new == [i \in 1 .. n |-> created + i]
<1>1. created \in 0 .. Workers /\ Workers \in Nat /\ created + n <= Workers
  BY WorkersAssumption DEF TypeOK, AddWorkers
<1>2. new \in [1 .. n -> WorkerIds]
  BY <1>1 DEF WorkerIds
<1>3. new \in Seq(WorkerIds) /\ Len(new) = n
  BY <1>2, FunctionIsSeq
<1>4. workerNodes \in Seq(WorkerIds) /\ workerNodes' = workerNodes \o new
  BY DEF TypeOK, AddWorkers
<1> HIDE DEF new
<1>5. /\ workerNodes' \in Seq(WorkerIds)
      /\ Len(workerNodes') = Len(workerNodes) + n
      /\ \A i \in 1 .. Len(workerNodes') : workerNodes'[i] =
           IF i <= Len(workerNodes) THEN workerNodes[i]
           ELSE new[i - Len(workerNodes)]
  <2>1. /\ workerNodes \o new \in Seq(WorkerIds)
        /\ Len(workerNodes \o new) = Len(workerNodes) + Len(new)
        /\ \A i \in 1 .. Len(workerNodes) + Len(new) : (workerNodes \o new)[i] =
             IF i <= Len(workerNodes) THEN workerNodes[i]
             ELSE new[i - Len(workerNodes)]
    BY <1>3, <1>4, ConcatProperties, Zenon
  <2> QED
    BY <1>3, <1>4, <2>1, Zenon
<1>6. Len(workerNodes) \in Nat
  BY <1>4, LenProperties
<1>7. ASSUME NEW i \in 1 .. Len(workerNodes'), ~(i <= Len(workerNodes))
      PROVE  new[i - Len(workerNodes)] = created + i - Len(workerNodes)
  <2>1. i - Len(workerNodes) \in 1 .. n
    BY <1>5, <1>6, <1>7
  <2> QED
    BY <1>1, <1>6, <2>1 DEF new
<1>8. \A i \in 1 .. Len(workerNodes') : workerNodes'[i] =
        IF i <= Len(workerNodes) THEN workerNodes[i]
        ELSE created + i - Len(workerNodes)
  BY <1>5, <1>7
<1> QED
  BY <1>4, <1>5, <1>8

LEMMA AddedTypes ==
  ASSUME TypeOK, NEW n \in Nat, NEW isDynamic \in BOOLEAN,
         NEW isReady \in BOOLEAN, NEW gone,
         AddWorkers(n, isDynamic, isReady, gone)
  PROVE  /\ created' \in 0 .. Workers
         /\ workerNodes' \in Seq(WorkerIds)
         /\ ready' \in [WorkerIds -> BOOLEAN]
         /\ dynamic' \in [WorkerIds -> BOOLEAN]
         /\ channel' \in [WorkerIds -> BOOLEAN]
         /\ thread' \in [WorkerIds -> ThreadStates]
<1>1. created' \in 0 .. Workers
  BY WorkersAssumption DEF TypeOK, AddWorkers
<1>2. workerNodes' \in Seq(WorkerIds)
  BY AddedNodes
<1>3. ready' \in [WorkerIds -> BOOLEAN]
  BY DEF TypeOK, AddWorkers
<1>4. dynamic' \in [WorkerIds -> BOOLEAN]
  BY DEF TypeOK, AddWorkers
<1>5. channel' \in [WorkerIds -> BOOLEAN]
  BY DEF TypeOK, AddWorkers
<1>6. thread' \in [WorkerIds -> ThreadStates]
  BY DEF TypeOK, AddWorkers, ThreadStates
<1> QED
  BY <1>1, <1>2, <1>3, <1>4, <1>5, <1>6

LEMMA TaskMessageType ==
  ASSUME NEW t \in Tasks
  PROVE  <<TaskMessage(t)>> \in Seq(ToWorkerMessages)
BY DEF TaskMessage, ToWorkerMessages

LEMMA SentTypes ==
  ASSUME TypeOK, NEW w, NEW messages \in Seq(ToWorkerMessages),
         SendToWorker(w, messages)
  PROVE  toWorker' \in [WorkerIds -> Seq(ToWorkerMessages)]
<1>1. \A v \in WorkerIds : toWorker[v] \o messages \in Seq(ToWorkerMessages)
  BY ConcatProperties DEF TypeOK
<1> QED
  BY <1>1 DEF TypeOK, SendToWorker

LEMMA ExecutedTypes ==
  ASSUME TypeOK, NEW w \in WorkerIds, NEW t \in Tasks,
         NEW counters \in [WorkerIds -> Nat], ExecuteTask(w, t, counters)
  PROVE  /\ executing' \in [WorkerIds -> Nat]
         /\ toWorker' \in [WorkerIds -> Seq(ToWorkerMessages)]
<1>1. executing' \in [WorkerIds -> Nat]
  BY DEF ExecuteTask
<1> QED
  BY <1>1, TaskMessageType, SentTypes DEF ExecuteTask

LEMMA DequeuedTypes ==
  ASSUME TypeOK, NEW w \in WorkerIds, tasksQueue[w] # <<>>
  PROVE  /\ Head(tasksQueue[w]) \in Tasks
         /\ Dequeued(w) \in [WorkerIds -> Seq(Tasks)]
<1>1. Head(tasksQueue[w]) \in Tasks /\ Tail(tasksQueue[w]) \in Seq(Tasks)
  BY HeadTailProperties DEF TypeOK
<1> QED
  BY <1>1 DEF TypeOK, Dequeued

LEMMA FlushedTypes ==
  ASSUME TypeOK, NEW ws, NEW last \in Seq(ToWorkerMessages),
         FlushTasksQueues(ws, last)
  PROVE  /\ executing' \in [WorkerIds -> Nat]
         /\ tasksQueue' \in [WorkerIds -> Seq(Tasks)]
         /\ toWorker' \in [WorkerIds -> Seq(ToWorkerMessages)]
<1>1. \A w \in WorkerIds : Len(tasksQueue[w]) \in Nat
  BY LenProperties DEF TypeOK
<1>2. executing' \in [WorkerIds -> Nat]
  <2>1. executing \in [WorkerIds -> Nat]
    BY DEF TypeOK
  <2>2. executing' = [w \in WorkerIds |->
          IF w \notin ws THEN executing[w]
          ELSE IF channel[w] THEN executing[w] + Len(tasksQueue[w])
          ELSE IF tasksQueue[w] # <<>> THEN executing[w] + 1 ELSE executing[w]]
    BY DEF FlushTasksQueues
  <2>3. \A w \in WorkerIds : executing[w] \in Nat
    BY <2>1
  <2> QED
    BY ONLY <1>1, <2>2, <2>3
<1>3. tasksQueue' \in [WorkerIds -> Seq(Tasks)]
  <2>1. \A w \in WorkerIds :
          tasksQueue[w] # <<>> => Tail(tasksQueue[w]) \in Seq(Tasks)
    BY HeadTailProperties DEF TypeOK
  <2> QED
    BY <2>1, EmptySeq DEF TypeOK, FlushTasksQueues
<1>4. ASSUME NEW w \in WorkerIds
      PROVE  LET sent == [i \in DOMAIN tasksQueue[w] |->
                            TaskMessage(tasksQueue[w][i])]
             IN toWorker[w] \o sent \o last \in Seq(ToWorkerMessages)
  <2> DEFINE sent == [i \in DOMAIN tasksQueue[w] |->
                        TaskMessage(tasksQueue[w][i])]
  <2>1. /\ DOMAIN tasksQueue[w] = 1 .. Len(tasksQueue[w])
        /\ tasksQueue[w] \in [1 .. Len(tasksQueue[w]) -> Tasks]
    BY LenProperties DEF TypeOK
  <2>2. sent \in [1 .. Len(tasksQueue[w]) -> ToWorkerMessages]
    BY <2>1 DEF TaskMessage, ToWorkerMessages
  <2>3. sent \in Seq(ToWorkerMessages)
    BY <1>1, <2>2, FunctionIsSeq
  <2> HIDE DEF sent
  <2>4. toWorker[w] \o sent \in Seq(ToWorkerMessages)
    BY <2>3, ConcatProperties DEF TypeOK
  <2>5. toWorker[w] \o sent \o last \in Seq(ToWorkerMessages)
    BY <2>4, ConcatProperties
  <2> QED
    BY <2>5 DEF sent
<1>5. toWorker' \in [WorkerIds -> Seq(ToWorkerMessages)]
  BY <1>4 DEF TypeOK, FlushTasksQueues
<1> QED
  BY <1>2, <1>3, <1>5

LEMMA DestroyedTypes ==
  ASSUME TypeOK, NEW ws, NEW caller \in {"listener", "destroy"},
         DestroyWorkerNodes(ws, caller)
  PROVE  /\ executing' \in [WorkerIds -> Nat]
         /\ tasksQueue' \in [WorkerIds -> Seq(Tasks)]
         /\ toWorker' \in [WorkerIds -> Seq(ToWorkerMessages)]
         /\ killing' \in [WorkerIds -> SUBSET {"listener", "destroy"}]
<1>1. <<KillMessage>> \in Seq(ToWorkerMessages)
  BY DEF KillMessage, ToWorkerMessages
<1>2. killing' \in [WorkerIds -> SUBSET {"listener", "destroy"}]
  BY DEF TypeOK, DestroyWorkerNodes
<1> QED
  BY <1>1, <1>2, FlushedTypes DEF DestroyWorkerNodes

LEMMA ReceivedTypes ==
  ASSUME TypeOK, NEW w \in WorkerIds, toPool[w] # <<>>
  PROVE  /\ Head(toPool[w]) \in ToPoolMessages
         /\ [toPool EXCEPT ![w] = Tail(@)] \in [WorkerIds -> Seq(ToPoolMessages)]
<1>1. Head(toPool[w]) \in ToPoolMessages
      /\ Tail(toPool[w]) \in Seq(ToPoolMessages)
  BY HeadTailProperties DEF TypeOK
<1> QED
  BY <1>1 DEF TypeOK

LEMMA PostedTypes ==
  ASSUME TypeOK, NEW w \in WorkerIds, NEW m \in ToPoolMessages
  PROVE  [toPool EXCEPT ![w] = Append(@, m)] \in [WorkerIds -> Seq(ToPoolMessages)]
<1>1. Append(toPool[w], m) \in Seq(ToPoolMessages)
  BY AppendProperties DEF TypeOK
<1> QED
  BY <1>1 DEF TypeOK

LEMMA TakenTypes ==
  ASSUME TypeOK, NEW w \in WorkerIds, toWorker[w] # <<>>
  PROVE  /\ Head(toWorker[w]) \in ToWorkerMessages
         /\ [toWorker EXCEPT ![w] = Tail(@)] \in [WorkerIds -> Seq(ToWorkerMessages)]
<1>1. Head(toWorker[w]) \in ToWorkerMessages
      /\ Tail(toWorker[w]) \in Seq(ToWorkerMessages)
  BY HeadTailProperties DEF TypeOK
<1> QED
  BY <1>1 DEF TypeOK

LEMMA ListedWorkers == TypeOK => Listed \subseteq WorkerIds
BY LenProperties, ElementOfSeq DEF TypeOK, Listed

\* A key names a listed node, and KeyOf is the key of its node.
LEMMA NodeIsListed ==
  ASSUME TypeOK, NEW k \in Keys
  PROVE  Node(k) \in Listed /\ Node(k) \in WorkerIds
<1>1. Len(workerNodes) \in Nat /\ DOMAIN workerNodes = 1 .. Len(workerNodes)
  BY LenProperties DEF TypeOK
<1>2. k + 1 \in 1 .. Len(workerNodes)
  BY <1>1 DEF Keys
<1>3. workerNodes[k + 1] \in WorkerIds
  BY <1>2, ElementOfSeq DEF TypeOK
<1> QED
  BY <1>1, <1>2, <1>3 DEF Node, Listed

LEMMA KeyOfListed ==
  ASSUME TypeOK, NEW w \in Listed
  PROVE  KeyOf(w) \in Keys /\ Node(KeyOf(w)) = w
<1>1. PICK i \in DOMAIN workerNodes : workerNodes[i] = w
  BY DEF Listed
<1>2. Len(workerNodes) \in Nat /\ DOMAIN workerNodes = 1 .. Len(workerNodes)
  BY LenProperties DEF TypeOK
<1>3. i - 1 \in Keys /\ Node(i - 1) = w
  BY <1>1, <1>2 DEF Keys, Node
<1> QED
  BY <1>3 DEF KeyOf

LEMMA SmallestElement ==
  ASSUME NEW S \in SUBSET Nat, S # {}
  PROVE  \E m \in S : \A n \in S : m <= n
<1>1. \E m \in S : \A n \in S : ~ (<<n, m>> \in OpToRel(<, Nat))
  BY NatLessThanWellFounded, WFMin
<1>2. \A m, n \in Nat : <<n, m>> \in OpToRel(<, Nat) <=> n < m
  BY DEF OpToRel
<1>3. PICK m \in S : \A n \in S : ~ (<<n, m>> \in OpToRel(<, Nat))
  BY <1>1
<1>4. ASSUME NEW n \in S PROVE m <= n
  <2>1. m \in Nat /\ n \in Nat /\ ~ (n < m)
    BY <1>2, <1>3
  <2> QED
    BY <2>1
<1> QED
  BY <1>4

\* The redistribution sends every task to a listed node.
LEMMA DestinationListed ==
  ASSUME TypeOK, workerNodes # <<>>
  PROVE  Destination \in Listed
<1> DEFINE queued(k) == Len(tasksQueue[Node(k)])
           shorter == {k \in Keys : ready[Node(k)] /\ queued(k) < queued(0)}
           first(k) == \A j \in shorter :
             queued(k) < queued(j) \/ (queued(k) = queued(j) /\ k <= j)
<1>1. 0 \in Keys
  BY EmptySeq DEF TypeOK, Keys
<1>2. Node(0) \in Listed
  BY <1>1, NodeIsListed
<1>3. ASSUME shorter # {} PROVE Node(CHOOSE k \in shorter : first(k)) \in Listed
  <2>1. \E k \in shorter : first(k)
    <3> DEFINE lengths == {queued(k) : k \in shorter}
               shortest(n) == {k \in shorter : queued(k) = n}
    <3>1. shorter \subseteq Nat
      BY DEF Keys
    <3>2. \A k \in Keys : queued(k) \in Nat
      BY NodeIsListed, LenProperties DEF TypeOK
    <3>3. shorter \subseteq Keys
      OBVIOUS
    <3> HIDE DEF shorter, queued
    <3>4. lengths \subseteq Nat /\ lengths # {}
      BY <1>3, <3>2, <3>3
    <3>5. PICK n \in lengths : \A l \in lengths : n <= l
      BY <3>4, SmallestElement
    <3>6. shortest(n) \subseteq Nat /\ shortest(n) # {}
      BY <3>1
    <3>7. PICK m \in shortest(n) : \A j \in shortest(n) : m <= j
      BY <3>6, SmallestElement
    <3>8. ASSUME NEW j \in shorter, queued(j) # n PROVE n < queued(j)
      <4>1. queued(j) \in lengths
        OBVIOUS
      <4>2. queued(j) \in Nat /\ n \in Nat /\ n <= queued(j)
        BY <3>4, <3>5, <4>1
      <4> QED
        BY <3>8, <4>2
    <3> QED
      BY <3>7, <3>8
  <2>2. (CHOOSE k \in shorter : first(k)) \in Keys
    BY <2>1
  <2> QED
    BY <2>2, NodeIsListed
<1> QED
  BY <1>2, <1>3 DEF Destination

-----------------------------------------------------------------------------
(* Every step keeps the types.                                             *)

USE DEF poolVars, settingVars, destroyVars, nodeVars, queueVars, taskVars,
        channelVars, threadVars, boundVars

\* The caller's actions.
LEMMA StaticMissing ==
  ASSUME TypeOK, Start
  PROVE  \E n \in Nat : AddWorkers(n, FALSE, TRUE, {})
<1> DEFINE static == {w \in Listed : ~dynamic[w]}
<1>1. Cardinality(static) \in Nat
  <2>1. static \subseteq WorkerIds
    BY ListedWorkers
  <2>2. IsFiniteSet(WorkerIds)
    BY WorkersAssumption, FS_Interval DEF WorkerIds
  <2> QED
    BY <2>1, <2>2, FS_Subset, FS_CardinalityType
<1>2. MinSize \in Nat
  BY SizeAssumption
<1>3. CASE Cardinality(static) < MinSize
  <2>1. MinSize - Cardinality(static) \in Nat
    BY <1>1, <1>2, <1>3
  <2> QED
    BY <1>3, <2>1 DEF Start
<1>4. CASE ~(Cardinality(static) < MinSize)
  BY <1>4 DEF Start
<1> QED
  BY <1>3, <1>4

LEMMA StartTypes == TypeOK /\ Start => TypeOK'
<1> SUFFICES ASSUME TypeOK, Start PROVE TypeOK'
  OBVIOUS
<1>1. /\ created' \in 0 .. Workers
      /\ workerNodes' \in Seq(WorkerIds)
      /\ ready' \in [WorkerIds -> BOOLEAN]
      /\ dynamic' \in [WorkerIds -> BOOLEAN]
      /\ channel' \in [WorkerIds -> BOOLEAN]
      /\ thread' \in [WorkerIds -> ThreadStates]
  BY StaticMissing, AddedTypes
<1>2. started' \in BOOLEAN /\ starts' \in Nat
  BY DEF TypeOK, Start
<1> QED
  BY <1>1, <1>2 DEF TypeOK, Start

LEMMA ExecuteNotStartedTypes ==
  ASSUME TypeOK, NEW t \in Tasks, ExecuteNotStarted(t)
  PROVE  TypeOK'
BY DEF TypeOK, ExecuteNotStarted

LEMMA ExecuteTypes ==
  ASSUME TypeOK, NEW t \in Tasks, Execute(t)
  PROVE  TypeOK'
<1>1. PICK n \in {0, 1} : AddWorkers(n, TRUE, TRUE, {})
  BY DEF Execute
<1>2. /\ created' \in 0 .. Workers
      /\ workerNodes' \in Seq(WorkerIds)
      /\ ready' \in [WorkerIds -> BOOLEAN]
      /\ dynamic' \in [WorkerIds -> BOOLEAN]
      /\ channel' \in [WorkerIds -> BOOLEAN]
      /\ thread' \in [WorkerIds -> ThreadStates]
  BY <1>1, AddedTypes
<1>3. Len(workerNodes') \in Nat
  BY <1>2, LenProperties
<1>4. PICK key \in Choices(Len(workerNodes')) :
        LET found == key \in 0 .. Len(workerNodes') - 1
            w == workerNodes'[key + 1]
        IN
        /\ RoundRobinNext(Len(workerNodes'))
        /\ promiseResponseMap' = [promiseResponseMap EXCEPT ![t] = key]
        /\ \/ /\ ~found
              /\ promise' = [promise EXCEPT ![t] = "rejected"]
              /\ UNCHANGED <<queueVars, toWorker>>
           \/ /\ found /\ ShallExecuteTask(w, tasksQueue)
              /\ ExecuteTask(w, t, executing)
              /\ promise' = [promise EXCEPT
                   ![t] = IF HasChannel(w) THEN "pending" ELSE "rejected"]
              /\ UNCHANGED tasksQueue
           \/ /\ found /\ ~ShallExecuteTask(w, tasksQueue)
              /\ tasksQueue' = [tasksQueue EXCEPT ![w] = Append(@, t)]
              /\ promise' = [promise EXCEPT ![t] = "pending"]
              /\ UNCHANGED <<executing, toWorker>>
  BY DEF Execute
<1> DEFINE found == key \in 0 .. Len(workerNodes') - 1
           w == workerNodes'[key + 1]
<1>5. promiseResponseMap' \in [Tasks -> Int]
  <2>1. key \in Int
    BY <1>3, <1>4 DEF Choices, TypeOK
  <2> QED
    BY <1>4, <2>1 DEF TypeOK
<1>6. nextWorkerNodeKey' \in Int
  BY <1>3, <1>4 DEF RoundRobinNext, TypeOK
<1>7. promise' \in [Tasks -> {"none", "pending", "resolved", "rejected"}]
  BY <1>4 DEF TypeOK
<1>8. /\ executing' \in [WorkerIds -> Nat]
      /\ tasksQueue' \in [WorkerIds -> Seq(Tasks)]
      /\ toWorker' \in [WorkerIds -> Seq(ToWorkerMessages)]
  <2>1. CASE UNCHANGED <<queueVars, toWorker>>
    BY <2>1 DEF TypeOK
  <2>2. CASE ~ UNCHANGED <<queueVars, toWorker>>
    <3>1. found
      BY <1>4, <2>2
    <3>2. key + 1 \in 1 .. Len(workerNodes')
      BY <1>3, <3>1
    <3>3. w \in WorkerIds
      BY <1>2, <3>2, ElementOfSeq
    <3>4. CASE ExecuteTask(w, t, executing) /\ UNCHANGED tasksQueue
      <4>1. executing \in [WorkerIds -> Nat]
        BY DEF TypeOK
      <4> QED
        BY <3>3, <3>4, <4>1, ExecutedTypes DEF TypeOK
    <3>5. CASE /\ tasksQueue' = [tasksQueue EXCEPT ![w] = Append(@, t)]
               /\ UNCHANGED <<executing, toWorker>>
      <4>1. Append(tasksQueue[w], t) \in Seq(Tasks)
        BY <3>3, AppendProperties DEF TypeOK
      <4> QED
        BY <3>3, <3>5, <4>1 DEF TypeOK
    <3> QED
      BY <1>4, <2>2, <3>4, <3>5
  <2> QED
    BY <2>1, <2>2
<1> QED
  BY <1>2, <1>5, <1>6, <1>7, <1>8 DEF TypeOK, Execute

LEMMA DestroyTypes == TypeOK /\ Destroy => TypeOK'
<1> SUFFICES ASSUME TypeOK, Destroy PROVE TypeOK'
  OBVIOUS
<1>1. /\ executing' \in [WorkerIds -> Nat]
      /\ tasksQueue' \in [WorkerIds -> Seq(Tasks)]
      /\ toWorker' \in [WorkerIds -> Seq(ToWorkerMessages)]
      /\ killing' \in [WorkerIds -> SUBSET {"listener", "destroy"}]
  BY DestroyedTypes DEF Destroy
<1>2. Listed \subseteq WorkerIds
  BY ListedWorkers
<1>3. /\ destroy' \in {"none", "pending", "resolved", "rejected"}
      /\ awaiting' \in SUBSET WorkerIds
      /\ started' \in BOOLEAN
  BY <1>2 DEF TypeOK, Destroy
<1> QED
  BY <1>1, <1>3 DEF TypeOK, Destroy

LEMMA SetWorkerChoiceStrategyTypes ==
  TypeOK /\ SetWorkerChoiceStrategy => TypeOK'
BY DEF TypeOK, SetWorkerChoiceStrategy

LEMMA SetEnableTasksQueueTypes ==
  ASSUME TypeOK, NEW enable \in BOOLEAN, SetEnableTasksQueue(enable)
  PROVE  TypeOK'
<1>1. /\ executing' \in [WorkerIds -> Nat]
      /\ tasksQueue' \in [WorkerIds -> Seq(Tasks)]
      /\ toWorker' \in [WorkerIds -> Seq(ToWorkerMessages)]
  <2>1. CASE enableTasksQueue /\ ~enable
    <3>1. PICK ws : FlushTasksQueues(ws, <<>>)
      BY <2>1 DEF SetEnableTasksQueue
    <3> QED
      BY <3>1, EmptySeq, FlushedTypes
  <2>2. CASE ~(enableTasksQueue /\ ~enable)
    BY <2>2 DEF TypeOK, SetEnableTasksQueue
  <2> QED
    BY <2>1, <2>2
<1>2. enableTasksQueue' \in BOOLEAN /\ changes' \in Nat
  BY DEF TypeOK, SetEnableTasksQueue
<1> QED
  BY <1>1, <1>2 DEF TypeOK, SetEnableTasksQueue

\* The pool's listeners of messages.
LEMMA HandleWorkerReadyResponseTypes ==
  ASSUME TypeOK, NEW w \in WorkerIds, HandleWorkerReadyResponse(w)
  PROVE  TypeOK'
BY ReceivedTypes DEF TypeOK, HandleWorkerReadyResponse, Received

LEMMA ResponseFields ==
  ASSUME NEW m \in ToPoolMessages, m.type = "response"
  PROVE  m.task \in Tasks /\ m.ok \in BOOLEAN
BY DEF ToPoolMessages

LEMMA HandleTaskExecutionResponseTypes ==
  ASSUME TypeOK, NEW w \in WorkerIds, HandleTaskExecutionResponse(w)
  PROVE  TypeOK'
<1> DEFINE message == Head(toPool[w])
           t == message.task
           key == promiseResponseMap[t]
           x == Node(key)
           left == Decremented(executing[x])
<1>1. toPool[w] # <<>> /\ message.type = "response"
      /\ toPool' = [toPool EXCEPT ![w] = Tail(@)]
  BY DEF HandleTaskExecutionResponse, Received
<1>2. message \in ToPoolMessages /\ toPool' \in [WorkerIds -> Seq(ToPoolMessages)]
  BY <1>1, ReceivedTypes
<1>3. t \in Tasks
  BY <1>1, <1>2, ResponseFields
<1>4. promise' \in [Tasks -> {"none", "pending", "resolved", "rejected"}]
  BY DEF TypeOK, HandleTaskExecutionResponse
<1>5. promiseResponseMap' \in [Tasks -> Int]
  <2>1. promiseResponseMap \in [Tasks -> Int] /\ NoEntry \in Int
    BY DEF TypeOK, NoEntry
  <2>2. \/ UNCHANGED promiseResponseMap
        \/ promiseResponseMap' = [promiseResponseMap EXCEPT ![t] = NoEntry]
    BY DEF HandleTaskExecutionResponse
  <2> QED
    BY ONLY <2>1, <2>2
<1>6. crashed' \in BOOLEAN
  BY DEF TypeOK, HandleTaskExecutionResponse
<1>7. /\ executing' \in [WorkerIds -> Nat]
      /\ tasksQueue' \in [WorkerIds -> Seq(Tasks)]
      /\ toWorker' \in [WorkerIds -> Seq(ToWorkerMessages)]
  <2>1. CASE key \notin Keys
    BY <2>1 DEF TypeOK, HandleTaskExecutionResponse
  <2>2. CASE key \in Keys
    <3>1. x \in WorkerIds
      BY <2>2, NodeIsListed
    <3>2. executing[x] \in Nat
      BY <3>1 DEF TypeOK
    <3>3. left \in Nat
      BY <3>2 DEF Decremented
    <3>4. [executing EXCEPT ![x] = left] \in [WorkerIds -> Nat]
      BY <3>3 DEF TypeOK
    <3>5. CASE enableTasksQueue /\ tasksQueue[x] # <<>> /\ left < Concurrency
      <4>1. /\ Head(tasksQueue[x]) \in Tasks
            /\ Dequeued(x) \in [WorkerIds -> Seq(Tasks)]
        BY <3>1, <3>5, DequeuedTypes
      <4>2. /\ ExecuteTask(x, Head(tasksQueue[x]), [executing EXCEPT ![x] = left])
            /\ tasksQueue' = Dequeued(x)
        BY <2>2, <3>5 DEF HandleTaskExecutionResponse
      <4> QED
        BY <3>1, <3>4, <4>1, <4>2, ExecutedTypes
    <3>6. CASE ~(enableTasksQueue /\ tasksQueue[x] # <<>> /\ left < Concurrency)
      <4>1. /\ executing' = [executing EXCEPT ![x] = left]
            /\ UNCHANGED <<tasksQueue, toWorker>>
        BY <2>2, <3>6 DEF HandleTaskExecutionResponse
      <4> QED
        BY <3>4, <4>1 DEF TypeOK
    <3> QED
      BY <3>5, <3>6
  <2> QED
    BY <2>1, <2>2
<1> QED
  BY <1>2, <1>4, <1>5, <1>6, <1>7 DEF TypeOK, HandleTaskExecutionResponse

LEMMA HandleKillRequestTypes ==
  ASSUME TypeOK, NEW w \in WorkerIds, HandleKillRequest(w)
  PROVE  TypeOK'
<1>1. toPool' \in [WorkerIds -> Seq(ToPoolMessages)]
  BY ReceivedTypes DEF HandleKillRequest, Received
<1>2. /\ executing' \in [WorkerIds -> Nat]
      /\ tasksQueue' \in [WorkerIds -> Seq(Tasks)]
      /\ toWorker' \in [WorkerIds -> Seq(ToWorkerMessages)]
      /\ killing' \in [WorkerIds -> SUBSET {"listener", "destroy"}]
  <2>1. CASE DestroyWorkerNodes({w}, "listener")
    BY <2>1, DestroyedTypes
  <2>2. CASE UNCHANGED <<queueVars, toWorker, killing>>
    BY <2>2 DEF TypeOK
  <2> QED
    BY <2>1, <2>2 DEF HandleKillRequest
<1> QED
  BY <1>1, <1>2 DEF TypeOK, HandleKillRequest

LEMMA HandleKillSuccessTypes ==
  ASSUME TypeOK, NEW w \in WorkerIds, HandleKillSuccess(w)
  PROVE  TypeOK'
BY EmptySeq DEF TypeOK, HandleKillSuccess, ThreadStates

LEMMA HandleKillFailureTypes ==
  ASSUME TypeOK, NEW w \in WorkerIds, HandleKillFailure(w)
  PROVE  TypeOK'
BY ReceivedTypes DEF TypeOK, HandleKillFailure, Received

\* The pool's listeners of worker events, and the redistribution.
LEMMA HandleWorkerErrorTypes ==
  ASSUME TypeOK, NEW w \in WorkerIds, HandleWorkerError(w)
  PROVE  TypeOK'
<1>1. PICK n \in {0, 1} : AddWorkers(n, dynamic[w], dynamic[w], {w})
  BY DEF HandleWorkerError
<1>2. dynamic[w] \in BOOLEAN
  BY DEF TypeOK
<1>3. /\ created' \in 0 .. Workers
      /\ workerNodes' \in Seq(WorkerIds)
      /\ ready' \in [WorkerIds -> BOOLEAN]
      /\ dynamic' \in [WorkerIds -> BOOLEAN]
      /\ channel' \in [WorkerIds -> BOOLEAN]
      /\ thread' \in [WorkerIds -> ThreadStates]
  BY <1>1, <1>2, AddedTypes
<1>4. /\ crashed' \in BOOLEAN
      /\ redistributing' \in WorkerIds \cup {0}
      /\ toPool' \in [WorkerIds -> Seq(ToPoolMessages)]
  BY EmptySeq DEF TypeOK, HandleWorkerError
<1> QED
  BY <1>3, <1>4 DEF TypeOK, HandleWorkerError

LEMMA RedistributeQueuedTaskTypes ==
  ASSUME IInv, RedistributeQueuedTask
  PROVE  TypeOK'
<1> DEFINE w == redistributing
           t == Head(tasksQueue[w])
           rest == Dequeued(w)
<1>1. TypeOK /\ w \in WorkerIds /\ w \in Listed /\ tasksQueue[w] # <<>>
  BY DEF IInv, NodesInv, TypeOK, TaskToRedistribute, ListedUntilExit,
         RedistributeQueuedTask
<1>2. Destination \in WorkerIds
  BY <1>1, DestinationListed, ListedWorkers, EmptySeq DEF Listed
<1>3. t \in Tasks /\ rest \in [WorkerIds -> Seq(Tasks)]
  BY <1>1, DequeuedTypes
<1>4. /\ executing' \in [WorkerIds -> Nat]
      /\ tasksQueue' \in [WorkerIds -> Seq(Tasks)]
      /\ toWorker' \in [WorkerIds -> Seq(ToWorkerMessages)]
      /\ crashed' \in BOOLEAN
  <2>1. CASE /\ ExecuteTask(Destination, t, executing)
             /\ tasksQueue' = rest
             /\ crashed' = ~HasChannel(Destination)
    <3>1. executing \in [WorkerIds -> Nat]
      BY <1>1 DEF TypeOK
    <3> QED
      BY <1>1, <1>2, <1>3, <2>1, <3>1, ExecutedTypes
  <2>2. CASE /\ tasksQueue' = [rest EXCEPT ![Destination] = Append(@, t)]
             /\ UNCHANGED <<executing, toWorker, crashed>>
    <3>1. Append(rest[Destination], t) \in Seq(Tasks)
      BY <1>2, <1>3, AppendProperties
    <3> QED
      BY <1>1, <1>2, <1>3, <2>2, <3>1 DEF TypeOK
  <2> QED
    BY <2>1, <2>2 DEF RedistributeQueuedTask
<1>5. redistributing' \in WorkerIds \cup {0}
  BY <1>1 DEF RedistributeQueuedTask
<1> QED
  BY <1>1, <1>4, <1>5 DEF TypeOK, RedistributeQueuedTask

\* Taking one element out of an array.
LEMMA SplicedSeq ==
  ASSUME NEW S, NEW s \in Seq(S), NEW k \in 0 .. Len(s) - 1
  PROVE  LET spliced == SubSeq(s, 1, k) \o SubSeq(s, k + 2, Len(s)) IN
         /\ spliced \in Seq(S)
         /\ Len(spliced) = Len(s) - 1
         /\ \A i \in 1 .. Len(s) - 1 :
              spliced[i] = IF i <= k THEN s[i] ELSE s[i + 1]
<1> DEFINE front == SubSeq(s, 1, k)
           back == SubSeq(s, k + 2, Len(s))
<1>1. Len(s) \in Nat /\ k \in Int /\ k + 2 \in Int
  BY LenProperties
<1>2. \A i \in 1 .. Len(s) : s[i] \in S
  BY ElementOfSeq
<1>3. /\ front \in Seq(S) /\ Len(front) = k
      /\ \A i \in 1 .. k : front[i] = s[i]
  <2>1. \A i \in 1 .. k : s[i] \in S
    BY <1>1, <1>2
  <2>2. /\ front \in Seq(S)
        /\ Len(front) = IF 1 <= k THEN k - 1 + 1 ELSE 0
        /\ \A i \in 1 .. k - 1 + 1 : front[i] = s[1 + i - 1]
    BY <1>1, <2>1, SubSeqProperties
  <2> QED
    BY <1>1, <2>2
<1>4. /\ back \in Seq(S) /\ Len(back) = Len(s) - k - 1
      /\ \A i \in 1 .. Len(s) - k - 1 : back[i] = s[k + 1 + i]
  <2>1. \A i \in k + 2 .. Len(s) : s[i] \in S
    BY <1>1, <1>2
  <2>2. /\ back \in Seq(S)
        /\ Len(back) = IF k + 2 <= Len(s) THEN Len(s) - (k + 2) + 1 ELSE 0
        /\ \A i \in 1 .. Len(s) - (k + 2) + 1 : back[i] = s[k + 2 + i - 1]
    BY <1>1, <2>1, SubSeqProperties
  <2> QED
    BY <1>1, <2>2
<1> HIDE DEF front, back
<1>5. /\ front \o back \in Seq(S)
      /\ Len(front \o back) = Len(front) + Len(back)
      /\ \A i \in 1 .. Len(front) + Len(back) : (front \o back)[i] =
           IF i <= Len(front) THEN front[i] ELSE back[i - Len(front)]
  BY <1>3, <1>4, ConcatProperties
<1>6. Len(front) + Len(back) = Len(s) - 1
  BY <1>1, <1>3, <1>4
<1>7. ASSUME NEW i \in 1 .. Len(s) - 1
      PROVE  (front \o back)[i] = IF i <= k THEN s[i] ELSE s[i + 1]
  <2>1. (front \o back)[i] = IF i <= k THEN front[i] ELSE back[i - k]
    BY <1>3, <1>5, <1>6
  <2>2. CASE i <= k
    BY <1>1, <1>3, <2>1, <2>2
  <2>3. CASE ~(i <= k)
    <3>1. i - k \in 1 .. Len(s) - k - 1 /\ k + 1 + (i - k) = i + 1
      BY <1>1, <2>3
    <3>2. back[i - k] = s[i + 1]
      BY <1>4, <3>1
    <3> QED
      BY <2>1, <2>3, <3>2
  <2> QED
    BY <2>2, <2>3
<1>8. /\ front \o back \in Seq(S)
      /\ Len(front \o back) = Len(s) - 1
      /\ \A i \in 1 .. Len(s) - 1 :
           (front \o back)[i] = IF i <= k THEN s[i] ELSE s[i + 1]
  BY <1>5, <1>6, <1>7
<1> QED
  BY <1>8 DEF front, back

LEMMA HandleWorkerExitTypes ==
  ASSUME IInv, NEW w \in WorkerIds, HandleWorkerExit(w)
  PROVE  TypeOK'
<1>1. TypeOK /\ w \in Listed
  BY DEF IInv, NodesInv, ListedUntilExit, HandleWorkerExit
<1>2. KeyOf(w) \in Keys
  BY <1>1, KeyOfListed
<1>3. Len(workerNodes) \in Nat
  BY <1>1, LenProperties DEF TypeOK
<1>4. workerNodes' \in Seq(WorkerIds)
  BY <1>1, <1>2, SplicedSeq DEF TypeOK, Keys, HandleWorkerExit
<1>5. nextWorkerNodeKey' \in Int
  BY <1>1, <1>3 DEF TypeOK, HandleWorkerExit, RoundRobinRemove
<1>6. /\ thread' \in [WorkerIds -> ThreadStates]
      /\ awaiting' \in SUBSET WorkerIds
      /\ destroy' \in {"none", "pending", "resolved", "rejected"}
      /\ started' \in BOOLEAN
  BY <1>1 DEF TypeOK, HandleWorkerExit, ThreadStates
<1> QED
  BY <1>1, <1>4, <1>5, <1>6 DEF TypeOK, HandleWorkerExit

\* The threads' actions.
LEMMA HandleReadyMessageTypes ==
  ASSUME TypeOK, NEW w \in WorkerIds, HandleReadyMessage(w)
  PROVE  TypeOK'
<1>1. [type |-> "ready"] \in ToPoolMessages
  BY DEF ToPoolMessages
<1>2. toPool' \in [WorkerIds -> Seq(ToPoolMessages)]
  BY <1>1, PostedTypes DEF HandleReadyMessage
<1> QED
  BY <1>2 DEF TypeOK, HandleReadyMessage, ThreadStates

LEMMA RunTaskTypes ==
  ASSUME TypeOK, NEW w \in WorkerIds, RunTask(w)
  PROVE  TypeOK'
<1> DEFINE t == Head(toWorker[w]).task
<1>1. /\ Head(toWorker[w]) \in ToWorkerMessages
      /\ toWorker' \in [WorkerIds -> Seq(ToWorkerMessages)]
  BY TakenTypes DEF RunTask, WorkerReceives
<1>2. t \in Tasks
  BY <1>1 DEF RunTask, WorkerReceives, ToWorkerMessages
<1>3. /\ running' = [running EXCEPT ![w] = @ \cup {t}]
      /\ runs' = [runs EXCEPT ![t] = @ + 1]
  BY DEF RunTask
<1>4. running' \in [WorkerIds -> SUBSET Tasks] /\ runs' \in [Tasks -> Nat]
  BY <1>2, <1>3 DEF TypeOK
<1> QED
  BY <1>1, <1>4 DEF TypeOK, RunTask

LEMMA AnswerTaskTypes ==
  ASSUME TypeOK, NEW w \in WorkerIds, NEW t \in Tasks, NEW ok \in BOOLEAN,
         AnswerTask(w, t, ok)
  PROVE  TypeOK'
<1>1. [type |-> "response", task |-> t, ok |-> ok] \in ToPoolMessages
  BY DEF ToPoolMessages
<1>2. toPool' \in [WorkerIds -> Seq(ToPoolMessages)]
  BY <1>1, PostedTypes DEF AnswerTask
<1> QED
  BY <1>2 DEF TypeOK, AnswerTask

LEMMA RequestKillTypes ==
  ASSUME TypeOK, NEW w \in WorkerIds, RequestKill(w)
  PROVE  TypeOK'
<1>1. [type |-> "kill", kill |-> KillBehavior] \in ToPoolMessages
  BY OptionAssumption DEF ToPoolMessages
<1>2. toPool' \in [WorkerIds -> Seq(ToPoolMessages)]
  BY <1>1, PostedTypes DEF RequestKill
<1>3. killRequests' \in Nat
  BY DEF TypeOK, RequestKill
<1> QED
  BY <1>2, <1>3 DEF TypeOK, RequestKill

LEMMA HandleKillMessageTypes ==
  ASSUME TypeOK, NEW w \in WorkerIds, HandleKillMessage(w)
  PROVE  TypeOK'
<1>1. \A outcome \in {"success", "failure"} :
        [type |-> "kill", kill |-> outcome] \in ToPoolMessages
  BY DEF ToPoolMessages
<1>2. toPool' \in [WorkerIds -> Seq(ToPoolMessages)]
  <2>1. PICK outcome \in {"success", "failure"} :
          toPool' = IF KillHandler = "async" THEN toPool
                    ELSE [toPool EXCEPT ![w] =
                            Append(@, [type |-> "kill", kill |-> outcome])]
    BY DEF HandleKillMessage, KillOutcomes
  <2> DEFINE answer == [type |-> "kill", kill |-> outcome]
  <2>2. answer \in ToPoolMessages
    BY <1>1
  <2> HIDE DEF answer
  <2>3. [toPool EXCEPT ![w] = Append(@, answer)]
          \in [WorkerIds -> Seq(ToPoolMessages)]
    BY <2>2, PostedTypes
  <2> QED
    BY <2>1, <2>3 DEF TypeOK, answer
<1>3. toWorker' \in [WorkerIds -> Seq(ToWorkerMessages)]
  BY EmptySeq DEF TypeOK, HandleKillMessage
<1>4. thread' \in [WorkerIds -> ThreadStates]
  BY DEF TypeOK, HandleKillMessage, ThreadStates
<1> QED
  BY <1>2, <1>3, <1>4 DEF TypeOK, HandleKillMessage

LEMMA UncaughtErrorTypes ==
  ASSUME TypeOK, NEW w \in WorkerIds, UncaughtError(w)
  PROVE  TypeOK'
<1>1. toWorker' \in [WorkerIds -> Seq(ToWorkerMessages)]
  BY EmptySeq DEF TypeOK, UncaughtError
<1>2. /\ thread' \in [WorkerIds -> ThreadStates]
      /\ running' \in [WorkerIds -> SUBSET Tasks]
  BY DEF TypeOK, UncaughtError, ThreadStates
<1> QED
  BY <1>1, <1>2 DEF TypeOK, UncaughtError

LEMMA NextTypes ==
  ASSUME IInv, Next
  PROVE  TypeOK'
<1>1. TypeOK
  BY DEF IInv
<1>2. CASE Caller
  BY <1>1, <1>2, StartTypes, ExecuteNotStartedTypes, ExecuteTypes,
     DestroyTypes, SetWorkerChoiceStrategyTypes, SetEnableTasksQueueTypes
  DEF Caller
<1>3. CASE RedistributeQueuedTask
  BY <1>3, RedistributeQueuedTaskTypes
<1>4. ASSUME NEW w \in WorkerIds, Listener(w) PROVE TypeOK'
  BY <1>1, <1>4, HandleWorkerReadyResponseTypes,
     HandleTaskExecutionResponseTypes, HandleKillRequestTypes,
     HandleKillSuccessTypes, HandleKillFailureTypes
  DEF Listener
<1>5. ASSUME NEW w \in WorkerIds, WorkerEvent(w) PROVE TypeOK'
  BY <1>1, <1>5, HandleWorkerErrorTypes, HandleWorkerExitTypes
  DEF WorkerEvent
<1>6. ASSUME NEW w \in WorkerIds, Thread(w) PROVE TypeOK'
  BY <1>1, <1>6, HandleReadyMessageTypes, RunTaskTypes, AnswerTaskTypes,
     HandleKillMessageTypes
  DEF Thread
<1>7. ASSUME NEW w \in WorkerIds, Environment(w) PROVE TypeOK'
  BY <1>1, <1>7, RequestKillTypes, UncaughtErrorTypes DEF Environment
<1> QED
  BY <1>2, <1>3, <1>4, <1>5, <1>6, <1>7 DEF Next

-----------------------------------------------------------------------------
(* Every step keeps nodes, channels and threads together.                  *)

\* Handlers that only take a message, if anything, from a channel.
LEMMA KeptNodes ==
  ASSUME IInv, UNCHANGED <<workerNodes, created, channel, thread>>,
         \A w \in WorkerIds :
           \/ toPool'[w] = toPool[w]
           \/ toPool[w] # <<>> /\ toPool'[w] = Tail(toPool[w]),
         TaskToRedistribute'
  PROVE  NodesInv'
<1>1. TypeOK /\ NodesInv
  BY DEF IInv
<1>2. ASSUME NEW w \in WorkerIds, NEW i \in DOMAIN toPool'[w]
      PROVE  \E j \in DOMAIN toPool[w] : toPool'[w][i] = toPool[w][j]
  <2>1. CASE toPool'[w] = toPool[w]
    BY <2>1
  <2>2. CASE toPool[w] # <<>> /\ toPool'[w] = Tail(toPool[w])
    <3>1. /\ toPool[w] \in Seq(ToPoolMessages)
          /\ Tail(toPool[w]) \in Seq(ToPoolMessages)
          /\ Len(Tail(toPool[w])) = Len(toPool[w]) - 1
          /\ \A k \in 1 .. Len(Tail(toPool[w])) :
               Tail(toPool[w])[k] = toPool[w][k + 1]
      BY <1>1, <2>2, HeadTailProperties DEF TypeOK
    <3>2. /\ DOMAIN toPool[w] = 1 .. Len(toPool[w]) /\ Len(toPool[w]) \in Nat
          /\ DOMAIN toPool'[w] = 1 .. Len(toPool[w]) - 1
      BY <2>2, <3>1, LenProperties
    <3>3. i + 1 \in DOMAIN toPool[w] /\ toPool'[w][i] = toPool[w][i + 1]
      BY <2>2, <3>1, <3>2
    <3> QED
      BY <3>3
  <2> QED
    BY <2>1, <2>2
<1>3. AnsweredWhenClosed'
  BY <1>1, <1>2 DEF NodesInv, AnsweredWhenClosed
<1>4. ChannelsOpen'
  BY <1>1 DEF NodesInv, ChannelsOpen
<1>5. IdsInOrder' /\ NodesDistinct' /\ ListedUntilExit'
  BY <1>1 DEF NodesInv, IdsInOrder, NodesDistinct, ListedUntilExit, Listed
<1> QED
  BY <1>3, <1>4, <1>5 DEF NodesInv

\* Handlers that create nodes, and take failed ones out of service.
LEMMA AddedKeepsNodes ==
  ASSUME IInv, NEW n \in Nat, NEW isDynamic \in BOOLEAN,
         NEW isReady \in BOOLEAN, NEW gone,
         AddWorkers(n, isDynamic, isReady, gone),
         \A w \in WorkerIds : w \in gone => thread[w] = "failed",
         \A w \in WorkerIds :
           toPool'[w] = IF w \in gone THEN <<>> ELSE toPool[w],
         TaskToRedistribute'
  PROVE  NodesInv'
<1>1. TypeOK /\ NodesInv
  BY DEF IInv
<1>2. created \in Nat /\ created' = created + n /\ Len(workerNodes) \in Nat
  BY <1>1, WorkersAssumption, LenProperties DEF TypeOK, AddWorkers
<1>3. \A w \in WorkerIds : w \in created + 1 .. created + n =>
        thread[w] = "none" /\ ~channel[w] /\ toPool[w] = <<>>
  BY <1>1, <1>2 DEF NodesInv, IdsInOrder, ChannelsOpen, WorkerIds
<1>4. IdsInOrder'
  BY <1>1, <1>2, <1>3 DEF NodesInv, IdsInOrder, AddWorkers, TypeOK, WorkerIds
<1>5. /\ DOMAIN workerNodes = 1 .. Len(workerNodes)
      /\ DOMAIN workerNodes' = 1 .. Len(workerNodes) + n
      /\ \A i \in DOMAIN workerNodes' : workerNodes'[i] =
           IF i <= Len(workerNodes) THEN workerNodes[i]
           ELSE created + i - Len(workerNodes)
  <2>1. /\ workerNodes' \in Seq(WorkerIds)
        /\ Len(workerNodes') = Len(workerNodes) + n
        /\ \A i \in 1 .. Len(workerNodes') : workerNodes'[i] =
             IF i <= Len(workerNodes) THEN workerNodes[i]
             ELSE created + i - Len(workerNodes)
    BY <1>1, AddedNodes
  <2> QED
    BY <1>1, <2>1, LenProperties DEF TypeOK
<1>6. \A i \in DOMAIN workerNodes : workerNodes[i] \in 1 .. created
  <2>1. \A i \in DOMAIN workerNodes : workerNodes[i] \in WorkerIds
    BY <1>1, ListedWorkers DEF Listed
  <2>2. \A i \in DOMAIN workerNodes : thread[workerNodes[i]] # "none"
    BY <1>1, <2>1 DEF NodesInv, ListedUntilExit, Listed
  <2> QED
    BY <1>1, <1>2, <2>1, <2>2 DEF NodesInv, IdsInOrder, WorkerIds
<1>7. NodesDistinct'
  <2> SUFFICES ASSUME NEW i \in DOMAIN workerNodes', NEW j \in DOMAIN workerNodes',
                      workerNodes'[i] = workerNodes'[j]
               PROVE  i = j
    BY DEF NodesDistinct
  <2>1. i \in Nat /\ j \in Nat
    BY <1>5
  <2>2. CASE i <= Len(workerNodes) /\ j <= Len(workerNodes)
    BY <1>1, <1>2, <1>5, <2>1, <2>2 DEF NodesInv, NodesDistinct
  <2>3. CASE i <= Len(workerNodes) /\ ~(j <= Len(workerNodes))
    BY <1>2, <1>5, <1>6, <2>1, <2>3
  <2>4. CASE ~(i <= Len(workerNodes)) /\ j <= Len(workerNodes)
    BY <1>2, <1>5, <1>6, <2>1, <2>4
  <2>5. CASE ~(i <= Len(workerNodes)) /\ ~(j <= Len(workerNodes))
    BY <1>2, <1>5, <2>1, <2>5
  <2> QED
    BY <2>2, <2>3, <2>4, <2>5
<1>8. Listed' = Listed \cup created + 1 .. created + n
  <2>1. \A i \in DOMAIN workerNodes :
          i \in DOMAIN workerNodes' /\ workerNodes'[i] = workerNodes[i]
    BY <1>2, <1>5
  <2>2. \A w \in created + 1 .. created + n :
          LET i == w - created + Len(workerNodes) IN
          i \in DOMAIN workerNodes' /\ workerNodes'[i] = w
    BY <1>2, <1>5
  <2>3. \A i \in DOMAIN workerNodes' :
          \/ i \in DOMAIN workerNodes /\ workerNodes'[i] = workerNodes[i]
          \/ workerNodes'[i] \in created + 1 .. created + n
    BY <1>2, <1>5
  <2> QED
    BY <2>1, <2>2, <2>3 DEF Listed
<1>9. ListedUntilExit'
  BY <1>1, <1>3, <1>8 DEF NodesInv, ListedUntilExit, AddWorkers, TypeOK
<1>10. ChannelsOpen'
  BY <1>1, <1>3 DEF NodesInv, ChannelsOpen, AddWorkers, TypeOK
<1>11. AnsweredWhenClosed'
  <2> SUFFICES ASSUME NEW w \in WorkerIds, NEW i \in DOMAIN toPool'[w],
                      toPool'[w][i].type = "kill",
                      toPool'[w][i].kill = "success"
               PROVE  thread'[w] \in {"closed", "failed"}
    BY DEF AnsweredWhenClosed
  <2>1. w \notin gone
    BY EmptySeq
  <2>2. toPool'[w] = toPool[w] /\ toPool[w] # <<>>
    BY <2>1
  <2>3. w \notin created + 1 .. created + n
    BY <1>3, <2>2
  <2>4. thread'[w] = thread[w]
    BY <2>1, <2>3 DEF AddWorkers
  <2> QED
    BY <1>1, <2>2, <2>4 DEF NodesInv, AnsweredWhenClosed
<1> QED
  BY <1>4, <1>7, <1>9, <1>10, <1>11 DEF NodesInv

LEMMA CreatedKeepsNodes ==
  ASSUME IInv, NEW n \in Nat, NEW isDynamic \in BOOLEAN,
         NEW isReady \in BOOLEAN, AddWorkers(n, isDynamic, isReady, {}),
         UNCHANGED toPool, TaskToRedistribute'
  PROVE  NodesInv'
<1> DEFINE gone == {}
<1>1. AddWorkers(n, isDynamic, isReady, gone)
  OBVIOUS
<1>2. /\ \A w \in WorkerIds : w \in gone => thread[w] = "failed"
      /\ \A w \in WorkerIds :
           toPool'[w] = IF w \in gone THEN <<>> ELSE toPool[w]
  OBVIOUS
<1> HIDE DEF gone
<1> QED
  BY <1>1, <1>2, AddedKeepsNodes

\* Steps of a thread, which may post a message while its port is open.
LEMMA ThreadKeepsNodes ==
  ASSUME IInv, NEW w \in WorkerIds, NEW next \in {"running", "closed", "failed"},
         thread[w] \in {"starting", "running", "closed"},
         thread[w] = "closed" => next # "running",
         thread' = [thread EXCEPT ![w] = next],
         UNCHANGED <<workerNodes, created, channel, redistributing, tasksQueue>>,
         \/ UNCHANGED toPool
         \/ \E m \in ToPoolMessages :
              /\ toPool' = [toPool EXCEPT ![w] = Append(@, m)]
              /\ thread[w] \in {"starting", "running"}
              /\ m.type = "kill" /\ m.kill = "success" => next = "closed"
  PROVE  NodesInv'
<1>1. TypeOK /\ NodesInv
  BY DEF IInv
<1>2. channel[w] \/ thread[w] = "closed"
  BY <1>1 DEF NodesInv, ChannelsOpen
<1>3. IdsInOrder'
  BY <1>1 DEF NodesInv, IdsInOrder, TypeOK
<1>4. NodesDistinct'
  BY <1>1 DEF NodesInv, NodesDistinct
<1>5. ListedUntilExit'
  <2>1. ListedUntilExit /\ thread \in [WorkerIds -> ThreadStates] /\ Listed' = Listed
    BY <1>1 DEF NodesInv, TypeOK, Listed
  <2> QED
    BY <2>1 DEF ListedUntilExit
<1>6. TaskToRedistribute'
  BY <1>1 DEF NodesInv, TaskToRedistribute, TypeOK
<1>7. ChannelsOpen'
  <2>1. ChannelsOpen /\ thread \in [WorkerIds -> ThreadStates]
    BY <1>1 DEF NodesInv, TypeOK
  <2>2. \A v \in WorkerIds : v # w => toPool'[v] = toPool[v] /\ thread'[v] = thread[v]
    BY <1>1 DEF TypeOK
  <2>3. thread'[w] = next
    BY <2>1
  <2>4. toPool'[w] # <<>> => toPool[w] # <<>> \/ thread[w] \in {"starting", "running"}
    BY <1>1
  <2> QED
    BY <1>2, <2>1, <2>2, <2>3, <2>4 DEF ChannelsOpen
<1>8. AnsweredWhenClosed'
  <2> SUFFICES ASSUME NEW v \in WorkerIds, NEW i \in DOMAIN toPool'[v],
                      toPool'[v][i].type = "kill",
                      toPool'[v][i].kill = "success"
               PROVE  thread'[v] \in {"closed", "failed"}
    BY DEF AnsweredWhenClosed
  <2>1. CASE i \in DOMAIN toPool[v] /\ toPool'[v][i] = toPool[v][i]
    <3>1. thread[v] \in {"closed", "failed"}
      BY <1>1, <2>1 DEF NodesInv, AnsweredWhenClosed
    <3> QED
      BY <1>1, <3>1 DEF TypeOK
  <2>2. CASE ~(i \in DOMAIN toPool[v] /\ toPool'[v][i] = toPool[v][i])
    <3>1. PICK m \in ToPoolMessages :
            /\ toPool' = [toPool EXCEPT ![w] = Append(@, m)]
            /\ m.type = "kill" /\ m.kill = "success" => next = "closed"
      BY <2>2
    <3>2. v = w
      BY <1>1, <2>2, <3>1 DEF TypeOK
    <3>3. toPool[w] \in Seq(ToPoolMessages) /\ toPool'[w] = Append(toPool[w], m)
      BY <1>1, <3>1 DEF TypeOK
    <3>4. /\ DOMAIN toPool[w] = 1 .. Len(toPool[w]) /\ Len(toPool[w]) \in Nat
          /\ DOMAIN toPool'[w] = 1 .. Len(toPool[w]) + 1
          /\ \A j \in 1 .. Len(toPool[w]) : toPool'[w][j] = toPool[w][j]
          /\ toPool'[w][Len(toPool[w]) + 1] = m
      BY <3>3, AppendProperties, LenProperties
    <3>5. toPool'[w][i] = m
      BY <2>2, <3>2, <3>4
    <3> QED
      BY <1>1, <3>1, <3>2, <3>5 DEF TypeOK
  <2> QED
    BY <2>1, <2>2
<1> QED
  BY <1>3, <1>4, <1>5, <1>6, <1>7, <1>8 DEF NodesInv

\* 'exit' takes the node of the worker, and no other, out of the array.
LEMMA HandleWorkerExitNodes ==
  ASSUME IInv, NEW w \in WorkerIds, HandleWorkerExit(w)
  PROVE  NodesInv'
<1> DEFINE n == Len(workerNodes)
           k == KeyOf(w)
<1>1. TypeOK /\ NodesInv
  BY DEF IInv
<1>2. /\ w \in Listed /\ ~channel[w] /\ toPool[w] = <<>>
  BY <1>1 DEF NodesInv, ListedUntilExit, ChannelsOpen, HandleWorkerExit
<1>3. /\ n \in Nat /\ DOMAIN workerNodes = 1 .. n
      /\ k \in 0 .. n - 1 /\ workerNodes[k + 1] = w
  BY <1>1, <1>2, KeyOfListed, LenProperties DEF TypeOK, Keys, Node
<1>4. /\ DOMAIN workerNodes' = 1 .. n - 1
      /\ \A i \in 1 .. n - 1 :
           workerNodes'[i] = IF i <= k THEN workerNodes[i] ELSE workerNodes[i + 1]
  <2>1. /\ workerNodes' \in Seq(WorkerIds) /\ Len(workerNodes') = n - 1
        /\ \A i \in 1 .. n - 1 :
             workerNodes'[i] = IF i <= k THEN workerNodes[i] ELSE workerNodes[i + 1]
    <3>1. workerNodes \in Seq(WorkerIds)
      BY <1>1 DEF TypeOK
    <3>2. workerNodes' = SubSeq(workerNodes, 1, k)
                           \o SubSeq(workerNodes, k + 2, Len(workerNodes))
      BY DEF HandleWorkerExit
    <3> QED
      BY <1>3, <3>1, <3>2, SplicedSeq
  <2> QED
    BY <2>1, LenProperties
<1> HIDE DEF n, k
<1>5. \A i \in 1 .. n - 1 : \E j \in 1 .. n :
        /\ j # k + 1 /\ workerNodes'[i] = workerNodes[j]
        /\ j = IF i <= k THEN i ELSE i + 1
  BY <1>3, <1>4
<1>6. \A j \in 1 .. n : j # k + 1 =>
        \E i \in 1 .. n - 1 : workerNodes'[i] = workerNodes[j]
  <2> SUFFICES ASSUME NEW j \in 1 .. n, j # k + 1
               PROVE  \E i \in 1 .. n - 1 : workerNodes'[i] = workerNodes[j]
    OBVIOUS
  <2>1. CASE j <= k
    <3>1. j \in 1 .. n - 1 /\ workerNodes'[j] = workerNodes[j]
      BY <1>3, <1>4, <2>1
    <3> QED
      BY <3>1
  <2>2. CASE ~(j <= k)
    <3>1. j - 1 \in 1 .. n - 1 /\ ~(j - 1 <= k) /\ (j - 1) + 1 = j
      BY <1>3, <2>2
    <3>2. workerNodes'[j - 1] = workerNodes[j]
      BY <1>4, <3>1
    <3> QED
      BY <3>1, <3>2
  <2> QED
    BY <2>1, <2>2
<1>7. NodesDistinct'
  <2> SUFFICES ASSUME NEW i \in 1 .. n - 1, NEW j \in 1 .. n - 1,
                      workerNodes'[i] = workerNodes'[j]
               PROVE  i = j
    BY <1>4 DEF NodesDistinct
  <2>1. PICK p \in 1 .. n : workerNodes'[i] = workerNodes[p]
                            /\ p = IF i <= k THEN i ELSE i + 1
    BY <1>5
  <2>2. PICK q \in 1 .. n : workerNodes'[j] = workerNodes[q]
                            /\ q = IF j <= k THEN j ELSE j + 1
    BY <1>5
  <2>3. p = q
    BY <1>1, <1>3, <2>1, <2>2 DEF NodesInv, NodesDistinct
  <2> QED
    BY <1>3, <2>1, <2>2, <2>3
<1>8. Listed' = Listed \ {w}
  <2>1. \A j \in 1 .. n : workerNodes[j] = w <=> j = k + 1
    BY <1>1, <1>3 DEF NodesInv, NodesDistinct
  <2>2. ASSUME NEW v \in Listed' PROVE v \in Listed \ {w}
    <3>1. PICK i \in 1 .. n - 1 : v = workerNodes'[i]
      BY <1>4 DEF Listed
    <3>2. PICK j \in 1 .. n : j # k + 1 /\ v = workerNodes[j]
      BY <1>5, <3>1
    <3> QED
      BY <1>3, <2>1, <3>2 DEF Listed
  <2>3. ASSUME NEW v \in Listed \ {w} PROVE v \in Listed'
    <3>1. PICK j \in 1 .. n : v = workerNodes[j]
      BY <1>3 DEF Listed
    <3>2. PICK i \in 1 .. n - 1 : v = workerNodes'[i]
      BY <1>6, <2>1, <3>1
    <3> QED
      BY <1>4, <3>2 DEF Listed
  <2> QED
    BY <2>2, <2>3
<1>9. ListedUntilExit'
  BY <1>1, <1>8 DEF NodesInv, ListedUntilExit, HandleWorkerExit, TypeOK
<1>10. IdsInOrder'
  BY <1>1 DEF NodesInv, IdsInOrder, HandleWorkerExit, TypeOK
<1>11. ChannelsOpen'
  BY <1>1, <1>2 DEF NodesInv, ChannelsOpen, HandleWorkerExit, TypeOK
<1>12. AnsweredWhenClosed'
  BY <1>1, <1>2, EmptySeq
  DEF NodesInv, AnsweredWhenClosed, HandleWorkerExit, TypeOK
<1>13. TaskToRedistribute'
  BY DEF TaskToRedistribute, HandleWorkerExit, MainIdle
<1> QED
  BY <1>7, <1>9, <1>10, <1>11, <1>12, <1>13 DEF NodesInv

\* A worker that has answered is terminated when its channel is closed.
LEMMA HandleKillSuccessNodes ==
  ASSUME IInv, NEW w \in WorkerIds, HandleKillSuccess(w)
  PROVE  NodesInv'
<1>1. TypeOK /\ NodesInv
  BY DEF IInv
<1>2. thread[w] \in {"closed", "failed"}
  <2>1. 1 \in DOMAIN toPool[w] /\ Head(toPool[w]) = toPool[w][1]
    BY <1>1, EmptySeq, LenProperties DEF TypeOK, HandleKillSuccess
  <2> QED
    BY <1>1, <2>1 DEF NodesInv, AnsweredWhenClosed, HandleKillSuccess
<1>3. thread' = [thread EXCEPT ![w] = IF @ = "closed" THEN "terminating" ELSE @]
  BY DEF HandleKillSuccess
<1>4. IdsInOrder'
  BY <1>1, <1>2, <1>3 DEF NodesInv, IdsInOrder, HandleKillSuccess, TypeOK
<1>5. NodesDistinct'
  BY <1>1 DEF NodesInv, NodesDistinct, HandleKillSuccess
<1>6. ListedUntilExit'
  BY <1>1, <1>2, <1>3
  DEF NodesInv, ListedUntilExit, Listed, HandleKillSuccess, TypeOK
<1>7. ChannelsOpen'
  BY <1>1, <1>2, <1>3 DEF NodesInv, ChannelsOpen, HandleKillSuccess, TypeOK
<1>8. AnsweredWhenClosed'
  <2> SUFFICES ASSUME NEW v \in WorkerIds, NEW i \in DOMAIN toPool'[v],
                      toPool'[v][i].type = "kill",
                      toPool'[v][i].kill = "success"
               PROVE  thread'[v] \in {"closed", "failed"}
    BY DEF AnsweredWhenClosed
  <2>1. toPool' = [toPool EXCEPT ![w] = <<>>]
    BY DEF HandleKillSuccess
  <2>2. v # w
    BY <1>1, <2>1 DEF TypeOK
  <2>3. toPool'[v] = toPool[v] /\ thread'[v] = thread[v]
    BY <1>1, <1>3, <2>1, <2>2 DEF TypeOK
  <2> QED
    BY <1>1, <2>3 DEF NodesInv, AnsweredWhenClosed
<1>9. TaskToRedistribute'
  BY DEF TaskToRedistribute, HandleKillSuccess, MainIdle
<1> QED
  BY <1>4, <1>5, <1>6, <1>7, <1>8, <1>9 DEF NodesInv

LEMMA CallerNodes ==
  ASSUME IInv, Caller
  PROVE  NodesInv'
<1>1. TypeOK
  BY DEF IInv
<1>2. CASE Start
  <2>1. PICK n \in Nat : AddWorkers(n, FALSE, TRUE, {})
    BY <1>1, <1>2, StaticMissing
  <2>2. UNCHANGED toPool /\ TaskToRedistribute'
    BY <1>2 DEF Start, MainIdle, TaskToRedistribute
  <2> QED
    BY <2>1, <2>2, CreatedKeepsNodes
<1>3. ASSUME NEW t \in Tasks, Execute(t) PROVE NodesInv'
  <2>1. PICK n \in {0, 1} : AddWorkers(n, TRUE, TRUE, {})
    BY <1>3 DEF Execute
  <2>2. UNCHANGED toPool /\ TaskToRedistribute'
    BY <1>3 DEF Execute, MainIdle, TaskToRedistribute
  <2> QED
    BY <2>1, <2>2, CreatedKeepsNodes
<1>4. ASSUME NEW t \in Tasks, ExecuteNotStarted(t) PROVE NodesInv'
  BY <1>4, KeptNodes DEF ExecuteNotStarted, MainIdle, TaskToRedistribute
<1>5. CASE Destroy
  BY <1>5, KeptNodes DEF Destroy, MainIdle, TaskToRedistribute
<1>6. CASE SetWorkerChoiceStrategy
  BY <1>6, KeptNodes DEF SetWorkerChoiceStrategy, MainIdle, TaskToRedistribute
<1>7. ASSUME NEW enable \in BOOLEAN, SetEnableTasksQueue(enable) PROVE NodesInv'
  BY <1>7, KeptNodes DEF SetEnableTasksQueue, MainIdle, TaskToRedistribute
<1> QED
  BY <1>2, <1>3, <1>4, <1>5, <1>6, <1>7 DEF Caller

LEMMA ListenerNodes ==
  ASSUME IInv, NEW w \in WorkerIds, Listener(w)
  PROVE  NodesInv'
<1> DEFINE taken == /\ UNCHANGED <<workerNodes, created, channel, thread>>
                    /\ redistributing = 0 /\ UNCHANGED redistributing
                    /\ toPool[w] # <<>>
                    /\ toPool' = [toPool EXCEPT ![w] = Tail(@)]
<1>1. taken => NodesInv'
  <2> SUFFICES ASSUME taken PROVE NodesInv'
    OBVIOUS
  <2>1. \A v \in WorkerIds :
          \/ toPool'[v] = toPool[v]
          \/ toPool[v] # <<>> /\ toPool'[v] = Tail(toPool[v])
    BY DEF IInv, TypeOK
  <2>2. TaskToRedistribute'
    BY DEF TaskToRedistribute
  <2> QED
    BY <2>1, <2>2, KeptNodes
<1>2. CASE HandleWorkerReadyResponse(w)
  BY <1>1, <1>2 DEF HandleWorkerReadyResponse, Received, MainIdle
<1>3. CASE HandleTaskExecutionResponse(w)
  BY <1>1, <1>3 DEF HandleTaskExecutionResponse, Received, MainIdle
<1>4. CASE HandleKillRequest(w)
  BY <1>1, <1>4 DEF HandleKillRequest, Received, MainIdle
<1>5. CASE HandleKillFailure(w)
  BY <1>1, <1>5 DEF HandleKillFailure, Received, MainIdle
<1> QED
  BY <1>2, <1>3, <1>4, <1>5, HandleKillSuccessNodes DEF Listener

LEMMA WorkerErrorNodes ==
  ASSUME IInv, NEW w \in WorkerIds, HandleWorkerError(w)
  PROVE  NodesInv'
<1>1. TypeOK /\ thread[w] = "failed" /\ w \in 1 .. created /\ created \in Nat
  BY DEF IInv, NodesInv, IdsInOrder, TypeOK, WorkerIds, HandleWorkerError
<1>2. PICK n \in {0, 1} : AddWorkers(n, dynamic[w], dynamic[w], {w})
  BY DEF HandleWorkerError
<1>3. dynamic[w] \in BOOLEAN
  BY <1>1 DEF TypeOK
<1>4. \A v \in WorkerIds :
        toPool'[v] = IF v \in {w} THEN <<>> ELSE toPool[v]
  BY <1>1 DEF TypeOK, HandleWorkerError
<1>5. TaskToRedistribute'
  <2>1. thread'[w] = "errored"
    BY <1>1, <1>2 DEF AddWorkers
  <2> QED
    BY <1>1, <2>1 DEF TaskToRedistribute, HandleWorkerError, WorkerIds
<1> QED
  BY <1>1, <1>2, <1>3, <1>4, <1>5, AddedKeepsNodes

LEMMA RedistributionNodes ==
  ASSUME IInv, RedistributeQueuedTask
  PROVE  NodesInv'
<1>1. TaskToRedistribute'
  BY DEF IInv, NodesInv, TaskToRedistribute, RedistributeQueuedTask
<1> QED
  BY <1>1, KeptNodes DEF RedistributeQueuedTask

LEMMA ThreadNodes ==
  ASSUME IInv, NEW w \in WorkerIds, Thread(w) \/ Environment(w)
  PROVE  NodesInv'
<1>1. TypeOK
  BY DEF IInv
<1>2. CASE HandleReadyMessage(w)
  <2>1. [type |-> "ready"] \in ToPoolMessages
    BY DEF ToPoolMessages
  <2> QED
    BY <1>2, <2>1, ThreadKeepsNodes DEF HandleReadyMessage
<1>3. CASE RunTask(w)
  <2>1. thread[w] = "running" /\ thread' = [thread EXCEPT ![w] = "running"]
    BY <1>1, <1>3 DEF RunTask, WorkerReceives, TypeOK
  <2> QED
    BY <1>3, <2>1, ThreadKeepsNodes DEF RunTask
<1>4. ASSUME NEW t \in Tasks, NEW ok \in BOOLEAN, AnswerTask(w, t, ok)
      PROVE  NodesInv'
  <2> DEFINE m == [type |-> "response", task |-> t, ok |-> ok]
  <2>1. m \in ToPoolMessages /\ m.type # "kill"
    BY DEF ToPoolMessages
  <2>2. thread[w] = "running" /\ thread' = [thread EXCEPT ![w] = "running"]
    BY <1>1, <1>4 DEF AnswerTask, TypeOK
  <2> QED
    BY <1>4, <2>1, <2>2, ThreadKeepsNodes DEF AnswerTask
<1>5. CASE HandleKillMessage(w)
  <2>1. \A outcome \in {"success", "failure"} :
          [type |-> "kill", kill |-> outcome] \in ToPoolMessages
    BY DEF ToPoolMessages
  <2>2. \/ UNCHANGED toPool
        \/ \E m \in ToPoolMessages :
             toPool' = [toPool EXCEPT ![w] = Append(@, m)]
    BY <1>5, <2>1 DEF HandleKillMessage, KillOutcomes
  <2> QED
    BY <1>5, <2>2, ThreadKeepsNodes DEF HandleKillMessage, WorkerReceives
<1>6. CASE RequestKill(w)
  <2> DEFINE m == [type |-> "kill", kill |-> KillBehavior]
  <2>1. m \in ToPoolMessages /\ m.kill # "success"
    BY OptionAssumption DEF ToPoolMessages
  <2>2. thread[w] = "running" /\ thread' = [thread EXCEPT ![w] = "running"]
    BY <1>1, <1>6 DEF RequestKill, TypeOK
  <2> QED
    BY <1>6, <2>1, <2>2, ThreadKeepsNodes DEF RequestKill
<1>7. CASE UncaughtError(w)
  BY <1>7, ThreadKeepsNodes DEF UncaughtError
<1> QED
  BY <1>2, <1>3, <1>4, <1>5, <1>6, <1>7 DEF Thread, Environment

LEMMA NextNodes ==
  ASSUME IInv, Next
  PROVE  NodesInv'
BY CallerNodes, RedistributionNodes, ListenerNodes, WorkerErrorNodes,
   HandleWorkerExitNodes, ThreadNodes
DEF Next, WorkerEvent

-----------------------------------------------------------------------------
(* The theorems.                                                           *)

LEMMA InitIInv == Init => IInv
<1> SUFFICES ASSUME Init PROVE IInv
  OBVIOUS
<1>1. TypeOK
  <2>1. /\ workerNodes \in Seq(WorkerIds)
        /\ tasksQueue \in [WorkerIds -> Seq(Tasks)]
        /\ toWorker \in [WorkerIds -> Seq(ToWorkerMessages)]
        /\ toPool \in [WorkerIds -> Seq(ToPoolMessages)]
    BY EmptySeq DEF Init
  <2>2. /\ promiseResponseMap \in [Tasks -> Int]
        /\ executing \in [WorkerIds -> Nat]
        /\ runs \in [Tasks -> Nat]
        /\ created \in 0 .. Workers
    BY WorkersAssumption DEF Init, NoEntry
  <2>3. /\ enableTasksQueue \in BOOLEAN
        /\ starts \in Nat /\ errors \in Nat /\ killRequests \in Nat
        /\ changes \in Nat /\ nextWorkerNodeKey \in Int
    BY QueueAssumption DEF Init
  <2>4. /\ promise \in [Tasks -> {"none", "pending", "resolved", "rejected"}]
        /\ ready \in [WorkerIds -> BOOLEAN]
        /\ dynamic \in [WorkerIds -> BOOLEAN]
        /\ channel \in [WorkerIds -> BOOLEAN]
        /\ thread \in [WorkerIds -> ThreadStates]
    BY DEF Init, ThreadStates
  <2>5. /\ killing \in [WorkerIds -> SUBSET {"listener", "destroy"}]
        /\ running \in [WorkerIds -> SUBSET Tasks]
        /\ awaiting \in SUBSET WorkerIds
    BY DEF Init
  <2>6. /\ started \in BOOLEAN /\ crashed \in BOOLEAN
        /\ redistributing \in WorkerIds \cup {0}
        /\ destroy \in {"none", "pending", "resolved", "rejected"}
    BY DEF Init
  <2> QED
    BY <2>1, <2>2, <2>3, <2>4, <2>5, <2>6 DEF TypeOK
<1>2. Listed = {}
  BY EmptySeq DEF Init, Listed
<1>3. NodesInv
  BY <1>2, EmptySeq
  DEF Init, NodesInv, IdsInOrder, NodesDistinct, ListedUntilExit,
      TaskToRedistribute, ChannelsOpen, AnsweredWhenClosed, WorkerIds
<1> QED
  BY <1>1, <1>3 DEF IInv

LEMMA NextIInv == IInv /\ [Next]_vars => IInv'
<1>1. CASE IInv /\ Next
  BY <1>1, NextTypes, NextNodes DEF IInv
<1>2. CASE IInv /\ UNCHANGED vars
  BY <1>2
  DEF vars, IInv, TypeOK, NodesInv, IdsInOrder, NodesDistinct,
      ListedUntilExit, Listed, TaskToRedistribute, ChannelsOpen,
      AnsweredWhenClosed
<1> QED
  BY <1>1, <1>2

\* Whatever happens, nodes, channels and threads stay together.
THEOREM IInvAlways == Spec => []IInv
BY InitIInv, NextIInv, PTL DEF Spec

\* Whatever the options and the number of workers and tasks, every variable
\* keeps its type: keys, counters, queues and messages are what the handlers
\* of the pool and of its workers take them for.
THEOREM TypesAlways == Spec => []TypeOK
<1>1. IInv => TypeOK
  BY DEF IInv
<1> QED
  BY <1>1, IInvAlways, PTL

\* checkMessageWorkerId never throws: however many workers fail, are killed
\* and are replaced, a message only ever comes from a worker whose node is
\* still in the array.
THEOREM SendersAlwaysListed == Spec => []SendersListed
<1>1. IInv => SendersListed
  BY DEF IInv, NodesInv, ListedUntilExit, ChannelsOpen, SendersListed
<1> QED
  BY <1>1, IInvAlways, PTL

-----------------------------------------------------------------------------
(* No task is stranded in a queue that is switched off.                    *)

\* A queue is filled after the worker is created.
FreshQueuesEmpty ==
  \A w \in WorkerIds : thread[w] = "none" => tasksQueue[w] = <<>>

QueuesInv == NoQueueWhenDisabled /\ FreshQueuesEmpty

\* No id is given back, and no worker comes back.
ThreadsForward ==
  \A w \in WorkerIds :
    /\ thread'[w] = "none" => thread[w] = "none"
    /\ thread[w] = "exited" => thread'[w] = "exited"

\* A task comes into a queue only while queues are on, and its node listed.
QueuesFilledWhenEnabled ==
  \A w \in WorkerIds :
    tasksQueue'[w] # <<>> =>
      tasksQueue[w] # <<>> \/ (enableTasksQueue /\ w \in Listed')

LEMMA KeptQueues ==
  ASSUME IInv, IInv', QueuesInv, UNCHANGED enableTasksQueue,
         ThreadsForward, QueuesFilledWhenEnabled
  PROVE  QueuesInv'
<1>1. /\ \A w \in WorkerIds : w \in Listed <=> thread[w] \notin {"none", "exited"}
      /\ \A w \in WorkerIds : w \in Listed' <=> thread'[w] \notin {"none", "exited"}
  BY DEF IInv, NodesInv, ListedUntilExit
<1>2. Listed' \subseteq WorkerIds
  BY LenProperties, ElementOfSeq DEF IInv, TypeOK, Listed
<1>3. NoQueueWhenDisabled'
  <2> SUFFICES ASSUME NEW w \in Listed', tasksQueue'[w] # <<>>
               PROVE  enableTasksQueue'
    BY DEF NoQueueWhenDisabled
  <2>1. CASE tasksQueue[w] # <<>>
    BY <1>1, <1>2, <2>1
    DEF QueuesInv, NoQueueWhenDisabled, FreshQueuesEmpty, ThreadsForward
  <2>2. CASE enableTasksQueue
    BY <2>2
  <2> QED
    BY <1>2, <2>1, <2>2 DEF QueuesFilledWhenEnabled
<1>4. FreshQueuesEmpty'
  BY <1>1
  DEF QueuesInv, FreshQueuesEmpty, ThreadsForward, QueuesFilledWhenEnabled
<1> QED
  BY <1>3, <1>4 DEF QueuesInv

LEMMA AddedForward ==
  ASSUME IInv, NEW n \in Nat, NEW isDynamic, NEW isReady, NEW gone,
         AddWorkers(n, isDynamic, isReady, gone),
         \A w \in WorkerIds : w \in gone => thread[w] = "failed"
  PROVE  ThreadsForward
<1>1. created \in Nat
  BY WorkersAssumption DEF IInv, TypeOK
<1>2. \A w \in WorkerIds : w \in created + 1 .. created + n => thread[w] = "none"
  BY <1>1 DEF IInv, NodesInv, IdsInOrder, WorkerIds
<1> QED
  BY <1>2 DEF ThreadsForward, AddWorkers

\* start and execute() add workers and remove none.
LEMMA CreatedForward ==
  ASSUME IInv, NEW n \in Nat, NEW isDynamic, NEW isReady,
         AddWorkers(n, isDynamic, isReady, {})
  PROVE  ThreadsForward
<1> DEFINE gone == {}
<1>1. AddWorkers(n, isDynamic, isReady, gone)
  OBVIOUS
<1>2. \A w \in WorkerIds : w \in gone => thread[w] = "failed"
  OBVIOUS
<1> HIDE DEF gone
<1> QED
  BY <1>1, <1>2, AddedForward

\* The loop over the nodes reaches all of them when it fails at none.
LEMMA AllReached ==
  ASSUME TypeOK
  PROVE  Listed \subseteq ReachedBefore({})
<1> SUFFICES ASSUME NEW w \in Listed PROVE w \in ReachedBefore({})
  OBVIOUS
<1>1. KeyOf(w) \in Keys /\ Node(KeyOf(w)) = w
  BY KeyOfListed
<1> QED
  BY <1>1 DEF ReachedBefore

LEMMA SetEnableTasksQueueQueues ==
  ASSUME IInv, QueuesInv, NEW enable \in BOOLEAN, SetEnableTasksQueue(enable)
  PROVE  QueuesInv'
<1> DEFINE failing == {w \in Listed : ~channel[w] /\ tasksQueue[w] # <<>>}
<1>1. TypeOK /\ UNCHANGED <<workerNodes, thread>>
  BY DEF IInv, SetEnableTasksQueue
<1>2. Listed' = Listed /\ Listed \subseteq WorkerIds
  BY <1>1, ListedWorkers DEF Listed
<1>3. CASE enableTasksQueue /\ ~enable
  <2>1. /\ FlushTasksQueues(ReachedBefore(failing), <<>>)
        /\ enableTasksQueue' = (failing # {})
    BY <1>3 DEF SetEnableTasksQueue
  <2>2. \A w \in WorkerIds : tasksQueue[w] = <<>> => tasksQueue'[w] = <<>>
    BY <2>1 DEF FlushTasksQueues
  <2>3. FreshQueuesEmpty'
    BY <1>1, <2>2 DEF QueuesInv, FreshQueuesEmpty
  <2>4. CASE failing # {}
    BY <2>1, <2>3, <2>4 DEF QueuesInv, NoQueueWhenDisabled
  <2>5. CASE failing = {}
    <3>1. Listed \subseteq ReachedBefore(failing)
      BY <1>1, <2>5, AllReached
    <3>2. \A w \in Listed : channel[w] \/ tasksQueue[w] = <<>>
      BY <2>5
    <3>3. \A w \in Listed : tasksQueue'[w] = <<>>
      BY <1>2, <2>1, <3>1, <3>2 DEF FlushTasksQueues
    <3> QED
      BY <1>2, <2>3, <3>3 DEF QueuesInv, NoQueueWhenDisabled
  <2> QED
    BY <2>4, <2>5
<1>4. CASE ~(enableTasksQueue /\ ~enable)
  <2>1. enableTasksQueue' = enable /\ UNCHANGED tasksQueue
    BY <1>4 DEF SetEnableTasksQueue
  <2>2. enableTasksQueue => enableTasksQueue'
    BY <1>4, <2>1
  <2> QED
    BY <1>1, <1>2, <2>1, <2>2
    DEF QueuesInv, NoQueueWhenDisabled, FreshQueuesEmpty
<1> QED
  BY <1>3, <1>4

LEMMA ExecuteQueues ==
  ASSUME IInv, IInv', NEW t \in Tasks, Execute(t)
  PROVE  QueuesFilledWhenEnabled
<1>1. PICK key :
        LET w == workerNodes'[key + 1] IN
        \/ UNCHANGED tasksQueue
        \/ /\ key \in 0 .. Len(workerNodes') - 1
           /\ ~ShallExecuteTask(w, tasksQueue)
           /\ tasksQueue' = [tasksQueue EXCEPT ![w] = Append(@, t)]
  BY DEF Execute
<1> DEFINE w == workerNodes'[key + 1]
<1>2. CASE UNCHANGED tasksQueue
  BY <1>2 DEF QueuesFilledWhenEnabled
<1>3. CASE /\ key \in 0 .. Len(workerNodes') - 1
           /\ ~ShallExecuteTask(w, tasksQueue)
           /\ tasksQueue' = [tasksQueue EXCEPT ![w] = Append(@, t)]
  <2>1. enableTasksQueue
    BY <1>3 DEF ShallExecuteTask
  <2>2. workerNodes' \in Seq(WorkerIds)
    BY DEF IInv, TypeOK
  <2>3. Len(workerNodes') \in Nat /\ DOMAIN workerNodes' = 1 .. Len(workerNodes')
    BY <2>2, LenProperties
  <2>4. key + 1 \in DOMAIN workerNodes'
    BY <1>3, <2>3
  <2>5. w \in Listed'
    BY <2>4 DEF Listed
  <2>6. \A v \in WorkerIds : v # w => tasksQueue'[v] = tasksQueue[v]
    BY <1>3 DEF IInv, TypeOK
  <2> QED
    BY <2>1, <2>5, <2>6 DEF QueuesFilledWhenEnabled
<1> QED
  BY <1>1, <1>2, <1>3

LEMMA RedistributionQueues ==
  ASSUME IInv, RedistributeQueuedTask
  PROVE  QueuesFilledWhenEnabled
<1> DEFINE w == redistributing
           t == Head(tasksQueue[w])
           rest == Dequeued(w)
<1>1. TypeOK /\ w \in WorkerIds /\ w \in Listed /\ tasksQueue[w] # <<>>
  BY DEF IInv, NodesInv, TypeOK, TaskToRedistribute, ListedUntilExit,
         RedistributeQueuedTask
<1>2. Destination \in Listed
  BY <1>1, DestinationListed, EmptySeq DEF Listed
<1>3. /\ rest \in [WorkerIds -> Seq(Tasks)]
      /\ \A v \in WorkerIds : rest[v] # <<>> => tasksQueue[v] # <<>>
  <2>1. rest \in [WorkerIds -> Seq(Tasks)]
    BY <1>1, DequeuedTypes
  <2>2. \A v \in WorkerIds : v # w => rest[v] = tasksQueue[v]
    BY <1>1 DEF TypeOK, Dequeued
  <2> QED
    BY <1>1, <2>1, <2>2
<1>4. CASE tasksQueue' = rest
  BY <1>3, <1>4 DEF QueuesFilledWhenEnabled
<1>5. CASE /\ ~ShallExecuteTask(Destination, rest)
           /\ tasksQueue' = [rest EXCEPT ![Destination] = Append(@, t)]
  <2>1. enableTasksQueue
    BY <1>5 DEF ShallExecuteTask
  <2>2. Listed' = Listed
    BY DEF RedistributeQueuedTask, Listed
  <2>3. \A v \in WorkerIds : v # Destination => tasksQueue'[v] = rest[v]
    BY <1>3, <1>5
  <2> QED
    BY <1>2, <1>3, <2>1, <2>2, <2>3 DEF QueuesFilledWhenEnabled
<1> QED
  BY <1>4, <1>5 DEF RedistributeQueuedTask

LEMMA ListenerQueues ==
  ASSUME IInv, NEW w \in WorkerIds, Listener(w)
  PROVE  ThreadsForward /\ QueuesFilledWhenEnabled
<1>1. TypeOK
  BY DEF IInv
<1>2. CASE HandleTaskExecutionResponse(w)
  <2>1. ThreadsForward
    BY <1>2 DEF ThreadsForward, HandleTaskExecutionResponse
  <2>2. UNCHANGED tasksQueue \/
        \E x : tasksQueue[x] # <<>> /\ tasksQueue' = Dequeued(x)
    BY <1>2 DEF HandleTaskExecutionResponse
  <2>3. QueuesFilledWhenEnabled
    BY <1>1, <2>2 DEF QueuesFilledWhenEnabled, Dequeued, TypeOK
  <2> QED
    BY <2>1, <2>3
<1>3. CASE HandleKillRequest(w)
  <2>1. UNCHANGED tasksQueue \/ \E last : FlushTasksQueues({w}, last)
    BY <1>3 DEF HandleKillRequest, DestroyWorkerNodes
  <2> QED
    BY <1>3, <2>1
    DEF ThreadsForward, QueuesFilledWhenEnabled, FlushTasksQueues,
        HandleKillRequest
<1>4. CASE HandleWorkerReadyResponse(w)
  BY <1>4 DEF ThreadsForward, QueuesFilledWhenEnabled, HandleWorkerReadyResponse
<1>5. CASE HandleKillSuccess(w)
  BY <1>1, <1>5
  DEF ThreadsForward, QueuesFilledWhenEnabled, HandleKillSuccess, TypeOK
<1>6. CASE HandleKillFailure(w)
  BY <1>6 DEF ThreadsForward, QueuesFilledWhenEnabled, HandleKillFailure
<1> QED
  BY <1>2, <1>3, <1>4, <1>5, <1>6 DEF Listener

LEMMA CallerQueues ==
  ASSUME IInv, IInv', QueuesInv, Caller
  PROVE  QueuesInv'
<1>1. CASE Start
  <2>1. PICK n \in Nat : AddWorkers(n, FALSE, TRUE, {})
    BY <1>1, StaticMissing DEF IInv
  <2>3. ThreadsForward
    BY <2>1, CreatedForward
  <2>4. QueuesFilledWhenEnabled /\ UNCHANGED enableTasksQueue
    BY <1>1 DEF QueuesFilledWhenEnabled, Start
  <2> QED
    BY <2>3, <2>4, KeptQueues
<1>2. ASSUME NEW t \in Tasks, Execute(t) PROVE QueuesInv'
  <2>1. PICK n \in {0, 1} : AddWorkers(n, TRUE, TRUE, {})
    BY <1>2 DEF Execute
  <2>3. ThreadsForward
    BY <2>1, CreatedForward
  <2>4. QueuesFilledWhenEnabled
    BY <1>2, ExecuteQueues
  <2>5. UNCHANGED enableTasksQueue
    BY <1>2 DEF Execute
  <2> QED
    BY <2>3, <2>4, <2>5, KeptQueues
<1>3. ASSUME NEW t \in Tasks, ExecuteNotStarted(t) PROVE QueuesInv'
  BY <1>3, KeptQueues
  DEF ThreadsForward, QueuesFilledWhenEnabled, ExecuteNotStarted
<1>4. CASE Destroy
  BY <1>4, KeptQueues
  DEF ThreadsForward, QueuesFilledWhenEnabled, Destroy, DestroyWorkerNodes,
      FlushTasksQueues
<1>5. CASE SetWorkerChoiceStrategy
  BY <1>5, KeptQueues
  DEF ThreadsForward, QueuesFilledWhenEnabled, SetWorkerChoiceStrategy
<1>6. ASSUME NEW enable \in BOOLEAN, SetEnableTasksQueue(enable)
      PROVE  QueuesInv'
  BY <1>6, SetEnableTasksQueueQueues
<1> QED
  BY <1>1, <1>2, <1>3, <1>4, <1>5, <1>6 DEF Caller

LEMMA NextQueues ==
  ASSUME IInv, IInv', QueuesInv, Next
  PROVE  QueuesInv'
<1>1. TypeOK
  BY DEF IInv
<1>2. CASE Caller
  BY <1>2, CallerQueues
<1>3. CASE RedistributeQueuedTask
  <2>1. ThreadsForward /\ UNCHANGED enableTasksQueue
    BY <1>3 DEF ThreadsForward, RedistributeQueuedTask
  <2> QED
    BY <1>3, <2>1, RedistributionQueues, KeptQueues
<1>4. ASSUME NEW w \in WorkerIds, Listener(w) PROVE QueuesInv'
  <2>1. UNCHANGED enableTasksQueue
    BY <1>4
    DEF Listener, HandleWorkerReadyResponse, HandleTaskExecutionResponse,
        HandleKillRequest, HandleKillSuccess, HandleKillFailure
  <2> QED
    BY <1>4, <2>1, ListenerQueues, KeptQueues
<1>5. ASSUME NEW w \in WorkerIds, HandleWorkerError(w) PROVE QueuesInv'
  <2>1. PICK n \in {0, 1} : AddWorkers(n, dynamic[w], dynamic[w], {w})
    BY <1>5 DEF HandleWorkerError
  <2>2. \A v \in WorkerIds : v \in {w} => thread[v] = "failed"
    BY <1>5 DEF HandleWorkerError
  <2>3. ThreadsForward
    BY <2>1, <2>2, AddedForward
  <2>4. QueuesFilledWhenEnabled /\ UNCHANGED enableTasksQueue
    BY <1>5 DEF QueuesFilledWhenEnabled, HandleWorkerError
  <2> QED
    BY <2>3, <2>4, KeptQueues
<1>6. ASSUME NEW w \in WorkerIds, HandleWorkerExit(w) PROVE QueuesInv'
  <2>1. ThreadsForward /\ QueuesFilledWhenEnabled /\ UNCHANGED enableTasksQueue
    BY <1>1, <1>6
    DEF ThreadsForward, QueuesFilledWhenEnabled, HandleWorkerExit, TypeOK
  <2> QED
    BY <2>1, KeptQueues
<1>7. ASSUME NEW w \in WorkerIds, Thread(w) \/ Environment(w) PROVE QueuesInv'
  <2>1. UNCHANGED <<tasksQueue, enableTasksQueue>>
    BY <1>7
    DEF Thread, Environment, HandleReadyMessage, RunTask, AnswerTask,
        HandleKillMessage, RequestKill, UncaughtError
  <2>2. \/ UNCHANGED thread
        \/ \E s \in {"running", "closed", "failed"} :
             /\ thread[w] \in {"starting", "running", "closed"}
             /\ thread' = [thread EXCEPT ![w] = s]
    BY <1>7
    DEF Thread, Environment, HandleReadyMessage, RunTask, AnswerTask,
        HandleKillMessage, WorkerReceives, RequestKill, UncaughtError
  <2>3. ThreadsForward
    BY <1>1, <2>2 DEF ThreadsForward, TypeOK
  <2>4. QueuesFilledWhenEnabled
    BY <2>1 DEF QueuesFilledWhenEnabled
  <2> QED
    BY <2>1, <2>3, <2>4, KeptQueues
<1> QED
  BY <1>2, <1>3, <1>4, <1>5, <1>6, <1>7 DEF Next, WorkerEvent

\* No task is in a queue of a listed node while queues are off, nor in that of
\* a worker to come.
THEOREM QueuesInvAlways == Spec => []QueuesInv
<1>1. Init => QueuesInv
  BY EmptySeq DEF Init, QueuesInv, NoQueueWhenDisabled, FreshQueuesEmpty, Listed
<1>2. IInv /\ IInv' /\ QueuesInv /\ [Next]_vars => QueuesInv'
  <2>1. CASE UNCHANGED vars
    BY <2>1
    DEF vars, QueuesInv, NoQueueWhenDisabled, FreshQueuesEmpty, Listed
  <2> QED
    BY <2>1, NextQueues
<1> QED
  BY <1>1, <1>2, IInvAlways, PTL DEF Spec

\* However the queues are switched off and on while workers fail and are
\* replaced, enableTasksQueue(false) leaves no task in the queue of a listed
\* node: flushTasksQueues reaches them all, or the option stays as it was.
THEOREM NoQueueEverStranded == Spec => []NoQueueWhenDisabled
<1>1. QueuesInv => NoQueueWhenDisabled
  BY DEF QueuesInv
<1> QED
  BY <1>1, QueuesInvAlways, PTL
=============================================================================
