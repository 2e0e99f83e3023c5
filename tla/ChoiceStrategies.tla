-------------------------- MODULE ChoiceStrategies --------------------------
(***************************************************************************)
(* The worker choice strategies of a pool and the context that holds them. *)
(* Only one strategy is in use at a time, and the others are reset before  *)
(* they are used again, so that the state is that of the one in use.       *)
(*                                                                         *)
(* Of the pool there is what the strategies read: the worker nodes, in the *)
(* order of their keys, with as much of their usage as is compared; tasks  *)
(* are given to the chosen node and answered in any order, and nodes are   *)
(* added and removed.  Keys count from 0, as in the code.                  *)
(*                                                                         *)
(* previousWorkerNodeKey is left out: it is only read when there is no     *)
(* next key, and no strategy deletes its next key.  So is the next key of  *)
(* the strategies that compare, which they never read.  A task that waits  *)
(* in the queue of its node counts as one that is executing, and the time  *)
(* it waits as time the node is busy.                                      *)
(***************************************************************************)
EXTENDS Integers, Sequences, FiniteSets

CONSTANTS
  Strategies,      \* the strategies that are used
  InitialNodes,    \* worker nodes at the start
  MaxNodes,        \* the maximum size of the pool
  RunTimes,        \* averages (or medians) of run times or ELUs
  Weights,         \* values in the weights option
  DefaultWeight,   \* computeDefaultWorkerWeight()
  Retries,         \* the retries option
  MaxInFlight,     \* bound: tasks of a node not answered yet
  MaxChanges,      \* bound: changes of strategy, options and nodes
  MaxClock,        \* bound: the clock
  MaxCount         \* bound: what usages, virtual times and keys add up to

ASSUME StrategyAssumption ==
  Strategies \subseteq {"ROUND_ROBIN", "LEAST_USED", "LEAST_BUSY", "LEAST_ELU",
                        "FAIR_SHARE", "WEIGHTED_ROUND_ROBIN",
                        "INTERLEAVED_WEIGHTED_ROUND_ROBIN"}
ASSUME NodesAssumption == InitialNodes \in 1 .. MaxNodes /\ MaxNodes \in Nat
ASSUME ValueAssumption ==
  /\ RunTimes \cup Weights \cup {DefaultWeight} \subseteq Nat \ {0}
  /\ Retries \in Nat
ASSUME BoundAssumption ==
  {MaxInFlight, MaxChanges, MaxClock, MaxCount} \subseteq Nat

VARIABLES
  strategy,           \* workerChoiceStrategy of the context
  weights,            \* the weights option, or NoWeights
  retriesCount,       \* of the context
  nextWorkerNodeKey, virtualTaskRunTime, roundId, workerNodeId,
  workerNodes,        \* the usage and the strategy data of each node
  chosen,             \* what the last execute() returned, or Thrown
  now,                \* performance.now()
  changes,            \* bound
  strayed,            \* history: a known gap has led the keys astray
  disturbed           \* history: usages stopped counting every task

keyVars == <<nextWorkerNodeKey, virtualTaskRunTime, roundId, workerNodeId>>
vars == <<strategy, weights, retriesCount, keyVars, workerNodes, chosen, now,
          changes, strayed, disturbed>>

Absent == -1       \* undefined
Thrown == -2       \* execute() threw
NotYet == -3       \* execute() has not been called
NoWeights == <<>>  \* no weights option

\* checkValidWorkerChoiceStrategyOptions: no weights, or as many as the pool may
\* have nodes.
ValidWorkerChoiceStrategyOptions(options) ==
  /\ options.retries \in Nat
  /\ options.weights = NoWeights \/ Cardinality(DOMAIN options.weights) = MaxNodes

\* The weights that are accepted, of those an application may give.
GivenWeights == {NoWeights} \cup UNION {[0 .. n -> Weights] : n \in 0 .. MaxNodes}
WeightOptions ==
  {w \in GivenWeights :
     ValidWorkerChoiceStrategyOptions([retries |-> Retries, weights |-> w])}

\* Keys of the array, and the node of a key.
Length == Len(workerNodes)
Keys == 0 .. Length - 1
NodeAt(key) == workerNodes[key + 1]

\* A node as it is added, with nothing measured of it.
NewNode == [executed |-> 0, failed |-> 0, executing |-> 0, inFlight |-> 0,
            busy |-> 0, elu |-> 0, runTime |-> 0, end |-> Absent]

\* The weight of a key, and the weights of the rounds, each one once.
Weight(key) == IF key \in DOMAIN weights THEN weights[key] ELSE DefaultWeight
RoundWeightSet(w) == IF w = NoWeights THEN {DefaultWeight}
                                      ELSE {w[key] : key \in DOMAIN w}
RoundCount(w) == Cardinality(RoundWeightSet(w))
RoundWeight(round) ==
  CHOOSE w \in RoundWeightSet(weights) :
    Cardinality({v \in RoundWeightSet(weights) : v < w}) = round

Init ==
  /\ strategy \in Strategies
  /\ weights \in WeightOptions
  /\ retriesCount = 0
  /\ nextWorkerNodeKey = 0 /\ virtualTaskRunTime = 0
  /\ roundId = 0 /\ workerNodeId = 0
  /\ workerNodes = [k \in 1 .. InitialNodes |-> NewNode]
  /\ chosen = NotYet
  /\ now = 0 /\ changes = 0
  /\ strayed = FALSE /\ disturbed = FALSE

-----------------------------------------------------------------------------
(* The choices of the strategies that compare.                             *)

\* The reduce() of these strategies: the lowest key with the least value.
LeastKey(value) ==
  CHOOSE k \in Keys : \A j \in Keys : value[k] < value[j]
                                      \/ (value[k] = value[j] /\ k <= j)

LeastUsed == [k \in Keys |-> NodeAt(k).executed + NodeAt(k).executing]
LeastBusy == [k \in Keys |-> NodeAt(k).busy]
LeastElu == [k \in Keys |-> NodeAt(k).elu]

\* getWorkerNodeTaskRunTime, getWorkerNodeTaskElu: the average or median that is
\* asked for, 0 before anything is measured.
MeasuredTime(node) == node.runTime

\* A slip to be noticed: every task starts now, whatever the node still has.
VirtualEndFromNow(node) == now + MeasuredTime(node)

\* computeWorkerNodeVirtualTaskEndTimestamp
VirtualEnd(node) == (IF now < node.end THEN node.end ELSE now) + MeasuredTime(node)

\* Fair share gives an end to the nodes that have none.
WithEnds == [k \in 1 .. Length |->
  [workerNodes[k] EXCEPT !.end = IF @ = Absent THEN VirtualEnd(workerNodes[k])
                                               ELSE @]]
FairShare == [k \in Keys |-> WithEnds[k + 1].end]

-----------------------------------------------------------------------------
(* The choices of the strategies that take turns.  A choice is the record  *)
(* of what choose() returns and of the properties it leaves.               *)

Choice(key, next, virtual, round, id) ==
  [key |-> key, next |-> next, virtual |-> virtual, round |-> round, id |-> id]

\* The key after this one, in turn.
After(key) == IF key = Length - 1 THEN 0 ELSE key + 1

RoundRobin(c) == Choice(c.next, After(c.next), c.virtual, c.round, c.id)

\* Without a node at the next key there is no usage to read: a TypeError.
WeightedRoundRobin(c) ==
  IF c.virtual < Weight(c.next)
    THEN IF c.next \in Keys
           THEN [c EXCEPT !.key = c.next,
                          !.virtual = @ + MeasuredTime(NodeAt(c.next))]
           ELSE [c EXCEPT !.key = Thrown]
    ELSE [c EXCEPT !.key = After(c.next), !.next = After(c.next), !.virtual = 0]

\* The rounds and keys looked at in turn: in the first round from workerNodeId
\* on, in the others only the last key, where workerNodeId has been left.
Positions(c) ==
  IF c.id >= Length THEN <<>>
  ELSE [i \in 1 .. Length - c.id |-> [round |-> c.round, key |-> c.id + i - 1]]
         \o [i \in 1 .. RoundCount(weights) - 1 - c.round |->
               [round |-> c.round + i, key |-> Length - 1]]

\* A slip to be noticed: the round after the last one is begun.
NextIdBeyond(c) ==
  IF c.id # Length - 1 THEN [c EXCEPT !.id = @ + 1]
  ELSE [c EXCEPT !.id = 0, !.round = IF @ = RoundCount(weights) THEN 0 ELSE @ + 1]

\* interleavedWeightedRoundRobinNextWorkerNodeId
NextId(c) ==
  IF c.id # Length - 1 THEN [c EXCEPT !.id = @ + 1]
  ELSE [c EXCEPT !.id = 0, !.round = IF @ = RoundCount(weights) - 1 THEN 0 ELSE @ + 1]

\* A slip to be noticed: the virtual run time is that of the node before.
VirtualOfNodeBefore(c, positions, i) == c.virtual

\* The virtual run time begins anew where another node is looked at.
VirtualAt(c, positions, i) ==
  IF \E j \in 1 .. i : positions[j].key # c.next THEN 0 ELSE c.virtual

InterleavedWeightedRoundRobin(c) ==
  LET positions == IF c.round < RoundCount(weights) THEN Positions(c) ELSE <<>>
      last == Len(positions)
      Fits(i) == /\ Weight(positions[i].key) >= RoundWeight(positions[i].round)
                 /\ VirtualAt(c, positions, i) < Weight(positions[i].key)
      first == CHOOSE i \in 1 .. last : Fits(i) /\ \A j \in 1 .. i - 1 : ~Fits(j)
      key == positions[first].key
      lastRound == IF c.round < RoundCount(weights) THEN RoundCount(weights) - 1
                                                    ELSE c.round
  IN  IF \E i \in 1 .. last : Fits(i)
        THEN Choice(key, key,
                    VirtualAt(c, positions, first) + MeasuredTime(NodeAt(key)),
                    positions[first].round, key)
        ELSE NextId([c EXCEPT !.key = Absent,
                              !.virtual = VirtualAt(c, positions, last),
                              !.round = lastRound,
                              !.id = IF last = 0 THEN @ ELSE Length - 1])

Choose(c) ==
  CASE strategy = "ROUND_ROBIN" -> RoundRobin(c)
    [] strategy = "LEAST_USED" -> [c EXCEPT !.key = LeastKey(LeastUsed)]
    [] strategy = "LEAST_BUSY" -> [c EXCEPT !.key = LeastKey(LeastBusy)]
    [] strategy = "LEAST_ELU" -> [c EXCEPT !.key = LeastKey(LeastElu)]
    [] strategy = "FAIR_SHARE" -> [c EXCEPT !.key = LeastKey(FairShare)]
    [] strategy = "WEIGHTED_ROUND_ROBIN" -> WeightedRoundRobin(c)
    [] strategy = "INTERLEAVED_WEIGHTED_ROUND_ROBIN" ->
         InterleavedWeightedRoundRobin(c)

-----------------------------------------------------------------------------
(* The context.                                                            *)

\* What choose() returns and leaves when it is called once.
First == Choose(Choice(Absent, nextWorkerNodeKey, virtualTaskRunTime, roundId,
                       workerNodeId))

\* What choose() returns and leaves (the only element) when it is called once
\* more than `retry' times, as long as it returns no key.
Tried[retry \in 0 .. Retries] ==
  IF retry = 0
    THEN {First}
    ELSE {IF c.key # Absent THEN c ELSE Choose(c) : c \in Tried[retry - 1]}

\* execute() calls itself only while there is no key and a retry is left.
Outcomes == IF First.key # Absent THEN {First} ELSE Tried[Retries - retriesCount]

\* The count of retries is only reset by a choice that finds a node; a task is
\* then given to it, where there is such a node.
Execute ==
  /\ strategy = "LEAST_USED" => \A k \in Keys : LeastUsed[k] < MaxCount
  /\ {nextWorkerNodeKey, roundId, workerNodeId} \subseteq 0 .. MaxCount
  /\ UNCHANGED <<strategy, weights, now, changes, strayed, disturbed>>
  /\ \E choice \in Outcomes :
       LET given == IF strategy = "FAIR_SHARE" THEN WithEnds ELSE workerNodes
           key == choice.key
       IN  /\ key \in Keys => NodeAt(key).inFlight < MaxInFlight
           /\ chosen' = IF key = Absent THEN Thrown ELSE key
           /\ nextWorkerNodeKey' = choice.next
           /\ virtualTaskRunTime' = choice.virtual
           /\ roundId' = choice.round /\ workerNodeId' = choice.id
           /\ retriesCount' = CASE key = Absent -> Retries
                                [] key = Thrown -> retriesCount
                                [] OTHER -> 0
           /\ workerNodes' =
                IF key \notin Keys THEN given
                ELSE [given EXCEPT ![key + 1].inFlight = @ + 1,
                                   ![key + 1].executing =
                                     IF strategy = "LEAST_USED" THEN @ + 1 ELSE @]

\* updateTaskStatisticsWorkerUsage, where tasks are counted: a task that failed
\* is not one that was executed.
Counted(node, failed) ==
  IF strategy # "LEAST_USED" THEN [node EXCEPT !.inFlight = @ - 1]
  ELSE [node EXCEPT !.inFlight = @ - 1,
                    !.executing = IF @ > 0 THEN @ - 1 ELSE @,
                    !.executed = IF failed THEN @ ELSE @ + 1,
                    !.failed = IF failed THEN @ + 1 ELSE @]

\* updateRunTimeWorkerUsage, updateEluWorkerUsage: what the strategy requires.
Measured(node, time) ==
  CASE strategy = "LEAST_BUSY" -> [node EXCEPT !.busy = @ + time]
    [] strategy = "LEAST_ELU" -> [node EXCEPT !.elu = @ + time]
    [] strategy \in {"ROUND_ROBIN", "LEAST_USED"} -> node
    [] OTHER -> [node EXCEPT !.runTime = time]

\* Of a task that failed only the time it waited is measured.
Waited(node, time) ==
  IF strategy = "LEAST_BUSY" THEN [node EXCEPT !.busy = @ + time] ELSE node

\* update(), which moves the end of fair share.
Updated(node) ==
  IF strategy = "FAIR_SHARE" THEN [node EXCEPT !.end = VirtualEnd(node)] ELSE node

\* A task of the node is answered, which leaves this of the node.
Answered(key, node) ==
  /\ NodeAt(key).inFlight > 0
  /\ {node.busy, node.elu, node.executed, node.failed} \subseteq 0 .. MaxCount
  /\ node.end <= MaxCount
  /\ workerNodes' = [workerNodes EXCEPT ![key + 1] = node]
  /\ UNCHANGED <<strategy, weights, retriesCount, keyVars, chosen, now,
                 changes, strayed, disturbed>>

\* handleTaskExecutionResponse, by the outcome of the task: it is counted and
\* measured, then update() is called.
TaskExecuted(key, time) ==
  Answered(key, Updated(Measured(Counted(NodeAt(key), FALSE), time)))
TaskFailed(key, time) ==
  Answered(key, Updated(Waited(Counted(NodeAt(key), TRUE), time)))

\* Only a task that was begun before its measurement was asked for has none.
Times == IF disturbed THEN {0} \cup RunTimes ELSE RunTimes

\* reset() of a strategy that takes turns; what it has set is left at that while
\* another one is in use.
ResetKeys ==
  /\ nextWorkerNodeKey' = 0 /\ virtualTaskRunTime' = 0
  /\ roundId' = 0 /\ workerNodeId' = 0

\* A slip to be noticed: the usages of the nodes are kept.
NotReset(node) == node

\* What resetUsage() and the reset() of fair share leave of a node.
Reset(node) == [NewNode EXCEPT !.inFlight = node.inFlight]

\* setWorkerChoiceStrategy of the pool, with the reset of the usages.
SetWorkerChoiceStrategy(s) ==
  /\ changes < MaxChanges /\ changes' = changes + 1
  /\ strategy' = s
  /\ ResetKeys
  /\ workerNodes' = [k \in 1 .. Length |-> Reset(workerNodes[k])]
  /\ strayed' = FALSE
  /\ disturbed' = (\E k \in Keys : NodeAt(k).inFlight > 0)
  /\ UNCHANGED <<weights, retriesCount, chosen, now>>

\* setOptions: the rounds change under the round that is under way.
SetWorkerChoiceStrategyOptions(w) ==
  /\ changes < MaxChanges /\ changes' = changes + 1
  /\ weights' = w
  /\ UNCHANGED <<strategy, retriesCount, keyVars, workerNodes, chosen, now,
                 strayed, disturbed>>

AddWorkerNode ==
  /\ changes < MaxChanges /\ changes' = changes + 1
  /\ Length < MaxNodes
  /\ workerNodes' = Append(workerNodes, NewNode)
  /\ disturbed' = TRUE
  /\ UNCHANGED <<strategy, weights, retriesCount, keyVars, chosen, now, strayed>>

\* A slip to be noticed: the removed key is kept although it names no node.
KeptKey(key, removed, length) == key

\* remove() moves the key that is removed only.
RemovedKey(key, removed, length) ==
  IF key = removed /\ key > length - 1 THEN length - 1 ELSE key

\* The key each strategy that takes turns looks at next.
TurnKey == CASE strategy = "INTERLEAVED_WEIGHTED_ROUND_ROBIN" -> workerNodeId
             [] strategy \in {"ROUND_ROBIN", "WEIGHTED_ROUND_ROBIN"} ->
                  nextWorkerNodeKey
             [] OTHER -> 0

\* removeWorkerNode: the array first, then the strategy in use.
RemoveWorkerNode(removed) ==
  LET length == Length - 1 IN
  /\ changes < MaxChanges /\ changes' = changes + 1
  /\ length > 0
  /\ workerNodes' = SubSeq(workerNodes, 1, removed)
                      \o SubSeq(workerNodes, removed + 2, Length)
  /\ nextWorkerNodeKey' =
       IF strategy \in {"ROUND_ROBIN", "WEIGHTED_ROUND_ROBIN"}
         THEN RemovedKey(nextWorkerNodeKey, removed, length)
         ELSE nextWorkerNodeKey
  /\ virtualTaskRunTime' =
       IF strategy = "WEIGHTED_ROUND_ROBIN" /\ nextWorkerNodeKey = removed
         THEN 0 ELSE virtualTaskRunTime
  /\ workerNodeId' =
       IF strategy = "INTERLEAVED_WEIGHTED_ROUND_ROBIN"
         THEN RemovedKey(workerNodeId, removed, length) ELSE workerNodeId
  /\ strayed' = (strayed \/ removed < TurnKey)
  /\ disturbed' = TRUE
  /\ UNCHANGED <<strategy, weights, retriesCount, roundId, chosen, now>>

Tick ==
  /\ strategy = "FAIR_SHARE" /\ now < MaxClock
  /\ now' = now + 1
  /\ UNCHANGED <<strategy, weights, retriesCount, keyVars, workerNodes, chosen,
                 changes, strayed, disturbed>>

Change ==
  \/ \E s \in Strategies : SetWorkerChoiceStrategy(s)
  \/ \E w \in WeightOptions : SetWorkerChoiceStrategyOptions(w)
  \/ AddWorkerNode
  \/ \E k \in Keys : RemoveWorkerNode(k)

Answer == \E k \in Keys : \/ \E time \in Times : TaskExecuted(k, time)
                         \/ \E time \in {0} \cup RunTimes : TaskFailed(k, time)

Next == Execute \/ Answer \/ Change \/ Tick

\* The application goes on giving tasks to the pool, as far as MaxInFlight lets
\* it, and tasks are answered, one or the other.
Fairness == WF_vars(Answer \/ Execute)

Spec == Init /\ [][Next]_vars /\ Fairness

-----------------------------------------------------------------------------
(* Properties                                                              *)

\* Types; in particular the interleaved strategy is in a round there is, however
\* options change the rounds under it, until a key led it astray.
TypeOK ==
  /\ strategy \in Strategies /\ weights \in WeightOptions
  /\ workerNodes \in Seq([executed : Nat, failed : Nat, executing : Nat,
                          inFlight : Nat, busy : Nat, elu : Nat, runTime : Nat,
                          end : Int])
  /\ retriesCount \in 0 .. Retries
  /\ \/ strayed \/ strategy # "INTERLEAVED_WEIGHTED_ROUND_ROBIN"
     \/ roundId < RoundCount(weights)

\* execute() returns the key of a listed node, after as many changes of
\* strategy, options and nodes as may be: the strategies that compare always
\* do, and those that take turns unless a lower key than theirs was removed.
\* The interleaved strategy needs a second node.
ChoosesListedNode ==
  [][\/ chosen' \in Keys
     \/ strayed
     \/ strategy = "INTERLEAVED_WEIGHTED_ROUND_ROBIN" /\ Length = 1
     \/ ~Execute]_vars

\* Least used keeps the nodes level but for failures: no node counts more than
\* one task more than another, unless tasks of the other failed, each of which
\* makes room for one more.  So it is whatever the order of the answers, as long
\* as usages count every task (no node is new, no task older than the last reset).
LeastUsedBalances ==
  strategy = "LEAST_USED" /\ ~disturbed =>
    \A j, k \in Keys : LeastUsed[j] <= LeastUsed[k] + 1 + NodeAt(k).failed

\* Between resets the virtual end of fair share never goes back: run time a
\* node has been charged for is not forgotten when it is idle or averages fall.
VirtualTimeAdvances ==
  [][\/ Change
     \/ \A k \in Keys : workerNodes'[k + 1].end >= NodeAt(k).end]_vars

\* Round robin comes to every node again and again.  So do the strategies with
\* weights, whatever the weights and the run times measured, unless they come to
\* give every task to a node of which no time is measured (all its tasks fail).
EveryNodeServed ==
  \/ /\ <>[](strategy # "ROUND_ROBIN" /\ chosen \in Keys)
     /\ <>[][chosen' \in Keys /\ MeasuredTime(NodeAt(chosen')) > 0 => ~Execute]_vars
  \/ \A k \in 0 .. MaxNodes - 1 :
       <>[](/\ k \in Keys /\ Length > 1 /\ ~strayed
            /\ strategy \in {"ROUND_ROBIN", "WEIGHTED_ROUND_ROBIN",
                             "INTERLEAVED_WEIGHTED_ROUND_ROBIN"})
         => []<>(chosen = k)

\* docs/worker-choice-strategies.md:28 of the interleaved strategy: "Once all
\* workers weight have been tested, the next round starts."
NextRoundStarts ==
  [][strategy = "INTERLEAVED_WEIGHTED_ROUND_ROBIN" /\ Execute
       /\ workerNodeId' < workerNodeId =>
         roundId' = (roundId + 1) % RoundCount(weights)]_vars
=============================================================================
