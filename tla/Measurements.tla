---------------------------- MODULE Measurements ----------------------------
(***************************************************************************)
(* What a pool measures about the tasks of one worker node: the usage of   *)
(* the node and of each of its task functions, kept by the two hooks       *)
(* around the execution of a task, and the worker that measures what the   *)
(* choice strategy in use requires.                                        *)
(*                                                                         *)
(* The worker learns what to measure from a message, so that tasks that    *)
(* overlap with a change of strategy are answered with the measurements of *)
(* the strategy before, or without any.                                    *)
(*                                                                         *)
(* Durations are whole numbers; averages and medians are kept multiplied   *)
(* by Scale, to stay whole.  ELU utilizations, quotients of two of these   *)
(* measurements, are left out.                                             *)
(***************************************************************************)
EXTENDS Integers, Sequences, SequencesExt, CircularArray

CONSTANTS
  FunctionNames,  \* task functions of the worker, `default' not among them
  MaxTasks,       \* bound: tasks given to the node
  MaxInFlight,    \* bound: tasks of the node not answered yet
  Durations,      \* run times of tasks, and the active part of them
  WaitTimes,      \* wait times of tasks
  Lifetime,       \* event loop utilization since the worker's start
  HistorySize,    \* size of the measurement histories
  Scale,          \* a common multiple of the lengths of a history, and of 2
  Strategies,     \* the worker choice strategies that are switched between
  MaxChanges      \* bound: changes of strategy, options and function names

\* Values of durations; 0 is also what a missing measurement is counted as.
ASSUME DurationAssumption ==
  Durations \cup WaitTimes \subseteq Nat /\ Lifetime \in Nat
ASSUME HistoryAssumption ==
  /\ HistorySize \in Nat \ {0} /\ Scale \in Nat \ {0}
  /\ \A n \in {2} \cup 1 .. HistorySize : \E q \in 1 .. Scale : Scale = n * q
ASSUME StrategyAssumption ==
  Strategies \subseteq {"ROUND_ROBIN", "LEAST_USED", "LEAST_BUSY", "LEAST_ELU",
                        "FAIR_SHARE", "WEIGHTED_ROUND_ROBIN",
                        "INTERLEAVED_WEIGHTED_ROUND_ROBIN"}

VARIABLES
  strategy,          \* workerChoiceStrategy of the context
  median,            \* the median option of each requirement with an average
  taskFunctionNames, \* info.taskFunctionNames, `default' left out
  usage,             \* usage of the node
  taskFunctionsUsage,\* taskFunctionsUsage of the node
  statistics,        \* this.statistics of the worker
  toWorker, toPool,  \* messages under way
  running,           \* tasks the worker has begun
  sent, changes,     \* bounds: tasks sent, changes made
  epoch,             \* history: how often the worker was told what to measure
  told,              \* history: the last such message the worker has handled
  measured           \* history: measurements of the node since the last reset

poolVars == <<strategy, median, taskFunctionNames, usage, taskFunctionsUsage>>
workerVars == <<statistics, running, told>>
countVars == <<changes, epoch>>
vars == <<poolVars, workerVars, toWorker, toPool, sent, countVars, measured>>

\* Measurement kinds, and the option or requirement each one is subject to.
Kinds == {"runTime", "waitTime", "active", "idle"}
RequirementOf(kind) == IF kind \in {"active", "idle"} THEN "elu" ELSE kind

\* `undefined' as a number, and as the key of a Map.
Absent == -1
UndefinedName == "undefined"

-----------------------------------------------------------------------------
(* What a strategy requires.                                               *)

\* Requirements of a measurement: none, its sum, or its sum and an average.
NotRequired == [aggregate |-> FALSE, average |-> FALSE]
SumRequired == [aggregate |-> TRUE, average |-> FALSE]
AverageRequired == [aggregate |-> TRUE, average |-> TRUE]

\* taskStatisticsRequirements, as each strategy begins with them.
DefaultRequirements ==
  [runTime |-> NotRequired, waitTime |-> NotRequired, elu |-> NotRequired]
LeastBusyRequirements ==
  [DefaultRequirements EXCEPT !.runTime = SumRequired, !.waitTime = SumRequired]
LeastEluRequirements == [DefaultRequirements EXCEPT !.elu = SumRequired]
FairShareRequirements ==
  [DefaultRequirements EXCEPT !.runTime = AverageRequired, !.elu = AverageRequired]
WeightedRoundRobinRequirements ==
  [DefaultRequirements EXCEPT !.runTime = AverageRequired]
InterleavedWeightedRoundRobinRequirements ==
  [DefaultRequirements EXCEPT !.runTime = AverageRequired]

\* getTaskStatisticsRequirements, but for the medians.
TaskStatisticsRequirements(s) ==
  CASE s \in {"ROUND_ROBIN", "LEAST_USED"} -> DefaultRequirements
    [] s = "LEAST_BUSY" -> LeastBusyRequirements
    [] s = "LEAST_ELU" -> LeastEluRequirements
    [] s = "FAIR_SHARE" -> FairShareRequirements
    [] s = "WEIGHTED_ROUND_ROBIN" -> WeightedRoundRobinRequirements
    [] s = "INTERLEAVED_WEIGHTED_ROUND_ROBIN" ->
         InterleavedWeightedRoundRobinRequirements

\* The requirements as the last toggling of the medians left them.
Requirements(kind) ==
  LET required == TaskStatisticsRequirements(strategy)[RequirementOf(kind)]
      toggled == required.average /\ median[RequirementOf(kind)]
  IN  [aggregate |-> required.aggregate,
       average |-> required.average /\ ~toggled,
       median |-> toggled]

\* What the worker is told to measure.
WorkerStatistics(s) ==
  [runTime |-> TaskStatisticsRequirements(s).runTime.aggregate,
   elu |-> TaskStatisticsRequirements(s).elu.aggregate]

-----------------------------------------------------------------------------
(* Statistics of one kind of measurement.                                  *)

Average(dataSet) ==
  IF dataSet = <<>> THEN 0
  ELSE (Scale * FoldLeft(+, 0, dataSet)) \div Len(dataSet)

\* A copy of a data set in ascending order.
Sorted(dataSet) ==
  LET order == CHOOSE p \in [DOMAIN dataSet -> DOMAIN dataSet] :
        \A i, j \in DOMAIN dataSet :
          i < j => p[i] # p[j] /\ dataSet[p[i]] <= dataSet[p[j]]
  IN  [i \in DOMAIN dataSet |-> dataSet[order[i]]]

Median(dataSet) ==
  IF dataSet = <<>> THEN 0
  ELSE LET sorted == Sorted(dataSet)
       IN  (Scale * (sorted[(Len(sorted) - 1) \div 2 + 1]
                       + sorted[Len(sorted) \div 2 + 1])) \div 2

NoStatistics == [aggregate |-> Absent, minimum |-> Absent, maximum |-> Absent,
                 average |-> Absent, median |-> Absent, history |-> <<>>]

\* A slip to be noticed: what is no longer required is left as it was.
UpdateKeepingOld(s, required, value) ==
  LET history == IF required.average \/ required.median
                   THEN PushItems([items |-> s.history, size |-> HistorySize],
                                  <<value>>).items
                   ELSE s.history
  IN  IF ~required.aggregate THEN s
      ELSE [aggregate |-> (IF s.aggregate = Absent THEN 0 ELSE s.aggregate) + value,
            minimum |-> IF s.minimum = Absent \/ value < s.minimum
                          THEN value ELSE s.minimum,
            maximum |-> IF value > s.maximum THEN value ELSE s.maximum,
            history |-> history,
            average |-> IF required.average THEN Average(history) ELSE s.average,
            median |-> IF required.median THEN Median(history) ELSE s.median]

UpdateMeasurementStatistics(s, required, value) ==
  LET keepsHistory == required.average \/ required.median
      array == [items |-> s.history, size |-> HistorySize]
      history == IF keepsHistory THEN PushItems(array, <<value>>).items
                                 ELSE s.history
  IN  IF ~required.aggregate THEN s
      ELSE [aggregate |-> (IF s.aggregate = Absent THEN 0 ELSE s.aggregate) + value,
            minimum |-> IF s.minimum = Absent \/ value < s.minimum
                          THEN value ELSE s.minimum,
            maximum |-> IF value > s.maximum THEN value ELSE s.maximum,
            history |-> history,
            average |-> IF required.average THEN Average(history)
                        ELSE IF keepsHistory THEN Absent ELSE s.average,
            median |-> IF required.median THEN Median(history)
                       ELSE IF keepsHistory THEN Absent ELSE s.median]

\* Counts of tasks, statistics of measurements, and the usage they make up.
TaskStatistics == [executed : Nat, executing : Nat, failed : Nat]
MeasurementStatistics ==
  [aggregate : Int, minimum : Int, maximum : Int, average : Int, median : Int,
   history : Seq(Nat)]
WorkerUsage ==
  [tasks : TaskStatistics, statistics : [Kinds -> MeasurementStatistics]]

InitUsage == [tasks |-> [executed |-> 0, executing |-> 0, failed |-> 0],
              statistics |-> [k \in Kinds |-> NoStatistics]]

\* The given kinds of a usage updated with a value for each.
Updated(u, values) ==
  [u EXCEPT !.statistics = [k \in Kinds |->
     IF k \in DOMAIN values
       THEN UpdateMeasurementStatistics(@[k], Requirements(k), values[k])
       ELSE @[k]]]

\* What is measured of the node, for the properties.
Recorded(values) ==
  measured' = [k \in Kinds |->
    IF k \in DOMAIN values /\ Requirements(k).aggregate
      THEN Append(measured[k], values[k]) ELSE measured[k]]

-----------------------------------------------------------------------------
(* The usage of task functions.                                            *)

\* shallUpdateTaskFunctionWorkerUsage: names.length > 2, `default' included.
ShallUpdateFunctions == Len(taskFunctionNames) > 1

\* A slip to be noticed: tasks of the default function are a key of their own.
FunctionKeyAsNamed(name) == name

\* The key of a task function usage; `default' stands for the first function.
FunctionKey(name) == IF name = "default" THEN taskFunctionNames[1] ELSE name

\* getTaskFunctionWorkerUsage creates the usage it does not find.
FunctionsUpdated(name, u) ==
  taskFunctionsUsage' =
    IF ShallUpdateFunctions
      THEN [n \in DOMAIN taskFunctionsUsage \cup {FunctionKey(name)} |->
              IF n = FunctionKey(name) THEN u ELSE taskFunctionsUsage[n]]
      ELSE taskFunctionsUsage
FunctionUsage(name) ==
  IF FunctionKey(name) \in DOMAIN taskFunctionsUsage
    THEN taskFunctionsUsage[FunctionKey(name)] ELSE InitUsage

BeforeTaskExecutionHook(name, waitTime) ==
  LET begun(u) == [Updated(u, [waitTime |-> waitTime]) EXCEPT !.tasks.executing = @ + 1]
  IN  /\ usage' = begun(usage)
      /\ FunctionsUpdated(name, begun(FunctionUsage(name)))
      /\ Recorded([waitTime |-> waitTime])

\* updateTaskStatisticsWorkerUsage
Counted(u, ok) ==
  [u EXCEPT !.tasks.executing = IF @ > 0 THEN @ - 1 ELSE @,
            !.tasks.executed = IF ok THEN @ + 1 ELSE @,
            !.tasks.failed = IF ok THEN @ ELSE @ + 1]

\* An answer without a measurement counts as 0 where one is required, and an
\* error has no taskPerformance to take the name of the function from.
AfterTaskExecutionHook(answer) ==
  LET orZero(n) == IF n = Absent THEN 0 ELSE n
      performance == answer.taskPerformance
      values == IF answer.ok THEN [runTime |-> orZero(performance.runTime),
                                   active |-> orZero(performance.active),
                                   idle |-> orZero(performance.idle)]
                             ELSE <<>>
      ended(u) == Updated(Counted(u, answer.ok), values)
      name == IF answer.ok THEN performance.name ELSE UndefinedName
  IN  /\ usage' = ended(usage)
      /\ FunctionsUpdated(name, ended(FunctionUsage(name)))
      /\ Recorded(values)

-----------------------------------------------------------------------------
(* The pool.                                                               *)

StatisticsMessage(s) == [type |-> "statistics", statistics |-> WorkerStatistics(s)]

Init ==
  /\ strategy \in Strategies
  /\ median = [r \in {"runTime", "elu"} |-> FALSE]
  /\ \E f \in FunctionNames : taskFunctionNames \in
       {<<f>>} \cup {<<f, g>> : g \in FunctionNames \ {f}}
  /\ usage = InitUsage
  /\ taskFunctionsUsage = <<>>
  /\ statistics = [runTime |-> FALSE, elu |-> FALSE]
  /\ toWorker = <<StatisticsMessage(strategy)>>
  /\ toPool = <<>>
  /\ running = {}
  /\ sent = 0 /\ changes = 0 /\ epoch = 1 /\ told = 0
  /\ measured = [k \in Kinds |-> <<>>]

\* executeTask
ExecuteTask(name, waitTime) ==
  /\ sent < MaxTasks /\ sent' = sent + 1
  /\ Cardinality(running) + Len(toPool)
       + Len(SelectSeq(toWorker, LAMBDA m : m.type = "task")) < MaxInFlight
  /\ BeforeTaskExecutionHook(name, waitTime)
  /\ toWorker' = Append(toWorker, [type |-> "task", id |-> sent + 1, name |-> name])
  /\ UNCHANGED <<strategy, median, taskFunctionNames, workerVars, toPool,
                 countVars>>

HandleTaskExecutionResponse ==
  /\ toPool # <<>>
  /\ AfterTaskExecutionHook(Head(toPool))
  /\ toPool' = Tail(toPool)
  /\ UNCHANGED <<strategy, median, taskFunctionNames, workerVars, toWorker,
                 sent, countVars>>

\* A slip to be noticed: the worker is told before the strategy has changed.
ToldBeforeChange(s) == StatisticsMessage(strategy)
ToldOnChange(s) == StatisticsMessage(s)

\* A slip to be noticed: the usages of task functions survive.
ResetNodeOnly ==
  /\ usage' = InitUsage
  /\ taskFunctionsUsage' = taskFunctionsUsage
  /\ measured' = [k \in Kinds |-> <<>>]
ResetUsage ==
  /\ usage' = InitUsage
  /\ taskFunctionsUsage' = <<>>
  /\ measured' = [k \in Kinds |-> <<>>]

\* setWorkerChoiceStrategy without options; with options it is followed by
\* setWorkerChoiceStrategyOptions before anything else happens.
SetWorkerChoiceStrategy(s) ==
  /\ changes < MaxChanges /\ changes' = changes + 1
  /\ strategy' = s
  /\ ResetUsage
  /\ toWorker' = Append(toWorker, ToldOnChange(s))
  /\ epoch' = epoch + 1
  /\ UNCHANGED <<median, taskFunctionNames, workerVars, toPool, sent>>

SetWorkerChoiceStrategyOptions(medians) ==
  /\ changes < MaxChanges /\ changes' = changes + 1
  /\ median' = medians
  /\ UNCHANGED <<strategy, taskFunctionNames, usage, taskFunctionsUsage,
                 workerVars, toWorker, toPool, sent, epoch, measured>>

\* The names arrive after a function was added, removed or made the default.
ReceiveTaskFunctionNames(names) ==
  /\ changes < MaxChanges /\ changes' = changes + 1
  /\ taskFunctionNames' = names
  /\ UNCHANGED <<strategy, median, usage, taskFunctionsUsage, workerVars,
                 toWorker, toPool, sent, epoch, measured>>

\* removeTaskFunction deletes the usage of the function once every worker has
\* answered, after telling its names: answers of its tasks may still come.
DeleteTaskFunctionWorkerUsage(name) ==
  /\ name \in DOMAIN taskFunctionsUsage \ Range(taskFunctionNames)
  /\ taskFunctionsUsage' = [n \in DOMAIN taskFunctionsUsage \ {name} |->
                               taskFunctionsUsage[n]]
  /\ UNCHANGED <<strategy, median, taskFunctionNames, usage, workerVars,
                 toWorker, toPool, sent, countVars, measured>>

-----------------------------------------------------------------------------
(* The worker.                                                             *)

ReceiveStatistics ==
  /\ toWorker # <<>> /\ Head(toWorker).type = "statistics"
  /\ statistics' = Head(toWorker).statistics
  /\ told' = told + 1
  /\ toWorker' = Tail(toWorker)
  /\ UNCHANGED <<poolVars, running, toPool, sent, countVars, measured>>

\* A task begins; beginTaskPerformance notes whether the ELU is measured.
BeginTask ==
  /\ toWorker # <<>> /\ Head(toWorker).type = "task"
  /\ running' = running \cup {[id |-> Head(toWorker).id, name |-> Head(toWorker).name,
                               elu |-> statistics.elu, begun |-> told]}
  /\ toWorker' = Tail(toWorker)
  /\ UNCHANGED <<poolVars, statistics, told, toPool, sent, countVars, measured>>

\* The ELU of a task is a difference of two readings.  With one of them
\* missing, what is sent is the ELU of the whole life of the worker.
TaskPerformance(task, runTime, active) ==
  LET measures == task.elu \/ statistics.elu
      difference == task.elu /\ statistics.elu
  IN  [name |-> task.name,
       runTime |-> IF statistics.runTime THEN runTime ELSE Absent,
       active |-> IF ~measures THEN Absent
                  ELSE IF difference THEN active ELSE Lifetime,
       idle |-> IF ~measures THEN Absent
                ELSE IF difference THEN runTime - active ELSE Lifetime]

EndTask(task, runTime, active) ==
  /\ running' = running \ {task}
  /\ toPool' = Append(toPool,
       [id |-> task.id, ok |-> TRUE, begun |-> task.begun,
        taskPerformance |-> TaskPerformance(task, runTime, active)])
  /\ UNCHANGED <<poolVars, statistics, told, toWorker, sent, countVars, measured>>

FailTask(task) ==
  /\ running' = running \ {task}
  /\ toPool' = Append(toPool, [id |-> task.id, ok |-> FALSE])
  /\ UNCHANGED <<poolVars, statistics, told, toWorker, sent, countVars, measured>>

Names == FunctionNames \cup {"default"}

\* Lists with two functions, or with the default one alone.
NameLists == ({<<f, g>> : f, g \in FunctionNames} \ {<<f, f>> : f \in FunctionNames})
               \cup {<<taskFunctionNames[1]>>}

Next ==
  \/ \E name \in Names, w \in WaitTimes : ExecuteTask(name, w)
  \/ HandleTaskExecutionResponse
  \/ \E s \in Strategies : SetWorkerChoiceStrategy(s)
  \/ \E medians \in [{"runTime", "elu"} -> BOOLEAN] :
       SetWorkerChoiceStrategyOptions(medians)
  \/ \E names \in NameLists : ReceiveTaskFunctionNames(names)
  \/ \E name \in FunctionNames : DeleteTaskFunctionWorkerUsage(name)
  \/ ReceiveStatistics
  \/ BeginTask
  \/ \E task \in running :
       \/ \E r, a \in Durations : a <= r /\ EndTask(task, r, a)
       \/ FailTask(task)

Spec == Init /\ [][Next]_vars

-----------------------------------------------------------------------------
(* Properties                                                              *)

\* Types; in particular no counter goes below 0, and a task function usage is
\* only kept for a function or for the answers that name none: the tasks of
\* `default' are counted for the function it stands for.
TypeOK ==
  /\ {usage} \cup Range(taskFunctionsUsage) \subseteq WorkerUsage
  /\ DOMAIN taskFunctionsUsage \subseteq FunctionNames \cup {UndefinedName}
  /\ told <= epoch /\ \A task \in running : task.begun \in 1 .. told

\* How many values of a sequence satisfy a test against a bound.
AtMost(s, b) == Cardinality({i \in 1 .. Len(s) : Scale * s[i] <= b})
AtLeast(s, b) == Cardinality({i \in 1 .. Len(s) : Scale * s[i] >= b})

\* The statistics of the node are those of exactly the measurements that were
\* required since the strategy was chosen, whatever options were changed in
\* between: the sum and the extremes of all of them, the history of the latest
\* ones, and of that history the average, or a median with half the values on
\* either side.  Choices between nodes compare these numbers.
StatisticsDescribeMeasurements ==
  \A k \in Kinds :
    LET s == usage.statistics[k]
        m == measured[k]
        h == s.history
    IN  /\ m = <<>> <=> s.aggregate = Absent
        /\ m # <<>> => /\ s.aggregate = FoldLeft(+, 0, m)
                       /\ s.minimum \in Range(m) /\ s.maximum \in Range(m)
                       /\ \A i \in 1 .. Len(m) : m[i] \in s.minimum .. s.maximum
        /\ Len(h) <= HistorySize
        /\ h = SubSeq(m, Len(m) - Len(h) + 1, Len(m))
        /\ s.average # Absent => s.average * Len(h) = Scale * FoldLeft(+, 0, h)
        /\ s.median # Absent => /\ 2 * AtMost(h, s.median) >= Len(h)
                                /\ 2 * AtLeast(h, s.median) >= Len(h)
                                /\ s.median \in Scale * s.minimum .. Scale * s.maximum

\* Every task a function usage counts has been counted for the node, whatever
\* tasks overlapped with a change of strategy, of the default function, or with
\* the arrival of the third name that switches the counting on.
FunctionsAddUp ==
  LET Total(count(_)) == MapThenSumSet(count, DOMAIN taskFunctionsUsage)
  IN  /\ Total(LAMBDA n : taskFunctionsUsage[n].tasks.executed)
           <= usage.tasks.executed
      /\ Total(LAMBDA n : taskFunctionsUsage[n].tasks.failed)
           <= usage.tasks.failed

\* Once an answer has been counted under the current options, the required one
\* of average and median is there and the other one is gone: it is what the
\* next choice reads.
RequiredStatisticIsKept ==
  [][HandleTaskExecutionResponse /\ Head(toPool).ok =>
       \A k \in {"runTime", "active", "idle"} :
         LET r == Requirements(k)
             s == usage'.statistics[k]
         IN  r.average \/ r.median =>
               /\ s.average # Absent <=> r.average
               /\ s.median # Absent <=> r.median]_vars

\* A task that was begun and ended after the worker handled the last message is
\* answered with exactly the measurements the strategy requires, and with those
\* of the task itself; answers of overlapping tasks may lack them.
CurrentAnswersMeasured ==
  \A i \in 1 .. Len(toPool) :
    toPool[i].ok /\ toPool[i].begun = epoch =>
      LET p == toPool[i].taskPerformance
      IN  /\ p.runTime # Absent <=> Requirements("runTime").aggregate
          /\ p.active # Absent <=> Requirements("active").aggregate
          /\ p.runTime # Absent /\ p.active # Absent => p.active + p.idle = p.runTime

\* No method of CircularArray leaves more items than the array has room for,
\* and splice loses none: what it does not leave it returns.  Checked for every
\* history that comes up and every other size it may be given.
ArraysKeepBound ==
  LET array == [items |-> usage.statistics["runTime"].history,
                size |-> HistorySize]
      Fits(a) == Len(a.items) <= a.size
  IN  /\ Full(array) \/ Empty(array) \/ Len(array.items) \in 1 .. HistorySize - 1
      /\ \A n \in 0 .. HistorySize : Fits(NewArray(n, array.items))
      /\ \A n \in 0 .. HistorySize + 1 : Fits(Resize(array, n))
      /\ \A more \in {<<>>, <<0>>, <<0, 1>>, <<0, 1, 2>>} :
           /\ Fits(PushItems(array, more)) /\ Fits(UnshiftItems(array, more))
           /\ Fits(Concat(array, more))
           /\ \A start, deleted \in 0 .. HistorySize + 1 :
                /\ Fits(Splice(array, start, deleted, more))
                /\ Len(SpliceResult(array, start, deleted, more))
                     + Len(Splice(array, start, deleted, more).items)
                     = Len(array.items) + Len(more)
=============================================================================
