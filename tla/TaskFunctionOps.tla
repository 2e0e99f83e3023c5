--------------------------- MODULE TaskFunctionOps ---------------------------
(***************************************************************************)
(* Task functions added to, removed from and made the default of the       *)
(* workers of a cluster pool while it runs.  An operation is broadcast to  *)
(* every worker and settles when as many answers have come as there are    *)
(* worker nodes; dynamic nodes are sent the functions added before them.   *)
(* Beside it, what adds and removes nodes of a cluster pool: the creation  *)
(* of dynamic nodes, their destruction by a kill message, disconnection    *)
(* and a signal, and workers that die.                                     *)
(*                                                                         *)
(* The pool's process and each worker's run one handler at a time; the     *)
(* messages between the pool and a worker keep their order.  Promises are  *)
(* continued before the next handler runs.  Tasks are left to Pool and     *)
(* TaskStealing; the arguments are the valid ones.                         *)
(***************************************************************************)
EXTENDS Integers, Sequences, FiniteSets

CONSTANTS
  Names,        \* names of task functions
  FileNames,    \* those the worker's file defines
  FileDefault,  \* the first of them
  MinSize,      \* static worker nodes
  MaxSize,      \* maximum number of worker nodes
  Workers,      \* bound: workers that are ever created
  Operations,   \* bound: operations called
  MaxDeaths     \* bound: workers that die

ASSUME NamesAssumption == FileNames \subseteq Names /\ FileDefault \in FileNames
ASSUME SizeAssumption == /\ MinSize \in Nat /\ MaxSize \in Nat /\ MinSize <= MaxSize
                         /\ Workers \in Nat /\ MinSize <= Workers
                         /\ Operations \in Nat /\ MaxDeaths \in Nat

Default == "default"   \* DEFAULT_TASK_NAME
ASSUME DefaultAssumption == Default \notin Names

VARIABLES
  \* the pool
  workerNodes,       \* this.workerNodes, as ids of workers
  dynamic,           \* info.dynamic
  taskFunctionNames, \* info.taskFunctionNames
  poolFunctions,     \* this.taskFunctions, as the operations that added them
  operation,         \* the operations called, in order
  promise,           \* the promise of each operation
  listening,         \* the workers an operation's listener is registered on
  received,          \* responsesReceived of each operation
  replaying,         \* the position of a dynamic node that has yet to answer
                     \* what was replayed to it, at its creation, or None
  crashed,           \* a listener threw: the pool's process has ended
  \* the workers and the channels
  process,           \* life cycle of the worker's process
  functions,         \* taskFunctions of the worker, as who defined them
  toWorker, toPool,
  \* history and bounds
  disturbed,         \* operations during which others ran or nodes changed
  created, deaths

nodeVars == <<workerNodes, dynamic, created>>
replayVars == <<replaying, crashed>>
operationVars == <<operation, promise, listening, received, poolFunctions>>
vars == <<nodeVars, operationVars, replayVars, taskFunctionNames, process,
          functions, toWorker, toPool, disturbed, deaths>>

Ids == 1 .. Workers
Calls == 1 .. Operations
Undefined == -1        \* no function of that name
OfFile == 0            \* the function of the worker's file
None == 0              \* no position
Listed == {workerNodes[i] : i \in DOMAIN workerNodes}
Position(w) == CHOOSE i \in DOMAIN workerNodes : workerNodes[i] = w
Pending == {o \in Calls : promise[o] = "pending"}

ProcessStates ==
  {"none",       \* id not used yet
   "forked",     \* has not handled its startup message
   "running",    \* listens to messages
   "left",       \* has disconnected, the pool does not know
   "closed",     \* the pool has seen the channel close
   "exited"}     \* 'exit' has been handled

\* Messages to a worker; an operation carries what the worker needs of it.
Message(type) == [type |-> type]
OperationMessage(kind, name, fn) ==
  [type |-> "operation", kind |-> kind, name |-> name, fn |-> fn]

\* The functions of a worker as its file defines them.
FileFunctions ==
  [n \in Names \cup {Default} |->
     IF n \in FileNames THEN <<OfFile, n>>
     ELSE IF n = Default THEN <<OfFile, FileDefault>> ELSE <<Undefined, n>>]

\* The pool has started.
Init ==
  /\ workerNodes = [i \in 1 .. MinSize |-> i]
  /\ dynamic = [w \in Ids |-> FALSE]
  /\ taskFunctionNames = [w \in Ids |->
       IF w <= MinSize THEN [default |-> FileDefault, names |-> FileNames]
                       ELSE [default |-> Default, names |-> {}]]
  /\ poolFunctions = [n \in Names |-> Undefined]
  /\ operation = <<>>
  /\ promise = [o \in Calls |-> "none"]
  /\ listening = [o \in Calls |-> {}]
  /\ received = [o \in Calls |-> <<>>]
  /\ replaying = [w \in Ids |-> None] /\ crashed = FALSE
  /\ process = [w \in Ids |-> IF w <= MinSize THEN "running" ELSE "none"]
  /\ functions = [w \in Ids |-> FileFunctions]
  /\ toWorker = [w \in Ids |-> <<>>]
  /\ toPool = [w \in Ids |-> <<>>]
  /\ disturbed = {}
  /\ created = MinSize /\ deaths = 0

-----------------------------------------------------------------------------
(* The worker's map of functions.  What an operation leaves of it is equal *)
(* to it where the operation is refused.                                   *)

\* hasTaskFunction
Has(fns, name) == fns[name][1] # Undefined

\* A slip to be noticed: the default function is not replaced with its name.
AddedUnder(fns, name, fn) == [fns EXCEPT ![name] = <<fn, name>>]

\* addTaskFunction: the default function is replaced with the one of its name.
Added(fns, name, fn) ==
  [fns EXCEPT ![Default] = IF fns[name] = @ THEN <<fn, name>> ELSE @,
              ![name] = <<fn, name>>]

\* removeTaskFunction refuses to remove the default function.
IsDefault(fns, name) == fns[name] = fns[Default]
Removed(fns, name) ==
  IF IsDefault(fns, name) THEN fns ELSE [fns EXCEPT ![name] = <<Undefined, name>>]

\* setDefaultTaskFunction
SetDefault(fns, name) ==
  IF Has(fns, name) THEN [fns EXCEPT ![Default] = fns[name]] ELSE fns

Operated(fns, m) == CASE m.kind = "add" -> Added(fns, m.name, m.fn)
                      [] m.kind = "remove" -> Removed(fns, m.name)
                      [] m.kind = "default" -> SetDefault(fns, m.name)

\* The status of the answer: removing what is not there is not an error, but
\* its status is false as well.
Status(fns, m) == CASE m.kind = "add" -> TRUE
                    [] m.kind = "remove" -> Has(fns, m.name) /\ ~IsDefault(fns, m.name)
                    [] m.kind = "default" -> Has(fns, m.name)

\* A slip to be noticed: the pool is not told of functions removed.
RefusedOrRemoved(fns, m) == m.kind = "remove" \/ (m.kind = "default" /\ ~Has(fns, m.name))

\* Whether the operation ends before sendTaskFunctionNamesToMainWorker.
Refused(fns, m) == CASE m.kind = "add" -> FALSE
                     [] m.kind = "remove" -> IsDefault(fns, m.name)
                     [] m.kind = "default" -> ~Has(fns, m.name)

\* listTaskFunctionNames: the name of the default function, and all names.
ListTaskFunctionNames(fns) ==
  LET names == {n \in Names : Has(fns, n)}
      defaults == {n \in names : fns[n] = fns[Default]}
  IN  [default |-> IF defaults = {} THEN Default ELSE CHOOSE n \in defaults : TRUE,
       names |-> names]

-----------------------------------------------------------------------------
(* The workers' processes.                                                 *)

\* Answers of the worker to the message, in order.
Answers(fns, m) ==
  CASE m.type = "ready" ->
         <<[type |-> "ready", names |-> ListTaskFunctionNames(fns)]>>
    [] m.type = "operation" ->
         (IF Refused(fns, m) THEN <<>>
          ELSE <<[type |-> "names",
                  names |-> ListTaskFunctionNames(Operated(fns, m))]>>)
           \o <<[type |-> "status", ok |-> Status(fns, m)]>>
    [] m.type = "kill" -> <<Message("killed")>>
    [] m.type = "disconnect" -> <<>>

\* A worker handles its next message.  Once it has disconnected nothing that
\* was sent to it arrives.
WorkerHandles(w) ==
  LET m == toWorker[w][1]
  IN  /\ process[w] \in {"forked", "running"} /\ toWorker[w] # <<>>
      /\ toPool' = [toPool EXCEPT ![w] = @ \o Answers(functions[w], m)]
      /\ functions' = IF m.type = "operation"
                        THEN [functions EXCEPT ![w] = Operated(@, m)] ELSE functions
      /\ process' = [process EXCEPT ![w] =
                       IF m.type = "disconnect" THEN "left" ELSE "running"]
      /\ toWorker' = [toWorker EXCEPT ![w] =
                        IF m.type = "disconnect" THEN <<>> ELSE Tail(@)]
      /\ UNCHANGED <<nodeVars, operationVars, replayVars, taskFunctionNames,
                     disturbed, deaths>>

\* A worker dies; what it has sent still arrives.
WorkerDies(w) ==
  /\ process[w] \in {"forked", "running"} /\ deaths < MaxDeaths
  /\ deaths' = deaths + 1
  /\ process' = [process EXCEPT ![w] = "left"]
  /\ toWorker' = [toWorker EXCEPT ![w] = <<>>]
  /\ UNCHANGED <<nodeVars, operationVars, replayVars, taskFunctionNames,
                 functions, toPool, disturbed>>

-----------------------------------------------------------------------------
(* The pool: nodes.                                                        *)

\* What is sent to a channel that is closed is lost (and the pool told with an
\* 'error' event, see Pool).
Sent(messages, w, ms) ==
  [messages EXCEPT ![w] = IF process[w] \in {"left", "closed"} THEN @ ELSE @ \o ms]

\* A slip to be noticed: a dynamic node only gets what its file defines.
NothingReplayed == <<>>

\* The functions of the pool in the order of the map, which is that of the
\* operations that set them first; here, of those that set them last.
Replayed ==
  LET added == {o \in Calls : \E n \in Names : poolFunctions[n] = o}
      Name(o) == operation[o].name
  IN  [i \in 1 .. Cardinality(added) |->
         LET o == CHOOSE o \in added : Cardinality({p \in added : p < o}) = i - 1
         IN  OperationMessage("add", Name(o), o)]

\* A slip to be noticed: the position is that after the new node.
PositionAfter == Len(workerNodes) + 2

\* The position createAndSetupWorkerNode returns.
PositionCreated == Len(workerNodes) + 1

\* createAndSetupDynamicWorkerNode, when the pool is busy and not full.
CreateDynamicNode ==
  LET w == created + 1 IN
  /\ ~crashed /\ created < Workers /\ Len(workerNodes) < MaxSize
  /\ created' = w
  /\ workerNodes' = Append(workerNodes, w)
  /\ dynamic' = [dynamic EXCEPT ![w] = TRUE]
  /\ process' = [process EXCEPT ![w] = "forked"]
  /\ toWorker' = [toWorker EXCEPT ![w] = <<Message("ready")>> \o Replayed]
  /\ replaying' = [replaying EXCEPT ![w] = IF Replayed = <<>> THEN None
                                            ELSE PositionCreated]
  /\ disturbed' = disturbed \cup Pending
  /\ UNCHANGED <<operationVars, crashed, taskFunctionNames, functions, toPool,
                 deaths>>

\* destroyWorkerNode of a dynamic node: the kill message is sent.
DestroyNode(w) ==
  /\ ~crashed /\ w \in Listed /\ dynamic[w] /\ process[w] = "running"
  /\ \A m \in {toWorker[w][i] : i \in DOMAIN toWorker[w]}
               \cup {toPool[w][i] : i \in DOMAIN toPool[w]} :
       m.type \notin {"kill", "killed", "disconnect"}
  /\ toWorker' = Sent(toWorker, w, <<Message("kill")>>)
  /\ UNCHANGED <<nodeVars, operationVars, replayVars, taskFunctionNames,
                 process, functions, toPool, disturbed, deaths>>

\* 'disconnect', and the signal that is sent then.
Disconnected(w) ==
  /\ ~crashed /\ process[w] = "left" /\ toPool[w] = <<>>
  /\ process' = [process EXCEPT ![w] = "closed"]
  /\ UNCHANGED <<nodeVars, operationVars, replayVars, taskFunctionNames,
                 functions, toWorker, toPool, disturbed, deaths>>

\* 'exit': the node is removed, and not replaced.
WorkerExit(w) ==
  /\ ~crashed /\ process[w] = "closed"
  /\ process' = [process EXCEPT ![w] = "exited"]
  /\ workerNodes' = SubSeq(workerNodes, 1, Position(w) - 1)
                      \o SubSeq(workerNodes, Position(w) + 1, Len(workerNodes))
  /\ disturbed' = disturbed \cup Pending
  /\ UNCHANGED <<dynamic, created, operationVars, replayVars,
                 taskFunctionNames, functions, toWorker, toPool, deaths>>

-----------------------------------------------------------------------------
(* The pool: operations.                                                   *)

\* Every operation that is under way when another one begins, or while answers
\* to another one are to come, or while a worker is about to leave.
Overlapping(o) ==
  LET InTransit(w) == \/ \E i \in DOMAIN toWorker[w] : toWorker[w][i].type = "operation"
                      \/ \E i \in DOMAIN toPool[w] : toPool[w][i].type = "status"
      Leaving(w) == \/ process[w] \in {"left", "closed"}
                    \/ \E i \in DOMAIN toWorker[w] :
                         toWorker[w][i].type \in {"kill", "disconnect"}
                    \/ \E i \in DOMAIN toPool[w] : toPool[w][i].type = "killed"
  IN  Pending \cup (IF Pending # {} \/ workerNodes = <<>>
                       \/ \E w \in Listed : InTransit(w) \/ Leaving(w)
                      THEN {o} ELSE {})

\* A slip to be noticed: only the answer of the first node is listened to.
FirstListened == {w \in Listed : w = workerNodes[1]}

\* registerWorkerMessageListener
Listened == Listed

\* sendTaskFunctionOperationToWorkers, up to the first answer.
Broadcast(o, kind, name) ==
  /\ promise' = [promise EXCEPT ![o] = "pending"]
  /\ listening' = [listening EXCEPT ![o] = Listened]
  /\ toWorker' = [w \in Ids |->
       IF w \in Listed
         THEN Sent(toWorker, w, <<OperationMessage(kind, name, o)>>)[w]
         ELSE toWorker[w]]
  /\ disturbed' = disturbed \cup Overlapping(o)

\* addTaskFunction, removeTaskFunction and setDefaultTaskFunction; the pool
\* only removes functions it has added.
CallOperation(kind, name) ==
  LET o == Len(operation) + 1 IN
  /\ ~crashed /\ o \in Calls
  /\ operation' = Append(operation, [kind |-> kind, name |-> name])
  /\ IF kind = "remove" /\ poolFunctions[name] = Undefined
       THEN /\ promise' = [promise EXCEPT ![o] = "rejected"]
            /\ UNCHANGED <<listening, toWorker, disturbed>>
       ELSE Broadcast(o, kind, name)
  /\ UNCHANGED <<nodeVars, received, poolFunctions, replayVars,
                 taskFunctionNames, process, functions, toPool, deaths>>

\* A slip to be noticed: one answer less is enough.
OneMissing(answers) == Len(answers) = Len(workerNodes) - 1

\* The answers are counted against the nodes there are now.
Complete(answers) == Len(answers) = Len(workerNodes)

Succeeded(answers) == \A i \in DOMAIN answers : answers[i]

\* An answer reaches the listener of every operation registered on the worker,
\* whichever operation it answers; the listener of the operation that settles
\* is only removed from this worker.
StatusReceived(w, ok) ==
  LET reached == {o \in Calls : w \in listening[o]}
      now == [o \in Calls |-> IF o \in reached THEN Append(received[o], ok)
                                               ELSE received[o]]
      settled == {o \in reached : Complete(now[o])}
      resolved == {o \in settled : promise[o] = "pending" /\ Succeeded(now[o])}
      Changing(n) == {o \in resolved : operation[o].kind \in {"add", "remove"}
                                         /\ operation[o].name = n}
      Last(os) == CHOOSE o \in os : \A p \in os : p <= o
  IN  /\ received' = now
      /\ listening' = [o \in Calls |-> IF o \in settled THEN listening[o] \ {w}
                                                        ELSE listening[o]]
      /\ promise' = [o \in Calls |->
           IF o \in settled /\ promise[o] = "pending"
             THEN IF o \in resolved THEN "resolved" ELSE "rejected"
             ELSE promise[o]]
      /\ poolFunctions' = [n \in Names |->
           IF Changing(n) = {} THEN poolFunctions[n]
           ELSE IF operation[Last(Changing(n))].kind = "add" THEN Last(Changing(n))
           ELSE Undefined]

\* sendTaskFunctionOperationToWorker: the listeners that wait for the answers
\* of a dynamic node look it up, at any message, by the position it was created
\* at; the first answer of the node found there is the answer to all of them.
ReplayAnswered(w, m) ==
  /\ crashed' = (replaying[w] > Len(workerNodes))
  /\ replaying' = [replaying EXCEPT ![w] =
       IF m.type = "status" /\ @ \in DOMAIN workerNodes /\ workerNodes[@] = w
         THEN None ELSE @]

\* The listeners on a worker's messages, in the order of their registration.
PoolHandles(w) ==
  LET m == toPool[w][1]
  IN  /\ ~crashed /\ toPool[w] # <<>>
      /\ ReplayAnswered(w, m)
      /\ toPool' = [toPool EXCEPT ![w] = Tail(@)]
      /\ taskFunctionNames' = IF m.type \in {"ready", "names"}
           THEN [taskFunctionNames EXCEPT ![w] = m.names] ELSE taskFunctionNames
      /\ IF m.type = "status" /\ ~crashed' THEN StatusReceived(w, m.ok)
           ELSE UNCHANGED <<promise, listening, received, poolFunctions>>
      /\ toWorker' = IF m.type = "killed"
                       THEN Sent(toWorker, w, <<Message("disconnect")>>)
                       ELSE toWorker
      /\ UNCHANGED <<nodeVars, operation, process, functions, disturbed, deaths>>

-----------------------------------------------------------------------------
\* Processes and channels go on.
Progress(w) == WorkerHandles(w) \/ PoolHandles(w) \/ Disconnected(w) \/ WorkerExit(w)

Next ==
  \/ \E w \in Ids : Progress(w) \/ WorkerDies(w) \/ DestroyNode(w)
  \/ CreateDynamicNode
  \/ \E kind \in {"add", "remove", "default"}, n \in Names : CallOperation(kind, n)

Fairness == \A w \in Ids : WF_vars(Progress(w))

Spec == Init /\ [][Next]_vars /\ Fairness

-----------------------------------------------------------------------------
(* Properties                                                              *)

\* Types; in particular the default function of a worker always has a name, or
\* its tasks would be counted under none.
TypeOK ==
  /\ workerNodes \in Seq(Ids) /\ dynamic \in [Ids -> BOOLEAN]
  /\ promise \in [Calls -> {"none", "pending", "resolved", "rejected"}]
  /\ process \in [Ids -> ProcessStates]
  /\ received \in [Calls -> Seq(BOOLEAN)]
  /\ replaying \in [Ids -> Nat] /\ crashed \in BOOLEAN
  /\ poolFunctions \in [Names -> {Undefined} \cup Calls]
  /\ \A w \in Ids : \E n \in Names :
       functions[w][n] = functions[w][Default] /\ Has(functions[w], n)

Live(w) == w \in Listed /\ process[w] = "running"

\* The pool knows the functions of a worker: what it has on record is what the
\* worker has, once the messages under way have arrived.
NamesFollow ==
  \A w \in Listed :
    LET told == {i \in DOMAIN toPool[w] : toPool[w][i].type \in {"ready", "names"}}
        last == IF told = {} THEN taskFunctionNames[w]
                ELSE toPool[w][CHOOSE i \in told : \A j \in told : j <= i].names
    IN  Live(w) => last = ListTaskFunctionNames(functions[w])

\* What an operation is to leave in a worker.
Done(w, o) ==
  LET name == operation[o].name
      fns == functions[w]
  IN  CASE operation[o].kind = "add" -> fns[name] = <<o, name>>
        [] operation[o].kind = "remove" -> ~Has(fns, name)
        [] operation[o].kind = "default" -> IsDefault(fns, name)

\* The promise of an operation only resolves when every worker has carried it
\* out, unless answers to other operations, or nodes that come and go, upset
\* the count.
ResolvedMeansDone ==
  [][\A o \in Calls :
       promise[o] = "pending" /\ promise'[o] = "resolved" /\ o \notin disturbed =>
         \A w \in Listed : Done(w, o)]_vars

\* Every operation settles, unless it is upset in the same way.
OperationsSettle ==
  \A o \in Calls : promise[o] = "pending" ~> promise[o] # "pending" \/ o \in disturbed

\* The listeners of replayed functions end the pool's process only where a node
\* that was before theirs in the array has left while they waited; not because
\* of operations, deaths and kills of other nodes, or nodes created meanwhile.
CrashOnlyAfterRemoval ==
  crashed => \E w \in Listed : /\ replaying[w] > Len(workerNodes)
                              /\ \E v \in 1 .. w - 1 : process[v] = "exited"

\* Whether a removal of the function the pool has added is under way or failed:
\* workers whose default it is not have carried it out all the same.
RemovalTried(n) ==
  \E o \in Calls : /\ o > poolFunctions[n] /\ promise[o] \in {"pending", "rejected"}
                    /\ operation[o] = [kind |-> "remove", name |-> n]

\* Every node has, or is about to get, the functions the pool has added and not
\* removed since, however its creation and death fall between operations.
NodesCatchUp ==
  disturbed = {} =>
    \A w \in Listed, n \in Names :
      /\ process[w] \in {"forked", "running"}
      /\ poolFunctions[n] # Undefined
      /\ ~ \E o \in Pending : operation[o] = [kind |-> "add", name |-> n]
      /\ ~ RemovalTried(n)
      => \/ functions[w][n] = <<poolFunctions[n], n>>
         \/ \E i \in DOMAIN toWorker[w] :
              toWorker[w][i] = OperationMessage("add", n, poolFunctions[n])
==============================================================================
