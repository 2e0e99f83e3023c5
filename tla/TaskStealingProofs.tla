------------------------- MODULE TaskStealingProofs -------------------------
(***************************************************************************)
(* Theorems about TaskStealing, for every value of its constants: however  *)
(* the callbacks nest, no task is doubled or dropped, no callback calls    *)
(* itself, a node has one stealing loop, and the counters are exact.       *)
(***************************************************************************)
EXTENDS TaskStealing, SequenceTheorems, FiniteSetTheorems,
        WellFoundedInduction, TLAPS

-----------------------------------------------------------------------------
(* What a stack of calls says: the tasks it holds, and the nodes that have *)
(* a frame of some kinds.                                                  *)

TasksIn(frames) == {frames[i].task : i \in DOMAIN frames} \ {None}
OnceIn(frames) ==
  \A i, j \in DOMAIN frames :
    frames[i].task = frames[j].task /\ frames[i].task # None => i = j

NodesAt(frames, kinds) ==
  {frames[i].node : i \in {i \in DOMAIN frames : frames[i].at \in kinds}}
OnceAt(frames, kinds) ==
  \A i, j \in DOMAIN frames :
    /\ frames[i].at \in kinds /\ frames[j].at \in kinds
    /\ frames[i].node = frames[j].node
    => i = j

Ends == {"onBackPressureEnd"}
Starts == {"startOnEmptyQueue"}
Sleeps == {"sleep"}
Loops == {"startOnEmptyQueue", "sleep"}
Executes == {"executeTask"}

-----------------------------------------------------------------------------
(* The inductive invariants.                                               *)

\* A task is delivered to no node only after a node has left.
Receivers == Listed \cup {None : w \in Ids \ Listed}
Orders == Seq([key : DOMAIN workerNodes, node : Listed]) \ {<<>>}

Frames ==
  [at : {"deliver"}, node : Receivers, task : 1 .. Tasks]
    \cup [at : {"executeTask"}, node : Listed, task : 1 .. Tasks]
    \cup [at : {"startOnEmptyQueue", "onEmptyQueue", "sleep"}, node : Ids,
          task : {None}]
    \cup [at : {"onBackPressure", "onBackPressureEnd", "redistributeQueuedTasks"},
          node : Listed, task : {None}]
    \cup [at : {"flushTasksQueues", "disableTasksQueue", "call", "listener"},
          node : {None}, task : {None}]
    \cup [at : {"tasksStealingOnBackPressure"}, node : Listed, task : {None},
          order : Orders]

\* No node is listed twice, and a node leaves the list after it is closed.
NodesInv ==
  /\ \A i, j \in DOMAIN workerNodes : workerNodes[i] = workerNodes[j] => i = j
  /\ Len(workerNodes) <= Nodes
  /\ \A w \in Ids : w \notin Listed => ~open[w]

\* While counts are said to be those of the workers, the queues are on.
OptionsInv ==
  /\ strayed \in BOOLEAN /\ crashed \in BOOLEAN
  /\ ~strayed =>
       /\ enableTasksQueue
       /\ tasksQueueOptions \in TasksQueueOptions
       /\ \A w \in Ids : backPressureSize[w] \in Nat \ {0}

\* Every task that was started is counted once, if at all.
Started == answered \cup lost \cup UNION {inFlight[w] : w \in Ids}
CountsBounded == \A w \in Ids : executing[w] <= Cardinality(Started)

Items(queue) == {queue[i] : i \in DOMAIN queue}
queued == [w \in Ids |-> Items(tasksQueue[w])]

NoRepeats ==
  /\ \A w \in Ids : \A i, j \in DOMAIN tasksQueue[w] :
       tasksQueue[w][i] = tasksQueue[w][j] => i = j
  /\ OnceIn(stack)

Somewhere(t) ==
  \/ \E w \in Ids : t \in queued[w] \/ t \in inFlight[w]
  \/ t \in TasksIn(stack) \/ t \in answered \/ t \in lost

\* A task that was given to the pool is in one place, and no other is in any.
OnePlace(t) ==
  /\ \A v, w \in Ids :
       /\ t \in queued[v] /\ t \in queued[w] => v = w
       /\ t \in inFlight[v] /\ t \in inFlight[w] => v = w
       /\ ~ (t \in queued[v] /\ t \in inFlight[w])
  /\ \A w \in Ids : t \in queued[w] \/ t \in inFlight[w] =>
       t \notin TasksIn(stack) /\ t \notin answered /\ t \notin lost
  /\ t \in TasksIn(stack) => t \notin answered /\ t \notin lost
  /\ ~ (t \in answered /\ t \in lost)
  /\ keyOfTask[t] # None <=> Somewhere(t)

PlacesInv ==
  /\ NoRepeats
  /\ \A t \in 1 .. Tasks : OnePlace(t)
  /\ lost # {} => \E w \in Ids : ~open[w]

StackInv == stack \in Seq(Frames)

\* The types, the bound of the counters left aside.
Typed ==
  /\ enableTasksQueue \in BOOLEAN
  /\ tasksQueueOptions \in TasksQueueOptions \cup {NoOptions}
  /\ workerNodes \in Seq(Ids) /\ keyOfTask \in [1 .. Tasks -> 0 .. Nodes]
  /\ ready \in [Ids -> BOOLEAN] /\ open \in [Ids -> BOOLEAN]
  /\ onEmptyQueue \in [Ids -> BOOLEAN] /\ onBackPressure \in [Ids -> BOOLEAN]
  /\ onBackPressureStarted \in [Ids -> BOOLEAN] /\ timer \in [Ids -> BOOLEAN]
  /\ executing \in [Ids -> Nat] /\ onEmptyQueueCount \in [Ids -> 0 .. 1]
  /\ tasksQueue \in [Ids -> Seq(1 .. Tasks)]
  /\ inFlight \in [Ids -> SUBSET (1 .. Tasks)]
  /\ answered \subseteq 1 .. Tasks /\ lost \subseteq 1 .. Tasks

\* onBackPressure is under way once at most, and it says that it is.
CallbacksInv ==
  /\ OnceAt(stack, Ends)
  /\ \A w \in Ids :
       /\ w \in NodesAt(stack, Ends) => onBackPressureStarted[w]
       /\ onBackPressureStarted[w] => w \in NodesAt(stack, Ends) \/ lost # {}

\* A loop begins a round as the innermost call, and between rounds it counts.
LoopsInv ==
  /\ OnceAt(stack, Loops)
  /\ stack # <<>> => NodesAt(Tail(stack), Starts) = {}
  /\ \A w \in Ids :
       /\ w \in NodesAt(stack, Loops) => ~timer[w]
       /\ w \in NodesAt(stack, Sleeps) \/ timer[w] => onEmptyQueueCount[w] = 1
       /\ onEmptyQueueCount[w] = 1 =>
            w \in NodesAt(stack, Loops) \/ timer[w] \/ lost # {}

\* The count of a node is what its worker has, within the concurrency as soon
\* as the task its node was freed for is counted; a node that has tasks queued
\* executes one or is about to.
FlightOf(w) ==
  /\ Cardinality(inFlight[w]) <= executing[w]
  /\ executing[w] <= tasksQueueOptions.concurrency
       + (IF w \in NodesAt(stack, Executes) THEN 0 ELSE 1)
  /\ lost = {} =>
       /\ Cardinality(inFlight[w]) = executing[w]
       /\ tasksQueue[w] # <<>> =>
            executing[w] > 0 \/ w \in NodesAt(stack, Executes)
FlightInv ==
  ~strayed => OnceAt(stack, Executes) /\ \A w \in Ids : FlightOf(w)

-----------------------------------------------------------------------------
(* Sequences of frames: what they say when they are joined or cut.         *)

LEMMA SmallestElement ==
  ASSUME NEW S \in SUBSET Nat, S # {}
  PROVE  \E m \in S : \A n \in S : m <= n
<1>1. \E m \in S : \A n \in S : ~ (<<n, m>> \in OpToRel(<, Nat))
  BY NatLessThanWellFounded, WFMin
<1>2. \A m, n \in Nat : <<n, m>> \in OpToRel(<, Nat) <=> n < m
  BY DEF OpToRel
<1>3. PICK m \in S : \A n \in S : ~ (<<n, m>> \in OpToRel(<, Nat))
  BY <1>1
<1>4. ASSUME NEW n \in S PROVE m <= n
  <2>1. m \in Nat /\ n \in Nat /\ ~ (n < m)
    BY <1>2, <1>3
  <2> QED
    BY <2>1
<1> QED
  BY <1>4

LEMMA JoinedSeqs ==
  ASSUME NEW S, NEW s \in Seq(S), NEW t \in Seq(S), NEW r, r = s \o t
  PROVE  /\ r \in Seq(S)
         /\ \A i \in DOMAIN s : i \in DOMAIN r /\ r[i] = s[i]
         /\ \A i \in DOMAIN t : Len(s) + i \in DOMAIN r /\ r[Len(s) + i] = t[i]
         /\ \A i \in DOMAIN r : \/ i \in DOMAIN s /\ r[i] = s[i]
                                \/ /\ i - Len(s) \in DOMAIN t
                                   /\ r[i] = t[i - Len(s)]
                                   /\ i \notin DOMAIN s
<1>1. /\ DOMAIN s = 1 .. Len(s) /\ Len(s) \in Nat
      /\ DOMAIN t = 1 .. Len(t) /\ Len(t) \in Nat
  BY LenProperties
<1>2. /\ r \in Seq(S) /\ Len(r) = Len(s) + Len(t)
      /\ \A i \in 1 .. Len(s) + Len(t) : r[i] =
           IF i <= Len(s) THEN s[i] ELSE t[i - Len(s)]
  BY ConcatProperties
<1>3. DOMAIN r = 1 .. Len(s) + Len(t)
  BY <1>2, LenProperties
<1> QED
  BY <1>1, <1>2, <1>3

\* Callers and what they called: they hold the tasks of both, ...
Apart(A, B) == \A x \in A : x \notin B

LEMMA JoinedTasks ==
  ASSUME NEW S, NEW s \in Seq(S), NEW t \in Seq(S), NEW r, r = s \o t
  PROVE  /\ \A x : x \in TasksIn(r) <=> x \in TasksIn(s) \/ x \in TasksIn(t)
         /\ OnceIn(r) <=> /\ OnceIn(s) /\ OnceIn(t)
                          /\ Apart(TasksIn(s), TasksIn(t))
<1>1. /\ r \in Seq(S)
      /\ \A i \in DOMAIN s : i \in DOMAIN r /\ r[i] = s[i]
      /\ \A i \in DOMAIN t : Len(s) + i \in DOMAIN r /\ r[Len(s) + i] = t[i]
      /\ \A i \in DOMAIN r : \/ i \in DOMAIN s /\ r[i] = s[i]
                             \/ /\ i - Len(s) \in DOMAIN t
                                /\ r[i] = t[i - Len(s)]
                                /\ i \notin DOMAIN s
  BY JoinedSeqs
<1>2. /\ DOMAIN s = 1 .. Len(s) /\ Len(s) \in Nat
      /\ DOMAIN t = 1 .. Len(t) /\ Len(t) \in Nat
      /\ DOMAIN r = 1 .. Len(r) /\ Len(r) \in Nat
  BY <1>1, LenProperties
<1>3. TasksIn(r) = TasksIn(s) \cup TasksIn(t)
  <2>1. \A x \in TasksIn(r) : x \in TasksIn(s) \cup TasksIn(t)
    BY <1>1 DEF TasksIn
  <2>2. ASSUME NEW x \in TasksIn(s) PROVE x \in TasksIn(r)
    <3>1. PICK i \in DOMAIN s : x = s[i].task /\ x # None
      BY DEF TasksIn
    <3>2. i \in DOMAIN r /\ r[i] = s[i]
      BY <1>1
    <3> QED
      BY <3>1, <3>2 DEF TasksIn
  <2>3. ASSUME NEW x \in TasksIn(t) PROVE x \in TasksIn(r)
    <3>1. PICK i \in DOMAIN t : x = t[i].task /\ x # None
      BY DEF TasksIn
    <3>2. Len(s) + i \in DOMAIN r /\ r[Len(s) + i] = t[i]
      BY <1>1
    <3> QED
      BY <3>1, <3>2 DEF TasksIn
  <2> QED
    BY <2>1, <2>2, <2>3
<1>4. ASSUME OnceIn(r)
      PROVE  /\ OnceIn(s) /\ OnceIn(t)
             /\ \A x \in TasksIn(s) : x \notin TasksIn(t)
  <2>1. OnceIn(s)
    BY <1>1, <1>4 DEF OnceIn
  <2>2. OnceIn(t)
    <3> SUFFICES ASSUME NEW i \in DOMAIN t, NEW j \in DOMAIN t,
                        t[i].task = t[j].task, t[i].task # None
                 PROVE  i = j
      BY DEF OnceIn
    <3>1. Len(s) + i = Len(s) + j
      <4>1. /\ Len(s) + i \in DOMAIN r /\ Len(s) + j \in DOMAIN r
            /\ r[Len(s) + i] = t[i] /\ r[Len(s) + j] = t[j]
        BY <1>1
      <4> QED
        BY <1>4, <4>1 DEF OnceIn
    <3> QED
      BY <1>2, <3>1
  <2>3. ASSUME NEW x \in TasksIn(s), x \in TasksIn(t) PROVE FALSE
    <3>1. PICK i \in DOMAIN s : s[i].task = x /\ x # None
      BY DEF TasksIn
    <3>2. PICK j \in DOMAIN t : t[j].task = x
      BY <2>3 DEF TasksIn
    <3>3. i = Len(s) + j
      BY <1>1, <1>4, <3>1, <3>2 DEF OnceIn
    <3> QED
      BY <1>2, <3>3
  <2> QED
    BY <2>1, <2>2, <2>3
<1>5. ASSUME OnceIn(s), OnceIn(t), \A x \in TasksIn(s) : x \notin TasksIn(t)
      PROVE  OnceIn(r)
  <2>0. ASSUME NEW i \in DOMAIN s, NEW j \in DOMAIN t,
               s[i].task = t[j].task, s[i].task # None
        PROVE  FALSE
    <3>1. s[i].task \in TasksIn(s) /\ t[j].task \in TasksIn(t)
      BY ONLY <2>0, i \in DOMAIN s, j \in DOMAIN t DEF TasksIn
    <3> QED
      BY ONLY <1>5, <2>0, <3>1
  <2> SUFFICES ASSUME NEW i \in DOMAIN r, NEW j \in DOMAIN r,
                      r[i].task = r[j].task, r[i].task # None
               PROVE  i = j
    BY DEF OnceIn
  <2>1. \/ i \in DOMAIN s /\ r[i] = s[i]
        \/ i \notin DOMAIN s /\ i - Len(s) \in DOMAIN t /\ r[i] = t[i - Len(s)]
    BY <1>1
  <2>2. \/ j \in DOMAIN s /\ r[j] = s[j]
        \/ j \notin DOMAIN s /\ j - Len(s) \in DOMAIN t /\ r[j] = t[j - Len(s)]
    BY <1>1
  <2>3. CASE i \in DOMAIN s /\ j \in DOMAIN s
    BY <1>5, <2>1, <2>2, <2>3 DEF OnceIn
  <2>4. CASE i \notin DOMAIN s /\ j \notin DOMAIN s
    <3>1. i - Len(s) = j - Len(s)
      BY <1>5, <2>1, <2>2, <2>4 DEF OnceIn
    <3> QED
      BY <1>2, <3>1
  <2>5. CASE i \in DOMAIN s /\ j \notin DOMAIN s
    <3>1. s[i].task = t[j - Len(s)].task /\ s[i].task # None
      BY <2>1, <2>2, <2>5
    <3> QED
      BY <2>0, <2>1, <2>2, <2>5, <3>1
  <2>6. CASE i \notin DOMAIN s /\ j \in DOMAIN s
    <3>1. s[j].task = t[i - Len(s)].task /\ s[j].task # None
      BY <2>1, <2>2, <2>6
    <3> QED
      BY <2>0, <2>1, <2>2, <2>6, <3>1
  <2> QED
    BY <2>3, <2>4, <2>5, <2>6
<1>6. \A x : x \in TasksIn(r) <=> x \in TasksIn(s) \/ x \in TasksIn(t)
  BY ONLY <1>3
<1> QED
  BY ONLY <1>4, <1>5, <1>6 DEF Apart

\* ... and have the nodes of both.
LEMMA JoinedNodes ==
  ASSUME NEW S, NEW s \in Seq(S), NEW t \in Seq(S), NEW r, r = s \o t, NEW K
  PROVE  /\ \A x : x \in NodesAt(r, K) <=>
                   x \in NodesAt(s, K) \/ x \in NodesAt(t, K)
         /\ OnceAt(r, K) <=> /\ OnceAt(s, K) /\ OnceAt(t, K)
                             /\ Apart(NodesAt(s, K), NodesAt(t, K))
<1>1. /\ r \in Seq(S)
      /\ \A i \in DOMAIN s : i \in DOMAIN r /\ r[i] = s[i]
      /\ \A i \in DOMAIN t : Len(s) + i \in DOMAIN r /\ r[Len(s) + i] = t[i]
      /\ \A i \in DOMAIN r : \/ i \in DOMAIN s /\ r[i] = s[i]
                             \/ /\ i - Len(s) \in DOMAIN t
                                /\ r[i] = t[i - Len(s)]
                                /\ i \notin DOMAIN s
  BY JoinedSeqs
<1>2. /\ DOMAIN s = 1 .. Len(s) /\ Len(s) \in Nat
      /\ DOMAIN t = 1 .. Len(t) /\ Len(t) \in Nat
      /\ DOMAIN r = 1 .. Len(r) /\ Len(r) \in Nat
  BY <1>1, LenProperties
<1>3. NodesAt(r, K) = NodesAt(s, K) \cup NodesAt(t, K)
  <2>1. \A x \in NodesAt(r, K) : x \in NodesAt(s, K) \cup NodesAt(t, K)
    BY <1>1 DEF NodesAt
  <2>2. ASSUME NEW x \in NodesAt(s, K) PROVE x \in NodesAt(r, K)
    <3>1. PICK i \in DOMAIN s : x = s[i].node /\ s[i].at \in K
      BY DEF NodesAt
    <3>2. i \in DOMAIN r /\ r[i] = s[i]
      BY <1>1
    <3> QED
      BY <3>1, <3>2 DEF NodesAt
  <2>3. ASSUME NEW x \in NodesAt(t, K) PROVE x \in NodesAt(r, K)
    <3>1. PICK i \in DOMAIN t : x = t[i].node /\ t[i].at \in K
      BY DEF NodesAt
    <3>2. Len(s) + i \in DOMAIN r /\ r[Len(s) + i] = t[i]
      BY <1>1
    <3> QED
      BY <3>1, <3>2 DEF NodesAt
  <2> QED
    BY <2>1, <2>2, <2>3
<1>4. ASSUME OnceAt(r, K)
      PROVE  /\ OnceAt(s, K) /\ OnceAt(t, K)
             /\ \A x \in NodesAt(s, K) : x \notin NodesAt(t, K)
  <2>1. OnceAt(s, K)
    BY <1>1, <1>4 DEF OnceAt
  <2>2. OnceAt(t, K)
    <3> SUFFICES ASSUME NEW i \in DOMAIN t, NEW j \in DOMAIN t,
                        t[i].at \in K, t[j].at \in K, t[i].node = t[j].node
                 PROVE  i = j
      BY DEF OnceAt
    <3>1. Len(s) + i = Len(s) + j
      <4>1. /\ Len(s) + i \in DOMAIN r /\ Len(s) + j \in DOMAIN r
            /\ r[Len(s) + i] = t[i] /\ r[Len(s) + j] = t[j]
        BY <1>1
      <4> QED
        BY <1>4, <4>1 DEF OnceAt
    <3> QED
      BY <1>2, <3>1
  <2>3. ASSUME NEW x \in NodesAt(s, K), x \in NodesAt(t, K) PROVE FALSE
    <3>1. PICK i \in DOMAIN s : s[i].node = x /\ s[i].at \in K
      BY DEF NodesAt
    <3>2. PICK j \in DOMAIN t : t[j].node = x /\ t[j].at \in K
      BY <2>3 DEF NodesAt
    <3>3. i = Len(s) + j
      BY <1>1, <1>4, <3>1, <3>2 DEF OnceAt
    <3> QED
      BY <1>2, <3>3
  <2> QED
    BY <2>1, <2>2, <2>3
<1>5. ASSUME OnceAt(s, K), OnceAt(t, K),
             \A x \in NodesAt(s, K) : x \notin NodesAt(t, K)
      PROVE  OnceAt(r, K)
  <2> SUFFICES ASSUME NEW i \in DOMAIN r, NEW j \in DOMAIN r,
                      r[i].at \in K, r[j].at \in K, r[i].node = r[j].node
               PROVE  i = j
    BY DEF OnceAt
  <2>1. CASE i \in DOMAIN s /\ j \in DOMAIN s
    BY <1>1, <1>5, <2>1 DEF OnceAt
  <2>2. CASE i \notin DOMAIN s /\ j \notin DOMAIN s
    <3>1. i - Len(s) = j - Len(s)
      BY <1>1, <1>5, <2>2 DEF OnceAt
    <3> QED
      BY <1>2, <3>1
  <2>3. CASE i \in DOMAIN s /\ j \notin DOMAIN s
    <3>1. r[i] = s[i] /\ j - Len(s) \in DOMAIN t /\ r[j] = t[j - Len(s)]
      BY <1>1, <2>3
    <3>2. r[i].node \in NodesAt(s, K) /\ r[j].node \in NodesAt(t, K)
      BY <2>3, <3>1 DEF NodesAt
    <3> QED
      BY <1>5, <3>2
  <2>4. CASE i \notin DOMAIN s /\ j \in DOMAIN s
    <3>1. r[j] = s[j] /\ i - Len(s) \in DOMAIN t /\ r[i] = t[i - Len(s)]
      BY <1>1, <2>4
    <3>2. r[j].node \in NodesAt(s, K) /\ r[i].node \in NodesAt(t, K)
      BY <2>4, <3>1 DEF NodesAt
    <3> QED
      BY <1>5, <3>2
  <2> QED
    BY <2>1, <2>2, <2>3, <2>4
<1> QED
  BY <1>3, <1>4, <1>5 DEF Apart

LEMMA NoFrames ==
  ASSUME NEW S
  PROVE  /\ <<>> \in Seq(S) /\ TasksIn(<<>>) = {} /\ OnceIn(<<>>)
         /\ \A K : NodesAt(<<>>, K) = {} /\ OnceAt(<<>>, K)
BY EmptySeq DEF TasksIn, OnceIn, NodesAt, OnceAt

LEMMA OneFrame ==
  ASSUME NEW S, NEW f \in S
  PROVE  /\ <<f>> \in Seq(S) /\ TasksIn(<<f>>) = {f.task} \ {None}
         /\ OnceIn(<<f>>)
<1>1. DOMAIN <<f>> = {1} /\ <<f>>[1] = f
  OBVIOUS
<1>2. <<f>> \in Seq(S)
  OBVIOUS
<1> QED
  BY <1>1, <1>2 DEF TasksIn, OnceIn

LEMMA OneNode ==
  ASSUME NEW S, NEW f \in S, NEW K
  PROVE  /\ NodesAt(<<f>>, K) = (IF f.at \in K THEN {f.node} ELSE {})
         /\ OnceAt(<<f>>, K)
<1>1. DOMAIN <<f>> = {1} /\ <<f>>[1] = f
  OBVIOUS
<1> QED
  BY <1>1 DEF NodesAt, OnceAt

\* Frames of other kinds change nothing for these.
LEMMA JoinedOthers ==
  ASSUME NEW S, NEW s \in Seq(S), NEW t \in Seq(S), NEW r, r = s \o t, NEW K,
         NodesAt(s, K) = {}, OnceAt(s, K)
  PROVE  /\ \A x : x \in NodesAt(r, K) <=> x \in NodesAt(t, K)
         /\ OnceAt(r, K) <=> OnceAt(t, K)
<1>1. /\ \A x : x \in NodesAt(r, K) <=> x \in NodesAt(s, K) \/ x \in NodesAt(t, K)
      /\ OnceAt(r, K) <=> /\ OnceAt(s, K) /\ OnceAt(t, K)
                          /\ Apart(NodesAt(s, K), NodesAt(t, K))
  BY JoinedNodes
<1> QED
  BY <1>1 DEF Apart

\* A call has its callers under it.
LEMMA TopAndCallers ==
  ASSUME NEW S, NEW s \in Seq(S), s # <<>>
  PROVE  /\ s[1] \in S /\ Tail(s) \in Seq(S)
         /\ s = <<s[1]>> \o Tail(s)
<1>1. /\ DOMAIN s = 1 .. Len(s) /\ Len(s) \in Nat \ {0}
      /\ s[1] \in S /\ Tail(s) \in Seq(S) /\ Len(Tail(s)) = Len(s) - 1
      /\ \A i \in 1 .. Len(s) - 1 : Tail(s)[i] = s[i + 1]
  BY HeadTailProperties, LenProperties, EmptySeq, ElementOfSeq
<1>2. <<s[1]>> \in Seq(S) /\ Len(<<s[1]>>) = 1 /\ <<s[1]>>[1] = s[1]
  BY <1>1
<1> DEFINE r == <<s[1]>> \o Tail(s)
<1>3. /\ r \in Seq(S) /\ Len(r) = 1 + Len(Tail(s))
      /\ \A i \in 1 .. 1 + Len(Tail(s)) : r[i] =
           IF i <= 1 THEN <<s[1]>>[i] ELSE Tail(s)[i - 1]
  BY <1>1, <1>2, ConcatProperties
<1> HIDE DEF r
<1>4. ASSUME NEW i \in 1 .. Len(s) PROVE s[i] = r[i]
  <2>1. CASE i = 1
    BY <1>1, <1>2, <1>3, <2>1
  <2>2. CASE i # 1
    <3>1. i - 1 \in 1 .. Len(s) - 1 /\ (i - 1) + 1 = i
      BY <1>1, <2>2
    <3>2. Tail(s)[i - 1] = s[i]
      BY <1>1, <3>1
    <3> QED
      BY <1>1, <1>3, <2>2, <3>2
  <2> QED
    BY <2>1, <2>2
<1>5. s = r
  <2>1. Len(s) = Len(r)
    BY <1>1, <1>3
  <2> QED
    BY <1>3, <1>4, <2>1, SeqEqual
<1> QED
  BY <1>1, <1>5 DEF r

\* An exception drops the innermost calls.
CutOff(s, k) == {s[i].task : i \in 1 .. k} \ {None}
RestOf(s, k, r) ==
  /\ \A i \in DOMAIN r : /\ i + k \in DOMAIN s /\ r[i] = s[i + k]
                         /\ i + k - 1 \in DOMAIN Tail(s)
                         /\ r[i] = Tail(s)[i + k - 1]
  /\ \A i \in DOMAIN s : i > k => i - k \in DOMAIN r /\ r[i - k] = s[i]

LEMMA CutSeq ==
  ASSUME NEW S, NEW s \in Seq(S), NEW k \in 1 .. Len(s)
  PROVE  /\ SubSeq(s, k + 1, Len(s)) \in Seq(S)
         /\ Len(SubSeq(s, k + 1, Len(s))) = Len(s) - k
         /\ \A i \in 1 .. Len(s) - k : SubSeq(s, k + 1, Len(s))[i] = s[i + k]
<1> DEFINE r == SubSeq(s, k + 1, Len(s))
<1>1. /\ Len(s) \in Nat \ {0} /\ s # <<>>
      /\ k \in Int /\ k + 1 \in Int /\ k <= Len(s) /\ 1 <= k
  BY LenProperties, EmptySeq
<1>2. \A i \in k + 1 .. Len(s) : s[i] \in S
  BY <1>1, ElementOfSeq
<1>3. /\ r \in Seq(S)
      /\ Len(r) = IF k + 1 <= Len(s) THEN Len(s) - (k + 1) + 1 ELSE 0
      /\ \A i \in 1 .. Len(s) - (k + 1) + 1 : r[i] = s[k + 1 + i - 1]
  BY <1>1, <1>2, SubSeqProperties
<1> HIDE DEF r
<1>4. Len(r) = Len(s) - k /\ \A i \in 1 .. Len(s) - k : r[i] = s[i + k]
  BY <1>1, <1>3
<1> QED
  BY <1>3, <1>4 DEF r

LEMMA CutFrames ==
  ASSUME NEW S, NEW s \in Seq(S), NEW k \in 1 .. Len(s),
         NEW r \in Seq(S), Len(r) = Len(s) - k,
         \A i \in 1 .. Len(s) - k : r[i] = s[i + k]
  PROVE  RestOf(s, k, r)
<1>1. /\ Len(s) \in Nat \ {0} /\ DOMAIN s = 1 .. Len(s) /\ s # <<>>
      /\ DOMAIN r = 1 .. Len(s) - k
  BY LenProperties, EmptySeq
<1>2. /\ Len(Tail(s)) = Len(s) - 1 /\ Tail(s) \in Seq(S)
      /\ \A i \in 1 .. Len(s) - 1 : Tail(s)[i] = s[i + 1]
  BY <1>1, HeadTailProperties
<1> DEFINE t == Tail(s)
<1>3. DOMAIN t = 1 .. Len(s) - 1 /\ \A i \in 1 .. Len(s) - 1 : t[i] = s[i + 1]
  BY <1>2, LenProperties
<1> HIDE DEF t
<1>4. ASSUME NEW i \in DOMAIN r
      PROVE  /\ i + k \in DOMAIN s /\ r[i] = s[i + k]
             /\ i + k - 1 \in DOMAIN t /\ r[i] = t[i + k - 1]
  <2>1. i + k \in DOMAIN s /\ r[i] = s[i + k]
    BY <1>1
  <2>2. i + k - 1 \in 1 .. Len(s) - 1 /\ (i + k - 1) + 1 = i + k
    BY <1>1
  <2> QED
    BY <1>3, <2>1, <2>2
<1>5. ASSUME NEW i \in DOMAIN s, i > k
      PROVE  i - k \in DOMAIN r /\ r[i - k] = s[i]
  <2>1. i - k \in 1 .. Len(s) - k /\ (i - k) + k = i
    BY <1>1, <1>5
  <2> QED
    BY <1>1, <2>1
<1> QED
  BY <1>4, <1>5 DEF RestOf, t

LEMMA CutTasks ==
  ASSUME NEW S, NEW s \in Seq(S), NEW k \in 1 .. Len(s), OnceIn(s),
         NEW r \in Seq(S), RestOf(s, k, r)
  PROVE  /\ OnceIn(r)
         /\ TasksIn(s) = TasksIn(r) \cup CutOff(s, k)
         /\ \A x \in CutOff(s, k) : x \notin TasksIn(r)
<1> DEFINE dropped == {s[i].task : i \in 1 .. k} \ {None}
<1>1. /\ \A i \in DOMAIN r : i + k \in DOMAIN s /\ r[i] = s[i + k]
      /\ \A i \in DOMAIN s : i > k => i - k \in DOMAIN r /\ r[i - k] = s[i]
  BY DEF RestOf
<1>2. /\ DOMAIN s = 1 .. Len(s) /\ Len(s) \in Nat
      /\ DOMAIN r = 1 .. Len(r) /\ Len(r) \in Nat
      /\ k \in Nat
  BY <1>1, LenProperties
<1>3. OnceIn(r)
  <2> SUFFICES ASSUME NEW i \in DOMAIN r, NEW j \in DOMAIN r,
                      r[i].task = r[j].task, r[i].task # None
               PROVE  i = j
    BY DEF OnceIn
  <2>1. i + k = j + k
    BY <1>1 DEF OnceIn
  <2> QED
    BY <1>2, <2>1
<1>4. ASSUME NEW x \in TasksIn(s) PROVE x \in TasksIn(r) \cup dropped
  <2>1. PICK i \in DOMAIN s : x = s[i].task /\ x # None
    BY DEF TasksIn
  <2>2. CASE i > k
    <3>1. i - k \in DOMAIN r /\ r[i - k] = s[i]
      BY <1>1, <2>2
    <3> QED
      BY <2>1, <3>1 DEF TasksIn
  <2>3. CASE ~(i > k)
    <3>1. i \in 1 .. k
      BY <1>2, <2>3
    <3> QED
      BY <2>1, <3>1
  <2> QED
    BY <2>2, <2>3
<1>5. ASSUME NEW x \in TasksIn(r) PROVE x \in TasksIn(s) /\ x \notin dropped
  <2>1. PICK i \in DOMAIN r : x = r[i].task /\ x # None
    BY DEF TasksIn
  <2>2. i + k \in DOMAIN s /\ s[i + k].task = x
    BY <1>1, <2>1
  <2>3. ASSUME NEW j \in 1 .. k, s[j].task = x PROVE FALSE
    <3>1. j \in DOMAIN s
      BY <1>2
    <3>2. j = i + k
      BY <2>1, <2>2, <2>3, <3>1 DEF OnceIn
    <3> QED
      BY <1>2, <3>2
  <2> QED
    BY <2>1, <2>2, <2>3 DEF TasksIn
<1>6. ASSUME NEW x \in dropped PROVE x \in TasksIn(s)
  <2>1. PICK i \in 1 .. k : x = s[i].task /\ x # None
    OBVIOUS
  <2>2. i \in DOMAIN s
    BY <1>2
  <2> QED
    BY <2>1, <2>2 DEF TasksIn
<1>7. CutOff(s, k) = dropped
  BY DEF CutOff
<1> HIDE DEF dropped
<1> QED
  BY <1>3, <1>4, <1>5, <1>6, <1>7

LEMMA CutNodes ==
  ASSUME NEW S, NEW s \in Seq(S), NEW k \in 1 .. Len(s),
         NEW r \in Seq(S), RestOf(s, k, r), NEW K
  PROVE  /\ \A x \in NodesAt(r, K) : x \in NodesAt(s, K)
                                     /\ x \in NodesAt(Tail(s), K)
         /\ OnceAt(s, K) => OnceAt(r, K)
<1>1. \A i \in DOMAIN r : /\ i + k \in DOMAIN s /\ r[i] = s[i + k]
                          /\ i + k - 1 \in DOMAIN Tail(s)
                          /\ r[i] = Tail(s)[i + k - 1]
  BY DEF RestOf
<1>2. DOMAIN r = 1 .. Len(r) /\ Len(r) \in Nat /\ k \in Nat
  BY <1>1, LenProperties
<1>3. ASSUME NEW x \in NodesAt(r, K)
      PROVE  x \in NodesAt(s, K) /\ x \in NodesAt(Tail(s), K)
  <2>1. PICK i \in DOMAIN r : x = r[i].node /\ r[i].at \in K
    BY DEF NodesAt
  <2>2. /\ i + k \in DOMAIN s /\ r[i] = s[i + k]
        /\ i + k - 1 \in DOMAIN Tail(s) /\ r[i] = Tail(s)[i + k - 1]
    BY <1>1
  <2> QED
    BY <2>1, <2>2 DEF NodesAt
<1>4. ASSUME OnceAt(s, K) PROVE OnceAt(r, K)
  <2> SUFFICES ASSUME NEW i \in DOMAIN r, NEW j \in DOMAIN r,
                      r[i].at \in K, r[j].at \in K, r[i].node = r[j].node
               PROVE  i = j
    BY DEF OnceAt
  <2>1. i + k = j + k
    BY <1>1, <1>4 DEF OnceAt
  <2> QED
    BY <1>2, <2>1
<1> QED
  BY <1>3, <1>4

-----------------------------------------------------------------------------
(* What the operations on a tasks queue do to the tasks in it.             *)

Distinct(queue) == \A i, j \in DOMAIN queue : queue[i] = queue[j] => i = j

Appended(r, q, t, S) == q \in Seq(S) /\ t \in S /\ r = Append(q, t)

LEMMA QueueAppended ==
  ASSUME NEW S, NEW q, NEW t, NEW r, Appended(r, q, t, S)
  PROVE  /\ \A x : x \in Items(r) <=> x \in Items(q) \/ x = t
         /\ Distinct(q) /\ t \notin Items(q) => Distinct(r)
<1>1. /\ DOMAIN q = 1 .. Len(q) /\ Len(q) \in Nat
      /\ r \in Seq(S)
      /\ DOMAIN r = 1 .. Len(q) + 1
      /\ \A i \in 1 .. Len(q) : r[i] = q[i]
      /\ r[Len(q) + 1] = t
  BY AppendProperties, LenProperties DEF Appended
<1> QED
  BY <1>1 DEF Items, Distinct

LEMMA QueueShifted ==
  ASSUME NEW S, NEW q \in Seq(S), q # <<>>, NEW r, r = Tail(q)
  PROVE  /\ r \in Seq(S)
         /\ q[1] \in S /\ q[1] \in Items(q)
         /\ Distinct(q) => Distinct(r) /\ Items(r) = Items(q) \ {q[1]}
<1>1. /\ DOMAIN q = 1 .. Len(q) /\ Len(q) \in Nat \ {0}
      /\ r \in Seq(S) /\ DOMAIN r = 1 .. Len(q) - 1
      /\ \A i \in 1 .. Len(q) - 1 : r[i] = q[i + 1]
      /\ q[1] \in S
  BY HeadTailProperties, LenProperties, EmptySeq, ElementOfSeq
<1>2. q[1] \in Items(q)
  BY <1>1 DEF Items
<1>3. ASSUME Distinct(q) PROVE Distinct(r) /\ Items(r) = Items(q) \ {q[1]}
  <2>1. ASSUME NEW i \in DOMAIN r
        PROVE  i + 1 \in DOMAIN q /\ r[i] = q[i + 1] /\ q[i + 1] # q[1]
    BY <1>1, <1>3 DEF Distinct
  <2>2. ASSUME NEW i \in DOMAIN q, i # 1
        PROVE  i - 1 \in DOMAIN r /\ r[i - 1] = q[i]
    <3>1. i - 1 \in 1 .. Len(q) - 1 /\ (i - 1) + 1 = i
      BY <1>1, <2>2
    <3> QED
      BY <1>1, <3>1
  <2>3. Distinct(r)
    <3> SUFFICES ASSUME NEW i \in DOMAIN r, NEW j \in DOMAIN r, r[i] = r[j]
                 PROVE  i = j
      BY DEF Distinct
    <3>1. i + 1 = j + 1
      BY <1>3, <2>1 DEF Distinct
    <3> QED
      BY <1>1, <3>1
  <2>4. \A x \in Items(r) : x \in Items(q) \ {q[1]}
    BY <2>1 DEF Items
  <2>5. ASSUME NEW x \in Items(q) \ {q[1]} PROVE x \in Items(r)
    <3>1. PICK i \in DOMAIN q : x = q[i]
      BY DEF Items
    <3>2. i - 1 \in DOMAIN r /\ r[i - 1] = q[i]
      BY <2>2, <3>1
    <3> QED
      BY <3>1, <3>2 DEF Items
  <2> QED
    BY <2>3, <2>4, <2>5
<1> QED
  BY <1>1, <1>2, <1>3

LEMMA QueuePopped ==
  ASSUME NEW S, NEW q \in Seq(S), q # <<>>, NEW r, r = SubSeq(q, 1, Len(q) - 1)
  PROVE  /\ r \in Seq(S)
         /\ q[Len(q)] \in S /\ q[Len(q)] \in Items(q)
         /\ Distinct(q) => Distinct(r) /\ Items(r) = Items(q) \ {q[Len(q)]}
<1>1. /\ DOMAIN q = 1 .. Len(q) /\ Len(q) \in Nat \ {0}
      /\ \A i \in 1 .. Len(q) : q[i] \in S
  BY LenProperties, EmptySeq, ElementOfSeq
<1>2. /\ r \in Seq(S)
      /\ Len(r) = IF 1 <= Len(q) - 1 THEN (Len(q) - 1) - 1 + 1 ELSE 0
      /\ \A i \in 1 .. (Len(q) - 1) - 1 + 1 : r[i] = q[1 + i - 1]
  <2>1. 1 \in Int /\ Len(q) - 1 \in Int /\ \A i \in 1 .. Len(q) - 1 : q[i] \in S
    BY <1>1
  <2> QED
    BY <2>1, SubSeqProperties
<1>3. /\ DOMAIN r = 1 .. Len(q) - 1
      /\ \A i \in 1 .. Len(q) - 1 : r[i] = q[i]
  <2>1. Len(r) = Len(q) - 1
    BY <1>1, <1>2
  <2> QED
    BY <1>1, <1>2, <2>1, LenProperties
<1>4. q[Len(q)] \in S /\ q[Len(q)] \in Items(q)
  BY <1>1 DEF Items
<1>5. ASSUME Distinct(q)
      PROVE  Distinct(r) /\ Items(r) = Items(q) \ {q[Len(q)]}
  <2>1. Distinct(r)
    BY <1>1, <1>3, <1>5 DEF Distinct
  <2>2. \A x \in Items(r) : x \in Items(q) \ {q[Len(q)]}
    BY <1>1, <1>3, <1>5 DEF Items, Distinct
  <2>3. ASSUME NEW x \in Items(q) \ {q[Len(q)]} PROVE x \in Items(r)
    <3>1. PICK i \in DOMAIN q : x = q[i]
      BY DEF Items
    <3>2. i \in DOMAIN r /\ r[i] = q[i]
      BY <1>1, <1>3, <3>1
    <3> QED
      BY <3>1, <3>2 DEF Items
  <2> QED
    BY <2>1, <2>2, <2>3
<1> QED
  BY <1>2, <1>4, <1>5

-----------------------------------------------------------------------------
(* The innermost call.                                                     *)

LEMMA SameFrames ==
  ASSUME workerNodes' = workerNodes
  PROVE  Frames' = Frames /\ Listed' = Listed
BY DEF Frames, Receivers, Orders, Listed

LEMMA TopCall ==
  ASSUME StackInv, stack # <<>>
  PROVE  /\ Top \in Frames /\ Callers \in Seq(Frames)
         /\ stack = <<Top>> \o Callers
BY TopAndCallers DEF StackInv, Top, Callers

LEMMA FrameTypes ==
  ASSUME NEW f \in Frames
  PROVE  /\ f.at = "deliver" => f.node \in Receivers /\ f.task \in 1 .. Tasks
         /\ f.at = "executeTask" => f.node \in Listed /\ f.task \in 1 .. Tasks
         /\ f.at \in {"startOnEmptyQueue", "onEmptyQueue", "sleep"} =>
              f.node \in Ids /\ f.task = None
         /\ f.at \in {"onBackPressure", "onBackPressureEnd",
                      "redistributeQueuedTasks"} =>
              f.node \in Listed /\ f.task = None
         /\ f.at \in {"flushTasksQueues", "disableTasksQueue", "call",
                      "listener"} => f.task = None
         /\ f.at = "tasksStealingOnBackPressure" =>
              f.node \in Listed /\ f.task = None /\ f.order \in Orders
BY DEF Frames

LEMMA ThrowEffect ==
  ASSUME StackInv, stack # <<>>, Throw, workerNodes' = workerNodes
  PROVE  \E k \in 1 .. Len(stack) :
           /\ stack' \in Seq(Frames) /\ RestOf(stack, k, stack')
           /\ lost' = lost \cup ({stack[i].task : i \in 1 .. k} \ {None})
           /\ crashed' \in BOOLEAN
<1> DEFINE Caught(i) == stack[i].at = "sleep"
           catching == {i \in DOMAIN stack : Caught(i) \/ i = Len(stack)}
           Catches(i) == /\ Caught(i) \/ i = Len(stack)
                         /\ \A j \in 1 .. i - 1 : ~Caught(j)
           catch == CHOOSE i \in DOMAIN stack : Catches(i)
<1>1. DOMAIN stack = 1 .. Len(stack) /\ Len(stack) \in Nat \ {0}
  BY LenProperties, EmptySeq DEF StackInv
<1>2. catching \in SUBSET Nat /\ catching # {}
  <2>1. Len(stack) \in catching
    BY <1>1
  <2> QED
    BY <1>1, <2>1
<1>3. PICK m \in catching : \A i \in catching : m <= i
  BY ONLY <1>2, SmallestElement
<1>4. m \in DOMAIN stack /\ Catches(m)
  <2>1. ASSUME NEW j \in 1 .. m - 1, Caught(j) PROVE FALSE
    <3>1. m \in 1 .. Len(stack) /\ j \in DOMAIN stack
      BY <1>1, <1>3
    <3>2. j \in catching
      BY <2>1, <3>1
    <3> QED
      BY <1>3, <3>1, <3>2
  <2> QED
    BY <1>3, <2>1
<1>5. catch \in DOMAIN stack
  BY <1>4
<1>6. /\ stack' = SubSeq(stack, catch + 1, Len(stack))
      /\ crashed' = (stack[catch].at = "listener")
      /\ lost' = lost \cup ({stack[i].task : i \in 1 .. catch} \ {None})
  BY DEF Throw
<1> HIDE DEF catch
<1>7. catch \in 1 .. Len(stack)
  BY <1>1, <1>5
<1>8. /\ stack' \in Seq(Frames) /\ Len(stack') = Len(stack) - catch
      /\ \A i \in 1 .. Len(stack) - catch : stack'[i] = stack[i + catch]
  BY <1>6, <1>7, CutSeq DEF StackInv
<1>9. RestOf(stack, catch, stack')
  BY ONLY <1>7, <1>8, StackInv, CutFrames DEF StackInv
<1> QED
  BY <1>6, <1>7, <1>8, <1>9

\* The position of a listed node.
LEMMA PositionOf ==
  ASSUME NEW w \in Listed
  PROVE  Position(w) \in DOMAIN workerNodes /\ workerNodes[Position(w)] = w
BY DEF Position, Listed

LEMMA ListedIds ==
  ASSUME Typed
  PROVE  /\ Listed \subseteq Ids
         /\ DOMAIN workerNodes = 1 .. Len(workerNodes) /\ Len(workerNodes) \in Nat
         /\ \A i \in DOMAIN workerNodes : workerNodes[i] \in Listed
BY LenProperties, ElementOfSeq DEF Typed, Listed

LEMMA NodeIds == /\ Nodes \in Nat \ {0} /\ Tasks \in Nat
                 /\ Ids = 1 .. Nodes /\ None = 0 /\ None \notin Ids
                 /\ None \notin 1 .. Tasks
BY SizeAssumption DEF Ids, None

-----------------------------------------------------------------------------
(* Types, the nodes and the options, for every step.                       *)

ShapeInv == Typed /\ StackInv /\ NodesInv /\ OptionsInv

\* What the steps of calls under way and the delays leave alone.
LEMMA CallShape ==
  ASSUME ShapeInv, UNCHANGED <<optionVars, listVars, taskVars>>,
         executing' \in [Ids -> Nat], tasksQueue' \in [Ids -> Seq(1 .. Tasks)],
         inFlight' \in [Ids -> SUBSET (1 .. Tasks)],
         onEmptyQueueCount' \in [Ids -> 0 .. 1],
         onBackPressureStarted' \in [Ids -> BOOLEAN],
         timer' \in [Ids -> BOOLEAN],
         lost' \subseteq 1 .. Tasks, crashed' \in BOOLEAN,
         stack' \in Seq(Frames)
  PROVE  ShapeInv'
<1>1. /\ UNCHANGED <<enableTasksQueue, tasksQueueOptions, onEmptyQueue,
                     onBackPressure, backPressureSize>>
      /\ UNCHANGED <<workerNodes, ready, open>>
      /\ UNCHANGED <<keyOfTask, answered, strayed>>
  BY DEF optionVars, listVars, taskVars
<1>2. Typed'
  BY <1>1 DEF ShapeInv, Typed
<1>3. StackInv'
  BY <1>1, SameFrames DEF StackInv
<1>4. NodesInv'
  BY <1>1, SameFrames DEF ShapeInv, NodesInv
<1>5. OptionsInv'
  BY <1>1 DEF ShapeInv, OptionsInv
<1> QED
  BY <1>2, <1>3, <1>4, <1>5 DEF ShapeInv

LEMMA CallsFrames ==
  ASSUME NEW w \in Ids
  PROVE  EmptyQueueCalls(w) \in Seq(Frames)
<1>1. Frame("startOnEmptyQueue", w, None) \in Frames
  BY DEF Frame, Frames
<1> QED
  BY <1>1, OneFrame, NoFrames DEF EmptyQueueCalls

LEMMA FramesJoined ==
  ASSUME NEW s \in Seq(Frames), NEW t \in Seq(Frames)
  PROVE  s \o t \in Seq(Frames)
BY ConcatProperties

LEMMA ThrowShape ==
  ASSUME StackInv, Typed, stack # <<>>, Throw, workerNodes' = workerNodes
  PROVE  /\ stack' \in Seq(Frames) /\ crashed' \in BOOLEAN
         /\ lost' \subseteq 1 .. Tasks
<1>1. PICK k \in 1 .. Len(stack) :
           /\ stack' \in Seq(Frames) /\ RestOf(stack, k, stack')
           /\ lost' = lost \cup ({stack[i].task : i \in 1 .. k} \ {None})
           /\ crashed' \in BOOLEAN
  BY ThrowEffect
<1>2. ASSUME NEW i \in 1 .. k PROVE stack[i].task \in 1 .. Tasks \cup {None}
  <2>1. i \in 1 .. Len(stack)
    BY LenProperties DEF StackInv
  <2>2. stack[i] \in Frames
    BY <2>1, ElementOfSeq DEF StackInv
  <2> QED
    BY <2>2 DEF Frames
<1>3. lost \subseteq 1 .. Tasks
  BY DEF Typed
<1>4. ASSUME NEW x \in lost' PROVE x \in 1 .. Tasks
  BY <1>1, <1>2, <1>3
<1> QED
  BY <1>1, <1>4

LEMMA ExecuteTaskShape ==
  ASSUME StackInv, Typed, stack # <<>>, workerNodes' = workerNodes,
         NEW w \in Ids, NEW t \in 1 .. Tasks, ExecuteTask(w, t)
  PROVE  /\ executing' \in [Ids -> Nat]
         /\ inFlight' \in [Ids -> SUBSET (1 .. Tasks)]
         /\ stack' \in Seq(Frames) /\ crashed' \in BOOLEAN \cup {crashed}
         /\ lost' \subseteq 1 .. Tasks
<1>1. executing' \in [Ids -> Nat]
  BY DEF ExecuteTask, Typed
<1>2. CASE open[w]
  <2>1. /\ inFlight' = [inFlight EXCEPT ![w] = @ \cup {t}]
        /\ stack' = Callers /\ UNCHANGED <<crashed, lost>>
    BY <1>2 DEF ExecuteTask, endVars
  <2> QED
    BY <1>1, <2>1, TopCall DEF Typed
<1>3. CASE ~open[w]
  <2>1. Throw /\ UNCHANGED inFlight
    BY <1>3 DEF ExecuteTask
  <2> QED
    BY <1>1, <2>1, ThrowShape DEF Typed
<1> QED
  BY <1>2, <1>3

LEMMA EnqueueTaskShape ==
  ASSUME StackInv, Typed, stack # <<>>,
         NEW w \in Listed, NEW t \in 1 .. Tasks, EnqueueTask(w, t)
  PROVE  /\ tasksQueue' \in [Ids -> Seq(1 .. Tasks)]
         /\ onBackPressureStarted' \in [Ids -> BOOLEAN]
         /\ stack' \in Seq(Frames)
<1>1. w \in Ids
  BY ListedIds
<1>2. Append(tasksQueue[w], t) \in Seq(1 .. Tasks)
  BY <1>1, AppendProperties DEF Typed
<1>3. tasksQueue' \in [Ids -> Seq(1 .. Tasks)]
  BY <1>1, <1>2 DEF EnqueueTask, Typed
<1>4. CASE CallsOnBackPressure(w)
  <2> DEFINE f == Frame("onBackPressure", w, None)
             g == Frame("onBackPressureEnd", w, None)
  <2>1. f \in Frames /\ g \in Frames
    BY DEF Frame, Frames
  <2>2. stack' = <<f, g>> \o Callers
    BY <1>4 DEF EnqueueTask
  <2>3. onBackPressureStarted' \in [Ids -> BOOLEAN]
    BY <1>1, <1>4 DEF EnqueueTask, Typed
  <2> HIDE DEF f, g
  <2>4. <<f, g>> \in Seq(Frames)
    BY <2>1
  <2> QED
    BY <1>3, <2>2, <2>3, <2>4, TopCall, FramesJoined
<1>5. CASE ~CallsOnBackPressure(w)
  BY <1>3, <1>5, TopCall DEF EnqueueTask, Typed
<1> QED
  BY <1>4, <1>5

LEMMA DeliverShape ==
  ASSUME ShapeInv, Deliver
  PROVE  ShapeInv'
<1>1. /\ stack # <<>> /\ Top.at = "deliver"
      /\ UNCHANGED <<optionVars, listVars, taskVars>>
      /\ workerNodes' = workerNodes
  BY DEF Deliver, At, listVars
<1>2. Typed /\ StackInv /\ crashed \in BOOLEAN
  BY DEF ShapeInv, OptionsInv
<1>3. Top.node \in Receivers /\ Top.task \in 1 .. Tasks
  BY <1>1, <1>2, TopCall, FrameTypes
<1>4. CASE Top.node = None
  <2>1. Throw /\ UNCHANGED <<queueVars, callbackVars>>
    BY <1>4 DEF Deliver
  <2>2. UNCHANGED <<executing, tasksQueue, inFlight, onEmptyQueueCount,
                    onBackPressureStarted, timer>>
    BY <2>1 DEF queueVars, callbackVars
  <2>3. /\ stack' \in Seq(Frames) /\ crashed' \in BOOLEAN
        /\ lost' \subseteq 1 .. Tasks
    BY <1>1, <1>2, <2>1, ThrowShape
  <2> QED
    BY <1>1, <1>2, <2>2, <2>3, CallShape DEF Typed
<1>5. CASE Top.node # None
  <2>1. Top.node \in Listed
    BY <1>3, <1>5 DEF Receivers
  <2>2. Top.node \in Ids
    BY <1>2, <2>1, ListedIds
  <2>3. CASE ShallExecuteTask(Top.node)
    <3>1. /\ ExecuteTask(Top.node, Top.task)
          /\ UNCHANGED <<tasksQueue, onEmptyQueueCount, onBackPressureStarted,
                         timer>>
      BY <1>5, <2>3 DEF Deliver, callbackVars
    <3>2. /\ executing' \in [Ids -> Nat]
          /\ inFlight' \in [Ids -> SUBSET (1 .. Tasks)]
          /\ stack' \in Seq(Frames) /\ crashed' \in BOOLEAN \cup {crashed}
          /\ lost' \subseteq 1 .. Tasks
      BY <1>1, <1>2, <1>3, <2>2, <3>1, ExecuteTaskShape
    <3> QED
      BY <1>1, <1>2, <3>1, <3>2, CallShape DEF Typed
  <2>4. CASE ~ShallExecuteTask(Top.node)
    <3>1. /\ EnqueueTask(Top.node, Top.task)
          /\ UNCHANGED <<executing, inFlight, onEmptyQueueCount, timer, crashed,
                         lost>>
      BY <1>5, <2>4 DEF Deliver, endVars
    <3>2. /\ tasksQueue' \in [Ids -> Seq(1 .. Tasks)]
          /\ onBackPressureStarted' \in [Ids -> BOOLEAN]
          /\ stack' \in Seq(Frames)
      BY <1>1, <1>2, <1>3, <2>1, <3>1, EnqueueTaskShape
    <3> QED
      BY <1>1, <1>2, <3>1, <3>2, CallShape DEF Typed
  <2> QED
    BY <2>3, <2>4
<1> QED
  BY <1>4, <1>5

LEMMA RunShape ==
  ASSUME ShapeInv, Run
  PROVE  ShapeInv'
<1>1. /\ stack # <<>> /\ Top.at = "executeTask"
      /\ UNCHANGED <<optionVars, listVars, taskVars>>
      /\ workerNodes' = workerNodes
      /\ ExecuteTask(Top.node, Top.task)
      /\ UNCHANGED <<tasksQueue, onEmptyQueueCount, onBackPressureStarted, timer>>
  BY DEF Run, At, listVars, callbackVars
<1>2. Typed /\ StackInv /\ crashed \in BOOLEAN
  BY DEF ShapeInv, OptionsInv
<1>3. Top.node \in Ids /\ Top.task \in 1 .. Tasks
  BY <1>1, <1>2, TopCall, FrameTypes, ListedIds
<1>4. /\ executing' \in [Ids -> Nat]
      /\ inFlight' \in [Ids -> SUBSET (1 .. Tasks)]
      /\ stack' \in Seq(Frames) /\ crashed' \in BOOLEAN \cup {crashed}
      /\ lost' \subseteq 1 .. Tasks
  BY <1>1, <1>2, <1>3, ExecuteTaskShape
<1> QED
  BY <1>1, <1>2, <1>4, CallShape DEF Typed

LEMMA CountSet ==
  ASSUME NEW c \in [Ids -> 0 .. 1], NEW w
  PROVE  /\ [c EXCEPT ![w] = 0] \in [Ids -> 0 .. 1]
         /\ [c EXCEPT ![w] = 1] \in [Ids -> 0 .. 1]
<1>1. 0 \in 0 .. 1 /\ 1 \in 0 .. 1
  OBVIOUS
<1> DEFINE range == 0 .. 1
<1> HIDE DEF range
<1>2. ASSUME NEW n \in range, c \in [Ids -> range]
      PROVE  [c EXCEPT ![w] = n] \in [Ids -> range]
  BY <1>2
<1> QED
  BY <1>1, <1>2 DEF range

LEMMA StartOnEmptyQueueShape ==
  ASSUME ShapeInv, StartOnEmptyQueue
  PROVE  ShapeInv'
<1> DEFINE w == Top.node
<1>1. /\ stack # <<>> /\ Top.at = "startOnEmptyQueue"
      /\ UNCHANGED <<optionVars, listVars, taskVars>>
      /\ workerNodes' = workerNodes
      /\ UNCHANGED <<executing, tasksQueue, inFlight, onBackPressureStarted,
                     timer, crashed, lost>>
  BY DEF StartOnEmptyQueue, At, listVars, queueVars, endVars
<1>2. Typed /\ StackInv /\ crashed \in BOOLEAN
  BY DEF ShapeInv, OptionsInv
<1>3. w \in Ids
  BY <1>1, <1>2, TopCall, FrameTypes
<1> DEFINE f == Frame("onEmptyQueue", w, None)
           g == Frame("sleep", w, None)
<1>4. f \in Frames /\ g \in Frames
  BY <1>3 DEF Frame, Frames
<1>5. /\ onEmptyQueueCount' \in [Ids -> 0 .. 1]
      /\ \/ stack' = Callers
         \/ \E s \in {<<f>>, <<>>} : stack' = s \o <<g>> \o Callers
  <2> DEFINE s == IF onEmptyQueue[w] THEN <<f>> ELSE <<>>
             ends == onEmptyQueueCount[w] > 0 /\ (executing[w] > 0 \/ Queued(w) > 0)
  <2>0. onEmptyQueueCount \in [Ids -> 0 .. 1]
    BY <1>2 DEF Typed
  <2>1. CASE ends
    <3>1. onEmptyQueueCount' = [onEmptyQueueCount EXCEPT ![w] = 0]
          /\ stack' = Callers
      BY <2>1 DEF StartOnEmptyQueue, StopStealing
    <3>2. onEmptyQueueCount' \in [Ids -> 0 .. 1]
      BY <2>0, <3>1, CountSet
    <3> QED
      BY <3>1, <3>2
  <2>2. CASE ~ends
    <3>1. onEmptyQueueCount' = [onEmptyQueueCount EXCEPT ![w] = 1]
          /\ stack' = s \o <<g>> \o Callers
      BY <2>2 DEF StartOnEmptyQueue
    <3>2. s \in {<<f>>, <<>>}
      OBVIOUS
    <3> HIDE DEF s
    <3>3. onEmptyQueueCount' \in [Ids -> 0 .. 1]
      BY <2>0, <3>1, CountSet
    <3> QED
      BY <3>1, <3>2, <3>3
  <2> QED
    BY <2>1, <2>2
<1> HIDE DEF f, g
<1>6. stack' \in Seq(Frames)
  <2>1. CASE stack' = Callers
    BY <1>1, <1>2, <2>1, TopCall
  <2>2. ASSUME NEW s \in {<<f>>, <<>>}, stack' = s \o <<g>> \o Callers
        PROVE  stack' \in Seq(Frames)
    <3>1. s \in Seq(Frames) /\ <<g>> \in Seq(Frames) /\ Callers \in Seq(Frames)
      BY <1>1, <1>2, <1>4, TopCall, OneFrame, NoFrames
    <3>2. s \o <<g>> \in Seq(Frames)
      BY <3>1, FramesJoined
    <3> QED
      BY <2>2, <3>1, <3>2, FramesJoined
  <2> QED
    BY <1>5, <2>1, <2>2
<1> QED
  BY <1>1, <1>2, <1>5, <1>6, CallShape DEF Typed

\* What a node is robbed of: the queue keeps its type.
LEMMA PoppedQueue ==
  ASSUME Typed, NEW w \in Ids, tasksQueue[w] # <<>>
  PROVE  /\ Popped(w) \in [Ids -> Seq(1 .. Tasks)]
         /\ LastTask(w) \in 1 .. Tasks
<1>1. tasksQueue[w] \in Seq(1 .. Tasks) /\ tasksQueue \in [Ids -> Seq(1 .. Tasks)]
  BY DEF Typed
<1> DEFINE r == SubSeq(tasksQueue[w], 1, Len(tasksQueue[w]) - 1)
<1>2. /\ r \in Seq(1 .. Tasks)
      /\ tasksQueue[w][Len(tasksQueue[w])] \in 1 .. Tasks
  BY <1>1, QueuePopped
<1>3. Popped(w) = [tasksQueue EXCEPT ![w] = r]
  BY DEF Popped
<1> HIDE DEF r
<1> QED
  BY <1>1, <1>2, <1>3 DEF LastTask, Queued

LEMMA ShiftedQueue ==
  ASSUME Typed, NEW w \in Ids, tasksQueue[w] # <<>>
  PROVE  /\ Dequeued(w) \in [Ids -> Seq(1 .. Tasks)]
         /\ tasksQueue[w][1] \in 1 .. Tasks
<1>1. tasksQueue[w] \in Seq(1 .. Tasks) /\ tasksQueue \in [Ids -> Seq(1 .. Tasks)]
  BY DEF Typed
<1> DEFINE r == Tail(tasksQueue[w])
<1>2. r \in Seq(1 .. Tasks) /\ tasksQueue[w][1] \in 1 .. Tasks
  BY <1>1, QueueShifted
<1>3. Dequeued(w) = [tasksQueue EXCEPT ![w] = r]
  BY DEF Dequeued
<1> HIDE DEF r
<1> QED
  BY <1>1, <1>2, <1>3

LEMMA QueuedTasks ==
  ASSUME Typed, NEW w \in Ids
  PROVE  /\ Queued(w) \in Nat
         /\ Queued(w) > 0 <=> tasksQueue[w] # <<>>
         /\ Queued(w) = 1 => Tail(tasksQueue[w]) = <<>>
<1>1. tasksQueue[w] \in Seq(1 .. Tasks)
  BY DEF Typed
<1>2. tasksQueue[w] # <<>> =>
        Tail(tasksQueue[w]) \in Seq(1 .. Tasks)
        /\ Len(Tail(tasksQueue[w])) = Len(tasksQueue[w]) - 1
  BY <1>1, HeadTailProperties
<1>3. Len(tasksQueue[w]) \in Nat /\ (Len(tasksQueue[w]) = 0 <=> tasksQueue[w] = <<>>)
  BY <1>1, LenProperties, EmptySeq
<1> DEFINE r == Tail(tasksQueue[w])
<1>4. ASSUME Len(tasksQueue[w]) = 1 PROVE r = <<>>
  <2>1. r \in Seq(1 .. Tasks) /\ Len(r) = 0
    BY <1>2, <1>3, <1>4
  <2> HIDE DEF r
  <2> QED
    BY <2>1, EmptySeq
<1> QED
  BY <1>3, <1>4 DEF Queued

LEMMA RichestListed ==
  ASSUME Typed, NEW w, NEW v \in Richest(w)
  PROVE  v \in Listed /\ v \in Ids /\ tasksQueue[v] # <<>> /\ v # w /\ ready[v]
<1>1. PICK i \in DOMAIN workerNodes :
        /\ v = workerNodes[i] /\ Queued(workerNodes[i]) > 0
        /\ workerNodes[i] # w /\ ready[workerNodes[i]]
  BY DEF Richest
<1>2. v \in Listed /\ v \in Ids
  BY <1>1, ListedIds
<1> QED
  BY <1>1, <1>2, QueuedTasks

LEMMA StealOnEmptyQueueShape ==
  ASSUME ShapeInv, StealOnEmptyQueue
  PROVE  ShapeInv'
<1> DEFINE w == Top.node
           thief == IF w \in Listed THEN w ELSE None
<1>1. /\ stack # <<>> /\ Top.at = "onEmptyQueue"
      /\ UNCHANGED <<optionVars, listVars, taskVars>>
      /\ workerNodes' = workerNodes
      /\ UNCHANGED <<executing, inFlight, onEmptyQueueCount,
                     onBackPressureStarted, timer, crashed, lost>>
  BY DEF StealOnEmptyQueue, At, listVars, callbackVars, endVars
<1>2. Typed /\ StackInv /\ crashed \in BOOLEAN
  BY DEF ShapeInv, OptionsInv
<1>3. w \in Ids
  BY <1>1, <1>2, TopCall, FrameTypes
<1>4. thief \in Receivers
  BY <1>3 DEF Receivers
<1>5. CASE stack' = Callers /\ UNCHANGED tasksQueue
  BY <1>1, <1>2, <1>5, TopCall, CallShape DEF Typed
<1>6. ASSUME NEW source \in Richest(w), tasksQueue' = Popped(source),
             stack' = EmptyQueueCalls(source)
                        \o <<Frame("deliver", thief, LastTask(source))>>
                        \o Callers
      PROVE  ShapeInv'
  <2>1. source \in Ids /\ tasksQueue[source] # <<>>
    BY <1>2, RichestListed
  <2>2. /\ Popped(source) \in [Ids -> Seq(1 .. Tasks)]
        /\ LastTask(source) \in 1 .. Tasks
    BY <1>2, <2>1, PoppedQueue
  <2> DEFINE f == Frame("deliver", thief, LastTask(source))
  <2>3. f \in Frames
    BY <1>4, <2>2 DEF Frame, Frames
  <2> HIDE DEF f
  <2>4. /\ EmptyQueueCalls(source) \in Seq(Frames)
        /\ <<f>> \in Seq(Frames) /\ Callers \in Seq(Frames)
    BY <1>1, <1>2, <2>1, <2>3, CallsFrames, OneFrame, TopCall
  <2>5. stack' \in Seq(Frames)
    <3>1. EmptyQueueCalls(source) \o <<f>> \in Seq(Frames)
      BY <2>4, FramesJoined
    <3> QED
      BY <1>6, <2>4, <3>1, FramesJoined DEF f
  <2> QED
    BY <1>1, <1>2, <1>6, <2>2, <2>5, CallShape DEF Typed
<1> QED
  BY <1>5, <1>6 DEF StealOnEmptyQueue

LEMMA SleepShape ==
  ASSUME ShapeInv, Sleep
  PROVE  ShapeInv'
<1>1. /\ stack # <<>> /\ stack' = Callers
      /\ UNCHANGED <<optionVars, listVars, taskVars>>
      /\ timer' = [timer EXCEPT ![Top.node] = TRUE]
      /\ UNCHANGED <<executing, tasksQueue, inFlight, onEmptyQueueCount,
                     onBackPressureStarted, crashed, lost>>
  BY DEF Sleep, At, queueVars, endVars
<1>2. Typed /\ StackInv /\ crashed \in BOOLEAN
  BY DEF ShapeInv, OptionsInv
<1>3. timer' \in [Ids -> BOOLEAN]
  BY <1>1, <1>2 DEF Typed
<1> QED
  BY <1>1, <1>2, <1>3, TopCall, CallShape DEF Typed

LEMMA OnBackPressureEndShape ==
  ASSUME ShapeInv, OnBackPressureEnd
  PROVE  ShapeInv'
<1>1. /\ stack # <<>> /\ stack' = Callers
      /\ UNCHANGED <<optionVars, listVars, taskVars>>
      /\ onBackPressureStarted' =
           [onBackPressureStarted EXCEPT ![Top.node] = FALSE]
      /\ UNCHANGED <<executing, tasksQueue, inFlight, onEmptyQueueCount, timer,
                     crashed, lost>>
  BY DEF OnBackPressureEnd, At, queueVars, endVars
<1>2. Typed /\ StackInv /\ crashed \in BOOLEAN
  BY DEF ShapeInv, OptionsInv
<1>3. onBackPressureStarted' \in [Ids -> BOOLEAN]
  BY <1>1, <1>2 DEF Typed
<1> QED
  BY <1>1, <1>2, <1>3, TopCall, CallShape DEF Typed

LEMMA ReturnShape ==
  ASSUME ShapeInv, Return
  PROVE  ShapeInv'
<1>1. /\ stack # <<>> /\ stack' = Callers
      /\ UNCHANGED <<optionVars, listVars, taskVars>>
      /\ UNCHANGED <<executing, tasksQueue, inFlight, onEmptyQueueCount, timer,
                     onBackPressureStarted, crashed, lost>>
  BY DEF Return, At, queueVars, endVars, callbackVars
<1>2. Typed /\ StackInv /\ crashed \in BOOLEAN
  BY DEF ShapeInv, OptionsInv
<1> QED
  BY <1>1, <1>2, TopCall, CallShape DEF Typed

-----------------------------------------------------------------------------
(* The sorted copy of the nodes exists.                                    *)

\* Fewest tasks first, equals in the order of the nodes.
Before(v, w) ==
  \/ Queued(v) < Queued(w)
  \/ Queued(v) = Queued(w) /\ Position(v) < Position(w)
Rank(w) == Cardinality({v \in Listed : Before(v, w)}) + 1

LEMMA BeforeOrders ==
  ASSUME Typed, NEW u \in Listed, NEW v \in Listed, NEW w \in Listed
  PROVE  /\ ~ Before(v, v)
         /\ Before(u, v) /\ Before(v, w) => Before(u, w)
         /\ Before(u, v) \/ Before(v, u) \/ u = v
<1>1. /\ Queued(u) \in Nat /\ Queued(v) \in Nat /\ Queued(w) \in Nat
  BY ListedIds, QueuedTasks
<1>2. /\ Position(u) \in Nat /\ Position(v) \in Nat /\ Position(w) \in Nat
      /\ Position(u) = Position(v) => u = v
  BY ListedIds, PositionOf
<1> QED
  BY ONLY <1>1, <1>2 DEF Before

LEMMA FiniteNodes ==
  ASSUME Typed, NodesInv
  PROVE  IsFiniteSet(Listed) /\ Cardinality(Listed) = Len(workerNodes)
<1> DEFINE keys == 1 .. Len(workerNodes)
           node == [i \in keys |-> workerNodes[i]]
<1>1. DOMAIN workerNodes = keys /\ Len(workerNodes) \in Nat
  BY ListedIds
<1>2. node \in Bijection(keys, Listed)
  BY <1>1 DEF Bijection, Injection, Surjection, IsInjective, NodesInv, Listed
<1>3. IsFiniteSet(keys) /\ Cardinality(keys) = Len(workerNodes)
  <2>1. 1 \in Int /\ Len(workerNodes) \in Int
    BY <1>1
  <2>2. /\ IsFiniteSet(1 .. Len(workerNodes))
        /\ Cardinality(1 .. Len(workerNodes)) =
             IF 1 > Len(workerNodes) THEN 0 ELSE Len(workerNodes) - 1 + 1
    BY ONLY <2>1, FS_Interval
  <2> QED
    BY <1>1, <2>2
<1>4. ExistsBijection(keys, Listed)
  BY <1>2 DEF ExistsBijection
<1> HIDE DEF keys
<1> QED
  BY <1>3, <1>4, FS_Bijection

LEMMA RankOf ==
  ASSUME Typed, NodesInv, NEW v \in Listed, NEW w \in Listed
  PROVE  /\ Rank(w) \in 1 .. Len(workerNodes)
         /\ Before(v, w) => Rank(v) < Rank(w)
<1> DEFINE before(x) == {u \in Listed : Before(u, x)}
<1>1. /\ IsFiniteSet(Listed) /\ Cardinality(Listed) = Len(workerNodes)
      /\ Len(workerNodes) \in Nat
  BY FiniteNodes, ListedIds
<1>2. IsFiniteSet(before(v)) /\ IsFiniteSet(before(w))
  BY <1>1, FS_Subset
<1>3. w \notin before(w) /\ v \notin before(v)
  BY BeforeOrders
<1>4. Cardinality(before(w)) \in Nat /\ Cardinality(before(v)) \in Nat
  BY <1>2, FS_CardinalityType
<1>5. Cardinality(before(w)) < Cardinality(Listed)
  <2>1. before(w) \subseteq Listed /\ before(w) # Listed
    BY <1>3
  <2> HIDE DEF before
  <2>2. /\ Cardinality(before(w)) <= Cardinality(Listed)
        /\ Cardinality(Listed) = Cardinality(before(w)) => Listed = before(w)
    BY <1>1, <2>1, FS_Subset
  <2> QED
    BY <1>1, <1>4, <2>1, <2>2
<1>6. ASSUME Before(v, w) PROVE Cardinality(before(v)) < Cardinality(before(w))
  <2>1. before(v) \subseteq before(w)
    BY <1>6, BeforeOrders
  <2>2. before(v) # before(w)
    BY <1>3, <1>6
  <2> HIDE DEF before
  <2>3. /\ Cardinality(before(v)) <= Cardinality(before(w))
        /\ Cardinality(before(w)) = Cardinality(before(v))
             => before(w) = before(v)
    BY <1>2, <2>1, FS_Subset
  <2> QED
    BY <1>4, <2>2, <2>3
<1> QED
  BY <1>1, <1>4, <1>5, <1>6 DEF Rank

LEMMA RanksTaken ==
  ASSUME Typed, NodesInv, NEW i \in 1 .. Len(workerNodes)
  PROVE  \E w \in Listed : Rank(w) = i
<1> SUFFICES ASSUME \A w \in Listed : Rank(w) # i PROVE FALSE
  OBVIOUS
<1> DEFINE n == Len(workerNodes)
           others == (1 .. n) \ {i}
           rank == [w \in Listed |-> Rank(w)]
<1>1. /\ IsFiniteSet(Listed) /\ Cardinality(Listed) = n /\ n \in Nat
  BY FiniteNodes, ListedIds
<1>2. IsFiniteSet(1 .. n) /\ Cardinality(1 .. n) = n
  BY <1>1, FS_Interval
<1>3. IsFiniteSet(others) /\ Cardinality(others) = n - 1
  BY <1>2, FS_RemoveElement
<1>4. rank \in [Listed -> others]
  BY RankOf
<1>5. ASSUME NEW v \in Listed, NEW w \in Listed, rank[v] = rank[w] PROVE v = w
  <2>1. Rank(v) = Rank(w) /\ Rank(v) \in 1 .. n /\ Rank(w) \in 1 .. n
    BY <1>5, RankOf
  <2>2. ~ Before(v, w) /\ ~ Before(w, v)
    <3>1. /\ Before(v, w) => Rank(v) < Rank(w)
          /\ Before(w, v) => Rank(w) < Rank(v)
      BY RankOf
    <3> QED
      BY <2>1, <3>1
  <2> QED
    BY <2>2, BeforeOrders
<1>6. rank \in Injection(Listed, others)
  BY <1>4, <1>5 DEF Injection, IsInjective
<1>7. Cardinality(Listed) <= Cardinality(others)
  BY <1>1, <1>3, <1>6, FS_Injection
<1> HIDE DEF n, others
<1> QED
  BY <1>1, <1>3, <1>7

LEMMA SortedNodes ==
  ASSUME Typed, NodesInv
  PROVE  Sorted \in [DOMAIN workerNodes -> Listed]
<1> DEFINE order == [i \in DOMAIN workerNodes |->
                       CHOOSE w \in Listed : Rank(w) = i]
           InOrder(o) == \A i, j \in DOMAIN o : i < j =>
             \/ Queued(o[i]) < Queued(o[j])
             \/ /\ Queued(o[i]) = Queued(o[j])
                /\ Position(o[i]) < Position(o[j])
<1>1. DOMAIN workerNodes = 1 .. Len(workerNodes)
  BY ListedIds
<1>2. \A i \in DOMAIN workerNodes : order[i] \in Listed /\ Rank(order[i]) = i
  BY <1>1, RanksTaken
<1>3. order \in [DOMAIN workerNodes -> Listed]
  BY <1>2
<1> HIDE DEF order
<1>4. ASSUME NEW i \in DOMAIN order, NEW j \in DOMAIN order, i < j
      PROVE  Before(order[i], order[j])
  <2>1. /\ order[i] \in Listed /\ order[j] \in Listed
        /\ Rank(order[i]) = i /\ Rank(order[j]) = j
    BY <1>2, <1>3
  <2>2. ~ Before(order[j], order[i])
    <3>1. Before(order[j], order[i]) => Rank(order[j]) < Rank(order[i])
      BY <2>1, RankOf
    <3>2. i \in 1 .. Len(workerNodes) /\ j \in 1 .. Len(workerNodes)
      BY <1>1, <1>3
    <3> QED
      BY <1>4, <2>1, <3>1, <3>2
  <2>3. order[i] # order[j]
    BY <1>1, <1>3, <1>4, <2>1
  <2> QED
    BY <2>1, <2>2, <2>3, BeforeOrders
<1>5. InOrder(order)
  BY <1>4 DEF Before
<1>6. Sorted = CHOOSE o \in [DOMAIN workerNodes -> Listed] : InOrder(o)
  BY DEF Sorted
<1> HIDE DEF InOrder
<1> QED
  BY <1>3, <1>5, <1>6

-----------------------------------------------------------------------------
(* Types, the nodes and the options, continued.                            *)

LEMMA SortedFrame ==
  ASSUME Typed, StackInv, NodesInv, stack # <<>>, Top.at = "onBackPressure"
  PROVE  Loop(Top.node, [i \in DOMAIN Sorted |->
                           [key |-> i, node |-> Sorted[i]]]) \in Frames
<1> DEFINE order == [i \in DOMAIN Sorted |-> [key |-> i, node |-> Sorted[i]]]
           f == Loop(Top.node, order)
<1>3. Top.node \in Listed
  BY TopCall, FrameTypes
<1>4. order \in Orders
  <2>1. DOMAIN workerNodes = 1 .. Len(workerNodes) /\ Len(workerNodes) \in Nat
    BY ListedIds
  <2>2. workerNodes # <<>>
    BY <1>3 DEF Listed
  <2>3. DOMAIN Sorted = DOMAIN workerNodes
        /\ \A i \in DOMAIN workerNodes : Sorted[i] \in Listed
    BY SortedNodes
  <2> DEFINE entries == [key : DOMAIN workerNodes, node : Listed]
  <2>4. order \in [1 .. Len(workerNodes) -> entries]
    BY <2>1, <2>3
  <2>5. DOMAIN order = 1 .. Len(workerNodes)
    BY <2>1, <2>3
  <2>6. Len(workerNodes) > 0
    BY <2>1, <2>2, EmptySeq DEF Typed
  <2> HIDE DEF order, entries
  <2>7. order \in Seq(entries)
    BY <2>1, <2>4, SeqDef
  <2>8. order # <<>>
    BY <2>5, <2>6, <2>1
  <2> QED
    BY <2>7, <2>8 DEF Orders, entries
<1> HIDE DEF order
<1>5. f \in Frames
  BY <1>3, <1>4 DEF Loop, Frames
<1> QED
  BY <1>5 DEF order

LEMMA OnBackPressureShape ==
  ASSUME ShapeInv, OnBackPressure
  PROVE  ShapeInv'
<1> DEFINE order == [i \in DOMAIN Sorted |-> [key |-> i, node |-> Sorted[i]]]
           f == Loop(Top.node, order)
<1>1. /\ stack # <<>> /\ Top.at = "onBackPressure"
      /\ UNCHANGED <<optionVars, listVars, taskVars>>
      /\ UNCHANGED <<executing, tasksQueue, inFlight, onEmptyQueueCount, timer,
                     onBackPressureStarted, crashed, lost>>
      /\ \E s \in {<<>>, <<f>>} : stack' = s \o Callers
  BY DEF OnBackPressure, At, queueVars, endVars, callbackVars
<1>2. Typed /\ StackInv /\ NodesInv /\ crashed \in BOOLEAN
  BY DEF ShapeInv, OptionsInv
<1>5. f \in Frames
  BY <1>1, <1>2, SortedFrame
<1> HIDE DEF f
<1>6. stack' \in Seq(Frames)
  <2>1. <<>> \in Seq(Frames) /\ <<f>> \in Seq(Frames) /\ Callers \in Seq(Frames)
    BY <1>1, <1>2, <1>5, NoFrames, OneFrame, TopCall
  <2>2. PICK s \in {<<>>, <<f>>} : stack' = s \o Callers
    BY <1>1
  <2>3. s \in Seq(Frames)
    BY <2>1, <2>2
  <2> QED
    BY <2>1, <2>2, <2>3, FramesJoined
<1> QED
  BY <1>1, <1>2, <1>6, CallShape DEF Typed

\* The loop goes on with the rest of its copy.
LEMMA LoopRest ==
  ASSUME StackInv, stack # <<>>, Top.at = "tasksStealingOnBackPressure"
  PROVE  /\ Top.order[1].key \in DOMAIN workerNodes
         /\ Top.order[1].node \in Listed
         /\ Len(Top.order) # 1 => Loop(Top.node, Tail(Top.order)) \in Frames
<1> DEFINE entries == [key : DOMAIN workerNodes, node : Listed]
           o == Top.order
<1>1. Top.node \in Listed /\ o \in Orders
  BY TopCall, FrameTypes
<1>2. o \in Seq(entries) /\ o # <<>>
  BY <1>1 DEF Orders
<1>3. o[1] \in entries
  BY <1>2, TopAndCallers
<1>4. /\ Len(o) \in Nat /\ Len(o) > 0
      /\ Tail(o) \in Seq(entries) /\ Len(Tail(o)) = Len(o) - 1
  BY <1>2, HeadTailProperties, LenProperties, EmptySeq
<1> DEFINE rest == Tail(o)
<1>5. ASSUME Len(o) # 1 PROVE rest \in Orders
  <2>1. Len(rest) # 0 /\ rest \in Seq(entries)
    BY <1>4, <1>5
  <2> HIDE DEF rest
  <2>2. rest # <<>>
    BY <2>1, EmptySeq
  <2> QED
    BY <2>1, <2>2 DEF Orders
<1> HIDE DEF rest
<1>6. ASSUME Len(o) # 1 PROVE Loop(Top.node, rest) \in Frames
  BY <1>1, <1>5, <1>6 DEF Loop, Frames
<1> QED
  BY <1>3, <1>6 DEF rest

LEMMA StealOnBackPressureShape ==
  ASSUME ShapeInv, StealOnBackPressure
  PROVE  ShapeInv'
<1> DEFINE w == Top.node
           entry == Top.order[1]
           loop == Loop(w, Tail(Top.order))
           rest == IF Len(Top.order) = 1 THEN <<>> ELSE <<loop>>
           f == Frame("deliver", workerNodes[entry.key], LastTask(w))
<1>1. /\ stack # <<>> /\ Top.at = "tasksStealingOnBackPressure"
      /\ UNCHANGED <<optionVars, listVars, taskVars>>
      /\ UNCHANGED <<executing, inFlight, onEmptyQueueCount, timer,
                     onBackPressureStarted, crashed, lost>>
      /\ \/ /\ Queued(w) > 0 /\ tasksQueue' = Popped(w)
            /\ stack' = EmptyQueueCalls(w) \o <<f>> \o rest \o Callers
         \/ stack' = rest \o Callers /\ UNCHANGED tasksQueue
  BY DEF StealOnBackPressure, At, endVars, callbackVars
<1>2. Typed /\ StackInv /\ NodesInv /\ crashed \in BOOLEAN
  BY DEF ShapeInv, OptionsInv
<1>3. w \in Listed /\ w \in Ids
  BY <1>1, <1>2, TopCall, FrameTypes, ListedIds
<1>4. /\ entry.key \in DOMAIN workerNodes
      /\ Len(Top.order) # 1 => loop \in Frames
  BY <1>1, <1>2, LoopRest
<1>5. workerNodes[entry.key] \in Receivers
  BY <1>2, <1>4, ListedIds DEF Receivers
<1> HIDE DEF loop
<1>6. rest \in Seq(Frames) /\ Callers \in Seq(Frames)
  BY <1>1, <1>2, <1>4, OneFrame, NoFrames, TopCall
<1> HIDE DEF rest
<1>7. CASE stack' = rest \o Callers /\ UNCHANGED tasksQueue
  <2>1. stack' \in Seq(Frames)
    BY <1>6, <1>7, FramesJoined
  <2> QED
    BY <1>1, <1>2, <1>7, <2>1, CallShape DEF Typed
<1>8. CASE /\ Queued(w) > 0 /\ tasksQueue' = Popped(w)
           /\ stack' = EmptyQueueCalls(w) \o <<f>> \o rest \o Callers
  <2>1. tasksQueue[w] # <<>>
    BY <1>2, <1>3, <1>8, QueuedTasks
  <2>2. /\ Popped(w) \in [Ids -> Seq(1 .. Tasks)]
        /\ LastTask(w) \in 1 .. Tasks
    BY <1>2, <1>3, <2>1, PoppedQueue
  <2>3. f \in Frames
    BY <1>5, <2>2 DEF Frame, Frames
  <2> HIDE DEF f
  <2>4. /\ EmptyQueueCalls(w) \in Seq(Frames) /\ <<f>> \in Seq(Frames)
    BY <1>3, <2>3, CallsFrames, OneFrame
  <2>5. EmptyQueueCalls(w) \o <<f>> \in Seq(Frames)
    BY <2>4, FramesJoined
  <2>6. EmptyQueueCalls(w) \o <<f>> \o rest \in Seq(Frames)
    BY <1>6, <2>5, FramesJoined
  <2>7. stack' \in Seq(Frames)
    BY <1>6, <1>8, <2>6, FramesJoined
  <2> QED
    BY <1>1, <1>2, <1>8, <2>2, <2>7, CallShape DEF Typed
<1> QED
  BY <1>1, <1>7, <1>8

\* The node that gets a task of a failed one is listed.
LEMMA PoorestListed ==
  ASSUME Typed, workerNodes # <<>>
  PROVE  Poorest \in Listed
<1> DEFINE Fewer(i, j) == Queued(workerNodes[i]) < Queued(workerNodes[j])
           better == {i \in DOMAIN workerNodes :
                        ready[workerNodes[i]] /\ Fewer(i, 1)}
           counts == {Queued(workerNodes[i]) : i \in better}
           Best(i) == \A j \in better : Fewer(i, j) \/ (~Fewer(j, i) /\ i <= j)
<1>1. /\ DOMAIN workerNodes = 1 .. Len(workerNodes) /\ Len(workerNodes) \in Nat
      /\ \A i \in DOMAIN workerNodes : Queued(workerNodes[i]) \in Nat
      /\ \A i \in DOMAIN workerNodes : workerNodes[i] \in Listed
  BY ListedIds, QueuedTasks
<1>2. CASE better = {}
  <2>1. Poorest = workerNodes[1]
    BY <1>2 DEF Poorest
  <2>2. Len(workerNodes) # 0
    BY EmptySeq DEF Typed
  <2>3. 1 \in DOMAIN workerNodes
    BY <1>1, <2>2
  <2> QED
    BY <1>1, <2>1, <2>3
<1>3. CASE better # {}
  <2>1. counts \in SUBSET Nat /\ counts # {}
    BY <1>1, <1>3
  <2>2. PICK c \in counts : \A d \in counts : c <= d
    <3> HIDE DEF counts
    <3> QED
      BY <2>1, SmallestElement
  <2> DEFINE least == {i \in better : Queued(workerNodes[i]) = c}
  <2>3. least \in SUBSET Nat /\ least # {}
    BY <1>1, <2>2
  <2>4. PICK m \in least : \A i \in least : m <= i
    <3> HIDE DEF least
    <3> QED
      BY <2>3, SmallestElement
  <2>5. m \in better /\ Best(m)
    <3>1. ASSUME NEW j \in better PROVE Fewer(m, j) \/ (~Fewer(j, m) /\ m <= j)
      <4>1. Queued(workerNodes[j]) \in counts /\ Queued(workerNodes[m]) = c
        BY <2>4
      <4>2. c <= Queued(workerNodes[j])
        BY <2>2, <4>1
      <4>3. /\ Queued(workerNodes[j]) \in Nat /\ c \in Nat
            /\ j \in Nat /\ m \in Nat
        BY <1>1, <2>1, <2>2, <2>3, <2>4
      <4>4. CASE Queued(workerNodes[j]) = c
        <5>1. m <= j
          BY <2>4, <4>4
        <5> QED
          BY <4>1, <4>3, <4>4, <5>1
      <4> QED
        BY <4>1, <4>2, <4>3, <4>4
    <3> QED
      BY <2>4, <3>1
  <2>6. Poorest = workerNodes[CHOOSE i \in better : Best(i)]
    BY <1>3 DEF Poorest
  <2> HIDE DEF Best, better, least, counts
  <2>7. (CHOOSE i \in better : Best(i)) \in better
    BY <2>5
  <2> QED
    BY <1>1, <2>6, <2>7 DEF better
<1> QED
  BY <1>2, <1>3

LEMMA RedistributeShape ==
  ASSUME ShapeInv, Redistribute
  PROVE  ShapeInv'
<1> DEFINE w == Top.node
           f == Frame("deliver", Poorest, tasksQueue[w][1])
<1>1. /\ stack # <<>> /\ Top.at = "redistributeQueuedTasks"
      /\ UNCHANGED <<optionVars, listVars, taskVars>>
      /\ UNCHANGED <<executing, inFlight, onEmptyQueueCount, timer,
                     onBackPressureStarted, crashed, lost>>
      /\ \/ /\ Queued(w) > 0 /\ tasksQueue' = Dequeued(w)
            /\ stack' = EmptyQueueCalls(w) \o <<f>> \o stack
         \/ stack' = Callers /\ UNCHANGED tasksQueue
  BY DEF Redistribute, At, endVars, callbackVars
<1>2. Typed /\ StackInv /\ NodesInv /\ crashed \in BOOLEAN
  BY DEF ShapeInv, OptionsInv
<1>3. w \in Listed /\ w \in Ids
  BY <1>1, <1>2, TopCall, FrameTypes, ListedIds
<1>4. workerNodes # <<>>
  BY <1>3 DEF Listed
<1>5. Poorest \in Receivers
  BY <1>2, <1>4, PoorestListed DEF Receivers
<1>6. CASE stack' = Callers /\ UNCHANGED tasksQueue
  BY <1>1, <1>2, <1>6, TopCall, CallShape DEF Typed
<1>7. CASE /\ Queued(w) > 0 /\ tasksQueue' = Dequeued(w)
           /\ stack' = EmptyQueueCalls(w) \o <<f>> \o stack
  <2>1. tasksQueue[w] # <<>>
    BY <1>2, <1>3, <1>7, QueuedTasks
  <2>2. /\ Dequeued(w) \in [Ids -> Seq(1 .. Tasks)]
        /\ tasksQueue[w][1] \in 1 .. Tasks
    BY <1>2, <1>3, <2>1, ShiftedQueue
  <2>3. f \in Frames
    BY <1>5, <2>2 DEF Frame, Frames
  <2> HIDE DEF f
  <2>4. EmptyQueueCalls(w) \in Seq(Frames) /\ <<f>> \in Seq(Frames)
    BY <1>3, <2>3, CallsFrames, OneFrame
  <2>5. EmptyQueueCalls(w) \o <<f>> \in Seq(Frames)
    BY <2>4, FramesJoined
  <2>6. stack' \in Seq(Frames)
    BY <1>2, <1>7, <2>5, FramesJoined DEF StackInv
  <2> QED
    BY <1>1, <1>2, <1>7, <2>2, <2>6, CallShape DEF Typed
<1> QED
  BY <1>1, <1>6, <1>7

\* The first node with tasks queued.
FirstFull ==
  LET full == {w \in Listed : Queued(w) > 0}
  IN  CHOOSE w \in full : \A v \in full : Position(w) <= Position(v)

LEMMA FirstFullListed ==
  ASSUME Typed, NEW v \in Listed, Queued(v) > 0
  PROVE  FirstFull \in Listed /\ Queued(FirstFull) > 0
<1> DEFINE full == {w \in Listed : Queued(w) > 0}
           positions == {Position(w) : w \in full}
           First(w) == \A u \in full : Position(w) <= Position(u)
<1>1. positions \in SUBSET Nat /\ positions # {}
  <2>1. \A w \in Listed : Position(w) \in Nat
    BY PositionOf, ListedIds
  <2> QED
    BY <2>1
<1>2. PICK p \in positions : \A q \in positions : p <= q
  <2> HIDE DEF positions
  <2> QED
    BY <1>1, SmallestElement
<1>3. PICK w \in full : p = Position(w)
  BY <1>2
<1>4. First(w)
  BY <1>2, <1>3
<1>5. FirstFull = CHOOSE x \in full : First(x)
  BY DEF FirstFull
<1> HIDE DEF First
<1> QED
  BY <1>3, <1>4, <1>5

LEMMA FlushShape ==
  ASSUME ShapeInv, Flush
  PROVE  ShapeInv'
<1> DEFINE w == FirstFull
           f == Frame("executeTask", w, tasksQueue[w][1])
<1>1. /\ stack # <<>> /\ Top.at = "flushTasksQueues"
      /\ UNCHANGED <<optionVars, listVars, taskVars>>
      /\ UNCHANGED <<executing, inFlight, onEmptyQueueCount, timer,
                     onBackPressureStarted, crashed, lost>>
      /\ \/ /\ {v \in Listed : Queued(v) > 0} # {} /\ tasksQueue' = Dequeued(w)
            /\ stack' = <<f>> \o stack
         \/ stack' = Callers /\ UNCHANGED tasksQueue
  BY DEF Flush, At, endVars, callbackVars, FirstFull
<1>2. Typed /\ StackInv /\ NodesInv /\ crashed \in BOOLEAN
  BY DEF ShapeInv, OptionsInv
<1>3. CASE stack' = Callers /\ UNCHANGED tasksQueue
  BY <1>1, <1>2, <1>3, TopCall, CallShape DEF Typed
<1>4. CASE /\ {v \in Listed : Queued(v) > 0} # {} /\ tasksQueue' = Dequeued(w)
           /\ stack' = <<f>> \o stack
  <2>1. w \in Listed /\ w \in Ids /\ tasksQueue[w] # <<>>
    BY <1>2, <1>4, FirstFullListed, ListedIds, QueuedTasks
  <2>2. /\ Dequeued(w) \in [Ids -> Seq(1 .. Tasks)]
        /\ tasksQueue[w][1] \in 1 .. Tasks
    BY <1>2, <2>1, ShiftedQueue
  <2>3. f \in Frames
    BY <2>1, <2>2 DEF Frame, Frames
  <2> HIDE DEF f
  <2>4. stack' \in Seq(Frames)
    BY <1>2, <1>4, <2>3, OneFrame, FramesJoined DEF StackInv
  <2> QED
    BY <1>1, <1>2, <1>4, <2>2, <2>4, CallShape DEF Typed
<1> QED
  BY <1>1, <1>3, <1>4

LEMMA SplicedSeq ==
  ASSUME NEW S, NEW s \in Seq(S), NEW k \in 1 .. Len(s)
  PROVE  LET spliced == SubSeq(s, 1, k - 1) \o SubSeq(s, k + 1, Len(s)) IN
         /\ spliced \in Seq(S)
         /\ Len(spliced) = Len(s) - 1
         /\ \A i \in 1 .. Len(s) - 1 :
              spliced[i] = IF i < k THEN s[i] ELSE s[i + 1]
<1> DEFINE front == SubSeq(s, 1, k - 1)
           back == SubSeq(s, k + 1, Len(s))
<1>1. /\ Len(s) \in Nat /\ k \in Int /\ k - 1 \in Int /\ 1 \in Int
      /\ 1 <= k /\ k <= Len(s)
      /\ \A i \in 1 .. k - 1 : s[i] \in S
  BY LenProperties, ElementOfSeq
<1>2. /\ front \in Seq(S)
      /\ Len(front) = IF 1 <= k - 1 THEN (k - 1) - 1 + 1 ELSE 0
      /\ \A i \in 1 .. (k - 1) - 1 + 1 : front[i] = s[1 + i - 1]
  BY <1>1, SubSeqProperties
<1>3. /\ back \in Seq(S) /\ Len(back) = Len(s) - k
      /\ \A i \in 1 .. Len(s) - k : back[i] = s[i + k]
  BY CutSeq
<1> HIDE DEF front, back
<1>4. Len(front) = k - 1 /\ \A i \in 1 .. k - 1 : front[i] = s[i]
  BY <1>1, <1>2
<1>5. /\ front \o back \in Seq(S)
      /\ Len(front \o back) = Len(front) + Len(back)
      /\ \A i \in 1 .. Len(front) + Len(back) : (front \o back)[i] =
           IF i <= Len(front) THEN front[i] ELSE back[i - Len(front)]
  BY <1>2, <1>3, ConcatProperties
<1>6. Len(front) + Len(back) = Len(s) - 1
  BY <1>1, <1>3, <1>4
<1>7. ASSUME NEW i \in 1 .. Len(s) - 1
      PROVE  (front \o back)[i] = IF i < k THEN s[i] ELSE s[i + 1]
  <2>1. (front \o back)[i] = IF i <= k - 1 THEN front[i] ELSE back[i - (k - 1)]
    BY <1>4, <1>5, <1>6
  <2>2. CASE i < k
    BY <1>1, <1>4, <2>1, <2>2
  <2>3. CASE ~(i < k)
    <3>1. i - (k - 1) \in 1 .. Len(s) - k /\ i - (k - 1) + k = i + 1
      BY <1>1, <2>3
    <3>2. back[i - (k - 1)] = s[i + 1]
      BY <1>3, <3>1
    <3> QED
      BY <1>1, <2>1, <2>3, <3>2
  <2> QED
    BY <2>2, <2>3
<1> QED
  BY <1>5, <1>6, <1>7 DEF front, back

LEMMA TasksQueueDisabledShape ==
  ASSUME ShapeInv, strayed, TasksQueueDisabled
  PROVE  ShapeInv'
<1>1. /\ stack # <<>> /\ stack' = Callers
      /\ enableTasksQueue' = FALSE /\ tasksQueueOptions' = NoOptions
      /\ UNCHANGED <<onEmptyQueue, onBackPressure, backPressureSize,
                     workerNodes, ready, open,
                     executing, tasksQueue, inFlight, onEmptyQueueCount, timer,
                     onBackPressureStarted, crashed, lost,
                     keyOfTask, answered, strayed>>
  BY DEF TasksQueueDisabled, At, queueVars, endVars, callbackVars, listVars,
         taskVars
<1>2. Typed /\ StackInv /\ NodesInv /\ OptionsInv
  BY DEF ShapeInv
<1>3. Typed'
  BY <1>1, <1>2 DEF Typed
<1>4. StackInv'
  BY <1>1, <1>2, TopCall, SameFrames DEF StackInv
<1>5. NodesInv'
  BY <1>1, <1>2, SameFrames DEF NodesInv
<1>6. OptionsInv'
  BY <1>1, <1>2 DEF OptionsInv
<1> QED
  BY <1>3, <1>4, <1>5, <1>6 DEF ShapeInv

LEMMA ExecuteShape ==
  ASSUME ShapeInv, NEW t \in 1 .. Tasks, NEW w \in Listed, Execute(t, w)
  PROVE  ShapeInv'
<1> DEFINE f == Frame(IF enableTasksQueue THEN "deliver" ELSE "executeTask", w, t)
<1>1. /\ stack' = <<f, Call>>
      /\ keyOfTask' = [keyOfTask EXCEPT ![t] = Position(w)]
      /\ UNCHANGED <<enableTasksQueue, tasksQueueOptions, onEmptyQueue,
                     onBackPressure, backPressureSize, workerNodes, ready, open,
                     executing, tasksQueue, inFlight, onEmptyQueueCount, timer,
                     onBackPressureStarted, crashed, lost, answered, strayed>>
  BY DEF Execute, optionVars, queueVars, endVars, callbackVars, listVars
<1>2. Typed /\ StackInv /\ NodesInv /\ OptionsInv
  BY DEF ShapeInv
<1>3. Position(w) \in 0 .. Nodes
  <2>1. Position(w) \in 1 .. Len(workerNodes) /\ Len(workerNodes) <= Nodes
        /\ Len(workerNodes) \in Nat
    BY <1>2, ListedIds, PositionOf DEF NodesInv
  <2> QED
    BY <2>1, NodeIds
<1>4. keyOfTask' \in [1 .. Tasks -> 0 .. Nodes]
  <2>1. keyOfTask \in [1 .. Tasks -> 0 .. Nodes]
    BY <1>2 DEF Typed
  <2> QED
    BY <1>1, <1>3, <2>1
<1>5. Typed'
  BY <1>1, <1>2, <1>4 DEF Typed
<1>6. f \in Frames /\ Call \in Frames
  <2>1. CASE enableTasksQueue
    BY <2>1 DEF Frame, Frames, Call, Receivers
  <2>2. CASE ~enableTasksQueue
    BY <2>2 DEF Frame, Frames, Call
  <2> QED
    BY <2>1, <2>2
<1> HIDE DEF f
<1>7. StackInv'
  <2>1. <<f, Call>> \in Seq(Frames)
    BY <1>6
  <2> QED
    BY <1>1, <2>1, SameFrames DEF StackInv
<1>8. NodesInv'
  BY <1>1, <1>2, SameFrames DEF NodesInv
<1>9. OptionsInv'
  BY <1>1, <1>2 DEF OptionsInv
<1> QED
  BY <1>5, <1>7, <1>8, <1>9 DEF ShapeInv

LEMMA AnswerShape ==
  ASSUME ShapeInv, NEW w \in Ids, NEW t \in 1 .. Tasks, Answer(w, t)
  PROVE  ShapeInv'
<1> DEFINE key == keyOfTask[t]
           node == workerNodes[key]
           f == Frame("executeTask", node, tasksQueue[node][1])
<1>1. /\ stack = <<>>
      /\ inFlight' = [inFlight EXCEPT ![w] = @ \ {t}]
      /\ answered' = answered \cup {t}
      /\ strayed' = (strayed \/ key # Position(w))
      /\ UNCHANGED <<enableTasksQueue, tasksQueueOptions, onEmptyQueue,
                     onBackPressure, backPressureSize, workerNodes, ready, open,
                     onEmptyQueueCount, timer,
                     onBackPressureStarted, lost, keyOfTask>>
  BY DEF Answer, Idle, optionVars, listVars, callbackVars
<1>2. \/ /\ crashed' = TRUE /\ UNCHANGED <<executing, tasksQueue, stack>>
      \/ /\ key \in DOMAIN workerNodes
         /\ executing' = [executing EXCEPT ![node] = OneFewer(@)]
         /\ \/ UNCHANGED <<tasksQueue, stack>>
            \/ /\ Queued(node) > 0 /\ tasksQueue' = Dequeued(node)
               /\ stack' = EmptyQueueCalls(node) \o <<f, Listener>>
         /\ UNCHANGED crashed
  <2> HIDE DEF f
  <2> QED
    BY DEF Answer, f
<1>3. Typed /\ StackInv /\ NodesInv /\ OptionsInv
  BY DEF ShapeInv
<1>4. NodesInv'
  BY <1>1, <1>3, SameFrames DEF NodesInv
<1>5. OptionsInv'
  BY <1>1, <1>2, <1>3 DEF OptionsInv
<1>6. Frames' = Frames
  BY <1>1, SameFrames
<1>7. inFlight' \in [Ids -> SUBSET (1 .. Tasks)] /\ answered' \subseteq 1 .. Tasks
  BY <1>1, <1>3 DEF Typed
<1>8. /\ executing' \in [Ids -> Nat] /\ tasksQueue' \in [Ids -> Seq(1 .. Tasks)]
      /\ stack' \in Seq(Frames)
  <2>1. CASE crashed' = TRUE /\ UNCHANGED <<executing, tasksQueue, stack>>
    BY <1>3, <2>1 DEF Typed, StackInv
  <2>2. ASSUME key \in DOMAIN workerNodes,
               executing' = [executing EXCEPT ![node] = OneFewer(@)]
        PROVE  /\ node \in Listed /\ node \in Ids
               /\ executing' \in [Ids -> Nat]
    <3>1. node \in Listed /\ node \in Ids
      BY <1>3, <2>2, ListedIds
    <3>2. executing \in [Ids -> Nat] /\ OneFewer(executing[node]) \in Nat
      BY <1>3, <3>1 DEF Typed, OneFewer
    <3> HIDE DEF node
    <3> QED
      BY <2>2, <3>1, <3>2
  <2>3. CASE /\ key \in DOMAIN workerNodes
             /\ executing' = [executing EXCEPT ![node] = OneFewer(@)]
             /\ UNCHANGED <<tasksQueue, stack>>
    BY <1>3, <2>2, <2>3 DEF Typed, StackInv
  <2>4. CASE /\ key \in DOMAIN workerNodes
             /\ executing' = [executing EXCEPT ![node] = OneFewer(@)]
             /\ Queued(node) > 0 /\ tasksQueue' = Dequeued(node)
             /\ stack' = EmptyQueueCalls(node) \o <<f, Listener>>
    <3>1. node \in Listed /\ node \in Ids /\ executing' \in [Ids -> Nat]
      BY <2>2, <2>4
    <3> HIDE DEF node
    <3>2. tasksQueue[node] # <<>>
      BY <1>3, <2>4, <3>1, QueuedTasks
    <3>3. /\ Dequeued(node) \in [Ids -> Seq(1 .. Tasks)]
          /\ tasksQueue[node][1] \in 1 .. Tasks
      BY <1>3, <3>1, <3>2, ShiftedQueue
    <3>4. f \in Frames /\ Listener \in Frames
      BY <3>1, <3>3 DEF Frame, Frames, Listener
    <3> HIDE DEF f
    <3>5. EmptyQueueCalls(node) \in Seq(Frames) /\ <<f, Listener>> \in Seq(Frames)
      BY <3>1, <3>4, CallsFrames
    <3>6. stack' \in Seq(Frames)
      BY <2>4, <3>5, FramesJoined
    <3> QED
      BY <2>4, <3>1, <3>3, <3>6
  <2> QED
    BY <1>2, <2>1, <2>3, <2>4
<1>9. Typed'
  BY <1>1, <1>3, <1>7, <1>8 DEF Typed
<1>10. StackInv'
  BY <1>6, <1>8 DEF StackInv
<1> QED
  BY <1>4, <1>5, <1>9, <1>10 DEF ShapeInv

LEMMA TimerShape ==
  ASSUME ShapeInv, NEW w \in Ids, Timer(w)
  PROVE  ShapeInv'
<1> DEFINE f == Frame("startOnEmptyQueue", w, None)
<1>1. /\ stack' = <<f, Call>>
      /\ timer' = [timer EXCEPT ![w] = FALSE]
      /\ UNCHANGED <<optionVars, listVars, taskVars>>
      /\ UNCHANGED <<executing, tasksQueue, inFlight, onEmptyQueueCount,
                     onBackPressureStarted, crashed, lost>>
  BY DEF Timer, queueVars, endVars
<1>2. Typed /\ crashed \in BOOLEAN
  BY DEF ShapeInv, OptionsInv
<1>3. f \in Frames /\ Call \in Frames
  BY DEF Frame, Frames, Call
<1> HIDE DEF f
<1>4. <<f, Call>> \in Seq(Frames)
  BY <1>3
<1>5. timer' \in [Ids -> BOOLEAN]
  BY <1>1, <1>2 DEF Typed
<1> QED
  BY <1>1, <1>2, <1>4, <1>5, CallShape DEF Typed

\* A worker that ends: its node is closed, or leaves the list.
LEMMA ClosedShape ==
  ASSUME ShapeInv, UNCHANGED <<optionVars, queueVars, callbackVars, endVars,
                               taskVars, workerNodes>>,
         NEW w \in Ids, open' = [open EXCEPT ![w] = FALSE],
         ready' \in [Ids -> BOOLEAN], stack' \in Seq(Frames)
  PROVE  ShapeInv'
<1>1. UNCHANGED <<enableTasksQueue, tasksQueueOptions, onEmptyQueue,
                  onBackPressure, backPressureSize, workerNodes, executing,
                  tasksQueue, inFlight, onEmptyQueueCount, timer,
                  onBackPressureStarted, crashed, lost, keyOfTask, answered,
                  strayed>>
  BY DEF optionVars, queueVars, callbackVars, endVars, taskVars
<1>2. Typed /\ StackInv /\ NodesInv /\ OptionsInv
  BY DEF ShapeInv
<1>3. open' \in [Ids -> BOOLEAN] /\ \A v \in Ids : open'[v] => open[v]
  BY <1>2 DEF Typed
<1>4. Typed'
  BY <1>1, <1>2, <1>3 DEF Typed
<1>5. StackInv'
  BY <1>1, SameFrames DEF StackInv
<1>6. NodesInv'
  BY <1>1, <1>2, <1>3, SameFrames DEF NodesInv
<1>7. OptionsInv'
  BY <1>1, <1>2 DEF OptionsInv
<1> QED
  BY <1>4, <1>5, <1>6, <1>7 DEF ShapeInv

LEMMA WorkerErrorShape ==
  ASSUME ShapeInv, NEW w \in Listed, WorkerError(w)
  PROVE  ShapeInv'
<1> DEFINE f == Frame("redistributeQueuedTasks", w, None)
<1>1. /\ open' = [open EXCEPT ![w] = FALSE]
      /\ ready' = [ready EXCEPT ![w] = FALSE]
      /\ stack' = IF enableTasksQueue THEN <<f, Listener>> ELSE <<>>
      /\ UNCHANGED <<optionVars, queueVars, callbackVars, endVars, taskVars,
                     workerNodes>>
  BY DEF WorkerError
<1>2. Typed /\ w \in Ids
  BY ListedIds DEF ShapeInv
<1>3. f \in Frames /\ Listener \in Frames
  BY DEF Frame, Frames, Listener
<1> HIDE DEF f
<1>4. <<f, Listener>> \in Seq(Frames) /\ <<>> \in Seq(Frames)
  BY <1>3, NoFrames
<1>5. ready' \in [Ids -> BOOLEAN] /\ stack' \in Seq(Frames)
  BY <1>1, <1>2, <1>4 DEF Typed
<1> QED
  BY <1>1, <1>2, <1>5, ClosedShape

LEMMA NodeDestroyedShape ==
  ASSUME ShapeInv, NEW w \in Ids, NodeDestroyed(w)
  PROVE  ShapeInv'
<1>1. /\ open' = [open EXCEPT ![w] = FALSE] /\ UNCHANGED <<ready, stack>>
      /\ UNCHANGED <<optionVars, queueVars, callbackVars, endVars, taskVars,
                     workerNodes>>
  BY DEF NodeDestroyed
<1>2. ready' \in [Ids -> BOOLEAN] /\ stack' \in Seq(Frames)
  BY <1>1 DEF ShapeInv, Typed, StackInv
<1> QED
  BY <1>1, <1>2, ClosedShape

LEMMA WorkerExitShape ==
  ASSUME ShapeInv, NEW w \in Ids, WorkerExit(w)
  PROVE  ShapeInv' /\ Listed' = Listed \ {w}
<1> DEFINE k == Position(w)
<1>1. /\ stack = <<>> /\ ~open[w] /\ w \in Listed
      /\ workerNodes' = SubSeq(workerNodes, 1, k - 1)
                          \o SubSeq(workerNodes, k + 1, Len(workerNodes))
      /\ UNCHANGED <<enableTasksQueue, tasksQueueOptions, onEmptyQueue,
                     onBackPressure, backPressureSize, ready, open, executing,
                     tasksQueue, inFlight, onEmptyQueueCount, timer,
                     onBackPressureStarted, crashed, lost, keyOfTask, answered,
                     strayed, stack>>
  BY DEF WorkerExit, Idle, optionVars, queueVars, callbackVars, endVars, taskVars
<1>2. Typed /\ StackInv /\ NodesInv /\ OptionsInv
  BY DEF ShapeInv
<1>3. /\ DOMAIN workerNodes = 1 .. Len(workerNodes) /\ Len(workerNodes) \in Nat
      /\ k \in 1 .. Len(workerNodes) /\ workerNodes[k] = w
  BY <1>1, <1>2, ListedIds, PositionOf
<1>4. workerNodes \in Seq(Ids)
  BY <1>2 DEF Typed
<1> DEFINE spliced == SubSeq(workerNodes, 1, k - 1)
                        \o SubSeq(workerNodes, k + 1, Len(workerNodes))
<1> HIDE DEF k
<1>5. /\ spliced \in Seq(Ids)
      /\ Len(spliced) = Len(workerNodes) - 1
      /\ \A i \in 1 .. Len(workerNodes) - 1 :
           spliced[i] = IF i < k THEN workerNodes[i] ELSE workerNodes[i + 1]
  BY <1>3, <1>4, SplicedSeq
<1>6. workerNodes' = spliced
  BY <1>1 DEF k
<1> HIDE DEF spliced
<1>7. DOMAIN workerNodes' = 1 .. Len(workerNodes) - 1
  BY <1>3, <1>5, <1>6, LenProperties
<1>8. \A i \in DOMAIN workerNodes' : workerNodes'[i] =
        IF i < k THEN workerNodes[i] ELSE workerNodes[i + 1]
  BY <1>5, <1>6, <1>7
<1>9. ASSUME NEW i \in DOMAIN workerNodes', NEW j \in DOMAIN workerNodes',
             workerNodes'[i] = workerNodes'[j]
      PROVE  i = j
  <2>1. \A x, y \in DOMAIN workerNodes : workerNodes[x] = workerNodes[y] => x = y
    BY <1>2 DEF NodesInv
  <2> QED
    BY <1>3, <1>7, <1>8, <1>9, <2>1
<1>10. ASSUME NEW i \in DOMAIN workerNodes'
       PROVE  workerNodes'[i] \in Listed \ {w}
  <2>1. \A x, y \in DOMAIN workerNodes : workerNodes[x] = workerNodes[y] => x = y
    BY <1>2 DEF NodesInv
  <2>2. CASE i < k
    <3>1. i \in DOMAIN workerNodes /\ workerNodes'[i] = workerNodes[i] /\ i # k
      BY <1>3, <1>7, <1>8, <2>2
    <3> QED
      BY <1>3, <2>1, <3>1 DEF Listed
  <2>3. CASE ~(i < k)
    <3>1. /\ i + 1 \in DOMAIN workerNodes /\ workerNodes'[i] = workerNodes[i + 1]
          /\ i + 1 # k
      BY <1>3, <1>7, <1>8, <2>3
    <3> QED
      BY <1>3, <2>1, <3>1 DEF Listed
  <2> QED
    BY <2>2, <2>3
<1>11. ASSUME NEW v \in Listed \ {w} PROVE v \in Listed'
  <2>1. PICK i \in DOMAIN workerNodes : v = workerNodes[i]
    BY DEF Listed
  <2>2. i # k
    BY <1>3, <2>1
  <2>3. CASE i < k
    <3>1. i \in DOMAIN workerNodes' /\ workerNodes'[i] = v
      BY <1>3, <1>7, <1>8, <2>1, <2>3
    <3> QED
      BY <3>1 DEF Listed
  <2>4. CASE ~(i < k)
    <3>1. i - 1 \in DOMAIN workerNodes' /\ ~(i - 1 < k) /\ (i - 1) + 1 = i
      BY <1>3, <1>7, <2>2, <2>4
    <3>2. workerNodes'[i - 1] = v
      BY <1>8, <2>1, <3>1
    <3> QED
      BY <3>1, <3>2 DEF Listed
  <2> QED
    BY <2>3, <2>4
<1>12. Listed' = Listed \ {w}
  <2>1. \A v \in Listed' : v \in Listed \ {w}
    BY <1>10 DEF Listed
  <2> QED
    BY <1>11, <2>1
<1>13. Typed'
  BY <1>1, <1>2, <1>5, <1>6 DEF Typed
<1>14. StackInv'
  BY <1>1, NoFrames DEF StackInv
<1>15. NodesInv'
  <2>1. Len(workerNodes') <= Nodes
    BY <1>2, <1>3, <1>5, <1>6, NodeIds DEF NodesInv
  <2>2. \A v \in Ids : v \notin Listed' => ~open'[v]
    BY <1>1, <1>2, <1>12 DEF NodesInv
  <2> QED
    BY <1>9, <2>1, <2>2 DEF NodesInv
<1>16. OptionsInv'
  BY <1>1, <1>2 DEF OptionsInv
<1> QED
  BY <1>12, <1>13, <1>14, <1>15, <1>16 DEF ShapeInv

-----------------------------------------------------------------------------
(* The options, and the step.                                              *)

LEMMA OptionTypes ==
  ASSUME NEW options \in TasksQueueOptions
  PROVE  /\ options.size \in Nat \ {0} /\ options.concurrency \in Nat \ {0}
         /\ options.taskStealing \in BOOLEAN
         /\ options.tasksStealingOnBackPressure \in BOOLEAN
BY DEF TasksQueueOptions

LEMMA InstalledType ==
  ASSUME NEW callback \in [Ids -> BOOLEAN], NEW on \in BOOLEAN
  PROVE  Installed(callback, on) \in [Ids -> BOOLEAN]
BY DEF Installed

LEMMA SetTasksQueueOptionsShape ==
  ASSUME ShapeInv, NEW given \in LaterOptions, SetTasksQueueOptions(given)
  PROVE  ShapeInv'
<1> DEFINE options == BuildTasksQueueOptions(given)
<1>1. ValidTasksQueueOptions(given)
  BY DEF SetTasksQueueOptions
<1>2. options \in TasksQueueOptions
  BY <1>1, OptionsAssumption
<1>3. /\ enableTasksQueue' = TRUE /\ tasksQueueOptions' = options
      /\ strayed' = (strayed \/ options.concurrency < tasksQueueOptions.concurrency)
      /\ backPressureSize' = [w \in Ids |-> IF w \in Listed THEN options.size
                                                     ELSE backPressureSize[w]]
      /\ onEmptyQueue' = Installed(onEmptyQueue, options.taskStealing)
      /\ onBackPressure' =
           Installed(onBackPressure, options.tasksStealingOnBackPressure)
      /\ UNCHANGED <<workerNodes, ready, open, executing, tasksQueue, inFlight,
                     onEmptyQueueCount, timer, onBackPressureStarted, crashed,
                     lost, keyOfTask, answered, stack>>
  BY DEF SetTasksQueueOptions, listVars, queueVars, callbackVars, endVars
<1> HIDE DEF options
<1>4. Typed /\ StackInv /\ NodesInv /\ OptionsInv
  BY DEF ShapeInv
<1>5. onEmptyQueue' \in [Ids -> BOOLEAN] /\ onBackPressure' \in [Ids -> BOOLEAN]
  BY <1>2, <1>3, <1>4, OptionTypes, InstalledType DEF Typed
<1>6. Typed'
  BY <1>2, <1>3, <1>4, <1>5 DEF Typed
<1>7. StackInv'
  BY <1>3, <1>4, SameFrames DEF StackInv
<1>8. NodesInv'
  BY <1>3, <1>4, SameFrames DEF NodesInv
<1>9. OptionsInv'
  <2>1. options.size \in Nat \ {0}
    BY <1>2, OptionTypes
  <2>2. strayed' \in BOOLEAN /\ crashed' \in BOOLEAN
    BY <1>3, <1>4 DEF OptionsInv
  <2>3. ASSUME ~strayed', NEW w \in Ids PROVE backPressureSize'[w] \in Nat \ {0}
    <3>1. backPressureSize[w] \in Nat \ {0}
      BY <1>3, <1>4, <2>3 DEF OptionsInv
    <3> QED
      BY <1>3, <2>1, <3>1
  <2> QED
    BY <1>2, <1>3, <2>2, <2>3 DEF OptionsInv
<1> QED
  BY <1>6, <1>7, <1>8, <1>9 DEF ShapeInv

LEMMA RefuseTasksQueueOptionsShape ==
  ASSUME ShapeInv, NEW given, RefuseTasksQueueOptions(given)
  PROVE  ShapeInv'
<1>1. /\ ~enableTasksQueue /\ enableTasksQueue' = TRUE
      /\ UNCHANGED <<tasksQueueOptions, onEmptyQueue, onBackPressure,
                     backPressureSize, workerNodes, ready, open, executing,
                     tasksQueue, inFlight, onEmptyQueueCount, timer,
                     onBackPressureStarted, crashed, lost, keyOfTask, answered,
                     strayed, stack>>
  BY DEF RefuseTasksQueueOptions, listVars, queueVars, callbackVars, endVars,
         taskVars
<1>2. Typed /\ StackInv /\ NodesInv /\ OptionsInv
  BY DEF ShapeInv
<1>3. Typed'
  BY <1>1, <1>2 DEF Typed
<1>4. StackInv'
  BY <1>1, <1>2, SameFrames DEF StackInv
<1>5. NodesInv'
  BY <1>1, <1>2, SameFrames DEF NodesInv
<1>6. OptionsInv'
  BY <1>1, <1>2 DEF OptionsInv
<1> QED
  BY <1>3, <1>4, <1>5, <1>6 DEF ShapeInv

LEMMA DisableTasksQueueShape ==
  ASSUME ShapeInv, DisableTasksQueue
  PROVE  ShapeInv'
<1> DEFINE f == Frame("flushTasksQueues", None, None)
           g == Frame("disableTasksQueue", None, None)
<1>1. /\ strayed' = TRUE /\ stack' = <<f, g, Call>>
      /\ onEmptyQueue' = Installed(onEmptyQueue, FALSE)
      /\ onBackPressure' = Installed(onBackPressure, FALSE)
      /\ UNCHANGED <<enableTasksQueue, tasksQueueOptions, backPressureSize,
                     workerNodes, ready, open, executing, tasksQueue, inFlight,
                     onEmptyQueueCount, timer, onBackPressureStarted, crashed,
                     lost, keyOfTask, answered>>
  BY DEF DisableTasksQueue, listVars, queueVars, callbackVars, endVars
<1>2. Typed /\ StackInv /\ NodesInv /\ OptionsInv
  BY DEF ShapeInv
<1>3. f \in Frames /\ g \in Frames /\ Call \in Frames
  BY DEF Frame, Frames, Call
<1> HIDE DEF f, g
<1>4. <<f, g, Call>> \in Seq(Frames)
  BY <1>3
<1>5. onEmptyQueue' \in [Ids -> BOOLEAN] /\ onBackPressure' \in [Ids -> BOOLEAN]
  BY <1>1, <1>2, InstalledType DEF Typed
<1>6. Typed'
  BY <1>1, <1>2, <1>5 DEF Typed
<1>7. StackInv'
  BY <1>1, <1>4, SameFrames DEF StackInv
<1>8. NodesInv'
  BY <1>1, <1>2, SameFrames DEF NodesInv
<1>9. OptionsInv'
  BY <1>1, <1>2 DEF OptionsInv
<1> QED
  BY <1>6, <1>7, <1>8, <1>9 DEF ShapeInv

\* Only a call that switches the queues off switches the options off.
Switches == {"flushTasksQueues", "disableTasksQueue"}
SwitchInv == NodesAt(stack, Switches) # {} => strayed

LEMMA SwitchedOff ==
  ASSUME StackInv, SwitchInv, stack # <<>>, Top.at \in Switches
  PROVE  strayed
<1>1. 1 \in DOMAIN stack
  BY LenProperties, EmptySeq DEF StackInv
<1>2. Top.node \in NodesAt(stack, Switches)
  BY <1>1 DEF NodesAt, Top
<1> QED
  BY <1>2 DEF SwitchInv

LEMMA ShapeStep ==
  ASSUME ShapeInv, SwitchInv, Next
  PROVE  ShapeInv'
<1>1. CASE Deliver BY <1>1, DeliverShape
<1>2. CASE Run BY <1>2, RunShape
<1>3. CASE StartOnEmptyQueue BY <1>3, StartOnEmptyQueueShape
<1>4. CASE StealOnEmptyQueue BY <1>4, StealOnEmptyQueueShape
<1>5. CASE Sleep BY <1>5, SleepShape
<1>6. CASE OnBackPressure BY <1>6, OnBackPressureShape
<1>7. CASE StealOnBackPressure BY <1>7, StealOnBackPressureShape
<1>8. CASE OnBackPressureEnd BY <1>8, OnBackPressureEndShape
<1>9. CASE Redistribute BY <1>9, RedistributeShape
<1>10. CASE Flush BY <1>10, FlushShape
<1>11. CASE TasksQueueDisabled
  <2>1. stack # <<>> /\ Top.at \in Switches
    BY <1>11 DEF TasksQueueDisabled, At, Switches
  <2>2. strayed
    BY <2>1, SwitchedOff DEF ShapeInv
  <2> QED
    BY <1>11, <2>2, TasksQueueDisabledShape
<1>12. CASE Return BY <1>12, ReturnShape
<1>13. ASSUME NEW t \in 1 .. Tasks, NEW w \in Listed, Execute(t, w)
       PROVE  ShapeInv'
  BY <1>13, ExecuteShape
<1>14. ASSUME NEW w \in Ids, NEW t \in 1 .. Tasks, Answer(w, t)
       PROVE  ShapeInv'
  BY <1>14, AnswerShape
<1>15. ASSUME NEW w \in Ids, Timer(w) PROVE ShapeInv'
  BY <1>15, TimerShape
<1>16. ASSUME NEW w \in Ids, WorkerError(w) PROVE ShapeInv'
  <2>1. w \in Listed
    BY <1>16 DEF WorkerError, ShapeInv, NodesInv
  <2> QED
    BY <1>16, <2>1, WorkerErrorShape
<1>17. ASSUME NEW w \in Ids, NodeDestroyed(w) PROVE ShapeInv'
  BY <1>17, NodeDestroyedShape
<1>18. ASSUME NEW w \in Ids, WorkerExit(w) PROVE ShapeInv'
  BY <1>18, WorkerExitShape
<1>19. ASSUME NEW given \in LaterOptions, SetTasksQueueOptions(given)
       PROVE  ShapeInv'
  BY <1>19, SetTasksQueueOptionsShape
<1>20. ASSUME NEW given \in LaterOptions, RefuseTasksQueueOptions(given)
       PROVE  ShapeInv'
  BY <1>20, RefuseTasksQueueOptionsShape
<1>21. CASE DisableTasksQueue BY <1>21, DisableTasksQueueShape
<1> QED
  BY <1>1, <1>2, <1>3, <1>4, <1>5, <1>6, <1>7, <1>8, <1>9, <1>10, <1>11, <1>12,
     <1>13, <1>14, <1>15, <1>16, <1>17, <1>18, <1>19, <1>20, <1>21
  DEF Next, Step

LEMMA InitShape ==
  ASSUME Init
  PROVE  ShapeInv
<1> DEFINE built == BuildTasksQueueOptions(InitialOptions)
<1>1. built \in TasksQueueOptions
  BY OptionsAssumption
<1>2. /\ built["taskStealing"] \in BOOLEAN
      /\ built["tasksStealingOnBackPressure"] \in BOOLEAN
      /\ built.size \in Nat \ {0}
  BY <1>1, OptionTypes
<1>3. /\ enableTasksQueue \in BOOLEAN
      /\ tasksQueueOptions \in TasksQueueOptions \cup {NoOptions}
      /\ enableTasksQueue => tasksQueueOptions = built
  BY <1>1 DEF Init
<1>4. InitiallyOn("taskStealing") \in BOOLEAN
      /\ InitiallyOn("tasksStealingOnBackPressure") \in BOOLEAN
  BY <1>2, <1>3 DEF InitiallyOn
<1>5. workerNodes \in Seq(Ids) /\ Len(workerNodes) = Nodes /\ DOMAIN workerNodes = Ids
      /\ \A i \in Ids : workerNodes[i] = i
  <2>1. workerNodes = [i \in 1 .. Nodes |-> i] /\ Nodes \in Nat
    BY NodeIds DEF Init
  <2>2. workerNodes \in [1 .. Nodes -> Ids]
    BY <2>1, NodeIds
  <2>3. workerNodes \in Seq(Ids)
    BY <2>1, <2>2, SeqDef
  <2>4. Len(workerNodes) \in Nat /\ DOMAIN workerNodes = 1 .. Len(workerNodes)
    BY <2>3, LenProperties
  <2>5. Len(workerNodes) = Nodes
    BY <2>1, <2>4
  <2> QED
    BY <2>1, <2>3, <2>5, NodeIds
<1>6. Listed = Ids
  BY <1>5 DEF Listed
<1>7. Typed
  <2>1. keyOfTask \in [1 .. Tasks -> 0 .. Nodes]
    BY NodeIds DEF Init
  <2>2. <<>> \in Seq(1 .. Tasks)
    BY EmptySeq
  <2>3. onEmptyQueueCount \in [Ids -> 0 .. 1]
    <3>1. 0 \in 0 .. 1
      OBVIOUS
    <3> QED
      BY <3>1 DEF Init
  <2>4. tasksQueue \in [Ids -> Seq(1 .. Tasks)]
    BY <2>2 DEF Init
  <2>5. onEmptyQueue \in [Ids -> BOOLEAN] /\ onBackPressure \in [Ids -> BOOLEAN]
    BY <1>4 DEF Init
  <2>6. /\ ready \in [Ids -> BOOLEAN] /\ open \in [Ids -> BOOLEAN]
        /\ onBackPressureStarted \in [Ids -> BOOLEAN]
        /\ timer \in [Ids -> BOOLEAN] /\ executing \in [Ids -> Nat]
        /\ inFlight \in [Ids -> SUBSET (1 .. Tasks)]
        /\ answered = {} /\ lost = {}
    BY DEF Init
  <2> QED
    BY <1>3, <1>5, <2>1, <2>3, <2>4, <2>5, <2>6 DEF Typed
<1>8. StackInv
  BY NoFrames DEF Init, StackInv
<1>9. NodesInv
  BY <1>5, <1>6, NodeIds DEF NodesInv
<1>10. OptionsInv
  <2>1. strayed = ~enableTasksQueue /\ crashed = FALSE
    BY DEF Init
  <2>2. ASSUME enableTasksQueue, NEW w \in Ids
        PROVE  backPressureSize[w] \in Nat \ {0}
    BY <1>2, <1>3, <2>2 DEF Init
  <2> QED
    BY <1>1, <1>3, <2>1, <2>2 DEF OptionsInv
<1> QED
  BY <1>7, <1>8, <1>9, <1>10 DEF ShapeInv

-----------------------------------------------------------------------------
(* What a step does to the stack: the innermost call is replaced by those  *)
(* it makes.                                                               *)

KindsOf(frames) == {frames[i].at : i \in DOMAIN frames}

\* Some calls of these kinds, holding these tasks, give way to others.
Rewrites(s, r, dropped, added, out, in) ==
  \E old, new, base \in Seq(Frames) :
    /\ s = old \o base /\ r = new \o base
    /\ KindsOf(old) \subseteq dropped /\ KindsOf(new) \subseteq added
    /\ TasksIn(old) = out /\ TasksIn(new) = in /\ OnceIn(new)

\* For calls of these kinds nothing changes, or some are dropped.
SameAt(s, r, K) ==
  NodesAt(r, K) = NodesAt(s, K) /\ (OnceAt(s, K) => OnceAt(r, K))
FewerAt(s, r, K) ==
  NodesAt(r, K) \subseteq NodesAt(s, K) /\ (OnceAt(s, K) => OnceAt(r, K))

LEMMA NoneAt ==
  ASSUME NEW s, NEW K, NEW kinds, KindsOf(s) \subseteq kinds, K \cap kinds = {}
  PROVE  NodesAt(s, K) = {} /\ OnceAt(s, K)
BY DEF KindsOf, NodesAt, OnceAt

LEMMA KindsJoined ==
  ASSUME NEW s \in Seq(Frames), NEW t \in Seq(Frames)
  PROVE  KindsOf(s \o t) = KindsOf(s) \cup KindsOf(t)
<1> DEFINE r == s \o t
<1>1. /\ r \in Seq(Frames)
      /\ \A i \in DOMAIN s : i \in DOMAIN r /\ r[i] = s[i]
      /\ \A i \in DOMAIN t : Len(s) + i \in DOMAIN r /\ r[Len(s) + i] = t[i]
      /\ \A i \in DOMAIN r : \/ i \in DOMAIN s /\ r[i] = s[i]
                             \/ /\ i - Len(s) \in DOMAIN t
                                /\ r[i] = t[i - Len(s)]
                                /\ i \notin DOMAIN s
  BY JoinedSeqs
<1> HIDE DEF r
<1>2. \A x \in KindsOf(r) : x \in KindsOf(s) \cup KindsOf(t)
  BY <1>1 DEF KindsOf
<1>3. ASSUME NEW x \in KindsOf(s) PROVE x \in KindsOf(r)
  <2>1. PICK i \in DOMAIN s : x = s[i].at
    BY DEF KindsOf
  <2>2. i \in DOMAIN r /\ r[i] = s[i]
    BY <1>1
  <2> QED
    BY <2>1, <2>2 DEF KindsOf
<1>4. ASSUME NEW x \in KindsOf(t) PROVE x \in KindsOf(r)
  <2>1. PICK i \in DOMAIN t : x = t[i].at
    BY DEF KindsOf
  <2>2. Len(s) + i \in DOMAIN r /\ r[Len(s) + i] = t[i]
    BY <1>1
  <2> QED
    BY <2>1, <2>2 DEF KindsOf
<1> QED
  BY <1>2, <1>3, <1>4 DEF r

LEMMA KindsFrame ==
  ASSUME NEW f
  PROVE  KindsOf(<<f>>) = {f.at} /\ KindsOf(<<>>) = {}
BY DEF KindsOf

LEMMA RewritesSame ==
  ASSUME NEW s, NEW r, NEW dropped, NEW added, NEW out, NEW in,
         Rewrites(s, r, dropped, added, out, in),
         NEW K, K \cap dropped = {}, K \cap added = {}
  PROVE  SameAt(s, r, K)
<1>1. PICK old, new, base \in Seq(Frames) :
        /\ s = old \o base /\ r = new \o base
        /\ KindsOf(old) \subseteq dropped /\ KindsOf(new) \subseteq added
  BY DEF Rewrites
<1>a. old \in Seq(Frames) /\ base \in Seq(Frames) /\ s = old \o base
  BY <1>1
<1>b. new \in Seq(Frames) /\ base \in Seq(Frames) /\ r = new \o base
  BY <1>1
<1>2. /\ NodesAt(old, K) = {} /\ OnceAt(old, K)
      /\ NodesAt(new, K) = {} /\ OnceAt(new, K)
  BY <1>1, NoneAt
<1>3. /\ \A x : x \in NodesAt(s, K) <=> x \in NodesAt(base, K)
      /\ OnceAt(s, K) <=> OnceAt(base, K)
  BY <1>a, <1>2, JoinedOthers
<1>4. /\ \A x : x \in NodesAt(r, K) <=> x \in NodesAt(base, K)
      /\ OnceAt(r, K) <=> OnceAt(base, K)
  BY <1>b, <1>2, JoinedOthers
<1> QED
  BY <1>3, <1>4 DEF SameAt

LEMMA RewritesTasks ==
  ASSUME NEW s, NEW r, NEW dropped, NEW added, NEW out, NEW in,
         Rewrites(s, r, dropped, added, out, in), OnceIn(s),
         \A x \in in : x \in TasksIn(s) => x \in out
  PROVE  /\ TasksIn(r) = (TasksIn(s) \ out) \cup in
         /\ out \subseteq TasksIn(s)
         /\ OnceIn(r)
<1>1. PICK old, new, base \in Seq(Frames) :
        /\ s = old \o base /\ r = new \o base
        /\ TasksIn(old) = out /\ TasksIn(new) = in /\ OnceIn(new)
  BY DEF Rewrites
<1>a. old \in Seq(Frames) /\ base \in Seq(Frames) /\ s = old \o base
  BY <1>1
<1>b. new \in Seq(Frames) /\ base \in Seq(Frames) /\ r = new \o base
  BY <1>1
<1>2. /\ \A x : x \in TasksIn(s) <=> x \in TasksIn(old) \/ x \in TasksIn(base)
      /\ OnceIn(s) <=> /\ OnceIn(old) /\ OnceIn(base)
                       /\ Apart(TasksIn(old), TasksIn(base))
  BY ONLY <1>a, JoinedTasks
<1>3. /\ \A x : x \in TasksIn(r) <=> x \in TasksIn(new) \/ x \in TasksIn(base)
      /\ OnceIn(r) <=> /\ OnceIn(new) /\ OnceIn(base)
                       /\ Apart(TasksIn(new), TasksIn(base))
  BY ONLY <1>b, JoinedTasks
<1>4. \A x : x \in TasksIn(base) <=> x \in TasksIn(s) /\ x \notin out
  BY <1>1, <1>2 DEF Apart
<1>5. TasksIn(r) = (TasksIn(s) \ out) \cup in
  BY ONLY <1>1, <1>3, <1>4
<1>6. Apart(TasksIn(new), TasksIn(base))
  BY <1>1, <1>4 DEF Apart
<1> QED
  BY <1>1, <1>2, <1>3, <1>5, <1>6

LEMMA RewriteTop ==
  ASSUME StackInv, stack # <<>>, NEW new \in Seq(Frames), NEW r,
         r = new \o Callers, NEW dropped, Top.at \in dropped,
         NEW added, KindsOf(new) \subseteq added,
         NEW out, out = {Top.task} \ {None},
         NEW in, TasksIn(new) = in, OnceIn(new)
  PROVE  Rewrites(stack, r, dropped, added, out, in)
<1>1. /\ Top \in Frames /\ Callers \in Seq(Frames)
      /\ stack = <<Top>> \o Callers
  BY TopCall
<1>2. /\ <<Top>> \in Seq(Frames) /\ KindsOf(<<Top>>) \subseteq dropped
      /\ TasksIn(<<Top>>) = out
  BY <1>1, KindsFrame, OneFrame
<1> QED
  BY <1>1, <1>2 DEF Rewrites

LEMMA RewritePop ==
  ASSUME StackInv, stack # <<>>, NEW dropped, Top.at \in dropped, NEW added,
         NEW out, out = {Top.task} \ {None}, NEW in, in = {}
  PROVE  Rewrites(stack, Callers, dropped, added, out, in)
<1>1. Callers \in Seq(Frames)
  BY TopCall
<1>2. Callers = <<>> \o Callers
  BY <1>1, ConcatEmptySeq
<1>3. <<>> \in Seq(Frames) /\ TasksIn(<<>>) = in /\ OnceIn(<<>>)
  BY NoFrames
<1>4. KindsOf(<<>>) \subseteq added
  BY KindsFrame
<1> QED
  BY <1>2, <1>3, <1>4, RewriteTop

LEMMA RewritePush ==
  ASSUME NEW s \in Seq(Frames), NEW new \in Seq(Frames), NEW r, r = new \o s,
         NEW dropped, NEW added, NEW in,
         KindsOf(new) \subseteq added, TasksIn(new) = in, OnceIn(new)
  PROVE  Rewrites(s, r, dropped, added, {}, in)
<1>1. s = <<>> \o s
  BY ConcatEmptySeq
<1>2. <<>> \in Seq(Frames) /\ TasksIn(<<>>) = {} /\ KindsOf(<<>>) \subseteq dropped
  BY NoFrames, KindsFrame
<1> QED
  BY <1>1, <1>2 DEF Rewrites

\* The calls a handler begins with.
LEMMA RewriteIdle ==
  ASSUME stack = <<>>, NEW new \in Seq(Frames), NEW r, r = new,
         NEW dropped, NEW added, NEW in,
         KindsOf(new) \subseteq added, TasksIn(new) = in, OnceIn(new)
  PROVE  Rewrites(stack, r, dropped, added, {}, in)
<1>1. stack \in Seq(Frames) /\ r = new \o stack
  BY NoFrames, ConcatEmptySeq
<1> QED
  BY <1>1, RewritePush

LEMMA TwoFrames ==
  ASSUME NEW f \in Frames, NEW g \in Frames, g.task = None
  PROVE  /\ <<f, g>> \in Seq(Frames) /\ KindsOf(<<f, g>>) = {f.at, g.at}
         /\ TasksIn(<<f, g>>) = {f.task} \ {None} /\ OnceIn(<<f, g>>)
<1>1. /\ DOMAIN <<f, g>> = {1, 2} /\ <<f, g>>[1] = f /\ <<f, g>>[2] = g
      /\ <<f, g>> \in Seq(Frames)
  OBVIOUS
<1> DEFINE s == <<f, g>>
<1> HIDE DEF s
<1>2. DOMAIN s = {1, 2} /\ s[1] = f /\ s[2] = g
  BY <1>1 DEF s
<1>3. KindsOf(s) = {f.at, g.at}
  BY <1>2 DEF KindsOf
<1>4. TasksIn(s) = {f.task} \ {None}
  BY <1>2 DEF TasksIn
<1>5. OnceIn(s)
  BY <1>2 DEF OnceIn
<1> QED
  BY <1>1, <1>3, <1>4, <1>5 DEF s

LEMMA CallsOf ==
  ASSUME NEW w \in Ids
  PROVE  /\ EmptyQueueCalls(w) \in Seq(Frames)
         /\ KindsOf(EmptyQueueCalls(w)) \subseteq Starts
         /\ TasksIn(EmptyQueueCalls(w)) = {} /\ OnceIn(EmptyQueueCalls(w))
<1> DEFINE f == Frame("startOnEmptyQueue", w, None)
<1>1. f \in Frames /\ f.at \in Starts /\ f.task = None
  BY DEF Frame, Frames, Starts
<1>2. EmptyQueueCalls(w) \in {<<f>>, <<>>}
  BY DEF EmptyQueueCalls
<1> HIDE DEF f
<1>3. KindsOf(<<f>>) = {f.at} /\ KindsOf(<<>>) = {}
  BY KindsFrame
<1>4. /\ <<f>> \in Seq(Frames) /\ TasksIn(<<f>>) = {f.task} \ {None}
      /\ OnceIn(<<f>>)
  BY <1>1, OneFrame
<1>5. <<>> \in Seq(Frames) /\ TasksIn(<<>>) = {} /\ OnceIn(<<>>)
  BY NoFrames
<1> QED
  BY <1>1, <1>2, <1>3, <1>4, <1>5

\* A theft: a task is taken, which may call onEmptyQueue, to be given on.
Gives == {"deliver", "tasksStealingOnBackPressure"}
Answers == {"executeTask", "listener"}
Takes(source, dropped, added, t) ==
  \E r \in Seq(Frames) :
    /\ Rewrites(stack, r, dropped, added, {}, {t})
    /\ stack' = EmptyQueueCalls(source) \o r

LEMMA TakesSame ==
  ASSUME NEW source \in Ids, NEW dropped, NEW added, NEW t,
         Takes(source, dropped, added, t),
         NEW K, K \cap dropped = {}, K \cap added = {}, K \cap Starts = {}
  PROVE  SameAt(stack, stack', K)
<1>1. PICK r \in Seq(Frames) :
        /\ Rewrites(stack, r, dropped, added, {}, {t})
        /\ stack' = EmptyQueueCalls(source) \o r
  BY DEF Takes
<1>2. SameAt(stack, r, K)
  BY <1>1, RewritesSame
<1>3. Rewrites(r, stack', {}, Starts, {}, {})
  BY <1>1, CallsOf, RewritePush
<1>4. SameAt(r, stack', K)
  BY <1>3, RewritesSame
<1> QED
  BY <1>2, <1>4 DEF SameAt

LEMMA TakesTasks ==
  ASSUME NEW source \in Ids, NEW dropped, NEW added, NEW t,
         Takes(source, dropped, added, t), OnceIn(stack), t \notin TasksIn(stack)
  PROVE  TasksIn(stack') = TasksIn(stack) \cup {t} /\ OnceIn(stack')
<1>1. PICK r \in Seq(Frames) :
        /\ Rewrites(stack, r, dropped, added, {}, {t})
        /\ stack' = EmptyQueueCalls(source) \o r
  BY DEF Takes
<1>2. TasksIn(r) = (TasksIn(stack) \ {}) \cup {t} /\ OnceIn(r)
  BY <1>1, RewritesTasks
<1>3. Rewrites(r, stack', {}, Starts, {}, {})
  BY <1>1, CallsOf, RewritePush
<1>4. TasksIn(stack') = (TasksIn(r) \ {}) \cup {} /\ OnceIn(stack')
  BY <1>2, <1>3, RewritesTasks
<1> QED
  BY <1>2, <1>4

\* An exception: the calls up to the one that catches it are gone.
Drops ==
  /\ \A K : /\ FewerAt(stack, stack', K)
            /\ NodesAt(stack', K) \subseteq NodesAt(Callers, K)
  /\ \E dropped : /\ lost' = lost \cup dropped /\ Top.task \in dropped \cup {None}
                  /\ TasksIn(stack) = TasksIn(stack') \cup dropped
                  /\ \A x \in dropped : x \notin TasksIn(stack')
  /\ OnceIn(stack')

LEMMA ThrowDrops ==
  ASSUME StackInv, stack # <<>>, Throw, workerNodes' = workerNodes, OnceIn(stack)
  PROVE  Drops
<1>1. PICK k \in 1 .. Len(stack) :
           /\ stack' \in Seq(Frames) /\ RestOf(stack, k, stack')
           /\ lost' = lost \cup ({stack[i].task : i \in 1 .. k} \ {None})
  BY ThrowEffect
<1> DEFINE dropped == CutOff(stack, k)
<1>2. stack \in Seq(Frames)
  BY DEF StackInv
<1>3. /\ OnceIn(stack')
      /\ TasksIn(stack) = TasksIn(stack') \cup dropped
      /\ \A x \in dropped : x \notin TasksIn(stack')
  BY <1>1, <1>2, CutTasks
<1>0. lost' = lost \cup dropped
  BY <1>1 DEF CutOff
<1>4. ASSUME NEW K
      PROVE  /\ \A x \in NodesAt(stack', K) : x \in NodesAt(stack, K)
                                              /\ x \in NodesAt(Tail(stack), K)
             /\ OnceAt(stack, K) => OnceAt(stack', K)
  BY <1>1, <1>2, CutNodes
<1>5. 1 \in 1 .. k /\ Top = stack[1]
  BY <1>2, LenProperties DEF Top
<1>6. Top.task \in dropped \cup {None}
  BY <1>5 DEF CutOff
<1>7. ASSUME NEW K
      PROVE  /\ FewerAt(stack, stack', K)
             /\ NodesAt(stack', K) \subseteq NodesAt(Callers, K)
  BY <1>4 DEF FewerAt, Callers
<1> QED
  BY <1>0, <1>3, <1>6, <1>7 DEF Drops

\* A frame that is pushed on calls, or popped from them.
LEMMA PushAt ==
  ASSUME NEW f \in Frames, NEW s \in Seq(Frames), NEW r, r = <<f>> \o s, NEW K
  PROVE  /\ \A x : x \in NodesAt(r, K) <=>
                   x \in NodesAt(s, K) \/ (f.at \in K /\ x = f.node)
         /\ OnceAt(r, K) <=>
              OnceAt(s, K) /\ (f.at \in K => f.node \notin NodesAt(s, K))
<1>1. /\ <<f>> \in Seq(Frames) /\ OnceAt(<<f>>, K)
      /\ NodesAt(<<f>>, K) = (IF f.at \in K THEN {f.node} ELSE {})
  BY OneFrame, OneNode
<1> DEFINE one == <<f>>
<1>2. one \in Seq(Frames) /\ r = one \o s
  BY <1>1
<1> HIDE DEF one
<1>3. /\ \A x : x \in NodesAt(r, K) <=> x \in NodesAt(one, K) \/ x \in NodesAt(s, K)
      /\ OnceAt(r, K) <=> /\ OnceAt(one, K) /\ OnceAt(s, K)
                          /\ Apart(NodesAt(one, K), NodesAt(s, K))
  BY <1>2, JoinedNodes
<1>4. /\ \A x : x \in NodesAt(one, K) <=> f.at \in K /\ x = f.node
      /\ OnceAt(one, K)
  BY <1>1 DEF one
<1>5. Apart(NodesAt(one, K), NodesAt(s, K)) <=>
        (f.at \in K => f.node \notin NodesAt(s, K))
  BY <1>4 DEF Apart
<1> QED
  BY <1>3, <1>4, <1>5

LEMMA TopAt ==
  ASSUME StackInv, stack # <<>>, NEW K
  PROVE  /\ \A x : x \in NodesAt(stack, K) <=>
                   x \in NodesAt(Callers, K) \/ (Top.at \in K /\ x = Top.node)
         /\ OnceAt(stack, K) <=>
              OnceAt(Callers, K) /\ (Top.at \in K => Top.node \notin NodesAt(Callers, K))
BY TopCall, PushAt

\* What lies under the innermost call.
LEMMA TailAt ==
  ASSUME NEW S, NEW s \in Seq(S), s # <<>>, NEW K, NEW x \in NodesAt(Tail(s), K)
  PROVE  x \in NodesAt(s, K)
<1>1. PICK i \in DOMAIN Tail(s) : x = Tail(s)[i].node /\ Tail(s)[i].at \in K
  BY DEF NodesAt
<1>2. /\ DOMAIN Tail(s) = 1 .. Len(s) - 1 /\ DOMAIN s = 1 .. Len(s)
      /\ Len(s) \in Nat /\ \A j \in 1 .. Len(s) - 1 : Tail(s)[j] = s[j + 1]
  BY HeadTailProperties, LenProperties
<1>3. i + 1 \in DOMAIN s /\ Tail(s)[i] = s[i + 1]
  BY <1>1, <1>2
<1> QED
  BY <1>1, <1>3 DEF NodesAt

LEMMA TailOfPush ==
  ASSUME NEW f, NEW s \in Seq(Frames)
  PROVE  Tail(<<f>> \o s) = s
OBVIOUS

-----------------------------------------------------------------------------
(* What each step does to the stack: which kinds of calls it changes, and  *)
(* which tasks are held.                                                   *)

Delivers == {"deliver"}
Robs == {"onEmptyQueue"}
Begins == {"onBackPressure"}
Sorts == {"tasksStealingOnBackPressure"}
Empties == {"redistributeQueuedTasks"}
Entries == {"call", "listener"}

SameBut(kinds) == \A K : K \cap kinds = {} => SameAt(stack, stack', K)
SameTasks == TasksIn(stack') = TasksIn(stack) /\ OnceIn(stack')
OneTaskLess(t) == /\ t \in TasksIn(stack) /\ OnceIn(stack')
                  /\ TasksIn(stack') = TasksIn(stack) \ {t}
OneTaskMore(t) == TasksIn(stack') = TasksIn(stack) \cup {t} /\ OnceIn(stack')

\* What the calls that a node leaves to its queue are.
Leaves == {"onBackPressure", "onBackPressureEnd"}

LEMMA RewritesKinds ==
  ASSUME NEW kinds, NEW out, NEW in,
         Rewrites(stack, stack', kinds, kinds, out, in)
  PROVE  SameBut(kinds)
<1>1. ASSUME NEW K, K \cap kinds = {} PROVE SameAt(stack, stack', K)
  BY <1>1, RewritesSame
<1> QED
  BY <1>1 DEF SameBut

LEMMA RewritesQuietly ==
  ASSUME NEW kinds, Rewrites(stack, stack', kinds, kinds, {}, {}), OnceIn(stack)
  PROVE  SameBut(kinds) /\ SameTasks
<1> DEFINE none == {}
<1>1. Rewrites(stack, stack', kinds, kinds, none, none)
  OBVIOUS
<1>2. \A x \in none : x \in TasksIn(stack) => x \in none
  OBVIOUS
<1> HIDE DEF none
<1>3. TasksIn(stack') = (TasksIn(stack) \ none) \cup none /\ OnceIn(stack')
  BY <1>1, <1>2, RewritesTasks
<1>4. SameBut(kinds)
  BY <1>1, RewritesKinds
<1> QED
  BY <1>3, <1>4 DEF SameTasks, none

\* A call returns: it held no task, or it has passed it on.
LEMMA QuietPop ==
  ASSUME StackInv, OnceIn(stack), stack # <<>>, stack' = Callers,
         Top.task = None, NEW kinds, Top.at \in kinds
  PROVE  SameBut(kinds) /\ SameTasks
<1> DEFINE none == {}
<1>1. none = {Top.task} \ {None}
  OBVIOUS
<1>2. Rewrites(stack, Callers, kinds, kinds, none, none)
  <2> HIDE DEF none
  <2>1. none = {Top.task} \ {None} /\ none = {}
    BY <1>1 DEF none
  <2> QED
    BY <2>1, RewritePop
<1> QED
  BY <1>2, RewritesQuietly

LEMMA TaskPop ==
  ASSUME StackInv, OnceIn(stack), stack # <<>>, stack' = Callers,
         NEW t, Top.task = t, t # None, NEW kinds, Top.at \in kinds
  PROVE  SameBut(kinds) /\ OneTaskLess(t)
<1> DEFINE none == {}
           out == {t}
<1>1. out = {Top.task} \ {None}
  OBVIOUS
<1> HIDE DEF none, out
<1>2. Rewrites(stack, Callers, kinds, kinds, out, none)
  <2>1. none = {}
    BY DEF none
  <2> QED
    BY <1>1, <2>1, RewritePop
<1>3. Rewrites(stack, stack', kinds, kinds, out, none)
  BY <1>2
<1>4. \A x \in none : x \in TasksIn(stack) => x \in out
  BY DEF none
<1>5. /\ TasksIn(stack') = (TasksIn(stack) \ out) \cup none
      /\ out \subseteq TasksIn(stack) /\ OnceIn(stack')
  BY <1>3, <1>4, RewritesTasks
<1>6. SameBut(kinds)
  BY <1>3, RewritesKinds
<1> QED
  BY <1>5, <1>6 DEF OneTaskLess, out, none

\* A call that goes on with others, in its place.
LEMMA QuietReplace ==
  ASSUME StackInv, OnceIn(stack), stack # <<>>, Top.task = None,
         NEW new \in Seq(Frames), stack' = new \o Callers,
         NEW kinds, Top.at \in kinds, KindsOf(new) \subseteq kinds,
         TasksIn(new) = {}, OnceIn(new)
  PROVE  SameBut(kinds) /\ SameTasks
<1> DEFINE none == {}
<1>1. none = {Top.task} \ {None} /\ TasksIn(new) = none
  OBVIOUS
<1> HIDE DEF none
<1>2. Rewrites(stack, stack', kinds, kinds, none, none)
  BY <1>1, RewriteTop
<1> QED
  BY <1>2, RewritesQuietly DEF none

LEMMA TaskReplace ==
  ASSUME StackInv, OnceIn(stack), stack # <<>>, NEW t, Top.task = t, t # None,
         NEW new \in Seq(Frames), stack' = new \o Callers,
         NEW kinds, Top.at \in kinds, KindsOf(new) \subseteq kinds,
         TasksIn(new) = {}, OnceIn(new)
  PROVE  SameBut(kinds) /\ OneTaskLess(t)
<1> DEFINE none == {}
           out == {t}
<1>1. out = {Top.task} \ {None} /\ TasksIn(new) = none
  OBVIOUS
<1> HIDE DEF none, out
<1>2. Rewrites(stack, stack', kinds, kinds, out, none)
  BY <1>1, RewriteTop
<1>4. \A x \in none : x \in TasksIn(stack) => x \in out
  BY DEF none
<1>5. /\ TasksIn(stack') = (TasksIn(stack) \ out) \cup none
      /\ out \subseteq TasksIn(stack) /\ OnceIn(stack')
  BY <1>2, <1>4, RewritesTasks
<1>6. SameBut(kinds)
  BY <1>2, RewritesKinds
<1> QED
  BY <1>5, <1>6 DEF OneTaskLess, out, none

\* A handler begins.
LEMMA QuietBegin ==
  ASSUME stack = <<>>, NEW new \in Seq(Frames), stack' = new,
         NEW kinds, KindsOf(new) \subseteq kinds,
         TasksIn(new) = {}, OnceIn(new)
  PROVE  SameBut(kinds) /\ SameTasks
<1> DEFINE none == {}
<1>1. TasksIn(new) = none
  OBVIOUS
<1> HIDE DEF none
<1>2. Rewrites(stack, stack', kinds, kinds, {}, none)
  BY <1>1, RewriteIdle
<1>3. OnceIn(stack)
  BY NoFrames
<1> QED
  BY <1>2, <1>3, RewritesQuietly DEF none

LEMMA TaskBegin ==
  ASSUME stack = <<>>, NEW new \in Seq(Frames), stack' = new,
         NEW kinds, KindsOf(new) \subseteq kinds,
         NEW t, TasksIn(new) = {t}, OnceIn(new)
  PROVE  SameBut(kinds) /\ OneTaskMore(t)
<1> DEFINE in == {t}
<1>1. TasksIn(new) = in
  OBVIOUS
<1> HIDE DEF in
<1>2. Rewrites(stack, stack', kinds, kinds, {}, in)
  BY <1>1, RewriteIdle
<1>3. SameBut(kinds)
  BY <1>2, RewritesKinds
<1>4. TasksIn(stack) = {}
  BY NoFrames
<1> QED
  BY <1>1, <1>3, <1>4 DEF OneTaskMore, in

\* A theft: the calls of onEmptyQueue come first.
Opens(kinds) ==
  \/ SameBut(kinds)
  \/ \E source \in Ids, r \in Seq(Frames) :
       /\ stack' = EmptyQueueCalls(source) \o r
       /\ \A K : K \cap kinds = {} => SameAt(stack, r, K)

LEMMA TakesEffect ==
  ASSUME NEW source \in Ids, NEW dropped, NEW added, NEW t,
         Takes(source, dropped, added, t), OnceIn(stack), t \notin TasksIn(stack)
  PROVE  /\ SameBut(dropped \cup added \cup Starts)
         /\ Opens(dropped \cup added)
         /\ OneTaskMore(t)
<1>1. ASSUME NEW K, K \cap (dropped \cup added \cup Starts) = {}
      PROVE  SameAt(stack, stack', K)
  <2>1. K \cap dropped = {} /\ K \cap added = {} /\ K \cap Starts = {}
    BY <1>1
  <2> QED
    BY <2>1, TakesSame
<1>2. PICK r \in Seq(Frames) :
        /\ Rewrites(stack, r, dropped, added, {}, {t})
        /\ stack' = EmptyQueueCalls(source) \o r
  BY DEF Takes
<1>3. ASSUME NEW K, K \cap (dropped \cup added) = {}
      PROVE  SameAt(stack, r, K)
  <2>1. K \cap dropped = {} /\ K \cap added = {}
    BY <1>3
  <2> QED
    BY <1>2, <2>1, RewritesSame
<1> QED
  BY <1>1, <1>2, <1>3, TakesTasks DEF SameBut, Opens, OneTaskMore

-----------------------------------------------------------------------------
(* What each step does to the queues.                                      *)

DistinctQueues == \A w \in Ids : Distinct(tasksQueue[w])

LEMMA NoneRepeated ==
  NoRepeats <=> DistinctQueues /\ OnceIn(stack)
BY DEF NoRepeats, DistinctQueues, Distinct

TakenFrom(v, t) ==
  /\ v \in Ids /\ t \in queued[v] /\ t \in 1 .. Tasks
  /\ \A w \in Ids : queued'[w] = IF w = v THEN queued[w] \ {t} ELSE queued[w]
  /\ DistinctQueues'

GivenTo(v, t) ==
  /\ v \in Ids
  /\ \A w \in Ids : queued'[w] = IF w = v THEN queued[w] \cup {t} ELSE queued[w]
  /\ DistinctQueues'

LEMMA QueuedItems ==
  /\ \A w \in Ids : queued[w] = Items(tasksQueue[w])
  /\ \A w \in Ids : queued'[w] = Items(tasksQueue'[w])
BY DEF queued

LEMMA PoppedItems ==
  ASSUME Typed, DistinctQueues, NEW v \in Ids, tasksQueue[v] # <<>>,
         tasksQueue' = Popped(v)
  PROVE  TakenFrom(v, LastTask(v))
<1> DEFINE r == SubSeq(tasksQueue[v], 1, Len(tasksQueue[v]) - 1)
           t == tasksQueue[v][Len(tasksQueue[v])]
<1>1. tasksQueue[v] \in Seq(1 .. Tasks) /\ tasksQueue \in [Ids -> Seq(1 .. Tasks)]
  BY DEF Typed
<1>2. /\ r \in Seq(1 .. Tasks)
      /\ t \in 1 .. Tasks /\ t \in Items(tasksQueue[v])
      /\ Distinct(tasksQueue[v]) => /\ Distinct(r)
                                    /\ Items(r) = Items(tasksQueue[v]) \ {t}
  BY <1>1, QueuePopped
<1>3. tasksQueue' = [tasksQueue EXCEPT ![v] = r]
  BY DEF Popped
<1>4. LastTask(v) = t
  BY DEF LastTask, Queued
<1> HIDE DEF r, t
<1>5. tasksQueue'[v] = r /\ \A w \in Ids : w # v => tasksQueue'[w] = tasksQueue[w]
  BY <1>1, <1>3
<1>6. DistinctQueues'
  BY <1>2, <1>5 DEF DistinctQueues
<1>7. t \in queued[v]
  BY <1>2, QueuedItems
<1>8. ASSUME NEW w \in Ids
      PROVE  queued'[w] = IF w = v THEN queued[w] \ {t} ELSE queued[w]
  BY <1>2, <1>5, QueuedItems DEF DistinctQueues
<1> QED
  BY <1>2, <1>4, <1>6, <1>7, <1>8 DEF TakenFrom

LEMMA ShiftedItems ==
  ASSUME Typed, DistinctQueues, NEW v \in Ids, tasksQueue[v] # <<>>,
         tasksQueue' = Dequeued(v)
  PROVE  TakenFrom(v, tasksQueue[v][1])
<1> DEFINE r == Tail(tasksQueue[v])
           t == tasksQueue[v][1]
<1>1. tasksQueue[v] \in Seq(1 .. Tasks) /\ tasksQueue \in [Ids -> Seq(1 .. Tasks)]
  BY DEF Typed
<1>2. /\ r \in Seq(1 .. Tasks)
      /\ t \in 1 .. Tasks /\ t \in Items(tasksQueue[v])
      /\ Distinct(tasksQueue[v]) => /\ Distinct(r)
                                    /\ Items(r) = Items(tasksQueue[v]) \ {t}
  BY <1>1, QueueShifted
<1>3. tasksQueue' = [tasksQueue EXCEPT ![v] = r]
  BY DEF Dequeued
<1> HIDE DEF r, t
<1>5. tasksQueue'[v] = r /\ \A w \in Ids : w # v => tasksQueue'[w] = tasksQueue[w]
  BY <1>1, <1>3
<1>6. DistinctQueues'
  BY <1>2, <1>5 DEF DistinctQueues
<1>7. t \in queued[v]
  BY <1>2, QueuedItems
<1>8. ASSUME NEW w \in Ids
      PROVE  queued'[w] = IF w = v THEN queued[w] \ {t} ELSE queued[w]
  BY <1>2, <1>5, QueuedItems DEF DistinctQueues
<1>9. TakenFrom(v, t)
  BY <1>2, <1>6, <1>7, <1>8 DEF TakenFrom
<1> QED
  BY <1>9 DEF t

LEMMA AppendedItems ==
  ASSUME Typed, DistinctQueues, NEW v \in Ids, NEW t \in 1 .. Tasks,
         t \notin queued[v],
         tasksQueue' = [tasksQueue EXCEPT ![v] = Append(@, t)]
  PROVE  GivenTo(v, t)
<1> DEFINE r == Append(tasksQueue[v], t)
<1>1. tasksQueue[v] \in Seq(1 .. Tasks) /\ tasksQueue \in [Ids -> Seq(1 .. Tasks)]
  BY DEF Typed
<1>2. /\ r \in Seq(1 .. Tasks)
      /\ Items(r) = Items(tasksQueue[v]) \cup {t}
      /\ Distinct(tasksQueue[v]) /\ t \notin Items(tasksQueue[v]) => Distinct(r)
  <2> DEFINE q == tasksQueue[v]
             range == 1 .. Tasks
  <2>1. q \in Seq(range) /\ t \in range /\ r = Append(q, t)
    BY <1>1
  <2> HIDE DEF q, range, r
  <2>2. r \in Seq(range)
    BY ONLY <2>1, AppendProperties
  <2>3. Appended(r, q, t, range)
    BY <2>1 DEF Appended
  <2>4. /\ \A x : x \in Items(r) <=> x \in Items(q) \/ x = t
        /\ Distinct(q) /\ t \notin Items(q) => Distinct(r)
    BY ONLY <2>3, QueueAppended
  <2> QED
    BY <2>2, <2>4 DEF q, range
<1>3. tasksQueue' = [tasksQueue EXCEPT ![v] = r]
  OBVIOUS
<1> HIDE DEF r
<1>5. tasksQueue'[v] = r /\ \A w \in Ids : w # v => tasksQueue'[w] = tasksQueue[w]
  BY <1>1, <1>3
<1>6. DistinctQueues'
  BY <1>2, <1>5, QueuedItems DEF DistinctQueues
<1>8. ASSUME NEW w \in Ids
      PROVE  queued'[w] = IF w = v THEN queued[w] \cup {t} ELSE queued[w]
  BY <1>2, <1>5, QueuedItems
<1> QED
  BY <1>6, <1>8 DEF GivenTo

LEMMA SameQueues ==
  ASSUME tasksQueue' = tasksQueue
  PROVE  queued' = queued /\ (DistinctQueues => DistinctQueues')
BY DEF queued, DistinctQueues

-----------------------------------------------------------------------------
(* Where one task is, and where a step moves it.                           *)

Placed(x, v, u, call, done, gone) ==
  /\ \A w \in Ids : (x \in queued[w] <=> w = v) /\ (x \in inFlight[w] <=> w = u)
  /\ x \in TasksIn(stack) <=> call
  /\ x \in answered <=> done
  /\ x \in lost <=> gone
  /\ keyOfTask[x] # None

AtQueue(x, v) == v \in Ids /\ Placed(x, v, None, FALSE, FALSE, FALSE)
AtWorker(x, v) == v \in Ids /\ Placed(x, None, v, FALSE, FALSE, FALSE)
AtCall(x) == Placed(x, None, None, TRUE, FALSE, FALSE)
AtAnswered(x) == Placed(x, None, None, FALSE, TRUE, FALSE)
AtLost(x) == Placed(x, None, None, FALSE, FALSE, TRUE)

SamePlaces(x) ==
  /\ \A w \in Ids : /\ x \in queued'[w] <=> x \in queued[w]
                    /\ x \in inFlight'[w] <=> x \in inFlight[w]
  /\ x \in TasksIn(stack') <=> x \in TasksIn(stack)
  /\ x \in answered' <=> x \in answered
  /\ x \in lost' <=> x \in lost
  /\ keyOfTask'[x] = keyOfTask[x]

LEMMA OnePlaceKept ==
  ASSUME NEW x, OnePlace(x), SamePlaces(x)
  PROVE  OnePlace(x)'
BY DEF OnePlace, SamePlaces, Somewhere

LEMMA PlaceOf ==
  ASSUME NEW x, OnePlace(x)
  PROVE  /\ \A v \in Ids : x \in queued[v] => AtQueue(x, v)
         /\ \A v \in Ids : x \in inFlight[v] => AtWorker(x, v)
         /\ x \in TasksIn(stack) => AtCall(x)
<1>1. None \notin Ids
  BY NodeIds
<1>2. ASSUME NEW v \in Ids, x \in queued[v] PROVE AtQueue(x, v)
  BY <1>1, <1>2 DEF OnePlace, Somewhere, AtQueue, Placed
<1>3. ASSUME NEW v \in Ids, x \in inFlight[v] PROVE AtWorker(x, v)
  BY <1>1, <1>3 DEF OnePlace, Somewhere, AtWorker, Placed
<1>4. ASSUME x \in TasksIn(stack) PROVE AtCall(x)
  BY <1>1, <1>4 DEF OnePlace, Somewhere, AtCall, Placed
<1> QED
  BY <1>2, <1>3, <1>4

LEMMA OnePlaceOf ==
  ASSUME NEW x,
         \/ \E v \in Ids : AtQueue(x, v)' \/ AtWorker(x, v)'
         \/ AtCall(x)' \/ AtAnswered(x)' \/ AtLost(x)'
  PROVE  OnePlace(x)'
<1>1. None \notin Ids
  BY NodeIds
<1>2. ASSUME NEW v \in Ids, AtQueue(x, v)' PROVE OnePlace(x)'
  BY <1>1, <1>2 DEF OnePlace, Somewhere, AtQueue, Placed
<1>3. ASSUME NEW v \in Ids, AtWorker(x, v)' PROVE OnePlace(x)'
  BY <1>1, <1>3 DEF OnePlace, Somewhere, AtWorker, Placed
<1>4. ASSUME AtCall(x)' PROVE OnePlace(x)'
  BY <1>1, <1>4 DEF OnePlace, Somewhere, AtCall, Placed
<1>5. ASSUME AtAnswered(x)' PROVE OnePlace(x)'
  BY <1>1, <1>5 DEF OnePlace, Somewhere, AtAnswered, Placed
<1>6. ASSUME AtLost(x)' PROVE OnePlace(x)'
  BY <1>1, <1>6 DEF OnePlace, Somewhere, AtLost, Placed
<1> QED
  BY <1>2, <1>3, <1>4, <1>5, <1>6

\* Nothing moves.
LEMMA PlacesSame ==
  ASSUME PlacesInv, SameTasks, UNCHANGED <<tasksQueue, inFlight, answered, lost,
                                           keyOfTask>>,
         \A w \in Ids : open'[w] => open[w]
  PROVE  PlacesInv'
<1>1. queued' = queued /\ (DistinctQueues => DistinctQueues')
  BY SameQueues
<1>2. ASSUME NEW x \in 1 .. Tasks PROVE OnePlace(x)'
  <2>1. SamePlaces(x)
    BY <1>1 DEF SamePlaces, SameTasks
  <2> QED
    BY <2>1, OnePlaceKept DEF PlacesInv
<1>3. DistinctQueues /\ OnceIn(stack)
  BY NoneRepeated DEF PlacesInv
<1>4. NoRepeats'
  BY <1>1, <1>3 DEF NoRepeats, DistinctQueues, Distinct, SameTasks
<1>5. lost' # {} => \E w \in Ids : ~open'[w]
  BY DEF PlacesInv
<1> QED
  BY <1>2, <1>4, <1>5 DEF PlacesInv

\* A task is taken from a queue by a call.
LEMMA PlacesTaken ==
  ASSUME PlacesInv, NEW v, NEW t, TakenFrom(v, t), OneTaskMore(t),
         UNCHANGED <<inFlight, answered, lost, keyOfTask, open>>
  PROVE  PlacesInv'
<1>1. AtQueue(t, v) /\ v \in Ids /\ t \in 1 .. Tasks
  BY PlaceOf DEF TakenFrom, PlacesInv
<1>2. AtCall(t)'
  BY <1>1, NodeIds DEF AtQueue, AtCall, Placed, TakenFrom, OneTaskMore
<1>3. ASSUME NEW x \in 1 .. Tasks, x # t PROVE OnePlace(x)'
  <2>1. SamePlaces(x)
    BY <1>3 DEF SamePlaces, TakenFrom, OneTaskMore
  <2> QED
    BY <2>1, OnePlaceKept DEF PlacesInv
<1>4. OnePlace(t)'
  BY <1>2, OnePlaceOf
<1>5. NoRepeats'
  BY DEF NoRepeats, DistinctQueues, Distinct, TakenFrom, OneTaskMore
<1> QED
  BY <1>3, <1>4, <1>5 DEF PlacesInv

\* A task is given to a queue by a call.
LEMMA PlacesGiven ==
  ASSUME PlacesInv, NEW v, NEW t \in 1 .. Tasks, GivenTo(v, t), OneTaskLess(t),
         UNCHANGED <<inFlight, answered, lost, keyOfTask, open>>
  PROVE  PlacesInv'
<1>1. AtCall(t) /\ v \in Ids
  BY PlaceOf DEF GivenTo, OneTaskLess, PlacesInv
<1>2. AtQueue(t, v)'
  BY <1>1, NodeIds DEF AtQueue, AtCall, Placed, GivenTo, OneTaskLess
<1>3. ASSUME NEW x \in 1 .. Tasks, x # t PROVE OnePlace(x)'
  <2>1. SamePlaces(x)
    BY <1>3 DEF SamePlaces, GivenTo, OneTaskLess
  <2> QED
    BY <2>1, OnePlaceKept DEF PlacesInv
<1>4. OnePlace(t)'
  BY <1>1, <1>2, OnePlaceOf
<1>5. NoRepeats'
  BY DEF NoRepeats, DistinctQueues, Distinct, GivenTo, OneTaskLess
<1> QED
  BY <1>3, <1>4, <1>5 DEF PlacesInv

\* A task is sent to a worker by a call.
LEMMA PlacesSent ==
  ASSUME Typed, PlacesInv, NEW v \in Ids, NEW t \in 1 .. Tasks, OneTaskLess(t),
         inFlight' = [inFlight EXCEPT ![v] = @ \cup {t}],
         UNCHANGED <<tasksQueue, answered, lost, keyOfTask, open>>
  PROVE  PlacesInv'
<1>0. queued' = queued /\ (DistinctQueues => DistinctQueues')
  BY SameQueues
<1>1. AtCall(t)
  BY PlaceOf DEF OneTaskLess, PlacesInv
<1>6. \A w \in Ids : inFlight'[w] = IF w = v THEN inFlight[w] \cup {t}
                                            ELSE inFlight[w]
  BY DEF Typed
<1>2. AtWorker(t, v)'
  BY <1>0, <1>1, <1>6, NodeIds DEF AtWorker, AtCall, Placed, OneTaskLess
<1>3. ASSUME NEW x \in 1 .. Tasks, x # t PROVE OnePlace(x)'
  <2>1. SamePlaces(x)
    BY <1>0, <1>3, <1>6 DEF SamePlaces, OneTaskLess
  <2> QED
    BY <2>1, OnePlaceKept DEF PlacesInv
<1>4. OnePlace(t)'
  BY <1>2, OnePlaceOf
<1>7. DistinctQueues
  BY NoneRepeated DEF PlacesInv
<1>5. NoRepeats'
  BY <1>0, <1>7 DEF NoRepeats, DistinctQueues, Distinct, OneTaskLess
<1> QED
  BY <1>3, <1>4, <1>5 DEF PlacesInv

\* The calls that held some tasks are dropped.
LEMMA PlacesDropped ==
  ASSUME PlacesInv, Drops,
         UNCHANGED <<tasksQueue, inFlight, answered, keyOfTask, open>>,
         \E w \in Ids : ~open[w]
  PROVE  PlacesInv'
<1>0. queued' = queued /\ (DistinctQueues => DistinctQueues')
  BY SameQueues
<1>1. PICK dropped : /\ lost' = lost \cup dropped
                     /\ TasksIn(stack) = TasksIn(stack') \cup dropped
                     /\ \A x \in dropped : x \notin TasksIn(stack')
  BY DEF Drops
<1>2. ASSUME NEW x \in 1 .. Tasks PROVE OnePlace(x)'
  <2>1. CASE x \in dropped
    <3>1. AtCall(x)
      BY <1>1, <2>1, PlaceOf DEF PlacesInv
    <3>2. AtLost(x)'
      BY <1>0, <1>1, <2>1, <3>1 DEF AtCall, AtLost, Placed
    <3> QED
      BY <3>2, OnePlaceOf
  <2>2. CASE x \notin dropped
    <3>1. SamePlaces(x)
      BY <1>0, <1>1, <2>2 DEF SamePlaces
    <3> QED
      BY <3>1, OnePlaceKept DEF PlacesInv
  <2> QED
    BY <2>1, <2>2
<1>7. DistinctQueues
  BY NoneRepeated DEF PlacesInv
<1>5. NoRepeats'
  BY <1>0, <1>7 DEF NoRepeats, DistinctQueues, Distinct, Drops
<1> QED
  BY <1>2, <1>5 DEF PlacesInv

-----------------------------------------------------------------------------
(* What each step does to the calls and to where the tasks are: a step that *)
(* drops calls has lost the task of the innermost one.                      *)

BaseInv == ShapeInv /\ PlacesInv

LEMMA BaseParts ==
  ASSUME BaseInv
  PROVE  /\ Typed /\ StackInv /\ NodesInv /\ OptionsInv
         /\ OnceIn(stack) /\ DistinctQueues
BY NoneRepeated DEF BaseInv, ShapeInv, PlacesInv

Goes(kinds) == SameBut(kinds) /\ lost' = lost
Fails == Drops /\ lost' # {}

LEMMA ReturnMoves ==
  ASSUME BaseInv, Return
  PROVE  Goes(Entries) /\ PlacesInv'
<1>1. /\ stack # <<>> /\ stack' = Callers /\ Top.at \in Entries
      /\ UNCHANGED <<tasksQueue, inFlight, answered, lost, keyOfTask, open>>
  BY DEF Return, At, queueVars, endVars, taskVars, listVars, Entries
<1>2. Top.task = None
  BY <1>1, BaseParts, TopCall, FrameTypes DEF Entries
<1>3. SameBut(Entries) /\ SameTasks
  BY <1>1, <1>2, BaseParts, QuietPop
<1> QED
  BY <1>1, <1>3, PlacesSame DEF Goes, BaseInv

LEMMA SleepMoves ==
  ASSUME BaseInv, Sleep
  PROVE  Goes(Sleeps) /\ PlacesInv'
<1>1. /\ stack # <<>> /\ stack' = Callers /\ Top.at \in Sleeps
      /\ UNCHANGED <<tasksQueue, inFlight, answered, lost, keyOfTask, open>>
  BY DEF Sleep, At, queueVars, endVars, taskVars, listVars, Sleeps
<1>2. Top.task = None
  BY <1>1, BaseParts, TopCall, FrameTypes DEF Sleeps
<1>3. SameBut(Sleeps) /\ SameTasks
  BY <1>1, <1>2, BaseParts, QuietPop
<1> QED
  BY <1>1, <1>3, PlacesSame DEF Goes, BaseInv

LEMMA OnBackPressureEndMoves ==
  ASSUME BaseInv, OnBackPressureEnd
  PROVE  Goes(Ends) /\ PlacesInv'
<1>1. /\ stack # <<>> /\ stack' = Callers /\ Top.at \in Ends
      /\ UNCHANGED <<tasksQueue, inFlight, answered, lost, keyOfTask, open>>
  BY DEF OnBackPressureEnd, At, queueVars, endVars, taskVars, listVars, Ends
<1>2. Top.task = None
  BY <1>1, BaseParts, TopCall, FrameTypes DEF Ends
<1>3. SameBut(Ends) /\ SameTasks
  BY <1>1, <1>2, BaseParts, QuietPop
<1> QED
  BY <1>1, <1>3, PlacesSame DEF Goes, BaseInv

LEMMA TasksQueueDisabledMoves ==
  ASSUME BaseInv, TasksQueueDisabled
  PROVE  Goes(Switches) /\ PlacesInv'
<1>1. /\ stack # <<>> /\ stack' = Callers /\ Top.at \in Switches
      /\ UNCHANGED <<tasksQueue, inFlight, answered, lost, keyOfTask, open>>
  BY DEF TasksQueueDisabled, At, queueVars, endVars, taskVars, listVars, Switches
<1>2. Top.task = None
  BY <1>1, BaseParts, TopCall, FrameTypes DEF Switches
<1>3. SameBut(Switches) /\ SameTasks
  BY <1>1, <1>2, BaseParts, QuietPop
<1> QED
  BY <1>1, <1>3, PlacesSame DEF Goes, BaseInv

\* One frame that holds no task, or none.
LEMMA FewFrames ==
  ASSUME NEW f \in Frames, f.task = None, NEW kinds, f.at \in kinds,
         NEW new \in {<<f>>, <<>>}
  PROVE  /\ new \in Seq(Frames) /\ KindsOf(new) \subseteq kinds
         /\ TasksIn(new) = {} /\ OnceIn(new)
<1>1. KindsOf(<<f>>) = {f.at} /\ KindsOf(<<>>) = {}
  BY KindsFrame
<1>2. /\ <<f>> \in Seq(Frames) /\ TasksIn(<<f>>) = {f.task} \ {None}
      /\ OnceIn(<<f>>)
  BY OneFrame
<1>3. <<>> \in Seq(Frames) /\ TasksIn(<<>>) = {} /\ OnceIn(<<>>)
  BY NoFrames
<1> QED
  BY <1>1, <1>2, <1>3

LEMMA OnBackPressureMoves ==
  ASSUME BaseInv, OnBackPressure
  PROVE  Goes(Begins \cup Sorts) /\ PlacesInv'
<1> DEFINE order == [i \in DOMAIN Sorted |-> [key |-> i, node |-> Sorted[i]]]
           f == Loop(Top.node, order)
<1>1. /\ stack # <<>> /\ Top.at = "onBackPressure"
      /\ UNCHANGED <<tasksQueue, inFlight, answered, lost, keyOfTask, open>>
      /\ \E s \in {<<f>>, <<>>} : stack' = s \o Callers
  BY DEF OnBackPressure, At, queueVars, endVars, taskVars, listVars
<1>2. Top.task = None /\ Top.at \in Begins \cup Sorts
  BY <1>1, BaseParts, TopCall, FrameTypes DEF Begins
<1>3. f.task = None /\ f.at \in Begins \cup Sorts
  BY DEF Loop, Sorts
<1>4. f \in Frames
  BY <1>1, BaseParts, SortedFrame
<1> HIDE DEF f
<1>5. PICK s \in {<<f>>, <<>>} : stack' = s \o Callers
  BY <1>1
<1>6. /\ s \in Seq(Frames) /\ KindsOf(s) \subseteq Begins \cup Sorts
      /\ TasksIn(s) = {} /\ OnceIn(s)
  BY <1>3, <1>4, FewFrames
<1>7. SameBut(Begins \cup Sorts) /\ SameTasks
  BY <1>1, <1>2, <1>5, <1>6, BaseParts, QuietReplace
<1> QED
  BY <1>1, <1>7, PlacesSame DEF Goes, BaseInv

LEMMA JoinedPair ==
  ASSUME NEW f, NEW g
  PROVE  <<f>> \o <<g>> = <<f, g>> /\ <<>> \o <<g>> = <<g>>
<1>1. <<f>> \o <<g>> = <<f, g>>
  <2> DEFINE s == <<f, g>>
  <2>1. s \in Seq({f, g}) /\ s # <<>> /\ s[1] = f /\ Tail(s) = <<g>>
    OBVIOUS
  <2> HIDE DEF s
  <2>2. s = <<s[1]>> \o Tail(s)
    BY <2>1, TopAndCallers
  <2> QED
    BY <2>1, <2>2 DEF s
<1>2. <<g>> \in Seq({g})
  OBVIOUS
<1>3. <<>> \o <<g>> = <<g>>
  BY <1>2, ConcatEmptySeq
<1> QED
  BY <1>1, <1>3

LEMMA StartOnEmptyQueueMoves ==
  ASSUME BaseInv, StartOnEmptyQueue
  PROVE  Goes(Loops \cup Robs) /\ PlacesInv'
<1> DEFINE w == Top.node
           f == Frame("onEmptyQueue", w, None)
           g == Frame("sleep", w, None)
           kinds == Loops \cup Robs
<1>1. /\ stack # <<>> /\ Top.at = "startOnEmptyQueue"
      /\ UNCHANGED <<tasksQueue, inFlight, answered, lost, keyOfTask, open>>
      /\ \/ stack' = Callers
         \/ stack' = <<g>> \o Callers
         \/ stack' = <<f, g>> \o Callers
  <2> DEFINE some == IF onEmptyQueue[w] THEN <<f>> ELSE <<>>
  <2>1. /\ stack # <<>> /\ Top.at = "startOnEmptyQueue"
        /\ UNCHANGED <<tasksQueue, inFlight, answered, lost, keyOfTask, open>>
    BY DEF StartOnEmptyQueue, At, queueVars, endVars, taskVars, listVars
  <2>2. stack' = Callers \/ stack' = some \o <<g>> \o Callers
    BY DEF StartOnEmptyQueue
  <2>3. some \in {<<f>>, <<>>}
    OBVIOUS
  <2>4. <<f>> \o <<g>> = <<f, g>> /\ <<>> \o <<g>> = <<g>>
    BY JoinedPair
  <2> HIDE DEF some, f, g
  <2> QED
    BY <2>1, <2>2, <2>3, <2>4
<1>2. Top.task = None /\ Top.at \in kinds /\ w \in Ids
  BY <1>1, BaseParts, TopCall, FrameTypes DEF Loops
<1>3. /\ f \in Frames /\ f.task = None /\ f.at \in kinds
      /\ g \in Frames /\ g.task = None /\ g.at \in kinds
  BY <1>2 DEF Frame, Frames, Loops, Robs
<1> HIDE DEF f, g, kinds
<1>4. CASE stack' = Callers
  <2>1. SameBut(kinds) /\ SameTasks
    BY <1>1, <1>2, <1>4, BaseParts, QuietPop
  <2> QED
    BY <1>1, <2>1, PlacesSame DEF Goes, BaseInv, kinds
<1>5. CASE stack' = <<g>> \o Callers
  <2> DEFINE s == <<g>>
  <2>1. s \in {<<g>>, <<>>} /\ stack' = s \o Callers
    BY <1>5
  <2> HIDE DEF s
  <2>2. /\ s \in Seq(Frames) /\ KindsOf(s) \subseteq kinds
        /\ TasksIn(s) = {} /\ OnceIn(s)
    BY <1>3, <2>1, FewFrames
  <2>3. SameBut(kinds) /\ SameTasks
    BY <1>1, <1>2, <2>1, <2>2, BaseParts, QuietReplace
  <2> QED
    BY <1>1, <2>3, PlacesSame DEF Goes, BaseInv, kinds
<1>6. CASE stack' = <<f, g>> \o Callers
  <2> DEFINE s == <<f, g>>
  <2>1. stack' = s \o Callers
    BY <1>6
  <2>2. /\ s \in Seq(Frames) /\ KindsOf(s) \subseteq kinds
        /\ TasksIn(s) = {} /\ OnceIn(s)
    BY <1>3, TwoFrames
  <2> HIDE DEF s
  <2>3. SameBut(kinds) /\ SameTasks
    BY <1>1, <1>2, <2>1, <2>2, BaseParts, QuietReplace
  <2> QED
    BY <1>1, <2>3, PlacesSame DEF Goes, BaseInv, kinds
<1> QED
  BY <1>1, <1>4, <1>5, <1>6

\* What a theft calls: the theft's frames lie on the callers.
LEMMA TakeReplace ==
  ASSUME StackInv, stack # <<>>, Top.task = None, NEW source \in Ids,
         NEW dropped, Top.at \in dropped, NEW added,
         NEW new \in Seq(Frames), KindsOf(new) \subseteq added,
         NEW t, TasksIn(new) = {t}, OnceIn(new),
         stack' = EmptyQueueCalls(source) \o new \o Callers
  PROVE  Takes(source, dropped, added, t)
<1> DEFINE r == new \o Callers
           none == {}
           in == {t}
           calls == EmptyQueueCalls(source)
<1>1. calls \in Seq(Frames) /\ Callers \in Seq(Frames)
  BY CallsFrames, TopCall
<1>2. r \in Seq(Frames) /\ none = {Top.task} \ {None} /\ TasksIn(new) = in
  BY <1>1, FramesJoined
<1>3. stack' = calls \o r
  <2> HIDE DEF calls
  <2>1. calls \o new \o Callers = calls \o (new \o Callers)
    BY <1>1, ConcatAssociative
  <2> QED
    BY <2>1 DEF calls
<1>4. r = new \o Callers
  OBVIOUS
<1> HIDE DEF r, none, in, calls
<1>5. Rewrites(stack, r, dropped, added, none, in)
  BY <1>2, <1>4, RewriteTop
<1> QED
  BY <1>2, <1>3, <1>5 DEF Takes, none, in, calls

LEMMA TakePush ==
  ASSUME StackInv, NEW source \in Ids,
         NEW added, NEW new \in Seq(Frames), KindsOf(new) \subseteq added,
         NEW t, TasksIn(new) = {t}, OnceIn(new), NEW dropped,
         stack' = EmptyQueueCalls(source) \o new \o stack
  PROVE  Takes(source, dropped, added, t)
<1> DEFINE r == new \o stack
           in == {t}
           calls == EmptyQueueCalls(source)
<1>1. calls \in Seq(Frames) /\ stack \in Seq(Frames)
  BY CallsFrames DEF StackInv
<1>2. r \in Seq(Frames) /\ TasksIn(new) = in
  BY <1>1, FramesJoined
<1>3. stack' = calls \o r
  <2> HIDE DEF calls
  <2>1. calls \o new \o stack = calls \o (new \o stack)
    BY <1>1, ConcatAssociative
  <2> QED
    BY <2>1 DEF calls
<1>4. r = new \o stack
  OBVIOUS
<1> HIDE DEF r, in, calls
<1>5. Rewrites(stack, r, dropped, added, {}, in)
  BY <1>1, <1>2, <1>4, RewritePush
<1> QED
  BY <1>2, <1>3, <1>5 DEF Takes, in, calls

\* One frame that holds the task, and perhaps one more.
LEMMA GivingFrames ==
  ASSUME NEW f \in Frames, f.at \in Gives, NEW t, f.task = t, t # None,
         NEW g, g \in Frames => g.task = None /\ g.at \in Gives,
         NEW rest, rest = <<>> \/ (g \in Frames /\ rest = <<g>>)
  PROVE  /\ <<f>> \o rest \in Seq(Frames)
         /\ KindsOf(<<f>> \o rest) \subseteq Gives
         /\ TasksIn(<<f>> \o rest) = {t} /\ OnceIn(<<f>> \o rest)
<1> DEFINE new == <<f>> \o rest
<1>0. new = <<f>> \o rest
  OBVIOUS
<1> HIDE DEF new
<1>1. CASE rest = <<>>
  <2>1. /\ <<f>> \in Seq(Frames) /\ TasksIn(<<f>>) = {f.task} \ {None}
        /\ OnceIn(<<f>>) /\ KindsOf(<<f>>) = {f.at}
    BY OneFrame, KindsFrame
  <2>2. new = <<f>>
    BY <1>0, <1>1, <2>1, ConcatEmptySeq
  <2> QED
    BY <1>0, <2>1, <2>2
<1>2. CASE g \in Frames /\ rest = <<g>>
  <2>1. /\ <<f, g>> \in Seq(Frames) /\ TasksIn(<<f, g>>) = {f.task} \ {None}
        /\ OnceIn(<<f, g>>) /\ KindsOf(<<f, g>>) = {f.at, g.at}
    BY <1>2, TwoFrames
  <2>2. new = <<f, g>>
    BY <1>0, <1>2, JoinedPair
  <2> QED
    BY <1>0, <1>2, <2>1, <2>2
<1> QED
  BY <1>1, <1>2 DEF new

\* What a theft does, wherever it is from.
LEMMA TheftMoves ==
  ASSUME BaseInv, NEW v, NEW t, TakenFrom(v, t), NEW dropped,
         Takes(v, dropped, Gives, t),
         UNCHANGED <<inFlight, answered, lost, keyOfTask, open>>
  PROVE  /\ Goes(dropped \cup Gives \cup Starts) /\ Opens(dropped \cup Gives)
         /\ PlacesInv'
<1>1. v \in Ids /\ t \in queued[v] /\ t \in 1 .. Tasks
  BY DEF TakenFrom
<1>2. t \notin TasksIn(stack)
  BY <1>1 DEF BaseInv, PlacesInv, OnePlace
<1>3. /\ SameBut(dropped \cup Gives \cup Starts) /\ Opens(dropped \cup Gives)
      /\ OneTaskMore(t)
  BY <1>1, <1>2, BaseParts, TakesEffect
<1> QED
  BY <1>3, PlacesTaken DEF Goes, BaseInv

LEMMA StealOnEmptyQueueMoves ==
  ASSUME BaseInv, StealOnEmptyQueue
  PROVE  /\ Goes(Robs \cup Gives \cup Starts) /\ Opens(Robs \cup Gives)
         /\ PlacesInv'
<1> DEFINE w == Top.node
           thief == IF w \in Listed THEN w ELSE None
           kinds == Robs \cup Gives \cup Starts
<1>1. /\ stack # <<>> /\ Top.at = "onEmptyQueue"
      /\ UNCHANGED <<inFlight, answered, lost, keyOfTask, open>>
  BY DEF StealOnEmptyQueue, At, endVars, taskVars, listVars
<1>2. Top.task = None /\ Top.at \in Robs /\ w \in Ids
  BY <1>1, BaseParts, TopCall, FrameTypes DEF Robs
<1>3. thief \in Receivers
  BY <1>2 DEF Receivers
<1>4. CASE stack' = Callers /\ UNCHANGED tasksQueue
  <2> DEFINE few == Robs \cup Gives
  <2>1. Top.at \in few
    BY <1>2
  <2> HIDE DEF few
  <2>2. SameBut(few) /\ SameTasks
    BY <1>1, <1>2, <1>4, <2>1, BaseParts, QuietPop
  <2>3. SameBut(kinds)
    BY <2>2 DEF SameBut, few
  <2> QED
    BY <1>1, <1>4, <2>2, <2>3, PlacesSame DEF Goes, BaseInv, Opens, few
<1>5. ASSUME NEW source \in Richest(w), tasksQueue' = Popped(source),
             stack' = EmptyQueueCalls(source)
                        \o <<Frame("deliver", thief, LastTask(source))>>
                        \o Callers
      PROVE  Goes(kinds) /\ Opens(Robs \cup Gives) /\ PlacesInv'
  <2> DEFINE t == LastTask(source)
             f == Frame("deliver", thief, t)
             new == <<f>>
  <2>1. source \in Ids /\ tasksQueue[source] # <<>>
    BY BaseParts, RichestListed
  <2>2. t \in 1 .. Tasks /\ t # None
    BY <2>1, BaseParts, PoppedQueue, NodeIds
  <2>3. f \in Frames /\ f.at \in Gives /\ f.task = t
    BY <1>3, <2>2 DEF Frame, Frames, Gives
  <2>4. stack' = EmptyQueueCalls(source) \o new \o Callers
    BY <1>5
  <2>5. TakenFrom(source, t)
    BY <1>5, <2>1, BaseParts, PoppedItems
  <2> HIDE DEF f, t
  <2>6. /\ new \in Seq(Frames) /\ KindsOf(new) \subseteq Gives
        /\ TasksIn(new) = {t} /\ OnceIn(new)
    BY <2>2, <2>3, OneFrame, KindsFrame
  <2> HIDE DEF new
  <2>7. Takes(source, Robs, Gives, t)
    BY <1>1, <1>2, <2>1, <2>4, <2>6, BaseParts, TakeReplace
  <2> QED
    BY <1>1, <2>5, <2>7, TheftMoves
<1> QED
  BY <1>4, <1>5 DEF StealOnEmptyQueue

LEMMA StealOnBackPressureMoves ==
  ASSUME BaseInv, StealOnBackPressure
  PROVE  /\ Goes(Sorts \cup Gives \cup Starts) /\ Opens(Sorts \cup Gives)
         /\ PlacesInv'
<1> DEFINE w == Top.node
           entry == Top.order[1]
           loop == Loop(w, Tail(Top.order))
           rest == IF Len(Top.order) = 1 THEN <<>> ELSE <<loop>>
           t == LastTask(w)
           f == Frame("deliver", workerNodes[entry.key], t)
           kinds == Sorts \cup Gives \cup Starts
<1>1. /\ stack # <<>> /\ Top.at = "tasksStealingOnBackPressure"
      /\ UNCHANGED <<inFlight, answered, lost, keyOfTask, open>>
      /\ \/ /\ Queued(w) > 0 /\ tasksQueue' = Popped(w)
            /\ stack' = EmptyQueueCalls(w) \o <<f>> \o rest \o Callers
         \/ stack' = rest \o Callers /\ UNCHANGED tasksQueue
  BY DEF StealOnBackPressure, At, endVars, taskVars, listVars
<1>2. Top.task = None /\ Top.at \in Sorts /\ w \in Listed /\ w \in Ids
  BY <1>1, BaseParts, TopCall, FrameTypes, ListedIds DEF Sorts
<1>3. /\ entry.key \in DOMAIN workerNodes
      /\ Len(Top.order) # 1 => loop \in Frames
  BY <1>1, BaseParts, LoopRest
<1>4. workerNodes[entry.key] \in Receivers
  BY <1>3, BaseParts, ListedIds DEF Receivers
<1>5. loop.task = None /\ loop.at \in Sorts /\ loop.at \in Gives
  BY DEF Loop, Sorts, Gives
<1> HIDE DEF loop
<1>6. /\ rest = <<>> \/ (loop \in Frames /\ rest = <<loop>>)
      /\ Callers \in Seq(Frames)
  BY <1>1, <1>3, BaseParts, TopCall
<1> HIDE DEF rest
<1>7. CASE stack' = rest \o Callers /\ UNCHANGED tasksQueue
  <2> DEFINE few == Sorts \cup Gives
  <2>1. Top.at \in few /\ loop.at \in few
    BY <1>2, <1>5
  <2>2. rest \in Seq(Frames) /\ KindsOf(rest) \subseteq few
        /\ TasksIn(rest) = {} /\ OnceIn(rest)
    <3> HIDE DEF few
    <3>1. CASE loop \in Frames /\ rest = <<loop>>
      <4>1. rest \in {<<loop>>, <<>>}
        BY <3>1
      <4> QED
        BY <1>5, <2>1, <3>1, <4>1, FewFrames
    <3>2. CASE rest = <<>>
      BY <3>2, NoFrames, KindsFrame
    <3> QED
      BY <1>6, <3>1, <3>2
  <2> HIDE DEF few
  <2>3. SameBut(few) /\ SameTasks
    BY <1>1, <1>2, <1>7, <2>1, <2>2, BaseParts, QuietReplace
  <2>4. SameBut(kinds)
    BY <2>3 DEF SameBut, few
  <2> QED
    BY <1>1, <1>7, <2>3, <2>4, PlacesSame DEF Goes, BaseInv, Opens, few
<1>8. CASE /\ Queued(w) > 0 /\ tasksQueue' = Popped(w)
           /\ stack' = EmptyQueueCalls(w) \o <<f>> \o rest \o Callers
  <2>1. tasksQueue[w] # <<>>
    BY <1>2, <1>8, BaseParts, QueuedTasks
  <2>2. t \in 1 .. Tasks /\ t # None
    BY <1>2, <2>1, BaseParts, PoppedQueue, NodeIds
  <2>3. f \in Frames /\ f.at \in Gives /\ f.task = t
    BY <1>4, <2>2 DEF Frame, Frames, Gives
  <2>5. TakenFrom(w, t)
    BY <1>2, <1>8, <2>1, BaseParts, PoppedItems
  <2> DEFINE new == <<f>> \o rest
             calls == EmptyQueueCalls(w)
  <2> HIDE DEF f, t
  <2>6. /\ new \in Seq(Frames) /\ KindsOf(new) \subseteq Gives
        /\ TasksIn(new) = {t} /\ OnceIn(new)
    <3>2. loop \in Frames => loop.task = None /\ loop.at \in Gives
      BY <1>5
    <3>3. rest = <<>> \/ (loop \in Frames /\ rest = <<loop>>)
      BY <1>6
    <3> QED
      BY <2>2, <2>3, <3>2, <3>3, GivingFrames
  <2>7. calls \in Seq(Frames) /\ <<f>> \in Seq(Frames) /\ rest \in Seq(Frames)
    <3>1. calls \in Seq(Frames)
      BY <1>2, CallsFrames
    <3>2. <<f>> \in Seq(Frames)
      BY <2>3, OneFrame
    <3>3. rest \in Seq(Frames)
      BY <1>6, OneFrame, NoFrames
    <3> QED
      BY ONLY <3>1, <3>2, <3>3
  <2>8. stack' = calls \o new \o Callers
    <3>1. (calls \o <<f>>) \o rest = calls \o new
      <4> HIDE DEF calls
      <4> QED
        BY <2>7, ConcatAssociative
    <3> QED
      BY <1>8, <3>1
  <2> HIDE DEF new
  <2>9. Takes(w, Sorts, Gives, t)
    BY <1>1, <1>2, <2>6, <2>8, BaseParts, TakeReplace
  <2> QED
    BY <1>1, <2>5, <2>9, TheftMoves
<1> QED
  BY <1>1, <1>7, <1>8

LEMMA RedistributeMoves ==
  ASSUME BaseInv, Redistribute
  PROVE  /\ Goes(Empties \cup Gives \cup Starts) /\ Opens(Empties \cup Gives)
         /\ PlacesInv'
<1> DEFINE w == Top.node
           t == tasksQueue[w][1]
           f == Frame("deliver", Poorest, t)
           new == <<f>>
           kinds == Empties \cup Gives \cup Starts
<1>1. /\ stack # <<>> /\ Top.at = "redistributeQueuedTasks"
      /\ UNCHANGED <<inFlight, answered, lost, keyOfTask, open>>
      /\ \/ /\ Queued(w) > 0 /\ tasksQueue' = Dequeued(w)
            /\ stack' = EmptyQueueCalls(w) \o new \o stack
         \/ stack' = Callers /\ UNCHANGED tasksQueue
  BY DEF Redistribute, At, endVars, taskVars, listVars
<1>2. Top.task = None /\ Top.at \in Empties /\ w \in Listed /\ w \in Ids
  BY <1>1, BaseParts, TopCall, FrameTypes, ListedIds DEF Empties
<1>3. workerNodes # <<>>
  BY <1>2 DEF Listed
<1>4. Poorest \in Receivers
  BY <1>3, BaseParts, PoorestListed DEF Receivers
<1>5. CASE stack' = Callers /\ UNCHANGED tasksQueue
  <2> DEFINE few == Empties \cup Gives
  <2>1. Top.at \in few
    BY <1>2
  <2> HIDE DEF few
  <2>2. SameBut(few) /\ SameTasks
    BY <1>1, <1>2, <1>5, <2>1, BaseParts, QuietPop
  <2>3. SameBut(kinds)
    BY <2>2 DEF SameBut, few
  <2> QED
    BY <1>1, <1>5, <2>2, <2>3, PlacesSame DEF Goes, BaseInv, Opens, few
<1>6. CASE /\ Queued(w) > 0 /\ tasksQueue' = Dequeued(w)
           /\ stack' = EmptyQueueCalls(w) \o new \o stack
  <2>1. tasksQueue[w] # <<>>
    BY <1>2, <1>6, BaseParts, QueuedTasks
  <2>2. t \in 1 .. Tasks /\ t # None
    BY <1>2, <2>1, BaseParts, ShiftedQueue, NodeIds
  <2>3. f \in Frames /\ f.at \in Gives /\ f.task = t
    BY <1>4, <2>2 DEF Frame, Frames, Gives
  <2>4. TakenFrom(w, t)
    BY <1>2, <1>6, <2>1, BaseParts, ShiftedItems
  <2> HIDE DEF f, t
  <2>6. /\ new \in Seq(Frames) /\ KindsOf(new) \subseteq Gives
        /\ TasksIn(new) = {t} /\ OnceIn(new)
    BY <2>2, <2>3, OneFrame, KindsFrame
  <2> HIDE DEF new
  <2>7. Takes(w, Empties, Gives, t)
    BY <1>2, <1>6, <2>6, BaseParts, TakePush
  <2> QED
    BY <1>1, <2>4, <2>7, TheftMoves
<1> QED
  BY <1>1, <1>5, <1>6

LEMMA FlushMoves ==
  ASSUME BaseInv, Flush
  PROVE  Goes(Switches \cup Executes) /\ PlacesInv'
<1> DEFINE w == FirstFull
           t == tasksQueue[w][1]
           f == Frame("executeTask", w, t)
           new == <<f>>
           kinds == Switches \cup Executes
<1>1. /\ stack # <<>> /\ Top.at = "flushTasksQueues"
      /\ UNCHANGED <<inFlight, answered, lost, keyOfTask, open>>
      /\ \/ /\ {v \in Listed : Queued(v) > 0} # {} /\ tasksQueue' = Dequeued(w)
            /\ stack' = new \o stack
         \/ stack' = Callers /\ UNCHANGED tasksQueue
  BY DEF Flush, At, endVars, taskVars, listVars, FirstFull
<1>2. Top.task = None /\ Top.at \in kinds
  BY <1>1, BaseParts, TopCall, FrameTypes DEF Switches
<1>5. CASE stack' = Callers /\ UNCHANGED tasksQueue
  <2> HIDE DEF kinds
  <2>2. SameBut(kinds) /\ SameTasks
    BY <1>1, <1>2, <1>5, BaseParts, QuietPop
  <2> QED
    BY <1>1, <1>5, <2>2, PlacesSame DEF Goes, BaseInv, kinds
<1>6. CASE /\ {v \in Listed : Queued(v) > 0} # {} /\ tasksQueue' = Dequeued(w)
           /\ stack' = new \o stack
  <2>1. w \in Listed /\ w \in Ids /\ tasksQueue[w] # <<>>
    BY <1>6, BaseParts, FirstFullListed, ListedIds, QueuedTasks
  <2>2. t \in 1 .. Tasks /\ t # None
    BY <2>1, BaseParts, ShiftedQueue, NodeIds
  <2>3. f \in Frames /\ f.at \in kinds /\ f.task = t
    BY <2>1, <2>2 DEF Frame, Frames, Executes
  <2>4. TakenFrom(w, t)
    BY <1>6, <2>1, BaseParts, ShiftedItems
  <2> DEFINE in == {t}
  <2> HIDE DEF f, t, kinds
  <2>6. /\ new \in Seq(Frames) /\ KindsOf(new) \subseteq kinds
        /\ TasksIn(new) = in /\ OnceIn(new)
    BY <2>2, <2>3, OneFrame, KindsFrame
  <2> HIDE DEF new, in
  <2>7. stack \in Seq(Frames)
    BY BaseParts DEF StackInv
  <2>8. Rewrites(stack, stack', kinds, kinds, {}, in)
    BY <1>6, <2>6, <2>7, RewritePush
  <2>9. t \notin TasksIn(stack)
    BY <2>4 DEF TakenFrom, BaseInv, PlacesInv, OnePlace
  <2> DEFINE none == {}
  <2>10. /\ Rewrites(stack, stack', kinds, kinds, none, in)
         /\ \A x \in in : x \in TasksIn(stack) => x \in none
    BY <2>8, <2>9 DEF in
  <2> HIDE DEF none
  <2>11. /\ TasksIn(stack') = (TasksIn(stack) \ none) \cup in
         /\ OnceIn(stack') /\ SameBut(kinds)
    BY <2>10, BaseParts, RewritesTasks, RewritesKinds
  <2>12. OneTaskMore(t)
    BY <2>11 DEF OneTaskMore, none, in
  <2> QED
    BY <1>1, <2>4, <2>11, <2>12, PlacesTaken DEF Goes, BaseInv, kinds
<1> QED
  BY <1>1, <1>5, <1>6

LEMMA ThrowMoves ==
  ASSUME BaseInv, stack # <<>>, Throw, Top.task \in 1 .. Tasks,
         UNCHANGED <<tasksQueue, inFlight, answered, keyOfTask, open, workerNodes>>,
         \E w \in Ids : ~open[w]
  PROVE  Fails /\ PlacesInv'
<1>1. Drops
  BY BaseParts, ThrowDrops
<1>2. PICK dropped : lost' = lost \cup dropped /\ Top.task \in dropped \cup {None}
  BY <1>1 DEF Drops
<1>3. Top.task \in lost'
  BY <1>2, NodeIds
<1> QED
  BY <1>1, <1>3, PlacesDropped DEF Fails, BaseInv

LEMMA ExecuteTaskMoves ==
  ASSUME BaseInv, stack # <<>>, NEW w \in Ids, NEW t \in 1 .. Tasks, Top.task = t,
         ExecuteTask(w, t), NEW kinds, Top.at \in kinds,
         UNCHANGED <<tasksQueue, answered, keyOfTask, open, workerNodes>>
  PROVE  (Goes(kinds) \/ Fails) /\ PlacesInv'
<1>1. CASE open[w]
  <2>1. /\ inFlight' = [inFlight EXCEPT ![w] = @ \cup {t}]
        /\ stack' = Callers /\ lost' = lost
    BY <1>1 DEF ExecuteTask, endVars
  <2>2. SameBut(kinds) /\ OneTaskLess(t)
    BY <2>1, BaseParts, TaskPop, NodeIds
  <2> QED
    BY <2>1, <2>2, BaseParts, PlacesSent DEF Goes, BaseInv
<1>2. CASE ~open[w]
  <2>1. Throw /\ UNCHANGED inFlight
    BY <1>2 DEF ExecuteTask
  <2> QED
    BY <1>2, <2>1, ThrowMoves
<1> QED
  BY <1>1, <1>2

LEMMA RunMoves ==
  ASSUME BaseInv, Run
  PROVE  (Goes(Executes) \/ Fails) /\ PlacesInv'
<1>1. /\ stack # <<>> /\ Top.at = "executeTask" /\ Top.at \in Executes
      /\ ExecuteTask(Top.node, Top.task)
      /\ UNCHANGED <<tasksQueue, answered, keyOfTask, open, workerNodes>>
  BY DEF Run, At, taskVars, listVars, Executes
<1>2. Top.node \in Ids /\ Top.task \in 1 .. Tasks
  BY <1>1, BaseParts, TopCall, FrameTypes, ListedIds
<1> QED
  BY <1>1, <1>2, ExecuteTaskMoves

LEMMA EnqueueTaskMoves ==
  ASSUME BaseInv, stack # <<>>, NEW w \in Listed, NEW t \in 1 .. Tasks,
         Top.task = t, EnqueueTask(w, t), Top.at \in Delivers,
         UNCHANGED <<inFlight, answered, lost, keyOfTask, open>>
  PROVE  Goes(Delivers \cup Leaves) /\ PlacesInv'
<1> DEFINE kinds == Delivers \cup Leaves
           f == Frame("onBackPressure", w, None)
           g == Frame("onBackPressureEnd", w, None)
           new == <<f, g>>
<1>1. w \in Ids /\ t # None /\ Top.at \in kinds
  BY BaseParts, ListedIds, NodeIds
<1>2. /\ tasksQueue' = [tasksQueue EXCEPT ![w] = Append(@, t)]
      /\ stack' = new \o Callers \/ stack' = Callers
  BY DEF EnqueueTask
<1>3. /\ f \in Frames /\ f.task = None /\ f.at \in kinds
      /\ g \in Frames /\ g.task = None /\ g.at \in kinds
  BY DEF Frame, Frames, Leaves
<1> HIDE DEF f, g, kinds
<1>4. SameBut(kinds) /\ OneTaskLess(t)
  <2>1. CASE stack' = Callers
    BY <1>1, <2>1, BaseParts, TaskPop
  <2>2. CASE stack' = new \o Callers
    <3>1. /\ new \in Seq(Frames) /\ KindsOf(new) \subseteq kinds
          /\ TasksIn(new) = {} /\ OnceIn(new)
      BY <1>3, TwoFrames
    <3> HIDE DEF new
    <3> QED
      BY <1>1, <2>2, <3>1, BaseParts, TaskReplace
  <2> QED
    BY <1>2, <2>1, <2>2
<1>5. t \notin queued[w]
  BY <1>1, <1>4 DEF OneTaskLess, BaseInv, PlacesInv, OnePlace
<1>6. GivenTo(w, t)
  BY <1>1, <1>2, <1>5, BaseParts, AppendedItems
<1> QED
  BY <1>4, <1>6, PlacesGiven DEF Goes, BaseInv, kinds

LEMMA DeliverMoves ==
  ASSUME BaseInv, Deliver
  PROVE  (Goes(Delivers \cup Leaves) \/ Fails) /\ PlacesInv'
<1>1. /\ stack # <<>> /\ Top.at = "deliver" /\ Top.at \in Delivers
      /\ UNCHANGED <<answered, keyOfTask, open, workerNodes>>
  BY DEF Deliver, At, taskVars, listVars, Delivers
<1>2. Top.node \in Receivers /\ Top.task \in 1 .. Tasks
  BY <1>1, BaseParts, TopCall, FrameTypes
<1>3. CASE Top.node = None
  <2>1. Throw /\ UNCHANGED <<tasksQueue, inFlight>>
    BY <1>3 DEF Deliver, queueVars
  <2>2. \E w \in Ids : ~open[w]
    <3>1. None \notin Listed
      BY BaseParts, ListedIds, NodeIds
    <3>2. PICK w \in Ids : w \notin Listed
      BY <1>2, <1>3, <3>1 DEF Receivers
    <3> QED
      BY <3>2, BaseParts DEF NodesInv
  <2> QED
    BY <1>1, <1>2, <2>1, <2>2, ThrowMoves
<1>4. CASE Top.node # None
  <2>1. Top.node \in Listed /\ Top.node \in Ids
    BY <1>2, <1>4, BaseParts, ListedIds DEF Receivers
  <2>2. CASE ShallExecuteTask(Top.node)
    <3>1. ExecuteTask(Top.node, Top.task) /\ UNCHANGED tasksQueue
      BY <1>4, <2>2 DEF Deliver
    <3> DEFINE kinds == Delivers \cup Leaves
    <3>2. Top.at \in kinds
      BY <1>1
    <3> HIDE DEF kinds
    <3>3. (Goes(kinds) \/ Fails) /\ PlacesInv'
      BY <1>1, <1>2, <2>1, <3>1, <3>2, ExecuteTaskMoves
    <3> QED
      BY <3>3 DEF kinds
  <2>3. CASE ~ShallExecuteTask(Top.node)
    <3>1. EnqueueTask(Top.node, Top.task) /\ UNCHANGED <<inFlight, lost>>
      BY <1>4, <2>3 DEF Deliver, endVars
    <3> QED
      BY <1>1, <1>2, <2>1, <3>1, EnqueueTaskMoves
  <2> QED
    BY <2>2, <2>3
<1> QED
  BY <1>3, <1>4

\* A task is given to the pool.
LEMMA ExecuteMoves ==
  ASSUME BaseInv, NEW t \in 1 .. Tasks, NEW w \in Listed, Execute(t, w)
  PROVE  /\ Goes(Delivers \cup Executes \cup Entries) /\ PlacesInv'
         /\ enableTasksQueue => SameBut(Delivers \cup Entries)
<1> DEFINE f == Frame(IF enableTasksQueue THEN "deliver" ELSE "executeTask", w, t)
           kinds == Delivers \cup Executes \cup Entries
           queueing == Delivers \cup Entries
           new == <<f, Call>>
<1>1. /\ stack = <<>> /\ stack' = new
      /\ keyOfTask[t] = None
      /\ keyOfTask' = [keyOfTask EXCEPT ![t] = Position(w)]
      /\ UNCHANGED <<tasksQueue, inFlight, answered, lost, open>>
  BY DEF Execute, Idle, queueVars, endVars, listVars
<1>2. f \in Frames /\ f.at \in kinds /\ f.task = t
      /\ Call \in Frames /\ Call.at \in kinds /\ Call.task = None
      /\ Call.at \in queueing /\ (enableTasksQueue => f.at \in queueing)
  <2>1. CASE enableTasksQueue
    BY <2>1 DEF Frame, Frames, Call, Receivers, Delivers, Entries
  <2>2. CASE ~enableTasksQueue
    BY <2>2 DEF Frame, Frames, Call, Executes, Entries
  <2> QED
    BY <2>1, <2>2
<1> HIDE DEF f, kinds, queueing
<1>3. /\ new \in Seq(Frames) /\ KindsOf(new) = {f.at, Call.at}
      /\ TasksIn(new) = {t} /\ OnceIn(new)
  BY <1>2, TwoFrames, NodeIds
<1> HIDE DEF new
<1>4. SameBut(kinds) /\ OneTaskMore(t)
  BY <1>1, <1>2, <1>3, TaskBegin
<1>5. ASSUME enableTasksQueue PROVE SameBut(queueing)
  BY <1>1, <1>2, <1>3, <1>5, TaskBegin
<1>6. Position(w) # None
  <2>1. Position(w) \in 1 .. Len(workerNodes)
    BY BaseParts, PositionOf, ListedIds
  <2> QED
    BY <2>1, NodeIds
<1>7. queued' = queued /\ (DistinctQueues => DistinctQueues')
  BY <1>1, SameQueues
<1>8. keyOfTask'[t] = Position(w)
      /\ \A x \in 1 .. Tasks : x # t => keyOfTask'[x] = keyOfTask[x]
  BY <1>1, BaseParts DEF Typed
<1>9. AtCall(t)'
  <2>1. OnePlace(t)
    BY DEF BaseInv, PlacesInv
  <2> QED
    BY <1>1, <1>4, <1>6, <1>7, <1>8, <2>1, NodeIds
    DEF OnePlace, Somewhere, AtCall, Placed, OneTaskMore
<1>10. ASSUME NEW x \in 1 .. Tasks, x # t PROVE OnePlace(x)'
  <2>1. SamePlaces(x)
    BY <1>1, <1>4, <1>7, <1>8, <1>10 DEF SamePlaces, OneTaskMore
  <2> QED
    BY <2>1, OnePlaceKept DEF BaseInv, PlacesInv
<1>11. OnePlace(t)'
  BY <1>9, OnePlaceOf
<1>12. NoRepeats'
  BY <1>4, <1>7, BaseParts DEF NoRepeats, DistinctQueues, Distinct, OneTaskMore
<1>13. lost' # {} => \E v \in Ids : ~open'[v]
  BY <1>1 DEF BaseInv, PlacesInv
<1>14. PlacesInv'
  BY <1>10, <1>11, <1>12, <1>13 DEF PlacesInv
<1> QED
  BY <1>1, <1>4, <1>5, <1>14 DEF Goes, kinds, queueing

LEMMA SameStack ==
  ASSUME stack' = stack, NEW kinds
  PROVE  SameBut(kinds) /\ (OnceIn(stack) => SameTasks)
BY DEF SameBut, SameAt, SameTasks

\* A worker answers: the next task of the node may be taken from its queue.
LEMMA AnswerTheft ==
  ASSUME BaseInv, NEW w \in Ids, NEW t \in 1 .. Tasks, Answer(w, t)
  PROVE  \/ UNCHANGED <<tasksQueue, stack>>
         \/ \E v \in Ids, u \in 1 .. Tasks : TakenFrom(v, u) /\ Takes(v, {}, Answers, u)
<1> DEFINE key == keyOfTask[t]
           node == workerNodes[key]
           u == tasksQueue[node][1]
           f == Frame("executeTask", node, u)
           new == <<f, Listener>>
<1>1. CASE UNCHANGED <<tasksQueue, stack>>
  BY <1>1
<1>2. CASE ~UNCHANGED <<tasksQueue, stack>>
  <2>1. /\ key \in DOMAIN workerNodes /\ Queued(node) > 0
        /\ tasksQueue' = Dequeued(node) /\ stack = <<>>
        /\ stack' = EmptyQueueCalls(node) \o new
    BY <1>2 DEF Answer, Idle
  <2>2. node \in Listed /\ node \in Ids /\ tasksQueue[node] # <<>>
    BY <2>1, BaseParts, ListedIds, QueuedTasks
  <2>3. u \in 1 .. Tasks /\ u # None
    BY <2>2, BaseParts, ShiftedQueue, NodeIds
  <2>4. /\ f \in Frames /\ f.at \in Answers /\ f.task = u
        /\ Listener \in Frames /\ Listener.at \in Answers /\ Listener.task = None
    BY <2>2, <2>3 DEF Frame, Frames, Listener, Answers
  <2>5. TakenFrom(node, u)
    BY <2>1, <2>2, BaseParts, ShiftedItems
  <2> HIDE DEF f, u
  <2>6. /\ new \in Seq(Frames) /\ KindsOf(new) \subseteq Answers
        /\ TasksIn(new) = {u} /\ OnceIn(new)
    BY <2>3, <2>4, TwoFrames
  <2> DEFINE calls == EmptyQueueCalls(node)
             r == calls \o new
  <2>7. r \in Seq(Frames)
    BY <2>2, <2>6, CallsFrames, FramesJoined
  <2>8. stack' = r \o stack
    <3>1. stack' = r /\ stack = <<>>
      BY <2>1
    <3> HIDE DEF r
    <3> QED
      BY <2>7, <3>1, ConcatEmptySeq
  <2>9. stack' = EmptyQueueCalls(node) \o new \o stack
    BY <2>8
  <2> HIDE DEF new, calls, r
  <2>10. Takes(node, {}, Answers, u)
    BY <2>2, <2>6, <2>9, BaseParts, TakePush
  <2> QED
    BY <2>2, <2>3, <2>5, <2>10
<1> QED
  BY <1>1, <1>2

LEMMA AnswerMoves ==
  ASSUME BaseInv, NEW w \in Ids, NEW t \in 1 .. Tasks, Answer(w, t)
  PROVE  /\ Goes(Answers \cup Starts) /\ Opens(Answers)
         /\ PlacesInv'
<1>1. /\ t \in inFlight[w] /\ stack = <<>>
      /\ inFlight' = [inFlight EXCEPT ![w] = @ \ {t}]
      /\ answered' = answered \cup {t}
      /\ UNCHANGED <<lost, keyOfTask, open>>
  BY DEF Answer, Idle, listVars
<1>2. \A v \in Ids : inFlight'[v] = IF v = w THEN inFlight[v] \ {t} ELSE inFlight[v]
  BY <1>1, BaseParts DEF Typed
<1>3. AtWorker(t, w)
  BY <1>1, PlaceOf DEF BaseInv, PlacesInv
<1>4. lost' # {} => \E v \in Ids : ~open'[v]
  BY <1>1 DEF BaseInv, PlacesInv
<1>5. TasksIn(stack) = {} /\ OnceIn(stack)
  BY <1>1, NoFrames
<1>8. /\ \A x : x \in answered' <=> x \in answered \/ x = t
      /\ lost' = lost /\ keyOfTask' = keyOfTask
  BY <1>1
<1>9. None \notin Ids
  BY NodeIds
<1>6. CASE UNCHANGED <<tasksQueue, stack>>
  <2>1. queued' = queued /\ (DistinctQueues => DistinctQueues')
    BY <1>6, SameQueues
  <2>2. SameBut(Answers \cup Starts) /\ SameBut(Answers) /\ SameTasks
    BY <1>5, <1>6, SameStack
  <2>3. AtAnswered(t)'
    BY <1>2, <1>3, <1>8, <1>9, <2>1, <2>2
    DEF AtWorker, AtAnswered, Placed, SameTasks
  <2>4. OnePlace(t)'
    BY <2>3, OnePlaceOf
  <2>5. ASSUME NEW x \in 1 .. Tasks, x # t PROVE OnePlace(x)'
    <3>1. SamePlaces(x)
      BY <1>1, <1>2, <2>1, <2>2, <2>5 DEF SamePlaces, SameTasks
    <3> QED
      BY <3>1, OnePlaceKept DEF BaseInv, PlacesInv
  <2>6. NoRepeats'
    BY <2>1, <2>2, BaseParts DEF NoRepeats, DistinctQueues, Distinct, SameTasks
  <2> QED
    BY <1>1, <1>4, <2>2, <2>4, <2>5, <2>6 DEF Goes, Opens, PlacesInv
<1>7. ASSUME NEW v \in Ids, NEW u \in 1 .. Tasks, TakenFrom(v, u),
             Takes(v, {}, Answers, u)
      PROVE  Goes(Answers \cup Starts) /\ Opens(Answers) /\ PlacesInv'
  <2>1. u # t
    BY <1>1, <1>7 DEF TakenFrom, BaseInv, PlacesInv, OnePlace
  <2> DEFINE none == {}
             kinds == none \cup Answers \cup Starts
             few == none \cup Answers
  <2>2. /\ Takes(v, none, Answers, u) /\ kinds = Answers \cup Starts
        /\ few = Answers
    BY <1>7
  <2> HIDE DEF none
  <2>3. SameBut(kinds) /\ Opens(few) /\ OneTaskMore(u)
    BY <1>5, <2>2, TakesEffect
  <2> HIDE DEF kinds, few
  <2>4. AtQueue(u, v)
    BY <1>7, PlaceOf DEF TakenFrom, BaseInv, PlacesInv
  <2>5. AtCall(u)'
    <3>1. /\ \A x \in Ids : (u \in queued[x] <=> x = v) /\ u \notin inFlight[x]
          /\ u \notin answered /\ u \notin lost /\ keyOfTask[u] # None
      BY <1>9, <2>4 DEF AtQueue, Placed
    <3>2. u \in TasksIn(stack')
      BY <2>3 DEF OneTaskMore
    <3>3. \A x \in Ids : u \notin queued'[x] /\ u \notin inFlight'[x]
      BY <1>2, <1>7, <2>1, <3>1 DEF TakenFrom
    <3>4. u \notin answered' /\ u \notin lost' /\ keyOfTask'[u] # None
      BY <1>8, <2>1, <3>1
    <3> QED
      BY <1>9, <3>2, <3>3, <3>4 DEF AtCall, Placed
  <2>6. AtAnswered(t)'
    BY <1>2, <1>3, <1>7, <1>8, <1>9, <2>1, <2>3
    DEF AtWorker, AtAnswered, Placed, TakenFrom, OneTaskMore
  <2>7. OnePlace(t)' /\ OnePlace(u)'
    BY <2>5, <2>6, OnePlaceOf
  <2>8. ASSUME NEW x \in 1 .. Tasks, x # t, x # u PROVE OnePlace(x)'
    <3>1. SamePlaces(x)
      BY <1>2, <1>7, <1>8, <2>3, <2>8 DEF SamePlaces, TakenFrom, OneTaskMore
    <3> QED
      BY <3>1, OnePlaceKept DEF BaseInv, PlacesInv
  <2>9. NoRepeats'
    BY <1>7, <2>3 DEF NoRepeats, DistinctQueues, Distinct, TakenFrom, OneTaskMore
  <2> QED
    BY <1>1, <1>4, <2>2, <2>3, <2>7, <2>8, <2>9 DEF Goes, PlacesInv
<1> QED
  BY <1>6, <1>7, AnswerTheft

LEMMA TimerMoves ==
  ASSUME BaseInv, NEW w \in Ids, Timer(w)
  PROVE  Goes(Loops \cup Entries) /\ PlacesInv'
<1> DEFINE f == Frame("startOnEmptyQueue", w, None)
           kinds == Loops \cup Entries
           new == <<f, Call>>
<1>1. /\ stack = <<>> /\ stack' = new
      /\ UNCHANGED <<tasksQueue, inFlight, answered, lost, keyOfTask, open>>
  BY DEF Timer, Idle, queueVars, endVars, taskVars, listVars
<1>2. /\ f \in Frames /\ f.at \in kinds /\ f.task = None
      /\ Call \in Frames /\ Call.at \in kinds /\ Call.task = None
  BY DEF Frame, Frames, Call, Loops, Entries
<1> HIDE DEF f, kinds
<1>3. /\ new \in Seq(Frames) /\ KindsOf(new) \subseteq kinds
      /\ TasksIn(new) = {} /\ OnceIn(new)
  BY <1>2, TwoFrames
<1> HIDE DEF new
<1>4. SameBut(kinds) /\ SameTasks
  BY <1>1, <1>3, QuietBegin
<1> QED
  BY <1>1, <1>4, PlacesSame DEF Goes, BaseInv, kinds

LEMMA WorkerErrorMoves ==
  ASSUME BaseInv, NEW w \in Ids, WorkerError(w)
  PROVE  Goes(Empties \cup Entries) /\ PlacesInv'
<1> DEFINE f == Frame("redistributeQueuedTasks", w, None)
           kinds == Empties \cup Entries
           new == <<f, Listener>>
<1>1. /\ stack = <<>> /\ stack' \in {new, <<>>} /\ open[w]
      /\ open' = [open EXCEPT ![w] = FALSE]
      /\ UNCHANGED <<tasksQueue, inFlight, answered, lost, keyOfTask>>
  BY DEF WorkerError, Idle, queueVars, endVars, taskVars
<1>2. w \in Listed
  BY <1>1, BaseParts DEF NodesInv
<1>3. /\ f \in Frames /\ f.at \in kinds /\ f.task = None
      /\ Listener \in Frames /\ Listener.at \in kinds /\ Listener.task = None
  BY <1>2 DEF Frame, Frames, Listener, Empties, Entries
<1> HIDE DEF f, kinds
<1>4. /\ new \in Seq(Frames) /\ KindsOf(new) \subseteq kinds
      /\ TasksIn(new) = {} /\ OnceIn(new)
  BY <1>3, TwoFrames
<1>5. <<>> \in Seq(Frames) /\ KindsOf(<<>>) = {} /\ TasksIn(<<>>) = {} /\ OnceIn(<<>>)
  BY NoFrames, KindsFrame
<1> HIDE DEF new
<1>6. SameBut(kinds) /\ SameTasks
  <2>1. CASE stack' = new
    BY <1>1, <1>4, <2>1, QuietBegin
  <2>2. CASE stack' = <<>>
    BY <1>1, <1>5, <2>2, SameStack
  <2> QED
    BY <1>1, <2>1, <2>2
<1>7. \A v \in Ids : open'[v] => open[v]
  BY <1>1, BaseParts DEF Typed
<1> QED
  BY <1>1, <1>6, <1>7, PlacesSame DEF Goes, BaseInv, kinds

LEMMA DisableTasksQueueMoves ==
  ASSUME BaseInv, DisableTasksQueue
  PROVE  Goes(Switches \cup Entries) /\ PlacesInv'
<1> DEFINE f == Frame("flushTasksQueues", None, None)
           g == Frame("disableTasksQueue", None, None)
           kinds == Switches \cup Entries
           new == <<f, g, Call>>
<1>1. /\ stack = <<>> /\ stack' = new
      /\ UNCHANGED <<tasksQueue, inFlight, answered, lost, keyOfTask, open>>
  BY DEF DisableTasksQueue, Idle, queueVars, endVars, listVars
<1>2. /\ f \in Frames /\ f.at \in kinds /\ f.task = None
      /\ g \in Frames /\ g.at \in kinds /\ g.task = None
      /\ Call \in Frames /\ Call.at \in kinds /\ Call.task = None
  BY DEF Frame, Frames, Call, Switches, Entries
<1> HIDE DEF f, g, kinds
<1>3. /\ new \in Seq(Frames) /\ DOMAIN new = {1, 2, 3}
      /\ new[1] = f /\ new[2] = g /\ new[3] = Call
  BY <1>2
<1> HIDE DEF new
<1>4. KindsOf(new) \subseteq kinds /\ TasksIn(new) = {} /\ OnceIn(new)
  BY <1>2, <1>3 DEF KindsOf, TasksIn, OnceIn
<1>5. SameBut(kinds) /\ SameTasks
  BY <1>1, <1>3, <1>4, QuietBegin
<1> QED
  BY <1>1, <1>5, PlacesSame DEF Goes, BaseInv, kinds

\* The steps that call nothing.
Silent == \/ \E w \in Ids : NodeDestroyed(w) \/ WorkerExit(w)
          \/ \E given \in LaterOptions : \/ SetTasksQueueOptions(given)
                                        \/ RefuseTasksQueueOptions(given)

LEMMA SilentMoves ==
  ASSUME BaseInv, Silent
  PROVE  Goes({}) /\ PlacesInv'
<1>1. /\ UNCHANGED <<tasksQueue, inFlight, answered, lost, keyOfTask, stack>>
      /\ \A w \in Ids : open'[w] => open[w]
  <2>1. ASSUME NEW w \in Ids, NodeDestroyed(w)
        PROVE  /\ UNCHANGED <<tasksQueue, inFlight, answered, lost, keyOfTask, stack>>
               /\ \A v \in Ids : open'[v] => open[v]
    BY <2>1, BaseParts DEF NodeDestroyed, queueVars, endVars, taskVars, Typed
  <2>2. ASSUME NEW w \in Ids, WorkerExit(w)
        PROVE  UNCHANGED <<tasksQueue, inFlight, answered, lost, keyOfTask, stack,
                           open>>
    BY <2>2 DEF WorkerExit, queueVars, endVars, taskVars
  <2>3. ASSUME NEW given, SetTasksQueueOptions(given)
        PROVE  UNCHANGED <<tasksQueue, inFlight, answered, lost, keyOfTask, stack,
                           open>>
    BY <2>3 DEF SetTasksQueueOptions, queueVars, endVars, listVars
  <2>4. ASSUME NEW given, RefuseTasksQueueOptions(given)
        PROVE  UNCHANGED <<tasksQueue, inFlight, answered, lost, keyOfTask, stack,
                           open>>
    BY <2>4 DEF RefuseTasksQueueOptions, queueVars, endVars, taskVars, listVars
  <2> QED
    BY <2>1, <2>2, <2>3, <2>4 DEF Silent
<1>2. SameBut({}) /\ SameTasks
  BY <1>1, BaseParts, SameStack
<1> QED
  BY <1>1, <1>2, PlacesSame DEF Goes, BaseInv

-----------------------------------------------------------------------------
(* The steps together.                                                     *)

\* For calls of these kinds nothing changes, unless an exception drops some.
Keeps(K) ==
  /\ FewerAt(stack, stack', K)
  /\ lost' = {} => lost = {} /\ SameAt(stack, stack', K)

LEMMA GoesKeeps ==
  ASSUME NEW kinds, Goes(kinds) \/ Fails, NEW K, K \cap kinds = {}
  PROVE  Keeps(K)
<1>1. CASE Goes(kinds)
  <2>1. SameAt(stack, stack', K) /\ lost' = lost
    BY <1>1 DEF Goes, SameBut
  <2> QED
    BY <2>1 DEF Keeps, SameAt, FewerAt
<1>2. CASE Fails
  BY <1>2 DEF Fails, Drops, Keeps
<1> QED
  BY <1>1, <1>2

\* The disjuncts of Next, for lemmas that look at each.
LEMMA StepCases ==
  ASSUME Next
  PROVE  \/ Step
         \/ \E t \in 1 .. Tasks, w \in Listed : Execute(t, w)
         \/ \E w \in Ids, t \in 1 .. Tasks : Answer(w, t)
         \/ \E w \in Ids : Timer(w)
         \/ \E w \in Ids : WorkerError(w)
         \/ Silent
         \/ DisableTasksQueue
BY DEF Next, Silent

LEMMA PlacesStep ==
  ASSUME BaseInv, Next
  PROVE  PlacesInv'
<1>1. CASE Step
  <2>1. CASE Deliver BY <2>1, DeliverMoves
  <2>2. CASE Run BY <2>2, RunMoves
  <2>3. CASE StartOnEmptyQueue BY <2>3, StartOnEmptyQueueMoves
  <2>4. CASE StealOnEmptyQueue BY <2>4, StealOnEmptyQueueMoves
  <2>5. CASE Sleep BY <2>5, SleepMoves
  <2>6. CASE OnBackPressure BY <2>6, OnBackPressureMoves
  <2>7. CASE StealOnBackPressure BY <2>7, StealOnBackPressureMoves
  <2>8. CASE OnBackPressureEnd BY <2>8, OnBackPressureEndMoves
  <2>9. CASE Redistribute BY <2>9, RedistributeMoves
  <2>10. CASE Flush BY <2>10, FlushMoves
  <2>11. CASE TasksQueueDisabled BY <2>11, TasksQueueDisabledMoves
  <2>12. CASE Return BY <2>12, ReturnMoves
  <2> QED
    BY <1>1, <2>1, <2>2, <2>3, <2>4, <2>5, <2>6, <2>7, <2>8, <2>9, <2>10,
       <2>11, <2>12 DEF Step
<1>2. ASSUME NEW t \in 1 .. Tasks, NEW w \in Listed, Execute(t, w)
      PROVE  PlacesInv'
  BY <1>2, ExecuteMoves
<1>3. ASSUME NEW w \in Ids, NEW t \in 1 .. Tasks, Answer(w, t)
      PROVE  PlacesInv'
  BY <1>3, AnswerMoves
<1>4. ASSUME NEW w \in Ids, Timer(w) PROVE PlacesInv'
  BY <1>4, TimerMoves
<1>5. ASSUME NEW w \in Ids, WorkerError(w) PROVE PlacesInv'
  BY <1>5, WorkerErrorMoves
<1>6. CASE Silent BY <1>6, SilentMoves
<1>7. CASE DisableTasksQueue BY <1>7, DisableTasksQueueMoves
<1> QED
  BY <1>1, <1>2, <1>3, <1>4, <1>5, <1>6, <1>7, StepCases

\* Once counts are no longer those of the workers they are not said to be.
LEMMA StrayedStays ==
  ASSUME OptionsInv, Next, strayed
  PROVE  strayed'
<1>1. CASE Step
  BY <1>1 DEF Step, Deliver, Run, StartOnEmptyQueue, StealOnEmptyQueue, Sleep,
     OnBackPressure, StealOnBackPressure, OnBackPressureEnd, Redistribute, Flush,
     TasksQueueDisabled, Return, taskVars
<1>2. ASSUME NEW t, NEW w, Execute(t, w) PROVE strayed'
  BY <1>2 DEF Execute
<1>3. ASSUME NEW w, NEW t, Answer(w, t) PROVE strayed'
  BY <1>3 DEF Answer
<1>4. ASSUME NEW w, Timer(w) \/ WorkerError(w) \/ NodeDestroyed(w) \/ WorkerExit(w)
      PROVE  strayed'
  BY <1>4 DEF Timer, WorkerError, NodeDestroyed, WorkerExit, taskVars
<1>5. ASSUME NEW given, SetTasksQueueOptions(given) \/ RefuseTasksQueueOptions(given)
      PROVE  strayed'
  BY <1>5 DEF SetTasksQueueOptions, RefuseTasksQueueOptions, taskVars
<1>6. CASE DisableTasksQueue
  BY <1>6 DEF DisableTasksQueue
<1> QED
  BY <1>1, <1>2, <1>3, <1>4, <1>5, <1>6 DEF Next

LEMMA SwitchesKept ==
  ASSUME BaseInv, Next, ~Flush, ~TasksQueueDisabled, ~DisableTasksQueue
  PROVE  Keeps(Switches)
<1> DEFINE K == Switches
<1>k. /\ K \cap (Delivers \cup Leaves) = {} /\ K \cap Executes = {}
      /\ K \cap (Loops \cup Robs) = {} /\ K \cap (Robs \cup Gives \cup Starts) = {}
      /\ K \cap Sleeps = {} /\ K \cap (Begins \cup Sorts) = {}
      /\ K \cap (Sorts \cup Gives \cup Starts) = {} /\ K \cap Ends = {}
      /\ K \cap (Empties \cup Gives \cup Starts) = {} /\ K \cap Entries = {}
      /\ K \cap (Delivers \cup Executes \cup Entries) = {}
      /\ K \cap (Answers \cup Starts) = {} /\ K \cap (Loops \cup Entries) = {}
      /\ K \cap (Empties \cup Entries) = {} /\ K \cap {} = {}
  BY DEF Switches, Delivers, Leaves, Executes, Loops, Robs, Gives, Starts, Sleeps,
     Begins, Sorts, Ends, Empties, Entries, Answers
<1> SUFFICES Keeps(K)
  OBVIOUS
<1> HIDE DEF K
<1>1. CASE Step
  <2>1. CASE Deliver BY <1>k, <2>1, DeliverMoves, GoesKeeps
  <2>2. CASE Run BY <1>k, <2>2, RunMoves, GoesKeeps
  <2>3. CASE StartOnEmptyQueue BY <1>k, <2>3, StartOnEmptyQueueMoves, GoesKeeps
  <2>4. CASE StealOnEmptyQueue BY <1>k, <2>4, StealOnEmptyQueueMoves, GoesKeeps
  <2>5. CASE Sleep BY <1>k, <2>5, SleepMoves, GoesKeeps
  <2>6. CASE OnBackPressure BY <1>k, <2>6, OnBackPressureMoves, GoesKeeps
  <2>7. CASE StealOnBackPressure BY <1>k, <2>7, StealOnBackPressureMoves, GoesKeeps
  <2>8. CASE OnBackPressureEnd BY <1>k, <2>8, OnBackPressureEndMoves, GoesKeeps
  <2>9. CASE Redistribute BY <1>k, <2>9, RedistributeMoves, GoesKeeps
  <2>12. CASE Return BY <1>k, <2>12, ReturnMoves, GoesKeeps
  <2> QED
    BY <1>1, <2>1, <2>2, <2>3, <2>4, <2>5, <2>6, <2>7, <2>8, <2>9,
       <2>12 DEF Step
<1>2. ASSUME NEW t \in 1 .. Tasks, NEW w \in Listed, Execute(t, w)
      PROVE  Keeps(K)
  BY <1>k, <1>2, ExecuteMoves, GoesKeeps
<1>3. ASSUME NEW w \in Ids, NEW t \in 1 .. Tasks, Answer(w, t)
      PROVE  Keeps(K)
  BY <1>k, <1>3, AnswerMoves, GoesKeeps
<1>4. ASSUME NEW w \in Ids, Timer(w) PROVE Keeps(K)
  BY <1>k, <1>4, TimerMoves, GoesKeeps
<1>5. ASSUME NEW w \in Ids, WorkerError(w) PROVE Keeps(K)
  BY <1>k, <1>5, WorkerErrorMoves, GoesKeeps
<1>6. CASE Silent
  <2> DEFINE none == {}
  <2>1. Goes(none) /\ K \cap none = {}
    BY <1>6, SilentMoves
  <2> HIDE DEF none
  <2> QED
    BY <2>1, GoesKeeps
<1> QED
  BY <1>1, <1>2, <1>3, <1>4, <1>5, <1>6, StepCases

LEMMA SwitchStep ==
  ASSUME BaseInv, SwitchInv, Next
  PROVE  SwitchInv'
<1>0. strayed => strayed'
  BY BaseParts, StrayedStays
<1>1. CASE Flush \/ TasksQueueDisabled
  <2>1. stack # <<>> /\ Top.at \in Switches
    BY <1>1 DEF Flush, TasksQueueDisabled, At, Switches
  <2>2. strayed
    BY <2>1, BaseParts, SwitchedOff
  <2> QED
    BY <1>0, <2>2 DEF SwitchInv
<1>2. CASE DisableTasksQueue
  BY <1>2 DEF DisableTasksQueue, SwitchInv
<1>3. CASE ~Flush /\ ~TasksQueueDisabled /\ ~DisableTasksQueue
  <2>1. NodesAt(stack', Switches) \subseteq NodesAt(stack, Switches)
    BY <1>3, SwitchesKept DEF Keeps, FewerAt
  <2> QED
    BY <1>0, <2>1 DEF SwitchInv
<1> QED
  BY <1>1, <1>2, <1>3

-----------------------------------------------------------------------------
(* The flag of onBackPressure.                                             *)

LEMMA EndsKept ==
  ASSUME BaseInv, Next, ~Deliver, ~OnBackPressureEnd
  PROVE  Keeps(Ends) /\ onBackPressureStarted' = onBackPressureStarted
<1> DEFINE K == Ends
           Kept == Keeps(K) /\ onBackPressureStarted' = onBackPressureStarted
<1>k. /\ K \cap Executes = {} /\ K \cap Switches = {}
      /\ K \cap (Loops \cup Robs) = {} /\ K \cap (Robs \cup Gives \cup Starts) = {}
      /\ K \cap Sleeps = {} /\ K \cap (Begins \cup Sorts) = {}
      /\ K \cap (Sorts \cup Gives \cup Starts) = {}
      /\ K \cap (Empties \cup Gives \cup Starts) = {} /\ K \cap Entries = {}
      /\ K \cap (Delivers \cup Executes \cup Entries) = {}
      /\ K \cap (Answers \cup Starts) = {} /\ K \cap (Loops \cup Entries) = {}
      /\ K \cap (Empties \cup Entries) = {} /\ K \cap {} = {}
      /\ K \cap (Switches \cup Executes) = {} /\ K \cap (Switches \cup Entries) = {}
  BY DEF Switches, Delivers, Leaves, Executes, Loops, Robs, Gives, Starts, Sleeps,
     Begins, Sorts, Ends, Empties, Entries, Answers
<1> SUFFICES Kept
  OBVIOUS
<1> HIDE DEF K
<1>1. CASE Step
  <2>0. onBackPressureStarted' = onBackPressureStarted
    BY <1>1 DEF Step, Deliver, Run, StartOnEmptyQueue, StealOnEmptyQueue, Sleep,
       OnBackPressure, StealOnBackPressure, OnBackPressureEnd, Redistribute, Flush,
       TasksQueueDisabled, Return, callbackVars
  <2> SUFFICES Keeps(K)
    BY <2>0
  <2>2. CASE Run BY <1>k, <2>2, RunMoves, GoesKeeps
  <2>3. CASE StartOnEmptyQueue BY <1>k, <2>3, StartOnEmptyQueueMoves, GoesKeeps
  <2>4. CASE StealOnEmptyQueue BY <1>k, <2>4, StealOnEmptyQueueMoves, GoesKeeps
  <2>5. CASE Sleep BY <1>k, <2>5, SleepMoves, GoesKeeps
  <2>6. CASE OnBackPressure BY <1>k, <2>6, OnBackPressureMoves, GoesKeeps
  <2>7. CASE StealOnBackPressure BY <1>k, <2>7, StealOnBackPressureMoves, GoesKeeps
  <2>9. CASE Redistribute BY <1>k, <2>9, RedistributeMoves, GoesKeeps
  <2>10. CASE Flush BY <1>k, <2>10, FlushMoves, GoesKeeps
  <2>11. CASE TasksQueueDisabled
    BY <1>k, <2>11, TasksQueueDisabledMoves, GoesKeeps
  <2>12. CASE Return BY <1>k, <2>12, ReturnMoves, GoesKeeps
  <2> QED
    BY <1>1, <2>2, <2>3, <2>4, <2>5, <2>6, <2>7, <2>9, <2>10, <2>11,
       <2>12 DEF Step
<1>2. ASSUME NEW t \in 1 .. Tasks, NEW w \in Listed, Execute(t, w)
      PROVE  Kept
  <2>1. onBackPressureStarted' = onBackPressureStarted
    BY <1>2 DEF Execute, callbackVars
  <2> QED
    BY <1>k, <1>2, <2>1, ExecuteMoves, GoesKeeps
<1>3. ASSUME NEW w \in Ids, NEW t \in 1 .. Tasks, Answer(w, t)
      PROVE  Kept
  <2>1. onBackPressureStarted' = onBackPressureStarted
    BY <1>3 DEF Answer, callbackVars
  <2> QED
    BY <1>k, <1>3, <2>1, AnswerMoves, GoesKeeps
<1>4. ASSUME NEW w \in Ids, Timer(w) PROVE Kept
  <2>1. onBackPressureStarted' = onBackPressureStarted
    BY <1>4 DEF Timer
  <2> QED
    BY <1>k, <1>4, <2>1, TimerMoves, GoesKeeps
<1>5. ASSUME NEW w \in Ids, WorkerError(w) PROVE Kept
  <2>1. onBackPressureStarted' = onBackPressureStarted
    BY <1>5 DEF WorkerError, callbackVars
  <2> QED
    BY <1>k, <1>5, <2>1, WorkerErrorMoves, GoesKeeps
<1>6. CASE Silent
  <2> DEFINE none == {}
  <2>1. Goes(none) /\ K \cap none = {}
    BY <1>6, SilentMoves
  <2>2. onBackPressureStarted' = onBackPressureStarted
    BY <1>6 DEF Silent, NodeDestroyed, WorkerExit, SetTasksQueueOptions,
       RefuseTasksQueueOptions, callbackVars
  <2> HIDE DEF none
  <2> QED
    BY <2>1, <2>2, GoesKeeps
<1>7. CASE DisableTasksQueue
  <2>1. onBackPressureStarted' = onBackPressureStarted
    BY <1>7 DEF DisableTasksQueue, callbackVars
  <2> QED
    BY <1>k, <1>7, <2>1, DisableTasksQueueMoves, GoesKeeps
<1> QED
  BY <1>1, <1>2, <1>3, <1>4, <1>5, <1>6, <1>7, StepCases

LEMMA DeliverCases ==
  ASSUME BaseInv, Deliver
  PROVE  /\ stack # <<>> /\ Top.at = "deliver"
         /\ \/ Fails /\ onBackPressureStarted' = onBackPressureStarted
            \/ /\ stack' = Callers /\ lost' = lost
               /\ onBackPressureStarted' = onBackPressureStarted
            \/ /\ Top.node \in Listed /\ ~onBackPressureStarted[Top.node]
               /\ onBackPressureStarted' =
                    [onBackPressureStarted EXCEPT ![Top.node] = TRUE]
               /\ stack' = <<Frame("onBackPressure", Top.node, None),
                             Frame("onBackPressureEnd", Top.node, None)>> \o Callers
               /\ lost' = lost
<1>1. /\ stack # <<>> /\ Top.at = "deliver" /\ Top.at \in Delivers
      /\ UNCHANGED <<answered, keyOfTask, open, workerNodes>>
  BY DEF Deliver, At, taskVars, listVars, Delivers
<1>2. Top.node \in Receivers /\ Top.task \in 1 .. Tasks
  BY <1>1, BaseParts, TopCall, FrameTypes
<1>3. CASE Top.node = None
  <2>1. /\ Throw /\ UNCHANGED <<tasksQueue, inFlight>>
        /\ onBackPressureStarted' = onBackPressureStarted
    BY <1>3 DEF Deliver, queueVars, callbackVars
  <2>2. \E w \in Ids : ~open[w]
    <3>1. None \notin Listed
      BY BaseParts, ListedIds, NodeIds
    <3>2. PICK w \in Ids : w \notin Listed
      BY <1>2, <1>3, <3>1 DEF Receivers
    <3> QED
      BY <3>2, BaseParts DEF NodesInv
  <2> QED
    BY <1>1, <1>2, <2>1, <2>2, ThrowMoves
<1>4. CASE Top.node # None
  <2>1. Top.node \in Listed /\ Top.node \in Ids
    BY <1>2, <1>4, BaseParts, ListedIds DEF Receivers
  <2>2. CASE ShallExecuteTask(Top.node)
    <3>1. /\ ExecuteTask(Top.node, Top.task) /\ UNCHANGED tasksQueue
          /\ onBackPressureStarted' = onBackPressureStarted
      BY <1>4, <2>2 DEF Deliver, callbackVars
    <3>2. CASE open[Top.node]
      BY <1>1, <3>1, <3>2 DEF ExecuteTask, endVars
    <3>3. CASE ~open[Top.node]
      <4>1. Throw /\ UNCHANGED inFlight
        BY <3>1, <3>3 DEF ExecuteTask
      <4> QED
        BY <1>1, <1>2, <2>1, <3>1, <3>3, <4>1, ThrowMoves
    <3> QED
      BY <3>2, <3>3
  <2>3. CASE ~ShallExecuteTask(Top.node)
    <3>1. EnqueueTask(Top.node, Top.task) /\ lost' = lost
      BY <1>4, <2>3 DEF Deliver, endVars
    <3> QED
      BY <1>1, <2>1, <3>1 DEF EnqueueTask, CallsOnBackPressure
  <2> QED
    BY <2>2, <2>3
<1> QED
  BY <1>3, <1>4

\* What a node that calls onBackPressure has pushed.
LEMMA PushEnd ==
  ASSUME NEW w \in Listed, NEW s \in Seq(Frames),
         stack' = <<Frame("onBackPressure", w, None),
                    Frame("onBackPressureEnd", w, None)>> \o s
  PROVE  /\ \A x : x \in NodesAt(stack', Ends) <=> x \in NodesAt(s, Ends) \/ x = w
         /\ OnceAt(stack', Ends) <=>
              OnceAt(s, Ends) /\ w \notin NodesAt(s, Ends)
<1> DEFINE f == Frame("onBackPressure", w, None)
           g == Frame("onBackPressureEnd", w, None)
           a == <<f>>
           b == <<g>>
           u == b \o s
<1>1. /\ f \in Frames /\ f.at \notin Ends
      /\ g \in Frames /\ g.at \in Ends /\ g.node = w
  BY DEF Frame, Frames, Ends
<1>2. a \o b = <<f, g>>
  BY JoinedPair
<1>3. stack' = (a \o b) \o s
  BY <1>2
<1>4. a = <<f>> /\ b = <<g>> /\ u = <<g>> \o s /\ u = b \o s
  OBVIOUS
<1> HIDE DEF f, g, a, b, u
<1>5. a \in Seq(Frames) /\ b \in Seq(Frames)
  BY <1>1, <1>4
<1>6. (a \o b) \o s = a \o (b \o s)
  BY ONLY <1>5, s \in Seq(Frames), ConcatAssociative
<1>7. u \in Seq(Frames) /\ stack' = <<f>> \o u
  <2>1. u \in Seq(Frames)
    BY <1>4, <1>5, FramesJoined
  <2> QED
    BY <1>3, <1>4, <1>6, <2>1
<1>8. /\ \A x : x \in NodesAt(u, Ends) <=>
                x \in NodesAt(s, Ends) \/ (g.at \in Ends /\ x = g.node)
      /\ OnceAt(u, Ends) <=>
           OnceAt(s, Ends) /\ (g.at \in Ends => g.node \notin NodesAt(s, Ends))
  BY <1>1, <1>4, PushAt
<1>9. /\ \A x : x \in NodesAt(stack', Ends) <=>
                x \in NodesAt(u, Ends) \/ (f.at \in Ends /\ x = f.node)
      /\ OnceAt(stack', Ends) <=>
           OnceAt(u, Ends) /\ (f.at \in Ends => f.node \notin NodesAt(u, Ends))
  BY <1>1, <1>7, PushAt
<1> QED
  BY <1>1, <1>8, <1>9

LEMMA CallbacksStep ==
  ASSUME BaseInv, CallbacksInv, Next
  PROVE  CallbacksInv'
<1>1. ASSUME Keeps(Ends), onBackPressureStarted' = onBackPressureStarted
      PROVE  CallbacksInv'
  <2>1. OnceAt(stack', Ends) /\ NodesAt(stack', Ends) \subseteq NodesAt(stack, Ends)
    BY <1>1 DEF Keeps, FewerAt, CallbacksInv
  <2>2. lost' = {} => lost = {} /\ NodesAt(stack', Ends) = NodesAt(stack, Ends)
    BY <1>1 DEF Keeps, SameAt
  <2> QED
    BY <1>1, <2>1, <2>2 DEF CallbacksInv
<1>t. \A w \in Ids : onBackPressureStarted[w] \in BOOLEAN
  BY BaseParts DEF Typed
<1>d. DOMAIN onBackPressureStarted = Ids
  BY BaseParts DEF Typed
<1>2. CASE OnBackPressureEnd
  <2>1. /\ stack # <<>> /\ Top.at \in Ends /\ stack' = Callers /\ lost' = lost
        /\ onBackPressureStarted' =
             [onBackPressureStarted EXCEPT ![Top.node] = FALSE]
    BY <1>2 DEF OnBackPressureEnd, At, Ends, endVars
  <2>2. /\ \A x : x \in NodesAt(stack, Ends) <=>
                  x \in NodesAt(Callers, Ends) \/ (Top.at \in Ends /\ x = Top.node)
        /\ OnceAt(stack, Ends) <=>
             OnceAt(Callers, Ends)
               /\ (Top.at \in Ends => Top.node \notin NodesAt(Callers, Ends))
    BY <2>1, BaseParts, TopAt
  <2>3. \A w \in Ids : onBackPressureStarted'[w] =
          IF w = Top.node THEN FALSE ELSE onBackPressureStarted[w]
    BY <1>d, <2>1
  <2> HIDE DEF Ends
  <2> QED
    BY <2>1, <2>2, <2>3 DEF CallbacksInv
<1>3. CASE Deliver
  <2>0. stack # <<>> /\ Top.at = "deliver" /\ Top.at \notin Ends
    BY <1>3, DeliverCases DEF Ends
  <2>1. /\ \A x : x \in NodesAt(stack, Ends) <=> x \in NodesAt(Callers, Ends)
        /\ OnceAt(stack, Ends) <=> OnceAt(Callers, Ends)
    BY <2>0, BaseParts, TopAt
  <2>2. CASE Fails /\ onBackPressureStarted' = onBackPressureStarted
    <3> DEFINE none == {}
    <3>1. Ends \cap none = {}
      OBVIOUS
    <3> HIDE DEF none
    <3> QED
      BY <1>1, <2>2, <3>1, GoesKeeps
  <2>3. CASE /\ stack' = Callers /\ lost' = lost
             /\ onBackPressureStarted' = onBackPressureStarted
    BY <2>1, <2>3 DEF CallbacksInv
  <2>4. CASE /\ Top.node \in Listed /\ ~onBackPressureStarted[Top.node]
             /\ onBackPressureStarted' =
                  [onBackPressureStarted EXCEPT ![Top.node] = TRUE]
             /\ stack' = <<Frame("onBackPressure", Top.node, None),
                           Frame("onBackPressureEnd", Top.node, None)>> \o Callers
             /\ lost' = lost
    <3>2. Callers \in Seq(Frames) /\ Top.node \in Ids
      BY <2>0, <2>4, BaseParts, TopCall, ListedIds
    <3>4. /\ \A x : x \in NodesAt(stack', Ends) <=>
                    x \in NodesAt(Callers, Ends) \/ x = Top.node
          /\ OnceAt(stack', Ends) <=>
               OnceAt(Callers, Ends) /\ Top.node \notin NodesAt(Callers, Ends)
      BY <2>4, <3>2, PushEnd
    <3>5. \A w \in Ids : onBackPressureStarted'[w] =
            IF w = Top.node THEN TRUE ELSE onBackPressureStarted[w]
      BY <1>d, <2>4
    <3>6. Top.node \notin NodesAt(Callers, Ends)
      BY <2>1, <2>4, <3>2 DEF CallbacksInv
    <3> HIDE DEF Ends
    <3> QED
      BY <2>1, <2>4, <3>2, <3>4, <3>5, <3>6 DEF CallbacksInv
  <2> QED
    BY <1>3, <2>2, <2>3, <2>4, DeliverCases
<1> QED
  BY <1>1, <1>2, <1>3, EndsKept

-----------------------------------------------------------------------------
(* The stealing loops.                                                     *)

\* Any of the frames of loops.
LoopKinds == {Loops, Starts, Sleeps}

LEMMA LoopNodes ==
  ASSUME NEW s
  PROVE  \A x : x \in NodesAt(s, Loops) <=>
                  x \in NodesAt(s, Starts) \/ x \in NodesAt(s, Sleeps)
BY DEF NodesAt, Loops, Starts, Sleeps

LEMMA StartsIdle ==
  ASSUME StackInv, LoopsInv, Next, ~StartOnEmptyQueue
  PROVE  NodesAt(stack, Starts) = {}
<1>1. stack = <<>> \/ (stack # <<>> /\ Top.at \notin Starts)
  <2>1. CASE Step
    BY <2>1 DEF Step, Deliver, Run, StealOnEmptyQueue, Sleep, OnBackPressure,
       StealOnBackPressure, OnBackPressureEnd, Redistribute, Flush,
       TasksQueueDisabled, Return, At, Starts
  <2>2. CASE ~Step
    BY <2>2 DEF Next, Execute, Answer, Timer, WorkerError, NodeDestroyed,
       WorkerExit, SetTasksQueueOptions, RefuseTasksQueueOptions,
       DisableTasksQueue, Idle
  <2> QED
    BY <2>1, <2>2
<1>2. CASE stack = <<>>
  BY <1>2 DEF NodesAt
<1>3. CASE stack # <<>> /\ Top.at \notin Starts
  <2>1. \A x : x \in NodesAt(stack, Starts) <=>
               x \in NodesAt(Callers, Starts) \/ (Top.at \in Starts /\ x = Top.node)
    BY <1>3, TopAt
  <2> QED
    BY <1>3, <2>1 DEF LoopsInv, Callers
<1> QED
  BY <1>1, <1>2, <1>3

LEMMA LoopsKept ==
  ASSUME BaseInv, Next, ~StartOnEmptyQueue, ~StealOnEmptyQueue, ~Sleep,
         ~StealOnBackPressure, ~Redistribute,
         \A w \in Ids : ~Timer(w) /\ \A t \in 1 .. Tasks : ~Answer(w, t),
         NEW K \in LoopKinds
  PROVE  Keeps(K) /\ UNCHANGED <<timer, onEmptyQueueCount>>
<1> DEFINE Kept == Keeps(K) /\ UNCHANGED <<timer, onEmptyQueueCount>>
<1>k. /\ K \cap (Delivers \cup Leaves) = {} /\ K \cap Executes = {}
      /\ K \cap (Begins \cup Sorts) = {} /\ K \cap Ends = {}
      /\ K \cap Switches = {} /\ K \cap Entries = {}
      /\ K \cap (Delivers \cup Executes \cup Entries) = {}
      /\ K \cap (Empties \cup Entries) = {}
      /\ K \cap (Switches \cup Executes) = {} /\ K \cap (Switches \cup Entries) = {}
  BY DEF LoopKinds, Switches, Delivers, Leaves, Executes, Loops, Starts, Sleeps,
     Begins, Sorts, Ends, Empties, Entries
<1>1. CASE Step
  <2>0. UNCHANGED <<timer, onEmptyQueueCount>>
    <3>1. CASE Deliver
      BY <3>1 DEF Deliver, callbackVars
    <3> QED
      BY <1>1, <3>1 DEF Step, Run, OnBackPressure, OnBackPressureEnd, Flush,
         TasksQueueDisabled, Return, callbackVars
  <2> SUFFICES Keeps(K)
    BY <2>0
  <2>1. CASE Deliver BY <1>k, <2>1, DeliverMoves, GoesKeeps
  <2>2. CASE Run BY <1>k, <2>2, RunMoves, GoesKeeps
  <2>6. CASE OnBackPressure BY <1>k, <2>6, OnBackPressureMoves, GoesKeeps
  <2>8. CASE OnBackPressureEnd BY <1>k, <2>8, OnBackPressureEndMoves, GoesKeeps
  <2>10. CASE Flush BY <1>k, <2>10, FlushMoves, GoesKeeps
  <2>11. CASE TasksQueueDisabled
    BY <1>k, <2>11, TasksQueueDisabledMoves, GoesKeeps
  <2>12. CASE Return BY <1>k, <2>12, ReturnMoves, GoesKeeps
  <2> QED
    BY <1>1, <2>1, <2>2, <2>6, <2>8, <2>10, <2>11, <2>12 DEF Step
<1>2. ASSUME NEW t \in 1 .. Tasks, NEW w \in Listed, Execute(t, w)
      PROVE  Kept
  <2>1. UNCHANGED <<timer, onEmptyQueueCount>>
    BY <1>2 DEF Execute, callbackVars
  <2> QED
    BY <1>k, <1>2, <2>1, ExecuteMoves, GoesKeeps
<1>5. ASSUME NEW w \in Ids, WorkerError(w) PROVE Kept
  <2>1. UNCHANGED <<timer, onEmptyQueueCount>>
    BY <1>5 DEF WorkerError, callbackVars
  <2> QED
    BY <1>k, <1>5, <2>1, WorkerErrorMoves, GoesKeeps
<1>6. CASE Silent
  <2> DEFINE none == {}
  <2>1. Goes(none) /\ K \cap none = {}
    BY <1>6, SilentMoves
  <2>2. UNCHANGED <<timer, onEmptyQueueCount>>
    BY <1>6 DEF Silent, NodeDestroyed, WorkerExit, SetTasksQueueOptions,
       RefuseTasksQueueOptions, callbackVars
  <2> HIDE DEF none
  <2> QED
    BY <2>1, <2>2, GoesKeeps
<1>7. CASE DisableTasksQueue
  <2>1. UNCHANGED <<timer, onEmptyQueueCount>>
    BY <1>7 DEF DisableTasksQueue, callbackVars
  <2> QED
    BY <1>k, <1>7, <2>1, DisableTasksQueueMoves, GoesKeeps
<1> QED
  BY <1>1, <1>2, <1>5, <1>6, <1>7, StepCases

\* Where no loop begins a round, there is none under another call.
LEMMA NoStartsBelow ==
  ASSUME NEW S, NEW s \in Seq(S), NodesAt(s, Starts) = {}
  PROVE  s # <<>> => NodesAt(Tail(s), Starts) = {}
BY TailAt

LEMMA LoopsQuiet ==
  ASSUME LoopsInv, StackInv', NodesAt(stack, Starts) = {},
         \A K \in LoopKinds : Keeps(K), UNCHANGED <<timer, onEmptyQueueCount>>
  PROVE  LoopsInv'
<1>1. Keeps(Loops) /\ Keeps(Starts) /\ Keeps(Sleeps)
  BY DEF LoopKinds
<1>2. NodesAt(stack', Starts) = {}
  BY <1>1 DEF Keeps, FewerAt
<1>3. stack' # <<>> => NodesAt(Tail(stack'), Starts) = {}
  BY <1>2, NoStartsBelow DEF StackInv
<1>4. /\ OnceAt(stack', Loops)
      /\ NodesAt(stack', Loops) \subseteq NodesAt(stack, Loops)
      /\ NodesAt(stack', Sleeps) \subseteq NodesAt(stack, Sleeps)
  BY <1>1 DEF Keeps, FewerAt, LoopsInv
<1>5. lost' = {} => lost = {} /\ NodesAt(stack', Loops) = NodesAt(stack, Loops)
  BY <1>1 DEF Keeps, SameAt
<1> QED
  BY <1>3, <1>4, <1>5 DEF LoopsInv

LEMMA LoopsOpened ==
  ASSUME StackInv, StackInv', LoopsInv, NodesAt(stack, Starts) = {},
         NEW kinds, Opens(kinds), \A K \in LoopKinds : K \cap kinds = {},
         UNCHANGED <<timer, onEmptyQueueCount, lost>>
  PROVE  LoopsInv'
<1>1. CASE SameBut(kinds)
  <2>1. \A K \in LoopKinds : Keeps(K)
    <3> SUFFICES ASSUME NEW K \in LoopKinds PROVE Keeps(K)
      OBVIOUS
    <3>1. Goes(kinds) /\ K \cap kinds = {}
      BY <1>1 DEF Goes
    <3> QED
      BY <3>1, GoesKeeps
  <2> QED
    BY <2>1, LoopsQuiet
<1>2. ASSUME NEW v \in Ids, NEW r \in Seq(Frames),
             stack' = EmptyQueueCalls(v) \o r,
             \A K : K \cap kinds = {} => SameAt(stack, r, K)
      PROVE  LoopsInv'
  <2>1. /\ NodesAt(r, Starts) = {} /\ OnceAt(r, Loops)
        /\ NodesAt(r, Loops) = NodesAt(stack, Loops)
        /\ NodesAt(r, Sleeps) = NodesAt(stack, Sleeps)
    <3>1. SameAt(stack, r, Loops) /\ SameAt(stack, r, Starts) /\ SameAt(stack, r, Sleeps)
      BY <1>2 DEF LoopKinds
    <3> QED
      BY <3>1 DEF SameAt, LoopsInv
  <2>2. CASE EmptyQueueCalls(v) = <<>>
    <3>1. stack' = r
      BY <1>2, <2>2, ConcatEmptySeq
    <3>2. stack' # <<>> => NodesAt(Tail(stack'), Starts) = {}
      BY <2>1, <3>1, NoStartsBelow
    <3> QED
      BY <2>1, <3>1, <3>2 DEF LoopsInv
  <2>3. CASE EmptyQueueCalls(v) # <<>>
    <3> DEFINE f == Frame("startOnEmptyQueue", v, None)
    <3>0. r \in Seq(Frames)
      OBVIOUS
    <3>1. stack' = <<f>> \o r /\ onEmptyQueueCount[v] = 0
      BY <1>2, <2>3 DEF EmptyQueueCalls
    <3>2. /\ f \in Frames /\ f.node = v
          /\ f.at \in Starts /\ f.at \in Loops /\ f.at \notin Sleeps
      BY DEF Frame, Frames, Starts, Loops, Sleeps
    <3> HIDE DEF f
    <3>3. stack' # <<>> => NodesAt(Tail(stack'), Starts) = {}
      BY <2>1, <3>1, TailOfPush
    <3>4. /\ \A x : x \in NodesAt(stack', Loops) <=>
                    x \in NodesAt(r, Loops) \/ (f.at \in Loops /\ x = f.node)
          /\ OnceAt(stack', Loops) <=>
               OnceAt(r, Loops) /\ (f.at \in Loops => f.node \notin NodesAt(r, Loops))
      BY ONLY <3>0, <3>1, <3>2, PushAt
    <3>5. /\ \A x : x \in NodesAt(stack', Sleeps) <=>
                    x \in NodesAt(r, Sleeps) \/ (f.at \in Sleeps /\ x = f.node)
          /\ OnceAt(stack', Sleeps) <=>
               OnceAt(r, Sleeps)
                 /\ (f.at \in Sleeps => f.node \notin NodesAt(r, Sleeps))
      BY ONLY <3>0, <3>1, <3>2, PushAt
    <3>6. \A x : x \in NodesAt(stack, Loops) <=>
                 x \in NodesAt(stack, Starts) \/ x \in NodesAt(stack, Sleeps)
      BY LoopNodes
    <3>7. v \notin NodesAt(stack, Sleeps) /\ ~timer[v]
      BY <3>1 DEF LoopsInv
    <3> QED
      BY <2>1, <3>1, <3>2, <3>3, <3>4, <3>5, <3>6, <3>7 DEF LoopsInv
  <2> QED
    BY <2>2, <2>3
<1> QED
  BY <1>1, <1>2 DEF Opens

LEMMA LoopsStolen ==
  ASSUME BaseInv, LoopsInv, Next, StackInv',
         \/ StealOnEmptyQueue \/ StealOnBackPressure \/ Redistribute
         \/ \E w \in Ids, t \in 1 .. Tasks : Answer(w, t)
  PROVE  LoopsInv'
<1>k. \A K \in LoopKinds :
        /\ K \cap (Robs \cup Gives) = {} /\ K \cap (Sorts \cup Gives) = {}
        /\ K \cap (Empties \cup Gives) = {} /\ K \cap Answers = {}
  BY DEF LoopKinds, Loops, Starts, Sleeps, Robs, Gives, Sorts, Empties, Answers
<1>1. ~StartOnEmptyQueue
  BY DEF StartOnEmptyQueue, StealOnEmptyQueue, StealOnBackPressure, Redistribute,
     Answer, At, Idle
<1>2. NodesAt(stack, Starts) = {}
  BY <1>1, BaseParts, StartsIdle
<1>3. UNCHANGED <<timer, onEmptyQueueCount, lost>>
  BY DEF StealOnEmptyQueue, StealOnBackPressure, Redistribute, Answer,
     callbackVars, endVars
<1>4. CASE StealOnEmptyQueue
  BY <1>k, <1>2, <1>3, <1>4, BaseParts, StealOnEmptyQueueMoves, LoopsOpened
<1>5. CASE StealOnBackPressure
  BY <1>k, <1>2, <1>3, <1>5, BaseParts, StealOnBackPressureMoves, LoopsOpened
<1>6. CASE Redistribute
  BY <1>k, <1>2, <1>3, <1>6, BaseParts, RedistributeMoves, LoopsOpened
<1>7. ASSUME NEW w \in Ids, NEW t \in 1 .. Tasks, Answer(w, t) PROVE LoopsInv'
  BY <1>k, <1>2, <1>3, <1>7, BaseParts, AnswerMoves, LoopsOpened
<1> QED
  BY <1>4, <1>5, <1>6, <1>7

\* What a loop that goes on has pushed.
LEMMA PushSleep ==
  ASSUME NEW w \in Ids, NEW s \in Seq(Frames), NEW K \in LoopKinds,
         \/ stack' = <<Frame("sleep", w, None)>> \o s
         \/ stack' = <<Frame("onEmptyQueue", w, None), Frame("sleep", w, None)>> \o s
  PROVE  /\ \A x : x \in NodesAt(stack', K) <=>
                   x \in NodesAt(s, K) \/ (K # Starts /\ x = w)
         /\ OnceAt(stack', K) <=>
              OnceAt(s, K) /\ (K # Starts => w \notin NodesAt(s, K))
<1> DEFINE f == Frame("onEmptyQueue", w, None)
           g == Frame("sleep", w, None)
           a == <<f>>
           b == <<g>>
           u == b \o s
<1>1. /\ f \in Frames /\ f.at \notin K
      /\ g \in Frames /\ g.node = w /\ (g.at \in K <=> K # Starts)
  BY DEF Frame, Frames, LoopKinds, Loops, Starts, Sleeps
<1>2. a \o b = <<f, g>>
  BY JoinedPair
<1>3. stack' = u \/ stack' = (a \o b) \o s
  BY <1>2
<1>4. a = <<f>> /\ b = <<g>> /\ u = <<g>> \o s /\ u = b \o s
  OBVIOUS
<1> HIDE DEF f, g, a, b, u
<1>5. a \in Seq(Frames) /\ b \in Seq(Frames)
  BY <1>1, <1>4
<1>6. (a \o b) \o s = a \o (b \o s)
  BY ONLY <1>5, s \in Seq(Frames), ConcatAssociative
<1>7. u \in Seq(Frames)
  BY <1>4, <1>5, FramesJoined
<1>8. /\ \A x : x \in NodesAt(u, K) <=>
                x \in NodesAt(s, K) \/ (g.at \in K /\ x = g.node)
      /\ OnceAt(u, K) <=>
           OnceAt(s, K) /\ (g.at \in K => g.node \notin NodesAt(s, K))
  BY <1>1, <1>4, PushAt
<1>9. CASE stack' = u
  BY <1>1, <1>8, <1>9
<1>10. CASE stack' = (a \o b) \o s
  <2>1. stack' = <<f>> \o u
    BY <1>4, <1>6, <1>10
  <2>2. /\ \A x : x \in NodesAt(stack', K) <=>
                  x \in NodesAt(u, K) \/ (f.at \in K /\ x = f.node)
        /\ OnceAt(stack', K) <=>
             OnceAt(u, K) /\ (f.at \in K => f.node \notin NodesAt(u, K))
    BY <1>1, <1>7, <2>1, PushAt
  <2> QED
    BY <1>1, <1>8, <2>2
<1> QED
  BY <1>3, <1>9, <1>10

LEMMA LoopsStarted ==
  ASSUME BaseInv, LoopsInv, StackInv', StartOnEmptyQueue
  PROVE  LoopsInv'
<1> DEFINE w == Top.node
<1>0. /\ stack # <<>> /\ Top.at = "startOnEmptyQueue"
      /\ timer' = timer /\ lost' = lost
      /\ \/ /\ stack' = Callers
            /\ onEmptyQueueCount' = [onEmptyQueueCount EXCEPT ![w] = 0]
         \/ /\ onEmptyQueueCount' = [onEmptyQueueCount EXCEPT ![w] = 1]
            /\ \/ stack' = <<Frame("sleep", w, None)>> \o Callers
               \/ stack' = <<Frame("onEmptyQueue", w, None),
                             Frame("sleep", w, None)>> \o Callers
  <2> DEFINE f == Frame("onEmptyQueue", w, None)
             g == Frame("sleep", w, None)
             some == IF onEmptyQueue[w] THEN <<f>> ELSE <<>>
  <2>1. /\ stack # <<>> /\ Top.at = "startOnEmptyQueue"
        /\ timer' = timer /\ lost' = lost
    BY DEF StartOnEmptyQueue, At, endVars
  <2>2. \/ /\ stack' = Callers
           /\ onEmptyQueueCount' = [onEmptyQueueCount EXCEPT ![w] = 0]
        \/ /\ onEmptyQueueCount' = [onEmptyQueueCount EXCEPT ![w] = 1]
           /\ stack' = some \o <<g>> \o Callers
    BY DEF StartOnEmptyQueue, StopStealing
  <2>3. some \in {<<f>>, <<>>}
    OBVIOUS
  <2>4. <<f>> \o <<g>> = <<f, g>> /\ <<>> \o <<g>> = <<g>>
    BY JoinedPair
  <2> HIDE DEF some, f, g
  <2>5. \/ /\ stack' = Callers
           /\ onEmptyQueueCount' = [onEmptyQueueCount EXCEPT ![w] = 0]
        \/ /\ onEmptyQueueCount' = [onEmptyQueueCount EXCEPT ![w] = 1]
           /\ stack' = <<g>> \o Callers \/ stack' = <<f, g>> \o Callers
    BY <2>2, <2>3, <2>4
  <2> QED
    BY <2>1, <2>5 DEF f, g
<1>1. w \in Ids /\ Callers \in Seq(Frames)
  BY <1>0, BaseParts, TopCall, FrameTypes
<1>2. /\ Top.at \in Starts /\ Top.at \in Loops /\ Top.at \notin Sleeps
      /\ Starts \in LoopKinds /\ Loops \in LoopKinds /\ Sleeps \in LoopKinds
      /\ Loops # Starts /\ Sleeps # Starts
  <2>1. Top.at \in Starts /\ Top.at \in Loops /\ Top.at \notin Sleeps
    BY ONLY <1>0 DEF Starts, Loops, Sleeps
  <2>2. Loops # Starts /\ Sleeps # Starts
    BY ONLY DEF Starts, Loops, Sleeps
  <2> QED
    BY <2>1, <2>2 DEF LoopKinds
<1>3. /\ \A x : x \in NodesAt(stack, Loops) <=>
                x \in NodesAt(Callers, Loops) \/ (Top.at \in Loops /\ x = Top.node)
      /\ OnceAt(stack, Loops) <=>
           OnceAt(Callers, Loops)
             /\ (Top.at \in Loops => Top.node \notin NodesAt(Callers, Loops))
  BY <1>0, BaseParts, TopAt
<1>4. /\ \A x : x \in NodesAt(stack, Sleeps) <=>
                x \in NodesAt(Callers, Sleeps) \/ (Top.at \in Sleeps /\ x = Top.node)
      /\ OnceAt(stack, Sleeps) <=>
           OnceAt(Callers, Sleeps)
             /\ (Top.at \in Sleeps => Top.node \notin NodesAt(Callers, Sleeps))
  BY <1>0, BaseParts, TopAt
<1>5. /\ NodesAt(Callers, Starts) = {} /\ OnceAt(Callers, Loops)
      /\ w \notin NodesAt(Callers, Loops) /\ ~timer[w]
  BY <1>0, <1>1, <1>2, <1>3 DEF LoopsInv, Callers
<1>6. DOMAIN onEmptyQueueCount = Ids
  BY BaseParts DEF Typed
<1>7. CASE /\ stack' = Callers
           /\ onEmptyQueueCount' = [onEmptyQueueCount EXCEPT ![w] = 0]
  <2>1. \A v \in Ids : onEmptyQueueCount'[v] =
                         IF v = w THEN 0 ELSE onEmptyQueueCount[v]
    BY <1>6, <1>7
  <2>2. stack' # <<>> => NodesAt(Tail(stack'), Starts) = {}
    BY <1>1, <1>5, <1>7, NoStartsBelow
  <2>3. w \notin NodesAt(stack', Sleeps)
    BY <1>5, <1>7, LoopNodes
  <2>4. stack' = Callers
    BY <1>7
  <2> HIDE DEF w
  <2> QED
    BY <1>0, <1>2, <1>3, <1>4, <1>5, <2>1, <2>2, <2>3, <2>4 DEF LoopsInv, w
<1>8. CASE /\ onEmptyQueueCount' = [onEmptyQueueCount EXCEPT ![w] = 1]
           /\ \/ stack' = <<Frame("sleep", w, None)>> \o Callers
              \/ stack' = <<Frame("onEmptyQueue", w, None),
                            Frame("sleep", w, None)>> \o Callers
  <2>1. \A v \in Ids : onEmptyQueueCount'[v] =
                         IF v = w THEN 1 ELSE onEmptyQueueCount[v]
    BY <1>6, <1>8
  <2>2. /\ \A x : x \in NodesAt(stack', Loops) <=>
                  x \in NodesAt(Callers, Loops) \/ (Loops # Starts /\ x = w)
        /\ OnceAt(stack', Loops) <=>
             OnceAt(Callers, Loops) /\ (Loops # Starts => w \notin NodesAt(Callers, Loops))
    BY <1>1, <1>2, <1>8, PushSleep
  <2>3. \A x : x \in NodesAt(stack', Sleeps) <=>
               x \in NodesAt(Callers, Sleeps) \/ (Sleeps # Starts /\ x = w)
    BY <1>1, <1>2, <1>8, PushSleep
  <2>4. \A x : x \in NodesAt(stack', Starts) <=>
               x \in NodesAt(Callers, Starts) \/ (Starts # Starts /\ x = w)
    BY <1>1, <1>2, <1>8, PushSleep
  <2>5. NodesAt(stack', Starts) = {}
    BY <1>5, <2>4
  <2>6. stack' # <<>> => NodesAt(Tail(stack'), Starts) = {}
    BY <2>5, NoStartsBelow DEF StackInv
  <2> HIDE DEF w
  <2> QED
    BY <1>0, <1>1, <1>2, <1>3, <1>4, <1>5, <2>1, <2>2, <2>3, <2>6 DEF LoopsInv, w
<1> QED
  BY <1>0, <1>7, <1>8

LEMMA LoopsSlept ==
  ASSUME BaseInv, LoopsInv, StackInv', Sleep
  PROVE  LoopsInv'
<1> DEFINE w == Top.node
<1>0. /\ stack # <<>> /\ Top.at = "sleep" /\ stack' = Callers
      /\ timer' = [timer EXCEPT ![w] = TRUE]
      /\ onEmptyQueueCount' = onEmptyQueueCount /\ lost' = lost
  BY DEF Sleep, At, endVars
<1>1. w \in Ids /\ Callers \in Seq(Frames)
  BY <1>0, BaseParts, TopCall, FrameTypes
<1>2. Top.at \in Sleeps /\ Top.at \in Loops
  BY <1>0 DEF Loops, Sleeps
<1>3. /\ \A x : x \in NodesAt(stack, Loops) <=>
                x \in NodesAt(Callers, Loops) \/ (Top.at \in Loops /\ x = Top.node)
      /\ OnceAt(stack, Loops) <=>
           OnceAt(Callers, Loops)
             /\ (Top.at \in Loops => Top.node \notin NodesAt(Callers, Loops))
  BY <1>0, BaseParts, TopAt
<1>4. /\ \A x : x \in NodesAt(stack, Sleeps) <=>
                x \in NodesAt(Callers, Sleeps) \/ (Top.at \in Sleeps /\ x = Top.node)
      /\ OnceAt(stack, Sleeps) <=>
           OnceAt(Callers, Sleeps)
             /\ (Top.at \in Sleeps => Top.node \notin NodesAt(Callers, Sleeps))
  BY <1>0, BaseParts, TopAt
<1>5. NodesAt(Callers, Starts) = {} /\ OnceAt(Callers, Loops)
  BY <1>0, <1>3 DEF LoopsInv, Callers
<1>6. \A v \in Ids : timer'[v] = IF v = w THEN TRUE ELSE timer[v]
  BY <1>0, BaseParts DEF Typed
<1>7. stack' # <<>> => NodesAt(Tail(stack'), Starts) = {}
  BY <1>0, <1>1, <1>5, NoStartsBelow
<1> HIDE DEF w
<1> QED
  BY <1>0, <1>1, <1>2, <1>3, <1>4, <1>5, <1>6, <1>7 DEF LoopsInv, w

LEMMA LoopsWoken ==
  ASSUME BaseInv, LoopsInv, NEW w \in Ids, Timer(w)
  PROVE  LoopsInv'
<1> DEFINE f == Frame("startOnEmptyQueue", w, None)
<1>0. /\ stack = <<>> /\ stack' = <<f, Call>> /\ timer[w]
      /\ timer' = [timer EXCEPT ![w] = FALSE]
      /\ onEmptyQueueCount' = onEmptyQueueCount /\ lost' = lost
  BY DEF Timer, Idle, endVars
<1>1. /\ f.at \in Loops /\ f.at \notin Sleeps /\ f.node = w
      /\ Call.at \notin Loops /\ Call.at \notin Sleeps /\ Call.at \notin Starts
  BY DEF Frame, Call, Loops, Sleeps, Starts
<1> HIDE DEF f
<1>2. /\ DOMAIN stack' = {1, 2} /\ stack'[1] = f /\ stack'[2] = Call
      /\ Tail(stack') = <<Call>>
  BY <1>0
<1>3. \A x : x \in NodesAt(stack', Loops) <=> x = w
  BY <1>1, <1>2 DEF NodesAt
<1>4. NodesAt(stack', Sleeps) = {} /\ OnceAt(stack', Loops)
  BY <1>1, <1>2 DEF NodesAt, OnceAt
<1>5. NodesAt(Tail(stack'), Starts) = {}
  BY <1>1, <1>2 DEF NodesAt
<1>6. NodesAt(stack, Loops) = {} /\ NodesAt(stack, Sleeps) = {}
  BY <1>0 DEF NodesAt
<1>7. \A v \in Ids : timer'[v] = IF v = w THEN FALSE ELSE timer[v]
  BY <1>0, BaseParts DEF Typed
<1> QED
  BY <1>0, <1>3, <1>4, <1>5, <1>6, <1>7 DEF LoopsInv

LEMMA LoopsStep ==
  ASSUME BaseInv, LoopsInv, StackInv', Next
  PROVE  LoopsInv'
<1>1. CASE StartOnEmptyQueue BY <1>1, LoopsStarted
<1>2. CASE Sleep BY <1>2, LoopsSlept
<1>3. CASE \/ StealOnEmptyQueue \/ StealOnBackPressure \/ Redistribute
           \/ \E w \in Ids, t \in 1 .. Tasks : Answer(w, t)
  BY <1>3, LoopsStolen
<1>4. ASSUME NEW w \in Ids, Timer(w) PROVE LoopsInv'
  BY <1>4, LoopsWoken
<1>5. CASE /\ ~StartOnEmptyQueue /\ ~StealOnEmptyQueue /\ ~Sleep
           /\ ~StealOnBackPressure /\ ~Redistribute
           /\ \A w \in Ids : ~Timer(w) /\ \A t \in 1 .. Tasks : ~Answer(w, t)
  <2>1. \A K \in LoopKinds : Keeps(K)
    BY <1>5, LoopsKept
  <2>2. UNCHANGED <<timer, onEmptyQueueCount>>
    <3>1. Loops \in LoopKinds
      BY DEF LoopKinds
    <3> QED
      BY <1>5, <3>1, LoopsKept
  <2>3. NodesAt(stack, Starts) = {}
    BY <1>5, BaseParts, StartsIdle
  <2> QED
    BY <2>1, <2>2, <2>3, LoopsQuiet
<1> QED
  BY <1>1, <1>2, <1>3, <1>4, <1>5

-----------------------------------------------------------------------------
(* The counts of the nodes and the tasks of their workers.                 *)

LEMMA OptionsOn ==
  ASSUME OptionsInv, ~strayed
  PROVE  /\ enableTasksQueue /\ tasksQueueOptions \in TasksQueueOptions
         /\ tasksQueueOptions.concurrency \in Nat \ {0}
         /\ tasksQueueOptions # NoOptions
<1>1. tasksQueueOptions \in TasksQueueOptions /\ enableTasksQueue
  BY DEF OptionsInv
<1>2. "size" \in DOMAIN tasksQueueOptions
  BY <1>1 DEF TasksQueueOptions
<1>3. "size" \notin DOMAIN NoOptions
  BY DEF NoOptions
<1> QED
  BY <1>1, <1>2, <1>3, OptionTypes

\* The sets of tasks are finite.
LEMMA FlightSets ==
  ASSUME Typed, NEW w \in Ids
  PROVE  /\ IsFiniteSet(inFlight[w]) /\ Cardinality(inFlight[w]) \in Nat
         /\ executing[w] \in Nat /\ inFlight[w] \subseteq 1 .. Tasks
<1>1. inFlight[w] \subseteq 1 .. Tasks /\ executing[w] \in Nat
  BY DEF Typed
<1>2. IsFiniteSet(1 .. Tasks)
  BY FS_Interval, NodeIds
<1>3. IsFiniteSet(inFlight[w])
  BY <1>1, <1>2, FS_Subset
<1> QED
  BY <1>1, <1>3, FS_CardinalityType

LEMMA FlightKept ==
  ASSUME NEW w \in Ids, FlightOf(w), Typed,
         UNCHANGED <<executing, inFlight>>,
         tasksQueueOptions.concurrency \in Nat,
         tasksQueueOptions'.concurrency \in Nat,
         tasksQueueOptions'.concurrency >= tasksQueueOptions.concurrency,
         Keeps(Executes), tasksQueue'[w] # <<>> => tasksQueue[w] # <<>>
  PROVE  FlightOf(w)'
<1>1. /\ executing[w] \in Nat /\ Cardinality(inFlight[w]) \in Nat
  BY FlightSets
<1>2. w \in NodesAt(stack', Executes) => w \in NodesAt(stack, Executes)
  BY DEF Keeps, FewerAt
<1>3. lost' = {} => /\ lost = {}
                    /\ w \in NodesAt(stack, Executes) =>
                         w \in NodesAt(stack', Executes)
  BY DEF Keeps, SameAt
<1>4. executing' = executing /\ inFlight' = inFlight
  OBVIOUS
<1> DEFINE before == tasksQueueOptions.concurrency
           after == tasksQueueOptions'.concurrency
<1>5. before \in Nat /\ after \in Nat /\ after >= before
  OBVIOUS
<1> HIDE DEF before, after
<1>6. executing'[w] <= after
        + (IF w \in NodesAt(stack', Executes) THEN 0 ELSE 1)
  <2>1. executing[w] <= before
          + (IF w \in NodesAt(stack, Executes) THEN 0 ELSE 1)
    BY DEF FlightOf, before
  <2> QED
    BY <1>1, <1>2, <1>4, <1>5, <2>1
<1> QED
  BY <1>3, <1>4, <1>6 DEF FlightOf, after

\* The steps that send no task and count none.
FewerQueued == \A w \in Ids : tasksQueue'[w] # <<>> => tasksQueue[w] # <<>>

LEMMA FlightQuiet ==
  ASSUME FlightInv, Typed, OptionsInv, OptionsInv', strayed => strayed',
         UNCHANGED <<executing, inFlight>>, FewerQueued, Keeps(Executes),
         ~strayed' => tasksQueueOptions'.concurrency >= tasksQueueOptions.concurrency
  PROVE  FlightInv'
<1> SUFFICES ASSUME ~strayed'
             PROVE  OnceAt(stack', Executes) /\ \A w \in Ids : FlightOf(w)'
  BY DEF FlightInv
<1>1. OnceAt(stack, Executes) /\ \A w \in Ids : FlightOf(w)
  BY DEF FlightInv
<1>2. OnceAt(stack', Executes)
  BY <1>1 DEF Keeps, FewerAt
<1>3. /\ tasksQueueOptions.concurrency \in Nat
      /\ tasksQueueOptions'.concurrency \in Nat
  BY OptionTypes DEF OptionsInv
<1>4. ASSUME NEW w \in Ids PROVE FlightOf(w)'
  BY <1>1, <1>3, <1>4, FlightKept DEF FewerQueued
<1> QED
  BY <1>2, <1>4

LEMMA FewerTaken ==
  ASSUME Typed, NEW w \in Ids, tasksQueue[w] # <<>>,
         tasksQueue' = Popped(w) \/ tasksQueue' = Dequeued(w)
  PROVE  FewerQueued
<1>1. \A v \in Ids : v # w => tasksQueue'[v] = tasksQueue[v]
  BY DEF Typed, Popped, Dequeued
<1> QED
  BY <1>1 DEF FewerQueued

LEMMA FlightQuietSteps ==
  ASSUME BaseInv, SwitchInv, Next, ~strayed', ~Deliver, ~Run,
         \A w \in Ids, t \in 1 .. Tasks : ~Answer(w, t)
  PROVE  /\ Keeps(Executes) /\ UNCHANGED <<executing, inFlight>> /\ FewerQueued
         /\ tasksQueueOptions'.concurrency >= tasksQueueOptions.concurrency
<1> DEFINE K == Executes
           Rest == /\ UNCHANGED <<executing, inFlight>> /\ FewerQueued
                   /\ tasksQueueOptions'.concurrency >= tasksQueueOptions.concurrency
<1>s. ~strayed
  BY BaseParts, StrayedStays
<1>o. /\ enableTasksQueue /\ tasksQueueOptions.concurrency \in Nat \ {0}
  BY <1>s, BaseParts, OptionsOn
<1>n. tasksQueueOptions.concurrency >= tasksQueueOptions.concurrency
  BY <1>o
<1>q. tasksQueue' = tasksQueue => FewerQueued
  BY DEF FewerQueued
<1>k. /\ K \cap (Loops \cup Robs) = {} /\ K \cap (Robs \cup Gives \cup Starts) = {}
      /\ K \cap Sleeps = {} /\ K \cap (Begins \cup Sorts) = {}
      /\ K \cap (Sorts \cup Gives \cup Starts) = {} /\ K \cap Ends = {}
      /\ K \cap (Empties \cup Gives \cup Starts) = {} /\ K \cap Entries = {}
      /\ K \cap (Delivers \cup Entries) = {} /\ K \cap (Loops \cup Entries) = {}
      /\ K \cap (Empties \cup Entries) = {} /\ K \cap {} = {}
  BY DEF Executes, Delivers, Loops, Robs, Gives, Starts, Sleeps,
     Begins, Sorts, Ends, Empties, Entries
<1> SUFFICES Keeps(K) /\ Rest
  OBVIOUS
<1> HIDE DEF K
<1>1. CASE Step
  <2>1. CASE StealOnEmptyQueue
    <3>1. UNCHANGED <<executing, inFlight, tasksQueueOptions>>
      BY <2>1 DEF StealOnEmptyQueue, optionVars
    <3>2. FewerQueued
      <4>1. CASE tasksQueue' = tasksQueue
        BY <1>q, <4>1
      <4>2. ASSUME NEW source \in Richest(Top.node), tasksQueue' = Popped(source)
            PROVE  FewerQueued
        <5>1. source \in Ids /\ tasksQueue[source] # <<>>
          BY BaseParts, RichestListed
        <5> QED
          BY <4>2, <5>1, BaseParts, FewerTaken
      <4> QED
        BY <2>1, <4>1, <4>2 DEF StealOnEmptyQueue
    <3> QED
      BY <1>k, <1>n, <2>1, <3>1, <3>2, StealOnEmptyQueueMoves, GoesKeeps
  <2>2. CASE StealOnBackPressure
    <3>1. UNCHANGED <<executing, inFlight, tasksQueueOptions>>
      BY <2>2 DEF StealOnBackPressure, optionVars
    <3>2. FewerQueued
      <4>1. CASE tasksQueue' = tasksQueue
        BY <1>q, <4>1
      <4>2. CASE Queued(Top.node) > 0 /\ tasksQueue' = Popped(Top.node)
        <5>1. Top.node \in Ids
          BY <2>2, BaseParts, TopCall, FrameTypes, ListedIds DEF StealOnBackPressure, At
        <5>2. tasksQueue[Top.node] # <<>>
          BY <4>2, <5>1, BaseParts, QueuedTasks
        <5> QED
          BY <4>2, <5>1, <5>2, BaseParts, FewerTaken
      <4> QED
        BY <2>2, <4>1, <4>2 DEF StealOnBackPressure
    <3> QED
      BY <1>k, <1>n, <2>2, <3>1, <3>2, StealOnBackPressureMoves, GoesKeeps
  <2>3. CASE Redistribute
    <3>1. UNCHANGED <<executing, inFlight, tasksQueueOptions>>
      BY <2>3 DEF Redistribute, optionVars
    <3>2. FewerQueued
      <4>1. CASE tasksQueue' = tasksQueue
        BY <1>q, <4>1
      <4>2. CASE Queued(Top.node) > 0 /\ tasksQueue' = Dequeued(Top.node)
        <5>1. Top.node \in Ids
          BY <2>3, BaseParts, TopCall, FrameTypes, ListedIds DEF Redistribute, At
        <5>2. tasksQueue[Top.node] # <<>>
          BY <4>2, <5>1, BaseParts, QueuedTasks
        <5> QED
          BY <4>2, <5>1, <5>2, BaseParts, FewerTaken
      <4> QED
        BY <2>3, <4>1, <4>2 DEF Redistribute
    <3> QED
      BY <1>k, <1>n, <2>3, <3>1, <3>2, RedistributeMoves, GoesKeeps
  <2>4. CASE Flush \/ TasksQueueDisabled
    <3>1. stack # <<>> /\ Top.at \in Switches
      BY <2>4 DEF Flush, TasksQueueDisabled, At, Switches
    <3> QED
      BY <1>s, <3>1, BaseParts, SwitchedOff
  <2>5. CASE StartOnEmptyQueue
    <3>1. UNCHANGED <<executing, inFlight, tasksQueueOptions, tasksQueue>>
      BY <2>5 DEF StartOnEmptyQueue, optionVars, queueVars
    <3> QED
      BY <1>k, <1>n, <1>q, <2>5, <3>1, StartOnEmptyQueueMoves, GoesKeeps
  <2>6. CASE Sleep
    <3>1. UNCHANGED <<executing, inFlight, tasksQueueOptions, tasksQueue>>
      BY <2>6 DEF Sleep, optionVars, queueVars
    <3> QED
      BY <1>k, <1>n, <1>q, <2>6, <3>1, SleepMoves, GoesKeeps
  <2>7. CASE OnBackPressure
    <3>1. UNCHANGED <<executing, inFlight, tasksQueueOptions, tasksQueue>>
      BY <2>7 DEF OnBackPressure, optionVars, queueVars
    <3> QED
      BY <1>k, <1>n, <1>q, <2>7, <3>1, OnBackPressureMoves, GoesKeeps
  <2>8. CASE OnBackPressureEnd
    <3>1. UNCHANGED <<executing, inFlight, tasksQueueOptions, tasksQueue>>
      BY <2>8 DEF OnBackPressureEnd, optionVars, queueVars
    <3> QED
      BY <1>k, <1>n, <1>q, <2>8, <3>1, OnBackPressureEndMoves, GoesKeeps
  <2>9. CASE Return
    <3>1. UNCHANGED <<executing, inFlight, tasksQueueOptions, tasksQueue>>
      BY <2>9 DEF Return, optionVars, queueVars
    <3> QED
      BY <1>k, <1>n, <1>q, <2>9, <3>1, ReturnMoves, GoesKeeps
  <2> QED
    BY <1>1, <2>1, <2>2, <2>3, <2>4, <2>5, <2>6, <2>7, <2>8, <2>9 DEF Step
<1>2. ASSUME NEW t \in 1 .. Tasks, NEW w \in Listed, Execute(t, w)
      PROVE  Keeps(K) /\ Rest
  <2>1. /\ UNCHANGED <<executing, inFlight, tasksQueueOptions, tasksQueue>>
    BY <1>2 DEF Execute, optionVars, queueVars
  <2>2. Goes(Delivers \cup Entries)
    BY <1>2, <1>o, ExecuteMoves DEF Goes
  <2> QED
    BY <1>k, <1>n, <1>q, <2>1, <2>2, GoesKeeps
<1>3. ASSUME NEW w \in Ids, Timer(w) PROVE Keeps(K) /\ Rest
  <2>1. UNCHANGED <<executing, inFlight, tasksQueueOptions, tasksQueue>>
    BY <1>3 DEF Timer, optionVars, queueVars
  <2> QED
    BY <1>k, <1>3, <1>n, <1>q, <2>1, TimerMoves, GoesKeeps
<1>4. ASSUME NEW w \in Ids, WorkerError(w) PROVE Keeps(K) /\ Rest
  <2>1. UNCHANGED <<executing, inFlight, tasksQueueOptions, tasksQueue>>
    BY <1>4 DEF WorkerError, optionVars, queueVars
  <2> QED
    BY <1>k, <1>4, <1>n, <1>q, <2>1, WorkerErrorMoves, GoesKeeps
<1>5. CASE Silent
  <2> DEFINE none == {}
  <2>1. Goes(none) /\ K \cap none = {}
    BY <1>5, SilentMoves
  <2> HIDE DEF none
  <2>2. Keeps(K)
    BY <2>1, GoesKeeps
  <2>3. UNCHANGED <<executing, inFlight, tasksQueue>>
    BY <1>5 DEF Silent, NodeDestroyed, WorkerExit, SetTasksQueueOptions,
       RefuseTasksQueueOptions, queueVars
  <2>4. ASSUME NEW given \in LaterOptions, SetTasksQueueOptions(given)
        PROVE  tasksQueueOptions'.concurrency >= tasksQueueOptions.concurrency
    <3> DEFINE options == BuildTasksQueueOptions(given)
    <3>1. /\ options \in TasksQueueOptions /\ tasksQueueOptions' = options
          /\ ~ (options.concurrency < tasksQueueOptions.concurrency)
      BY <2>4, OptionsAssumption DEF SetTasksQueueOptions
    <3> HIDE DEF options
    <3> QED
      BY <1>o, <3>1, OptionTypes
  <2>5. CASE tasksQueueOptions' = tasksQueueOptions
    BY <1>n, <1>q, <2>2, <2>3, <2>5
  <2>6. tasksQueueOptions' = tasksQueueOptions
        \/ \E given \in LaterOptions : SetTasksQueueOptions(given)
    BY <1>5, <1>o DEF Silent, NodeDestroyed, WorkerExit, RefuseTasksQueueOptions,
       optionVars
  <2> QED
    BY <1>q, <2>2, <2>3, <2>4, <2>5, <2>6
<1>6. CASE DisableTasksQueue
  BY <1>6 DEF DisableTasksQueue
<1> QED
  BY <1>1, <1>2, <1>3, <1>4, <1>5, <1>6, StepCases

\* A task is sent to the worker of the node that counts it.
LEMMA FlightSent ==
  ASSUME BaseInv, stack # <<>>, NEW w \in Ids, NEW t \in 1 .. Tasks,
         Top.task = t, ExecuteTask(w, t), Top.at \in Executes => Top.node = w,
         UNCHANGED <<tasksQueue, workerNodes, open, answered, keyOfTask,
                     tasksQueueOptions>>,
         tasksQueueOptions.concurrency \in Nat,
         OnceAt(stack, Executes), \A v \in Ids : FlightOf(v),
         executing[w] < tasksQueueOptions.concurrency \/ Top.at \in Executes
  PROVE  OnceAt(stack', Executes) /\ \A v \in Ids : FlightOf(v)'
<1> DEFINE before == NodesAt(stack, Executes)
           below == NodesAt(Callers, Executes)
           after == NodesAt(stack', Executes)
           most == tasksQueueOptions.concurrency
<1>1. /\ \A x : x \in before <=> x \in below \/ (Top.at \in Executes /\ x = Top.node)
      /\ OnceAt(Callers, Executes)
      /\ Top.at \in Executes => Top.node \notin below
  BY BaseParts, TopAt
<1>2. /\ t \in TasksIn(stack) /\ t \notin inFlight[w]
  <2>1. 1 \in DOMAIN stack /\ stack[1] = Top
    BY BaseParts, LenProperties, EmptySeq DEF StackInv, Top
  <2>2. t \in TasksIn(stack)
    BY <2>1, NodeIds DEF TasksIn
  <2> QED
    BY <2>2 DEF BaseInv, PlacesInv, OnePlace
<1>3. \A v \in Ids : executing'[v] =
        IF v = w THEN executing[w] + 1 ELSE executing[v]
  BY BaseParts DEF ExecuteTask, Typed
<1>4. /\ OnceAt(stack', Executes) /\ after \subseteq below
      /\ lost' = {} => lost = {} /\ after = below
      /\ lost' = {} =>
           \A v \in Ids : Cardinality(inFlight'[v]) =
             IF v = w THEN Cardinality(inFlight[w]) + 1 ELSE Cardinality(inFlight[v])
      /\ \A v \in Ids : Cardinality(inFlight'[v]) <=
           IF v = w THEN Cardinality(inFlight[w]) + 1 ELSE Cardinality(inFlight[v])
  <2>0. \A v \in Ids : Cardinality(inFlight[v]) \in Nat
    BY BaseParts, FlightSets
  <2>1. CASE open[w]
    <3>1. /\ inFlight' = [inFlight EXCEPT ![w] = @ \cup {t}]
          /\ stack' = Callers /\ lost' = lost
      BY <2>1 DEF ExecuteTask, endVars
    <3>2. \A v \in Ids : inFlight'[v] =
            IF v = w THEN inFlight[w] \cup {t} ELSE inFlight[v]
      BY <3>1, BaseParts DEF Typed
    <3>3. Cardinality(inFlight[w] \cup {t}) = Cardinality(inFlight[w]) + 1
      BY <1>2, BaseParts, FlightSets, FS_AddElement
    <3>4. \A v \in Ids : Cardinality(inFlight'[v]) =
             IF v = w THEN Cardinality(inFlight[w]) + 1 ELSE Cardinality(inFlight[v])
      BY <3>2, <3>3
    <3>5. \A v \in Ids : Cardinality(inFlight'[v]) <=
             IF v = w THEN Cardinality(inFlight[w]) + 1 ELSE Cardinality(inFlight[v])
      BY <2>0, <3>4
    <3>6. after = below /\ OnceAt(stack', Executes) /\ lost' = lost
      BY <1>1, <3>1
    <3> HIDE DEF after, below
    <3> QED
      BY <3>4, <3>5, <3>6
  <2>2. CASE ~open[w]
    <3>1. Throw /\ UNCHANGED inFlight
      BY <2>2 DEF ExecuteTask
    <3>2. Fails
      BY <2>2, <3>1, ThrowMoves
    <3>3. OnceAt(stack', Executes) /\ after \subseteq below
      BY <1>1, <3>2 DEF Fails, Drops, FewerAt
    <3> QED
      BY <2>0, <3>1, <3>2, <3>3 DEF Fails
  <2> QED
    BY <2>1, <2>2
<1>5. \A v \in Ids : /\ Cardinality(inFlight[v]) \in Nat /\ executing[v] \in Nat
                     /\ Cardinality(inFlight'[v]) \in Int
  <2>1. \A v \in Ids : /\ Cardinality(inFlight[v]) \in Nat /\ executing[v] \in Nat
    BY BaseParts, FlightSets
  <2>2. ASSUME NEW v \in Ids PROVE Cardinality(inFlight'[v]) \in Int
    <3>1. IsFiniteSet(inFlight[v] \cup {t})
      BY BaseParts, FlightSets, FS_AddElement
    <3>2. inFlight'[v] \in {inFlight[v], inFlight[v] \cup {t}}
      BY BaseParts DEF ExecuteTask, Typed
    <3>3. IsFiniteSet(inFlight'[v])
      BY <3>1, <3>2, BaseParts, FlightSets
    <3> QED
      BY <3>3, FS_CardinalityType
  <2> QED
    BY <2>1, <2>2
<1>6. most \in Nat /\ tasksQueueOptions' = tasksQueueOptions
  OBVIOUS
<1>7. ASSUME NEW v \in Ids PROVE FlightOf(v)'
  <2>1. /\ Cardinality(inFlight[v]) <= executing[v]
        /\ executing[v] <= most + (IF v \in before THEN 0 ELSE 1)
        /\ lost = {} =>
             /\ Cardinality(inFlight[v]) = executing[v]
             /\ tasksQueue[v] # <<>> => executing[v] > 0 \/ v \in before
    BY DEF FlightOf
  <2>2. Cardinality(inFlight'[v]) <= executing'[v]
    BY <1>3, <1>4, <1>5, <2>1
  <2>3. executing'[v] <= most + (IF v \in after THEN 0 ELSE 1)
    <3> HIDE DEF before, below, after, most
    <3>1. CASE v = w
      <4>1. CASE Top.at \in Executes
        BY <1>1, <1>3, <1>4, <1>5, <1>6, <2>1, <3>1, <4>1
      <4>2. CASE executing[w] < most
        BY <1>3, <1>5, <1>6, <3>1, <4>2
      <4> QED
        BY <4>1, <4>2 DEF most
    <3>2. CASE v # w
      BY <1>1, <1>3, <1>4, <1>5, <1>6, <2>1, <3>2
    <3> QED
      BY <3>1, <3>2
  <2>4. ASSUME lost' = {}
        PROVE  /\ Cardinality(inFlight'[v]) = executing'[v]
               /\ tasksQueue'[v] # <<>> => executing'[v] > 0 \/ v \in after
    <3> HIDE DEF before, below, after, most
    <3>1. CASE v = w
      BY <1>3, <1>4, <1>5, <2>1, <2>4, <3>1
    <3>2. CASE v # w
      BY <1>1, <1>3, <1>4, <1>5, <2>1, <2>4, <3>2
    <3> QED
      BY <3>1, <3>2
  <2> QED
    BY <1>6, <2>2, <2>3, <2>4 DEF FlightOf
<1> QED
  BY <1>4, <1>7

LEMMA FlightDelivered ==
  ASSUME BaseInv, FlightInv, OptionsInv', Deliver, ~strayed'
  PROVE  FlightInv'
<1>1. /\ stack # <<>> /\ Top.at = "deliver" /\ Top.at \notin Executes
      /\ UNCHANGED <<answered, keyOfTask, open, workerNodes, tasksQueueOptions,
                     strayed>>
  BY DEF Deliver, At, taskVars, listVars, optionVars, Executes
<1>2. /\ OnceAt(stack, Executes) /\ \A w \in Ids : FlightOf(w)
      /\ tasksQueueOptions.concurrency \in Nat \ {0}
      /\ tasksQueueOptions # NoOptions
  BY <1>1, BaseParts, OptionsOn DEF FlightInv
<1>3. tasksQueueOptions'.concurrency >= tasksQueueOptions.concurrency
  BY <1>1, <1>2
<1>4. Executes \cap (Delivers \cup Leaves) = {}
  BY DEF Executes, Delivers, Leaves
<1>5. Keeps(Executes)
  BY <1>4, DeliverMoves, GoesKeeps
<1>6. Top.node \in Receivers /\ Top.task \in 1 .. Tasks
  BY <1>1, BaseParts, TopCall, FrameTypes
<1>7. CASE Top.node = None
  <2>1. UNCHANGED <<executing, inFlight, tasksQueue>>
    BY <1>7 DEF Deliver, queueVars
  <2>2. FewerQueued
    BY <2>1 DEF FewerQueued
  <2> QED
    BY <1>1, <1>3, <1>5, <2>1, <2>2, BaseParts, FlightQuiet
<1>8. CASE Top.node # None
  <2>1. Top.node \in Listed /\ Top.node \in Ids
    BY <1>6, <1>8, BaseParts, ListedIds DEF Receivers
  <2>2. CASE ShallExecuteTask(Top.node)
    <3>1. /\ ExecuteTask(Top.node, Top.task) /\ UNCHANGED tasksQueue
          /\ executing[Top.node] < tasksQueueOptions.concurrency
      BY <1>8, <2>2 DEF Deliver, ShallExecuteTask, HasRoom
    <3> QED
      BY <1>1, <1>2, <1>6, <2>1, <3>1, FlightSent DEF FlightInv
  <2>3. CASE ~ShallExecuteTask(Top.node)
    <3>1. /\ EnqueueTask(Top.node, Top.task)
          /\ UNCHANGED <<executing, inFlight, lost>>
      BY <1>8, <2>3 DEF Deliver, endVars
    <3>2. \A v \in Ids : v # Top.node => tasksQueue'[v] = tasksQueue[v]
      BY <3>1, BaseParts DEF EnqueueTask, Typed
    <3>3. OnceAt(stack', Executes)
      BY <1>2, <1>5 DEF Keeps, FewerAt
    <3>4. /\ NodesAt(stack', Executes) \subseteq NodesAt(stack, Executes)
          /\ lost' = {} => NodesAt(stack', Executes) = NodesAt(stack, Executes)
      BY <1>5 DEF Keeps, FewerAt, SameAt
    <3>5. ASSUME NEW v \in Ids, v # Top.node PROVE FlightOf(v)'
      <4>1. tasksQueue'[v] # <<>> => tasksQueue[v] # <<>>
        BY <3>2, <3>5
      <4>2. tasksQueueOptions'.concurrency \in Nat
        BY <1>1, <1>2
      <4> QED
        BY <1>2, <1>3, <1>5, <3>1, <4>1, <4>2, BaseParts, FlightKept
    <3>6. ASSUME NEW w \in Ids, w = Top.node PROVE FlightOf(w)'
      <4>1. w \in Ids
        OBVIOUS
      <4>2. executing[w] \in Nat
        BY BaseParts, FlightSets
      <4>3. lost = {} => executing[w] > 0 \/ w \in NodesAt(stack, Executes)
        <5>1. tasksQueue[w] # <<>> \/ ~ (executing[w] < tasksQueueOptions.concurrency)
          BY <1>2, <2>3, <3>6 DEF ShallExecuteTask, HasRoom
        <5>2. tasksQueue[w] # <<>> /\ lost = {} =>
                executing[w] > 0 \/ w \in NodesAt(stack, Executes)
          BY <1>2 DEF FlightOf
        <5>3. ~ (executing[w] < tasksQueueOptions.concurrency) => executing[w] > 0
          BY <1>2, <4>2
        <5> QED
          BY <5>1, <5>2, <5>3
      <4>4. FlightOf(w)
        BY <1>2
      <4>5. tasksQueueOptions' = tasksQueueOptions /\ executing' = executing
            /\ inFlight' = inFlight /\ lost' = lost
        BY <1>1, <3>1
      <4> DEFINE most == tasksQueueOptions.concurrency
      <4>6. executing[w] <= most + (IF w \in NodesAt(stack', Executes) THEN 0 ELSE 1)
        <5>1. executing[w] <= most + (IF w \in NodesAt(stack, Executes) THEN 0 ELSE 1)
          BY <4>4 DEF FlightOf
        <5>2. most \in Nat
          BY <1>2
        <5> HIDE DEF most
        <5> QED
          BY <3>4, <4>2, <5>1, <5>2
      <4> QED
        BY <3>4, <4>3, <4>4, <4>5, <4>6 DEF FlightOf
    <3> QED
      BY <3>3, <3>5, <3>6 DEF FlightInv
  <2> QED
    BY <2>2, <2>3
<1> QED
  BY <1>7, <1>8

LEMMA FlightRun ==
  ASSUME BaseInv, FlightInv, Run, ~strayed'
  PROVE  FlightInv'
<1>1. /\ stack # <<>> /\ Top.at = "executeTask" /\ Top.at \in Executes
      /\ ExecuteTask(Top.node, Top.task)
      /\ UNCHANGED <<tasksQueue, answered, keyOfTask, open, workerNodes,
                     tasksQueueOptions, strayed>>
  BY DEF Run, At, taskVars, listVars, optionVars, Executes
<1>2. Top.node \in Ids /\ Top.task \in 1 .. Tasks
  BY <1>1, BaseParts, TopCall, FrameTypes, ListedIds
<1>3. /\ OnceAt(stack, Executes) /\ \A w \in Ids : FlightOf(w)
      /\ tasksQueueOptions.concurrency \in Nat
  BY <1>1, BaseParts, OptionsOn DEF FlightInv
<1> QED
  BY <1>1, <1>2, <1>3, FlightSent DEF FlightInv

\* The next task of the node that answers, with the calls of onEmptyQueue first.
LEMMA PushExecute ==
  ASSUME NEW v \in Ids, NEW w \in Listed, NEW t \in 1 .. Tasks,
         stack' = EmptyQueueCalls(v) \o <<Frame("executeTask", w, t), Listener>>
  PROVE  /\ \A x : x \in NodesAt(stack', Executes) <=> x = w
         /\ OnceAt(stack', Executes)
<1> DEFINE e == Frame("executeTask", w, t)
           f == Frame("startOnEmptyQueue", v, None)
           r == <<e, Listener>>
           calls == EmptyQueueCalls(v)
<1>1. /\ e \in Frames /\ e.at \in Executes /\ e.node = w
      /\ Listener \in Frames /\ Listener.at \notin Executes
      /\ f \in Frames /\ f.at \notin Executes
  BY DEF Frame, Frames, Listener, Executes
<1>2. calls = <<>> \/ calls = <<f>>
  BY DEF EmptyQueueCalls
<1>3. stack' = calls \o r
  OBVIOUS
<1> HIDE DEF e, f, calls
<1>4. r \in Seq(Frames) /\ DOMAIN r = {1, 2} /\ r[1] = e /\ r[2] = Listener
  BY <1>1
<1> HIDE DEF r
<1>5. /\ \A x : x \in NodesAt(r, Executes) <=> x = w
      /\ OnceAt(r, Executes)
  BY <1>1, <1>4 DEF NodesAt, OnceAt
<1>6. CASE calls = <<>>
  <2>1. stack' = r
    BY <1>3, <1>4, <1>6, ConcatEmptySeq
  <2> QED
    BY <1>5, <2>1
<1>7. CASE calls = <<f>>
  <2>1. stack' = <<f>> \o r
    BY <1>3, <1>7
  <2>2. /\ \A x : x \in NodesAt(stack', Executes) <=>
                  x \in NodesAt(r, Executes) \/ (f.at \in Executes /\ x = f.node)
        /\ OnceAt(stack', Executes) <=>
             OnceAt(r, Executes) /\ (f.at \in Executes => f.node \notin NodesAt(r, Executes))
    <3>1. f \in Frames /\ r \in Seq(Frames)
      BY <1>1, <1>4
    <3> QED
      BY ONLY <2>1, <3>1, PushAt
  <2> QED
    BY <1>1, <1>5, <2>2
<1> QED
  BY <1>2, <1>6, <1>7

\* While counts are those of the workers, an answer is counted for the node of
\* the worker that answers.
LEMMA AnswerCases ==
  ASSUME BaseInv, NEW w \in Ids, NEW t \in 1 .. Tasks, Answer(w, t), ~strayed'
  PROVE  /\ stack = <<>> /\ t \in inFlight[w] /\ ~strayed /\ w \in Listed
         /\ UNCHANGED <<tasksQueueOptions, lost>>
         /\ \A v \in Ids : inFlight'[v] =
              IF v = w THEN inFlight[w] \ {t} ELSE inFlight[v]
         /\ \A v \in Ids : executing'[v] =
              IF v = w THEN OneFewer(executing[w]) ELSE executing[v]
         /\ \/ /\ Queued(w) > 0 /\ HasRoom(OneFewer(executing[w]))
               /\ tasksQueue' = Dequeued(w)
               /\ stack' = EmptyQueueCalls(w)
                    \o <<Frame("executeTask", w, tasksQueue[w][1]), Listener>>
            \/ /\ UNCHANGED <<tasksQueue, stack>>
               /\ ~ (Queued(w) > 0 /\ HasRoom(OneFewer(executing[w])))
<1> DEFINE key == keyOfTask[t]
<1>1. /\ stack = <<>> /\ t \in inFlight[w]
      /\ inFlight' = [inFlight EXCEPT ![w] = @ \ {t}]
      /\ strayed' = (strayed \/ key # Position(w))
      /\ UNCHANGED <<tasksQueueOptions, lost>>
  BY DEF Answer, Idle, optionVars
<1>2. ~strayed /\ key = Position(w)
  BY <1>1
<1>3. key # None
  BY <1>1 DEF BaseInv, PlacesInv, OnePlace, Somewhere
<1>4. w \in Listed
  BY <1>2, <1>3 DEF Position
<1>5. key \in DOMAIN workerNodes /\ workerNodes[key] = w
  BY <1>2, <1>4, PositionOf
<1>6. enableTasksQueue
  BY <1>2, BaseParts, OptionsOn
<1> DEFINE free(node) == HasRoom(OneFewer(executing[node]))
<1>7. /\ executing' = [executing EXCEPT ![w] = OneFewer(@)]
      /\ IF Queued(w) > 0 /\ HasRoom(OneFewer(executing[w]))
           THEN /\ tasksQueue' = Dequeued(w)
                /\ stack' = EmptyQueueCalls(w)
                     \o <<Frame("executeTask", w, tasksQueue[w][1]), Listener>>
           ELSE UNCHANGED <<tasksQueue, stack>>
  BY <1>5, <1>6 DEF Answer
<1>8. \A v \in Ids : inFlight'[v] = IF v = w THEN inFlight[w] \ {t} ELSE inFlight[v]
  BY <1>1, BaseParts DEF Typed
<1>9. \A v \in Ids : executing'[v] =
        IF v = w THEN OneFewer(executing[w]) ELSE executing[v]
  BY <1>7, BaseParts DEF Typed
<1> QED
  BY <1>1, <1>2, <1>4, <1>7, <1>8, <1>9

LEMMA FlightAnswered ==
  ASSUME BaseInv, FlightInv, NEW w \in Ids, NEW t \in 1 .. Tasks, Answer(w, t),
         ~strayed'
  PROVE  FlightInv'
<1> DEFINE most == tasksQueueOptions.concurrency
<1>1. /\ stack = <<>> /\ t \in inFlight[w] /\ ~strayed /\ w \in Listed
      /\ UNCHANGED <<tasksQueueOptions, lost>>
      /\ \A v \in Ids : inFlight'[v] =
           IF v = w THEN inFlight[w] \ {t} ELSE inFlight[v]
      /\ \A v \in Ids : executing'[v] =
           IF v = w THEN OneFewer(executing[w]) ELSE executing[v]
      /\ \/ /\ Queued(w) > 0 /\ HasRoom(OneFewer(executing[w]))
            /\ tasksQueue' = Dequeued(w)
            /\ stack' = EmptyQueueCalls(w)
                 \o <<Frame("executeTask", w, tasksQueue[w][1]), Listener>>
         \/ /\ UNCHANGED <<tasksQueue, stack>>
            /\ ~ (Queued(w) > 0 /\ HasRoom(OneFewer(executing[w])))
  BY AnswerCases
<1>2. /\ most \in Nat \ {0} /\ tasksQueueOptions # NoOptions
      /\ \A v \in Ids : FlightOf(v)
  BY <1>1, BaseParts, OptionsOn DEF FlightInv
<1>3. NodesAt(stack, Executes) = {} /\ OnceAt(stack, Executes)
  BY <1>1 DEF NodesAt, OnceAt
<1>4. \A v \in Ids : Cardinality(inFlight[v]) \in Nat /\ executing[v] \in Nat
  BY BaseParts, FlightSets
<1>5. /\ Cardinality(inFlight'[w]) = Cardinality(inFlight[w]) - 1
      /\ Cardinality(inFlight'[w]) \in Nat
  <2>1. IsFiniteSet(inFlight[w])
    BY BaseParts, FlightSets
  <2>2. /\ IsFiniteSet(inFlight[w] \ {t})
        /\ Cardinality(inFlight[w] \ {t}) = Cardinality(inFlight[w]) - 1
    BY <1>1, <2>1, FS_RemoveElement
  <2> QED
    BY <1>1, <2>2, FS_CardinalityType
<1>6. executing'[w] = executing[w] - 1 /\ executing[w] >= 1
  <2>1. Cardinality(inFlight[w]) <= executing[w]
    BY <1>2 DEF FlightOf
  <2>2. executing[w] >= 1
    BY <1>4, <1>5, <2>1
  <2>3. OneFewer(executing[w]) = executing[w] - 1
    BY <1>4, <2>2 DEF OneFewer
  <2> QED
    BY <1>1, <2>2, <2>3
<1>7. /\ OnceAt(stack', Executes)
      /\ \A v \in Ids : v \in NodesAt(stack', Executes) => v = w
      /\ w \in NodesAt(stack', Executes) => executing'[w] < most
      /\ w \notin NodesAt(stack', Executes) /\ tasksQueue'[w] # <<>> =>
           executing'[w] >= most
      /\ \A v \in Ids : v # w => tasksQueue'[v] = tasksQueue[v]
  <2>0. \A c : HasRoom(c) <=> c < most
    BY <1>2 DEF HasRoom
  <2>9. executing'[w] = OneFewer(executing[w])
    BY <1>1
  <2>1. CASE /\ Queued(w) > 0 /\ HasRoom(OneFewer(executing[w]))
             /\ tasksQueue' = Dequeued(w)
             /\ stack' = EmptyQueueCalls(w)
                  \o <<Frame("executeTask", w, tasksQueue[w][1]), Listener>>
    <3>1. tasksQueue[w] # <<>>
      BY <2>1, BaseParts, QueuedTasks
    <3>2. tasksQueue[w][1] \in 1 .. Tasks
      BY <3>1, BaseParts, ShiftedQueue
    <3>3. /\ \A x : x \in NodesAt(stack', Executes) <=> x = w
          /\ OnceAt(stack', Executes)
      BY <1>1, <2>1, <3>2, PushExecute
    <3>4. \A v \in Ids : v # w => tasksQueue'[v] = tasksQueue[v]
      BY <2>1, BaseParts DEF Dequeued, Typed
    <3> QED
      BY <2>0, <2>1, <2>9, <3>3, <3>4
  <2>2. CASE /\ UNCHANGED <<tasksQueue, stack>>
             /\ ~ (Queued(w) > 0 /\ HasRoom(OneFewer(executing[w])))
    <3>1. NodesAt(stack', Executes) = {} /\ OnceAt(stack', Executes)
      BY <1>3, <2>2
    <3>2. tasksQueue[w] # <<>> => ~ (OneFewer(executing[w]) < most)
      BY <2>0, <2>2, BaseParts, QueuedTasks
    <3>3. tasksQueue'[w] # <<>> => executing'[w] >= most
      BY <1>2, <1>4, <1>6, <2>2, <2>9, <3>2
    <3> QED
      BY <2>2, <3>1, <3>3
  <2> QED
    BY <1>1, <2>1, <2>2
<1>8. tasksQueueOptions' = tasksQueueOptions /\ lost' = lost
  BY <1>1
<1>9. ASSUME NEW v \in Ids, v # w PROVE FlightOf(v)'
  <2>1. FlightOf(v)
    BY <1>2
  <2>2. /\ inFlight'[v] = inFlight[v] /\ executing'[v] = executing[v]
        /\ tasksQueue'[v] = tasksQueue[v]
        /\ v \notin NodesAt(stack', Executes) /\ v \notin NodesAt(stack, Executes)
    BY <1>1, <1>3, <1>7, <1>9
  <2> QED
    BY <1>8, <2>1, <2>2 DEF FlightOf
<1>10. FlightOf(w)'
  <2>1. /\ Cardinality(inFlight[w]) <= executing[w]
        /\ executing[w] <= most + 1
        /\ lost = {} => Cardinality(inFlight[w]) = executing[w]
    BY <1>2, <1>3 DEF FlightOf
  <2> DEFINE c == Cardinality(inFlight[w])
             d == Cardinality(inFlight'[w])
             at == NodesAt(stack', Executes)
             e == executing[w]
             f == executing'[w]
  <2>2. /\ c \in Nat /\ e \in Nat /\ d = c - 1 /\ f = e - 1 /\ c <= e /\ e <= most + 1
        /\ most \in Nat \ {0} /\ (lost = {} => c = e)
        /\ w \in at => f < most
        /\ w \notin at /\ tasksQueue'[w] # <<>> => f >= most
    BY <1>2, <1>4, <1>5, <1>6, <1>7, <2>1
  <2> HIDE DEF c, d, at, e, f, most
  <2>3. /\ d <= f /\ f <= most + (IF w \in at THEN 0 ELSE 1)
        /\ lost = {} => d = f /\ (tasksQueue'[w] # <<>> => f > 0 \/ w \in at)
    BY <2>2
  <2> QED
    BY <1>8, <2>3 DEF FlightOf, c, d, at, e, f, most
<1> QED
  BY <1>7, <1>9, <1>10 DEF FlightInv

LEMMA FlightStep ==
  ASSUME BaseInv, SwitchInv, FlightInv, OptionsInv', Next
  PROVE  FlightInv'
<1> SUFFICES ASSUME ~strayed' PROVE FlightInv'
  BY DEF FlightInv
<1>1. CASE Deliver BY <1>1, FlightDelivered
<1>2. CASE Run BY <1>2, FlightRun
<1>3. ASSUME NEW w \in Ids, NEW t \in 1 .. Tasks, Answer(w, t) PROVE FlightInv'
  BY <1>3, FlightAnswered
<1>4. CASE /\ ~Deliver /\ ~Run
           /\ \A w \in Ids, t \in 1 .. Tasks : ~Answer(w, t)
  <2>1. /\ Keeps(Executes) /\ UNCHANGED <<executing, inFlight>> /\ FewerQueued
        /\ tasksQueueOptions'.concurrency >= tasksQueueOptions.concurrency
    BY <1>4, FlightQuietSteps
  <2> QED
    BY <2>1, BaseParts, StrayedStays, FlightQuiet
<1> QED
  BY <1>1, <1>2, <1>3, <1>4

-----------------------------------------------------------------------------
(* The bound of the counts.                                                *)

LEMMA StartedSet ==
  ASSUME Typed
  PROVE  /\ Started \subseteq 1 .. Tasks /\ IsFiniteSet(Started)
         /\ Cardinality(Started) \in Nat /\ Cardinality(Started) <= Tasks
<1>1. Started \subseteq 1 .. Tasks
  <2>1. /\ answered \subseteq 1 .. Tasks /\ lost \subseteq 1 .. Tasks
        /\ \A w \in Ids : inFlight[w] \subseteq 1 .. Tasks
    BY DEF Typed
  <2> QED
    BY <2>1 DEF Started
<1>2. /\ IsFiniteSet(1 .. Tasks) /\ Cardinality(1 .. Tasks) = Tasks
  <2>1. 1 \in Int /\ Tasks \in Int /\ Tasks >= 0
    BY NodeIds
  <2> QED
    BY <2>1, FS_Interval
<1> HIDE DEF Started
<1> QED
  BY <1>1, <1>2, FS_Subset, FS_CardinalityType

LEMMA StartedMore ==
  ASSUME Typed', NEW A, A \subseteq Started'
  PROVE  Cardinality(A) <= Cardinality(Started') /\ Cardinality(Started') \in Nat
<1>1. IsFiniteSet(Started')
  <2>1. Started' \subseteq 1 .. Tasks
    <3>1. /\ answered' \subseteq 1 .. Tasks /\ lost' \subseteq 1 .. Tasks
          /\ \A w \in Ids : inFlight'[w] \subseteq 1 .. Tasks
      BY DEF Typed
    <3> QED
      BY <3>1 DEF Started
  <2>2. IsFiniteSet(1 .. Tasks)
    BY FS_Interval, NodeIds
  <2> HIDE DEF Started
  <2> QED
    BY <2>1, <2>2, FS_Subset
<1> HIDE DEF Started
<1> QED
  BY <1>1, FS_Subset, FS_CardinalityType

LEMMA CountsQuiet ==
  ASSUME Typed, Typed', CountsBounded, Started \subseteq Started',
         \A v \in Ids : executing'[v] <= executing[v]
  PROVE  CountsBounded'
<1>1. Cardinality(Started) <= Cardinality(Started') /\ Cardinality(Started') \in Nat
  BY StartedMore
<1>2. Cardinality(Started) \in Nat
  BY StartedSet
<1>3. \A v \in Ids : executing[v] \in Nat /\ executing'[v] \in Nat
  BY DEF Typed
<1> HIDE DEF Started
<1> QED
  BY <1>1, <1>2, <1>3 DEF CountsBounded

LEMMA CountsSent ==
  ASSUME Typed, Typed', CountsBounded, NEW t, t \notin Started,
         Started \cup {t} \subseteq Started',
         \A v \in Ids : executing'[v] <= executing[v] + 1
  PROVE  CountsBounded'
<1> DEFINE more == Started \cup {t}
<1>1. Cardinality(more) = Cardinality(Started) + 1 /\ Cardinality(Started) \in Nat
  BY StartedSet, FS_AddElement
<1>2. more \subseteq Started'
  OBVIOUS
<1> HIDE DEF more
<1>3. Cardinality(more) <= Cardinality(Started') /\ Cardinality(Started') \in Nat
  BY <1>2, StartedMore
<1>4. \A v \in Ids : executing[v] \in Nat /\ executing'[v] \in Nat
  BY DEF Typed
<1> HIDE DEF Started
<1> QED
  BY <1>1, <1>3, <1>4 DEF CountsBounded

LEMMA ExecuteTaskCounts ==
  ASSUME BaseInv, Typed', CountsBounded, stack # <<>>, NEW w \in Ids,
         NEW t \in 1 .. Tasks, Top.task = t, ExecuteTask(w, t),
         UNCHANGED <<tasksQueue, workerNodes, open, answered, keyOfTask>>
  PROVE  CountsBounded'
<1>1. t \in TasksIn(stack)
  <2>1. 1 \in DOMAIN stack /\ stack[1] = Top
    BY BaseParts, LenProperties, EmptySeq DEF StackInv, Top
  <2> QED
    BY <2>1, NodeIds DEF TasksIn
<1>2. t \notin Started
  BY <1>1 DEF Started, BaseInv, PlacesInv, OnePlace
<1>3. \A v \in Ids : executing'[v] <= executing[v] + 1
  <2>1. \A v \in Ids : executing'[v] =
          IF v = w THEN executing[w] + 1 ELSE executing[v]
    BY BaseParts DEF ExecuteTask, Typed
  <2>2. \A v \in Ids : executing[v] \in Nat
    BY BaseParts DEF Typed
  <2> QED
    BY <2>1, <2>2
<1>4. CASE open[w]
  <2>1. /\ \A v \in Ids : inFlight'[v] =
             IF v = w THEN inFlight[w] \cup {t} ELSE inFlight[v]
        /\ lost' = lost /\ answered' = answered
    BY <1>4, BaseParts DEF ExecuteTask, endVars, Typed
  <2>2. Started \cup {t} \subseteq Started'
    BY <2>1 DEF Started
  <2> QED
    BY <1>2, <1>3, <2>2, BaseParts, CountsSent
<1>5. CASE ~open[w]
  <2>1. Throw /\ UNCHANGED inFlight
    BY <1>5 DEF ExecuteTask
  <2>2. Drops
    BY <2>1, BaseParts, ThrowDrops
  <2>3. PICK dropped : lost' = lost \cup dropped /\ t \in dropped \cup {None}
    BY <2>2 DEF Drops
  <2>4. t \in lost' /\ \A x \in lost : x \in lost'
    BY <2>3, NodeIds
  <2>5. Started \cup {t} \subseteq Started'
    BY <2>1, <2>4 DEF Started
  <2> QED
    BY <1>2, <1>3, <2>5, BaseParts, CountsSent
<1> QED
  BY <1>4, <1>5

LEMMA AnswerCounts ==
  ASSUME BaseInv, Typed', CountsBounded, NEW w \in Ids, NEW t \in 1 .. Tasks,
         Answer(w, t)
  PROVE  CountsBounded'
<1>1. /\ inFlight' = [inFlight EXCEPT ![w] = @ \ {t}]
      /\ answered' = answered \cup {t} /\ lost' = lost
  BY DEF Answer
<1>2. \A v \in Ids : inFlight'[v] = IF v = w THEN inFlight[w] \ {t} ELSE inFlight[v]
  BY <1>1, BaseParts DEF Typed
<1>3. Started \subseteq Started'
  <2>1. ASSUME NEW x \in Started PROVE x \in Started'
    <3>1. CASE x \in answered \/ x \in lost \/ x = t
      BY <1>1, <3>1 DEF Started
    <3>2. ASSUME NEW v \in Ids, x \in inFlight[v], x # t PROVE x \in Started'
      <4>1. x \in inFlight'[v]
        BY <1>2, <3>2
      <4> QED
        BY <4>1 DEF Started
    <3> QED
      BY <3>1, <3>2 DEF Started
  <2> QED
    BY <2>1
<1>4. ASSUME NEW v \in Ids PROVE executing'[v] <= executing[v]
  <2> DEFINE node == workerNodes[keyOfTask[t]]
  <2>1. \/ executing' = executing
        \/ executing' = [executing EXCEPT ![node] = OneFewer(@)]
    BY DEF Answer
  <2>2. executing'[v] = executing[v] \/ executing'[v] = OneFewer(executing[v])
    <3> HIDE DEF node
    <3> QED
      BY <2>1, BaseParts DEF Typed
  <2>3. executing[v] \in Nat
    BY BaseParts DEF Typed
  <2> QED
    BY <2>2, <2>3 DEF OneFewer
<1> QED
  BY <1>3, <1>4, BaseParts, CountsQuiet

LEMMA CountsKept ==
  ASSUME BaseInv, Typed', CountsBounded, UNCHANGED <<executing, inFlight, answered>>,
         lost \subseteq lost'
  PROVE  CountsBounded'
<1>1. Started \subseteq Started'
  BY DEF Started
<1>2. \A v \in Ids : executing[v] \in Nat
  BY BaseParts DEF Typed
<1>3. \A v \in Ids : executing'[v] <= executing[v]
  BY <1>2
<1> QED
  BY <1>1, <1>3, BaseParts, CountsQuiet

LEMMA CountsStep ==
  ASSUME BaseInv, Typed', CountsBounded, Next
  PROVE  CountsBounded'
<1>1. CASE Deliver
  <2>1. /\ stack # <<>> /\ Top.at = "deliver"
        /\ UNCHANGED <<answered, keyOfTask, open, workerNodes>>
    BY <1>1 DEF Deliver, At, taskVars, listVars
  <2>2. Top.node \in Receivers /\ Top.task \in 1 .. Tasks
    BY <2>1, BaseParts, TopCall, FrameTypes
  <2>3. CASE Top.node = None
    <3>1. Throw /\ UNCHANGED <<executing, inFlight>>
      BY <1>1, <2>3 DEF Deliver, queueVars
    <3>2. lost \subseteq lost'
      BY <3>1 DEF Throw
    <3> QED
      BY <2>1, <3>1, <3>2, CountsKept
  <2>4. CASE Top.node # None /\ ShallExecuteTask(Top.node)
    <3>1. ExecuteTask(Top.node, Top.task) /\ UNCHANGED tasksQueue
      BY <1>1, <2>4 DEF Deliver
    <3>2. Top.node \in Ids
      BY <2>2, <2>4, BaseParts, ListedIds DEF Receivers
    <3> QED
      BY <2>1, <2>2, <3>1, <3>2, ExecuteTaskCounts
  <2>5. CASE Top.node # None /\ ~ShallExecuteTask(Top.node)
    <3>1. UNCHANGED <<executing, inFlight, lost>>
      BY <1>1, <2>5 DEF Deliver, endVars
    <3> QED
      BY <2>1, <3>1, CountsKept
  <2> QED
    BY <2>3, <2>4, <2>5
<1>2. CASE Run
  <2>1. /\ stack # <<>> /\ Top.at = "executeTask"
        /\ ExecuteTask(Top.node, Top.task)
        /\ UNCHANGED <<tasksQueue, answered, keyOfTask, open, workerNodes>>
    BY <1>2 DEF Run, At, taskVars, listVars
  <2>2. Top.node \in Ids /\ Top.task \in 1 .. Tasks
    BY <2>1, BaseParts, TopCall, FrameTypes, ListedIds
  <2> QED
    BY <2>1, <2>2, ExecuteTaskCounts
<1>3. CASE Step /\ ~Deliver /\ ~Run
  <2>1. UNCHANGED <<executing, inFlight, answered, lost>>
    BY <1>3 DEF Step, StartOnEmptyQueue, StealOnEmptyQueue, Sleep, OnBackPressure,
       StealOnBackPressure, OnBackPressureEnd, Redistribute, Flush,
       TasksQueueDisabled, Return, queueVars, endVars, taskVars
  <2> QED
    BY <2>1, CountsKept
<1>4. ASSUME NEW t \in 1 .. Tasks, NEW w \in Listed, Execute(t, w)
      PROVE  CountsBounded'
  <2>1. UNCHANGED <<executing, inFlight, answered, lost>>
    BY <1>4 DEF Execute, queueVars, endVars
  <2> QED
    BY <2>1, CountsKept
<1>5. ASSUME NEW w \in Ids, NEW t \in 1 .. Tasks, Answer(w, t)
      PROVE  CountsBounded'
  BY <1>5, AnswerCounts
<1>6. ASSUME NEW w \in Ids, Timer(w) \/ WorkerError(w) PROVE CountsBounded'
  <2>1. UNCHANGED <<executing, inFlight, answered, lost>>
    BY <1>6 DEF Timer, WorkerError, queueVars, endVars, taskVars
  <2> QED
    BY <2>1, CountsKept
<1>7. CASE Silent
  <2>1. UNCHANGED <<executing, inFlight, answered, lost>>
    BY <1>7 DEF Silent, NodeDestroyed, WorkerExit, SetTasksQueueOptions,
       RefuseTasksQueueOptions, queueVars, endVars, taskVars
  <2> QED
    BY <2>1, CountsKept
<1>8. CASE DisableTasksQueue
  <2>1. UNCHANGED <<executing, inFlight, answered, lost>>
    BY <1>8 DEF DisableTasksQueue, queueVars, endVars
  <2> QED
    BY <2>1, CountsKept
<1> QED
  BY <1>1, <1>2, <1>3, <1>4, <1>5, <1>6, <1>7, <1>8, StepCases

-----------------------------------------------------------------------------
(* The inductive invariant.                                                *)

IInv == /\ BaseInv /\ SwitchInv /\ CallbacksInv /\ LoopsInv /\ FlightInv
        /\ CountsBounded

LEMMA InitPlaces ==
  ASSUME Init
  PROVE  PlacesInv
<1>1. /\ stack = <<>> /\ answered = {} /\ lost = {}
      /\ \A w \in Ids : tasksQueue[w] = <<>> /\ inFlight[w] = {}
      /\ \A t \in 1 .. Tasks : keyOfTask[t] = None
  BY DEF Init
<1>2. TasksIn(stack) = {} /\ OnceIn(stack)
  BY <1>1, NoFrames
<1>3. \A w \in Ids : queued[w] = {}
  BY <1>1 DEF queued, Items
<1>4. NoRepeats
  BY <1>1, <1>2 DEF NoRepeats
<1>5. ASSUME NEW t \in 1 .. Tasks PROVE OnePlace(t)
  BY <1>1, <1>2, <1>3 DEF OnePlace, Somewhere
<1> QED
  BY <1>1, <1>4, <1>5 DEF PlacesInv

LEMMA InitIInv ==
  ASSUME Init
  PROVE  IInv
<1>1. ShapeInv
  BY InitShape
<1>2. BaseInv
  BY <1>1, InitPlaces DEF BaseInv
<1>3. /\ stack = <<>>
      /\ \A K : NodesAt(stack, K) = {} /\ OnceAt(stack, K)
  BY NoFrames DEF Init
<1>4. SwitchInv
  BY <1>3 DEF SwitchInv
<1>5. CallbacksInv
  <2>1. \A w \in Ids : ~ onBackPressureStarted[w]
    BY DEF Init
  <2> QED
    BY <1>3, <2>1 DEF CallbacksInv
<1>6. LoopsInv
  <2>1. \A w \in Ids : ~timer[w] /\ onEmptyQueueCount[w] = 0
    BY DEF Init
  <2> QED
    BY <1>3, <2>1 DEF LoopsInv
<1>7. FlightInv
  <2> SUFFICES ASSUME ~strayed, NEW w \in Ids
               PROVE  FlightOf(w)
    BY <1>3 DEF FlightInv
  <2>1. executing[w] = 0 /\ inFlight[w] = {} /\ tasksQueue[w] = <<>>
    BY DEF Init
  <2>2. Cardinality(inFlight[w]) = 0
    BY <2>1, FS_EmptySet
  <2>3. tasksQueueOptions.concurrency \in Nat \ {0}
    <3>1. tasksQueueOptions \in TasksQueueOptions
      BY <1>1 DEF ShapeInv, OptionsInv
    <3> QED
      BY <3>1 DEF TasksQueueOptions
  <2> QED
    BY <1>3, <2>1, <2>2, <2>3 DEF FlightOf
<1>8. CountsBounded
  <2>1. Cardinality(Started) \in Nat
    BY <1>1, StartedSet DEF ShapeInv
  <2>2. \A w \in Ids : executing[w] = 0
    BY DEF Init
  <2> QED
    BY <2>1, <2>2 DEF CountsBounded
<1> QED
  BY <1>2, <1>4, <1>5, <1>6, <1>7, <1>8 DEF IInv

LEMMA NextIInv ==
  ASSUME IInv, [Next]_vars
  PROVE  IInv'
<1>1. CASE Next
  <2>1. ShapeInv'
    BY <1>1, ShapeStep DEF IInv, BaseInv
  <2>2. PlacesInv'
    BY <1>1, PlacesStep DEF IInv
  <2>3. SwitchInv'
    BY <1>1, SwitchStep DEF IInv
  <2>4. CallbacksInv'
    BY <1>1, CallbacksStep DEF IInv
  <2>5. Typed' /\ StackInv' /\ OptionsInv'
    BY <2>1 DEF ShapeInv
  <2>6. LoopsInv'
    BY <1>1, <2>5, LoopsStep DEF IInv
  <2>7. FlightInv'
    BY <1>1, <2>5, FlightStep DEF IInv
  <2>8. CountsBounded'
    BY <1>1, <2>5, CountsStep DEF IInv
  <2> QED
    BY <2>1, <2>2, <2>3, <2>4, <2>6, <2>7, <2>8 DEF IInv, BaseInv
<1>2. CASE UNCHANGED vars
  <2> USE <1>2 DEF vars, optionVars, listVars, queueVars, callbackVars, endVars,
                   taskVars
  <2>1. Listed' = Listed
    BY DEF Listed
  <2>2. Typed' /\ NodesInv' /\ OptionsInv'
    BY <2>1 DEF IInv, BaseInv, ShapeInv, Typed, NodesInv, OptionsInv
  <2>3. StackInv'
    BY <2>1 DEF IInv, BaseInv, ShapeInv, StackInv, Frames, Receivers, Orders
  <2>4. PlacesInv'
    BY DEF IInv, BaseInv, PlacesInv, NoRepeats, OnePlace, Somewhere, queued
  <2>5. SwitchInv' /\ CallbacksInv' /\ LoopsInv'
    BY DEF IInv, SwitchInv, CallbacksInv, LoopsInv
  <2>6. FlightInv'
    BY DEF IInv, FlightInv, FlightOf
  <2>7. CountsBounded'
    BY DEF IInv, CountsBounded, Started
  <2> QED
    BY <2>2, <2>3, <2>4, <2>5, <2>6, <2>7 DEF IInv, BaseInv, ShapeInv
<1> QED
  BY <1>1, <1>2

\* Whatever the worker nodes steal from each other, and however their callbacks
\* nest, the parts of the inductive invariant hold together.
THEOREM IInvAlways == Spec => []IInv
<1>1. Init => IInv
  BY InitIInv
<1>2. IInv /\ [Next]_vars => IInv'
  BY NextIInv
<1> QED
  BY <1>1, <1>2, PTL DEF Spec

-----------------------------------------------------------------------------
(* The properties.                                                         *)

\* Types, for every number of nodes and tasks and whatever options are set.
THEOREM TypeCorrect == Spec => []TypeOK
<1>1. IInv => TypeOK
  <2> SUFFICES ASSUME IInv PROVE TypeOK
    OBVIOUS
  <2>1. Typed
    BY DEF IInv, BaseInv, ShapeInv
  <2>2. Cardinality(Started) \in Nat /\ Cardinality(Started) <= Tasks
    BY <2>1, StartedSet
  <2>3. executing \in [Ids -> 0 .. Tasks]
    <3>1. ASSUME NEW w \in Ids PROVE executing[w] \in 0 .. Tasks
      <4>1. executing[w] \in Nat /\ executing[w] <= Cardinality(Started)
        BY <2>1 DEF IInv, CountsBounded, Typed
      <4> QED
        BY <2>2, <4>1, NodeIds
    <3> QED
      BY <2>1, <3>1 DEF Typed
  <2>4. {ready, open, onEmptyQueue, onBackPressure, onBackPressureStarted, timer}
          \subseteq [Ids -> BOOLEAN]
    BY <2>1 DEF Typed
  <2> QED
    BY <2>1, <2>3, <2>4 DEF Typed, TypeOK
<1> QED
  BY <1>1, IInvAlways, PTL

\* The places of a task that is in a queue, with a worker, or held by a call.
InQueues(t) ==
  {place \in UNION {{w} \X DOMAIN tasksQueue[w] : w \in Ids} :
     tasksQueue[place[1]][place[2]] = t}
InWorkers(t) == {w \in Ids : t \in inFlight[w]}
InCalls(t) == {i \in DOMAIN stack : stack[i].task = t}
InPast(t) == {past \in {<<1, answered>>, <<2, lost>>} : t \in past[2]}

LEMMA SingleOrNone ==
  ASSUME NEW S, \A x, y \in S : x = y
  PROVE  Cardinality(S) = IF S = {} THEN 0 ELSE 1
<1>1. CASE S = {}
  BY <1>1, FS_EmptySet
<1>2. CASE S # {}
  <2>1. PICK x \in S : TRUE
    BY <1>2
  <2>2. S = {x}
    BY <2>1
  <2> QED
    BY <1>2, <2>2, FS_Singleton
<1> QED
  BY <1>1, <1>2

LEMMA PlacesInQueues ==
  ASSUME Typed, DistinctQueues, NEW t \in 1 .. Tasks, OnePlace(t)
  PROVE  Cardinality(InQueues(t))
           = IF \E w \in Ids : t \in queued[w] THEN 1 ELSE 0
<1>1. ASSUME NEW p \in InQueues(t)
      PROVE  /\ p[1] \in Ids /\ p[2] \in DOMAIN tasksQueue[p[1]]
             /\ p = <<p[1], p[2]>> /\ tasksQueue[p[1]][p[2]] = t
             /\ t \in queued[p[1]]
  <2>1. PICK w \in Ids : p \in {w} \X DOMAIN tasksQueue[w]
    BY DEF InQueues
  <2>2. p[1] = w /\ p[2] \in DOMAIN tasksQueue[w] /\ p = <<p[1], p[2]>>
    BY <2>1
  <2>3. tasksQueue[p[1]][p[2]] = t
    BY DEF InQueues
  <2> QED
    BY <2>2, <2>3 DEF queued, Items
<1>2. ASSUME NEW p \in InQueues(t), NEW q \in InQueues(t) PROVE p = q
  <2>1. p[1] = q[1]
    BY <1>1 DEF OnePlace
  <2>2. p[2] = q[2]
    BY <1>1, <2>1 DEF DistinctQueues, Distinct
  <2> QED
    BY <1>1, <2>1, <2>2
<1>3. Cardinality(InQueues(t)) = IF InQueues(t) = {} THEN 0 ELSE 1
  BY <1>2, SingleOrNone
<1>4. ASSUME NEW w \in Ids, t \in queued[w] PROVE InQueues(t) # {}
  <2>1. PICK i \in DOMAIN tasksQueue[w] : tasksQueue[w][i] = t
    BY <1>4 DEF queued, Items
  <2>2. <<w, i>> \in {w} \X DOMAIN tasksQueue[w]
    BY <2>1
  <2>3. <<w, i>> \in InQueues(t)
    BY <2>1, <2>2 DEF InQueues
  <2> QED
    BY <2>3
<1> QED
  BY <1>1, <1>3, <1>4

LEMMA PlacesElsewhere ==
  ASSUME OnceIn(stack), NEW t \in 1 .. Tasks, OnePlace(t)
  PROVE  /\ Cardinality(InWorkers(t))
              = IF \E w \in Ids : t \in inFlight[w] THEN 1 ELSE 0
         /\ Cardinality(InCalls(t)) = IF t \in TasksIn(stack) THEN 1 ELSE 0
         /\ Cardinality(InPast(t))
              = IF t \in answered \/ t \in lost THEN 1 ELSE 0
<1>1. Cardinality(InWorkers(t)) = IF \E w \in Ids : t \in inFlight[w] THEN 1 ELSE 0
  <2>1. \A v, w \in InWorkers(t) : v = w
    BY DEF InWorkers, OnePlace
  <2>2. InWorkers(t) = {} <=> ~ \E w \in Ids : t \in inFlight[w]
    BY DEF InWorkers
  <2> QED
    BY <2>1, <2>2, SingleOrNone
<1>2. Cardinality(InCalls(t)) = IF t \in TasksIn(stack) THEN 1 ELSE 0
  <2>1. t # None
    BY DEF None
  <2>2. \A i, j \in InCalls(t) : i = j
    BY <2>1 DEF InCalls, OnceIn
  <2>3. InCalls(t) = {} <=> t \notin TasksIn(stack)
    BY <2>1 DEF InCalls, TasksIn
  <2> QED
    BY <2>2, <2>3, SingleOrNone
<1>3. Cardinality(InPast(t)) = IF t \in answered \/ t \in lost THEN 1 ELSE 0
  <2>1. \A past : past \in InPast(t) <=> \/ past = <<1, answered>> /\ t \in answered
                                         \/ past = <<2, lost>> /\ t \in lost
    BY DEF InPast
  <2>2. ~ (t \in answered /\ t \in lost)
    BY DEF OnePlace
  <2>3. \A p, q \in InPast(t) : p = q
    BY <2>1, <2>2
  <2>4. InPast(t) = {} <=> ~ (t \in answered \/ t \in lost)
    BY <2>1
  <2> QED
    BY <2>3, <2>4, SingleOrNone
<1> QED
  BY <1>1, <1>2, <1>3

LEMMA PlacesCounted ==
  ASSUME BaseInv, NEW t \in 1 .. Tasks
  PROVE  Places(t) = IF keyOfTask[t] = None THEN 0 ELSE 1
<1>1. OnePlace(t) /\ Typed /\ DistinctQueues /\ OnceIn(stack)
  BY BaseParts DEF BaseInv, PlacesInv
<1>2. Places(t) = Cardinality(InQueues(t)) + Cardinality(InWorkers(t))
                    + Cardinality(InCalls(t)) + Cardinality(InPast(t))
  BY DEF Places, InQueues, InWorkers, InCalls, InPast
<1>3. /\ Cardinality(InQueues(t)) = IF \E w \in Ids : t \in queued[w] THEN 1 ELSE 0
      /\ Cardinality(InWorkers(t))
              = IF \E w \in Ids : t \in inFlight[w] THEN 1 ELSE 0
      /\ Cardinality(InCalls(t)) = IF t \in TasksIn(stack) THEN 1 ELSE 0
      /\ Cardinality(InPast(t))
              = IF t \in answered \/ t \in lost THEN 1 ELSE 0
  BY <1>1, PlacesInQueues, PlacesElsewhere
<1>4. CASE \E w \in Ids : t \in queued[w]
  BY <1>1, <1>2, <1>3, <1>4 DEF OnePlace, Somewhere
<1>5. CASE \E w \in Ids : t \in inFlight[w]
  BY <1>1, <1>2, <1>3, <1>5 DEF OnePlace, Somewhere
<1>6. CASE ~ \E w \in Ids : t \in queued[w] \/ t \in inFlight[w]
  BY <1>1, <1>2, <1>3, <1>6 DEF OnePlace, Somewhere
<1> QED
  BY <1>4, <1>5, <1>6

\* However tasks are stolen, redistributed, flushed or thrown away by an
\* exception in nested callbacks, a task given to the pool is in one place.
THEOREM TasksAlwaysConserved == Spec => []TasksConserved
<1>1. IInv => TasksConserved
  BY PlacesCounted DEF IInv, BaseInv, PlacesInv, TasksConserved
<1> QED
  BY <1>1, IInvAlways, PTL

\* onBackPressure is not under way twice for a node, and unless an exception
\* lost a task its flag is cleared when it returns.
THEOREM CallbacksAlwaysRearmed == Spec => []CallbacksRearmed
<1>1. IInv => CallbacksRearmed
  <2> SUFFICES ASSUME CallbacksInv, NEW w \in Ids
               PROVE  LET Calls(at) == {i \in DOMAIN stack :
                                          stack[i].at = at /\ stack[i].node = w}
                      IN  /\ Cardinality(Calls("onBackPressureEnd")) <= 1
                          /\ onBackPressureStarted[w] =>
                               Calls("onBackPressureEnd") # {} \/ lost # {}
    BY DEF IInv, CallbacksRearmed
  <2> DEFINE ends == {i \in DOMAIN stack : /\ stack[i].at = "onBackPressureEnd"
                                           /\ stack[i].node = w}
  <2>1. \A i, j \in ends : i = j
    BY DEF CallbacksInv, OnceAt, Ends
  <2>2. w \in NodesAt(stack, Ends) => ends # {}
    BY DEF NodesAt, Ends
  <2>3. Cardinality(ends) <= 1
    BY <2>1, SingleOrNone
  <2>4. onBackPressureStarted[w] => ends # {} \/ lost # {}
    BY <2>2 DEF CallbacksInv
  <2> QED
    BY <2>3, <2>4
<1> QED
  BY <1>1, IInvAlways, PTL

\* A node has one stealing loop at a time, whatever empties its queue while it
\* steals, and a loop that is counted is under way or asleep.
THEOREM AlwaysOneStealingLoop == Spec => []OneStealingLoop
<1>1. IInv => OneStealingLoop
  <2> SUFFICES ASSUME IInv, NEW w \in Ids
               PROVE  LET calls == {i \in DOMAIN stack :
                              /\ stack[i].at \in {"startOnEmptyQueue", "sleep"}
                              /\ stack[i].node = w}
                          loops == Cardinality(calls) + (IF timer[w] THEN 1 ELSE 0)
                      IN  /\ loops <= 1
                          /\ onEmptyQueueCount[w] > 0 => loops = 1 \/ lost # {}
    BY DEF OneStealingLoop
  <2> DEFINE calls == {i \in DOMAIN stack :
                         /\ stack[i].at \in {"startOnEmptyQueue", "sleep"}
                         /\ stack[i].node = w}
  <2>1. \A i, j \in calls : i = j
    BY DEF IInv, LoopsInv, OnceAt, Loops
  <2>2. w \in NodesAt(stack, Loops) <=> calls # {}
    BY DEF NodesAt, Loops
  <2>3. Cardinality(calls) = IF calls = {} THEN 0 ELSE 1
    BY <2>1, SingleOrNone
  <2>4. /\ calls # {} => ~timer[w]
        /\ onEmptyQueueCount[w] = 1 => calls # {} \/ timer[w] \/ lost # {}
    BY <2>2 DEF IInv, LoopsInv
  <2>5. onEmptyQueueCount[w] \in 0 .. 1
    BY DEF IInv, BaseInv, ShapeInv, Typed
  <2> QED
    BY <2>3, <2>4, <2>5
<1> QED
  BY <1>1, IInvAlways, PTL

LEMMA FlightNumbers ==
  ASSUME IInv, ~strayed, NEW w \in Ids
  PROVE  /\ FlightOf(w) /\ OnceAt(stack, Executes)
         /\ tasksQueueOptions.concurrency \in Nat \ {0}
         /\ executing[w] \in Nat
         /\ IsFiniteSet(inFlight[w]) /\ Cardinality(inFlight[w]) \in Nat
<1>1. FlightOf(w) /\ OnceAt(stack, Executes)
  BY DEF IInv, FlightInv
<1>2. tasksQueueOptions.concurrency \in Nat \ {0}
  BY DEF IInv, BaseInv, ShapeInv, OptionsInv, TasksQueueOptions
<1>3. Typed
  BY DEF IInv, BaseInv, ShapeInv
<1>4. executing[w] \in Nat /\ inFlight[w] \subseteq 1 .. Tasks
  BY <1>3 DEF Typed
<1>5. IsFiniteSet(1 .. Tasks)
  <2>1. 1 \in Int /\ Tasks \in Int
    BY NodeIds
  <2> QED
    BY <2>1, FS_Interval
<1> QED
  BY <1>1, <1>2, <1>4, <1>5, FS_Subset, FS_CardinalityType

\* While its counts are those of its workers, the pool gives no worker more than
\* one task above its concurrency, however theft and redistribution interleave.
THEOREM AlwaysInFlightBounded == Spec => []InFlightBounded
<1>1. IInv => InFlightBounded
  <2> SUFFICES ASSUME IInv, ~strayed, NEW w \in Ids
               PROVE  Cardinality(inFlight[w]) <= tasksQueueOptions.concurrency + 1
    BY DEF InFlightBounded
  <2>1. /\ FlightOf(w) /\ tasksQueueOptions.concurrency \in Nat
        /\ executing[w] \in Nat /\ Cardinality(inFlight[w]) \in Nat
    BY FlightNumbers
  <2>2. /\ Cardinality(inFlight[w]) <= executing[w]
        /\ executing[w] <= tasksQueueOptions.concurrency + 1
    BY <2>1 DEF FlightOf
  <2> QED
    BY <2>1, <2>2
<1> QED
  BY <1>1, IInvAlways, PTL

-----------------------------------------------------------------------------
(* What the pool tells of itself: sums over its nodes.                     *)

\* Sums over the nodes: the sizes of sets that are apart add up to the size of
\* their union, in whatever order they are added.
Joined(part, s) == UNION {part[x] : x \in s}
Picked(s) == CHOOSE x \in s : TRUE
TotalOf(iter, count, S) ==
  iter = [s \in SUBSET S |->
            IF s = {} THEN 0 ELSE count[Picked(s)] + iter[s \ {Picked(s)}]]
Partition(part, count, S) ==
  /\ IsFiniteSet(S)
  /\ \A x \in S : /\ IsFiniteSet(part[x]) /\ count[x] = Cardinality(part[x])
  /\ \A x, y \in S : x # y => part[x] \cap part[y] = {}
\* The size of the union, as a function of the set of nodes.
Sizes(part, S) == [s \in SUBSET S |-> Cardinality(Joined(part, s))]

\* One node is taken out of a set of nodes.
LeavesOut(rest, s, x, S) == s \in SUBSET S /\ x \in s /\ rest = s \ {x}

LEMMA JoinedStep ==
  ASSUME NEW S, NEW part, NEW count, Partition(part, count, S),
         NEW s, NEW x, NEW rest, LeavesOut(rest, s, x, S)
  PROVE  /\ Cardinality(Joined(part, s))
              = count[x] + Cardinality(Joined(part, rest))
         /\ Cardinality(s) \in Nat /\ Cardinality(rest) \in Nat
         /\ Cardinality(rest) < Cardinality(s)
<1>0. s \in SUBSET S /\ x \in s /\ rest = s \ {x}
  BY DEF LeavesOut
<1>1. IsFiniteSet(s) /\ IsFiniteSet(rest)
  BY <1>0, FS_Subset, FS_RemoveElement DEF Partition
<1>2. IsFiniteSet(Joined(part, rest))
  <2> DEFINE parts == {part[y] : y \in rest}
             f == [y \in rest |-> part[y]]
  <2>1. IsFiniteSet(parts)
    <3>1. f \in Surjection(rest, parts)
      BY DEF Surjection
    <3> HIDE DEF f, parts
    <3> QED
      BY <1>1, <3>1, FS_Surjection
  <2>2. \A p \in parts : IsFiniteSet(p)
    BY <1>0 DEF Partition
  <2> HIDE DEF parts, f
  <2>3. IsFiniteSet(UNION parts)
    BY <2>1, <2>2, FS_UNION
  <2> QED
    BY <2>3 DEF parts, Joined
<1>3. Joined(part, s) = part[x] \cup Joined(part, rest)
  BY <1>0 DEF Joined
<1>4. part[x] \cap Joined(part, rest) = {}
  <2>1. \A y \in rest : part[x] \cap part[y] = {}
    BY <1>0 DEF Partition
  <2> QED
    BY <2>1 DEF Joined
<1>5. IsFiniteSet(part[x]) /\ count[x] = Cardinality(part[x])
  BY <1>0 DEF Partition
<1>6. Cardinality(Joined(part, s)) = Cardinality(part[x])
        + Cardinality(Joined(part, rest)) - Cardinality(part[x] \cap Joined(part, rest))
  BY <1>2, <1>3, <1>5, FS_Union
<1>7. Cardinality(part[x] \cap Joined(part, rest)) = 0
  BY <1>4, FS_EmptySet
<1>8. IsFiniteSet(Joined(part, s))
  <2>1. IsFiniteSet(part[x] \cup Joined(part, rest))
    BY <1>2, <1>5, FS_Union
  <2> QED
    BY <1>3, <2>1
<1>9. /\ Cardinality(Joined(part, s)) \in Nat /\ Cardinality(part[x]) \in Nat
      /\ Cardinality(Joined(part, rest)) \in Nat
      /\ Cardinality(s) \in Nat /\ Cardinality(rest) \in Nat
  BY <1>1, <1>2, <1>5, <1>8, FS_CardinalityType
<1>10. Cardinality(rest) = Cardinality(s) - 1
  BY <1>0, <1>1, FS_RemoveElement
<1> QED
  BY <1>1, <1>5, <1>6, <1>7, <1>8, <1>9, <1>10

LEMMA JoinedNothing ==
  ASSUME NEW part
  PROVE  Cardinality(Joined(part, {})) = 0
<1>1. Joined(part, {}) = {}
  BY DEF Joined
<1> QED
  BY <1>1, FS_EmptySet

LEMMA PickedIn ==
  ASSUME NEW s, s # {}
  PROVE  Picked(s) \in s
BY DEF Picked

LEMMA SizesTotal ==
  ASSUME NEW S, NEW part, NEW count, Partition(part, count, S)
  PROVE  TotalOf(Sizes(part, S), count, S)
<1> DEFINE e == Sizes(part, S)
           sum(s) == count[Picked(s)] + e[s \ {Picked(s)}]
<1>1. ASSUME NEW s \in SUBSET S
      PROVE  e[s] = IF s = {} THEN 0 ELSE sum(s)
  <2>1. e[s] = Cardinality(Joined(part, s))
    BY DEF Sizes
  <2>2. CASE s = {}
    BY <2>1, <2>2, JoinedNothing
  <2>3. CASE s # {}
    <3>1. Picked(s) \in s
      BY <2>3, PickedIn
    <3>2. Cardinality(Joined(part, s))
            = count[Picked(s)] + Cardinality(Joined(part, s \ {Picked(s)}))
      <4>1. LeavesOut(s \ {Picked(s)}, s, Picked(s), S)
        BY <3>1 DEF LeavesOut
      <4> QED
        BY <4>1, JoinedStep
    <3>3. e[s \ {Picked(s)}] = Cardinality(Joined(part, s \ {Picked(s)}))
      BY DEF Sizes
    <3> QED
      BY <2>1, <2>3, <3>2, <3>3
  <2> QED
    BY <2>2, <2>3
<1>2. e = [s \in SUBSET S |-> e[s]]
  BY DEF Sizes
<1> HIDE DEF e
<1>3. e = [s \in SUBSET S |-> IF s = {} THEN 0 ELSE sum(s)]
  BY <1>1, <1>2
<1> QED
  BY <1>3 DEF TotalOf, e

LEMMA TotalIsSize ==
  ASSUME NEW S, NEW part, NEW count, Partition(part, count, S),
         NEW iter, TotalOf(iter, count, S)
  PROVE  iter[S] = Cardinality(Joined(part, S))
<1> DEFINE Wrong(s) == iter[s] # Cardinality(Joined(part, s))
           wrong == {s \in SUBSET S : Wrong(s)}
           bad == {Cardinality(s) : s \in wrong}
<1> SUFFICES ASSUME Wrong(S) PROVE FALSE
  OBVIOUS
<1>1. \A s \in SUBSET S : IsFiniteSet(s) /\ Cardinality(s) \in Nat
  BY FS_Subset, FS_CardinalityType DEF Partition
<1>2. bad \in SUBSET Nat /\ bad # {}
  BY <1>1
<1>3. PICK m \in bad : \A n \in bad : m <= n
  <2> HIDE DEF bad
  <2> QED
    BY <1>2, SmallestElement
<1>4. PICK s \in SUBSET S : Wrong(s) /\ m = Cardinality(s)
  OBVIOUS
<1>5. iter[s] = IF s = {} THEN 0 ELSE count[Picked(s)] + iter[s \ {Picked(s)}]
  BY DEF TotalOf
<1>6. CASE s = {}
  BY <1>4, <1>5, <1>6, JoinedNothing
<1>7. CASE s # {}
  <2> DEFINE x == Picked(s)
             rest == s \ {x}
  <2>1. x \in s
    BY <1>7, PickedIn
  <2>2. /\ Cardinality(Joined(part, s)) = count[x] + Cardinality(Joined(part, rest))
        /\ Cardinality(s) \in Nat /\ Cardinality(rest) \in Nat
        /\ Cardinality(rest) < Cardinality(s)
    <3>1. LeavesOut(rest, s, x, S) /\ Partition(part, count, S)
      BY <2>1 DEF LeavesOut
    <3> HIDE DEF x, rest
    <3> QED
      BY ONLY <3>1, JoinedStep
  <2>3. rest \in SUBSET S
    OBVIOUS
  <2>4. ~ Wrong(rest)
    <3>1. SUFFICES ASSUME Wrong(rest) PROVE FALSE
      OBVIOUS
    <3>2. Cardinality(rest) \in bad
      BY <2>3, <3>1
    <3>3. m <= Cardinality(rest)
      BY <1>3, <3>2
    <3> QED
      BY <1>4, <2>2, <3>3
  <2> QED
    BY <1>4, <1>5, <1>7, <2>2, <2>4
<1> QED
  BY <1>6, <1>7

\* What the pool adds up is such a sum.
LEMMA ExecutingTotal ==
  ASSUME NEW part, Partition(part, executing, Listed)
  PROVE  Info.executingTasks = Cardinality(Joined(part, Listed))
<1> DEFINE iter == CHOOSE iter : TotalOf(iter, executing, Listed)
<1>1. TotalOf(iter, executing, Listed)
  BY SizesTotal
<1>2. Info.executingTasks = MapThenSumSet(LAMBDA w : executing[w], Listed)
  BY DEF Info, MapThenSumSet, MapThenFoldSet
<1>3. MapThenSumSet(LAMBDA w : executing[w], Listed) = iter[Listed]
  BY DEF MapThenSumSet, MapThenFoldSet, TotalOf, Picked
<1> QED
  BY <1>1, <1>2, <1>3, TotalIsSize

LEMMA QueuedTotal ==
  ASSUME NEW part, Partition(part, [w \in Ids |-> Queued(w)], Listed),
         Listed = Ids
  PROVE  Info.queuedTasks = Cardinality(Joined(part, Listed))
<1> DEFINE count == [w \in Ids |-> Queued(w)]
           Total(iter) == iter = [s \in SUBSET Listed |->
              IF s = {} THEN 0 ELSE Queued(Picked(s)) + iter[s \ {Picked(s)}]]
           iter == CHOOSE iter : Total(iter)
<1>1. Info.queuedTasks = MapThenSumSet(LAMBDA w : Queued(w), Listed)
  BY DEF Info, MapThenSumSet, MapThenFoldSet
<1>2. MapThenSumSet(LAMBDA w : Queued(w), Listed) = iter[Listed]
  BY DEF MapThenSumSet, MapThenFoldSet, Picked
<1>3. ASSUME NEW e PROVE Total(e) <=> TotalOf(e, count, Listed)
  <2> DEFINE one(s) == IF s = {} THEN 0 ELSE Queued(Picked(s)) + e[s \ {Picked(s)}]
             two(s) == IF s = {} THEN 0 ELSE count[Picked(s)] + e[s \ {Picked(s)}]
  <2>1. ASSUME NEW s \in SUBSET Listed, s # {}
        PROVE  count[Picked(s)] = Queued(Picked(s))
    <3>1. Picked(s) \in Ids
      BY <2>1, PickedIn
    <3> HIDE DEF Queued
    <3> QED
      BY <3>1
  <2>2. \A s \in SUBSET Listed : one(s) = two(s)
    BY <2>1
  <2>3. [s \in SUBSET Listed |-> one(s)] = [s \in SUBSET Listed |-> two(s)]
    <3> HIDE DEF one, two
    <3> QED
      BY <2>2
  <2> QED
    BY <2>3 DEF TotalOf
<1>4. Total(Sizes(part, Listed))
  BY <1>3, SizesTotal
<1>5. Total(iter)
  <2> HIDE DEF Total
  <2> QED
    BY <1>4
<1> HIDE DEF iter, count, Total
<1>6. TotalOf(iter, count, Listed)
  BY <1>3, <1>5
<1>7. Partition(part, count, Listed)
  BY DEF count
<1> QED
  BY <1>1, <1>2, <1>6, <1>7, TotalIsSize

LEMMA QueueLength ==
  ASSUME Typed, DistinctQueues, NEW w \in Ids
  PROVE  /\ IsFiniteSet(queued[w]) /\ Queued(w) = Cardinality(queued[w])
<1> DEFINE queue == tasksQueue[w]
           places == 1 .. Len(queue)
<1>1. queue \in Seq(1 .. Tasks)
  BY DEF Typed
<1>2. Len(queue) \in Nat /\ DOMAIN queue = places /\ queue \in [places -> 1 .. Tasks]
  BY <1>1, LenProperties, SeqDef
<1>3. queued[w] = Items(queue)
  BY DEF queued
<1>4. Distinct(queue)
  BY DEF DistinctQueues
<1> HIDE DEF queue
<1>5. queue \in Surjection(places, Items(queue))
  BY <1>2 DEF Surjection, Items
<1>6. queue \in Injection(places, Items(queue))
  BY <1>2, <1>4, <1>5 DEF Surjection, Injection, IsInjective, Distinct
<1>7. IsFiniteSet(places) /\ Cardinality(places) = Len(queue)
  <2>1. 1 \in Int /\ Len(queue) \in Int /\ Len(queue) >= 0
    BY <1>2
  <2> HIDE DEF places
  <2>2. IsFiniteSet(1 .. Len(queue)) /\ Cardinality(1 .. Len(queue)) = Len(queue)
    <3>1. /\ IsFiniteSet(1 .. Len(queue))
          /\ Cardinality(1 .. Len(queue)) =
               IF 1 > Len(queue) THEN 0 ELSE Len(queue) - 1 + 1
      BY <2>1, FS_Interval
    <3> QED
      BY <2>1, <3>1
  <2> QED
    BY <2>2 DEF places
<1> HIDE DEF places
<1>8. /\ IsFiniteSet(Items(queue))
      /\ Cardinality(Items(queue)) = Cardinality(places)
  BY <1>5, <1>6, <1>7, FS_Surjection
<1> QED
  BY <1>3, <1>7, <1>8 DEF queue, Queued

LEMMA QuietNodes ==
  ASSUME IInv, stack = <<>>, ~strayed, lost = {}, NEW w \in Ids
  PROVE  /\ executing[w] \in Nat /\ executing[w] = Cardinality(inFlight[w])
         /\ IsFiniteSet(inFlight[w]) /\ (executing[w] = 0 <=> inFlight[w] = {})
         /\ tasksQueue[w] # <<>> => executing[w] > 0
<1>1. FlightOf(w) /\ executing[w] \in Nat /\ IsFiniteSet(inFlight[w])
  BY FlightNumbers
<1>2. w \notin NodesAt(stack, Executes)
  BY NoFrames
<1>3. /\ executing[w] = Cardinality(inFlight[w])
      /\ tasksQueue[w] # <<>> => executing[w] > 0
  BY <1>1, <1>2 DEF FlightOf
<1> QED
  BY <1>1, <1>3, FS_EmptySet

LEMMA InfoBusy ==
  ASSUME IInv, stack = <<>>, ~strayed, lost = {}, Listed = Ids
  PROVE  /\ Info.busyWorkerNodes = Cardinality({w \in Ids : inFlight[w] # {}})
         /\ Info.backPressure => Info.idleWorkerNodes = 0
<1>1. {w \in Listed : executing[w] > 0} = {w \in Ids : inFlight[w] # {}}
  BY QuietNodes
<1>2. Info.busyWorkerNodes = Cardinality({w \in Listed : executing[w] > 0})
  BY DEF Info
<1>3. ASSUME Info.backPressure PROVE Info.idleWorkerNodes = 0
  <2>1. \A w \in Ids : Queued(w) >= backPressureSize[w]
    BY <1>3 DEF Info
  <2>2. ASSUME NEW w \in Ids PROVE executing[w] # 0
    <3>1. tasksQueue[w] \in Seq(1 .. Tasks) /\ backPressureSize[w] \in Nat \ {0}
      BY DEF IInv, BaseInv, ShapeInv, Typed, OptionsInv
    <3>2. Len(tasksQueue[w]) >= backPressureSize[w]
      BY <2>1 DEF Queued
    <3>3. tasksQueue[w] # <<>>
      <4>1. SUFFICES ASSUME tasksQueue[w] = <<>> PROVE FALSE
        OBVIOUS
      <4>2. Len(tasksQueue[w]) = 0
        BY <4>1
      <4> QED
        BY <3>1, <3>2, <4>2
    <3> QED
      BY <3>3, QuietNodes
  <2>3. {w \in Listed : executing[w] = 0} = {}
    BY <2>2
  <2>4. Info.idleWorkerNodes = Cardinality({w \in Listed : executing[w] = 0})
    BY DEF Info
  <2> QED
    BY <2>3, <2>4, FS_EmptySet
<1> QED
  BY <1>1, <1>2, <1>3

LEMMA InfoTasks ==
  ASSUME IInv, stack = <<>>, ~strayed, lost = {}, Listed = Ids
  PROVE  Info.executingTasks + Info.queuedTasks + Cardinality(answered)
           = Cardinality({t \in 1 .. Tasks : keyOfTask[t] # None})
<1> DEFINE flying == Joined(inFlight, Ids)
           waiting == Joined(queued, Ids)
           begun == {t \in 1 .. Tasks : keyOfTask[t] # None}
<1>1. /\ Typed /\ DistinctQueues /\ \A t \in 1 .. Tasks : OnePlace(t)
  BY BaseParts DEF IInv, BaseInv, PlacesInv
<1>2. IsFiniteSet(Ids) /\ IsFiniteSet(1 .. Tasks)
  <2>1. 1 \in Int /\ Tasks \in Int /\ Nodes \in Int
    BY NodeIds
  <2> QED
    BY <2>1, FS_Interval DEF Ids
<1>3. \A w \in Ids : inFlight[w] \subseteq 1 .. Tasks /\ queued[w] \subseteq 1 .. Tasks
  <2>1. ASSUME NEW w \in Ids PROVE queued[w] \subseteq 1 .. Tasks
    <3>1. tasksQueue[w] \in Seq(1 .. Tasks)
      BY <1>1 DEF Typed
    <3>2. \A i \in DOMAIN tasksQueue[w] : tasksQueue[w][i] \in 1 .. Tasks
      BY <3>1, LenProperties
    <3> QED
      BY <3>2 DEF queued, Items
  <2> QED
    BY <1>1, <2>1 DEF Typed
<1>4. Partition(inFlight, executing, Listed)
  <2>1. \A v, w \in Ids : v # w => inFlight[v] \cap inFlight[w] = {}
    BY <1>1, <1>3 DEF OnePlace
  <2> QED
    BY <1>2, <2>1, QuietNodes DEF Partition
<1>5. Partition(queued, [w \in Ids |-> Queued(w)], Listed)
  <2>1. \A v, w \in Ids : v # w => queued[v] \cap queued[w] = {}
    BY <1>1, <1>3 DEF OnePlace
  <2>2. \A w \in Ids : /\ IsFiniteSet(queued[w])
                       /\ [x \in Ids |-> Queued(x)][w] = Cardinality(queued[w])
    BY <1>1, QueueLength
  <2> QED
    BY <1>2, <2>1, <2>2 DEF Partition
<1>6. Info.executingTasks = Cardinality(flying)
  BY <1>4, ExecutingTotal
<1>7. Info.queuedTasks = Cardinality(waiting)
  BY <1>5, QueuedTotal
<1>8. /\ flying \subseteq 1 .. Tasks /\ waiting \subseteq 1 .. Tasks
      /\ answered \subseteq 1 .. Tasks
  BY <1>1, <1>3 DEF Joined, Typed
<1>9. /\ flying \cap waiting = {}
      /\ (flying \cup waiting) \cap answered = {}
  BY <1>1, <1>8 DEF OnePlace, Joined
<1>10. (flying \cup waiting) \cup answered = begun
  <2>1. TasksIn(stack) = {}
    BY NoFrames
  <2>2. \A t \in 1 .. Tasks : t \in begun <=> Somewhere(t)
    BY <1>1 DEF OnePlace
  <2>3. \A t \in 1 .. Tasks :
          Somewhere(t) <=> t \in (flying \cup waiting) \cup answered
    BY <2>1 DEF Somewhere, Joined
  <2> QED
    BY <1>8, <2>2, <2>3
<1>11. IsFiniteSet(flying) /\ IsFiniteSet(waiting) /\ IsFiniteSet(answered)
  BY <1>2, <1>8, FS_Subset
<1> HIDE DEF flying, waiting, begun
<1>12. Cardinality(flying) \in Nat /\ Cardinality(waiting) \in Nat
       /\ Cardinality(answered) \in Nat
  BY <1>11, FS_CardinalityType
<1>13. /\ IsFiniteSet(flying \cup waiting)
       /\ Cardinality(flying \cup waiting) = Cardinality(flying)
            + Cardinality(waiting) - Cardinality(flying \cap waiting)
  BY <1>11, FS_Union
<1>14. Cardinality((flying \cup waiting) \cup answered)
         = Cardinality(flying \cup waiting) + Cardinality(answered)
             - Cardinality((flying \cup waiting) \cap answered)
  BY <1>11, <1>13, FS_Union
<1>15. /\ Cardinality(flying \cap waiting) = 0
       /\ Cardinality((flying \cup waiting) \cap answered) = 0
  BY <1>9, FS_EmptySet
<1>16. Cardinality(begun)
         = Cardinality(flying) + Cardinality(waiting) + Cardinality(answered)
  <2>1. Cardinality(begun)
          = Cardinality(flying \cup waiting) + Cardinality(answered) - 0
    BY <1>10, <1>14, <1>15
  <2>2. Cardinality(flying \cup waiting)
          = Cardinality(flying) + Cardinality(waiting) - 0
    BY <1>13, <1>15
  <2> QED
    BY <1>12, <2>1, <2>2
<1> QED
  BY <1>6, <1>7, <1>16 DEF begun

\* Between handlers what the pool tells the application adds up, whatever has
\* been stolen, redistributed and flushed before.
THEOREM InfoAlwaysAddsUp == Spec => []InfoAddsUp
<1>1. IInv => InfoAddsUp
  BY InfoTasks, InfoBusy DEF InfoAddsUp
<1> QED
  BY <1>1, IInvAlways, PTL
=============================================================================
