--------------------------- MODULE PoolTaskProofs ---------------------------
(***************************************************************************)
(* Theorems about the tasks of Pool: each is at one place at most, whoever *)
(* moves it, so that the pool keeps the promises of TaskPromises.          *)
(***************************************************************************)
EXTENDS PoolProofs

-----------------------------------------------------------------------------
(* The places of a task: the queue of a node, the way to a worker, the     *)
(* worker itself, the way back.                                            *)

\* The tasks that messages are about, and no two about the same one.
AboutTask(message) == message.type \in {"task", "response"}
TasksIn(messages) ==
  {t \in Tasks : \E i \in DOMAIN messages :
                   AboutTask(messages[i]) /\ messages[i].task = t}
OnceIn(messages) ==
  \A i, j \in DOMAIN messages :
    /\ AboutTask(messages[i]) /\ AboutTask(messages[j])
    /\ messages[i].task = messages[j].task
    => i = j

Items(queue) == {queue[i] : i \in DOMAIN queue}
TasksOf(queues) ==
  [w \in WorkerIds |-> Items(queues[w])]
OnceInQueue(queues) ==
  \A w \in WorkerIds : \A i, j \in DOMAIN queues[w] :
    queues[w][i] = queues[w][j] => i = j

queued == TasksOf(tasksQueue)
sent == [w \in WorkerIds |-> TasksIn(toWorker[w])]
answered == [w \in WorkerIds |-> TasksIn(toPool[w])]

NoRepeats ==
  /\ OnceInQueue(tasksQueue)
  /\ \A w \in WorkerIds : OnceIn(toWorker[w])
  /\ \A w \in WorkerIds : OnceIn(toPool[w])

\* No task is at two places, of the same worker or of two.
OnePlace ==
  \A t \in Tasks : \A v, w \in WorkerIds :
    /\ t \in queued[v] /\ t \in queued[w] => v = w
    /\ t \in sent[v] /\ t \in sent[w] => v = w
    /\ t \in running[v] /\ t \in running[w] => v = w
    /\ t \in answered[v] /\ t \in answered[w] => v = w
    /\ ~ (t \in queued[v] /\ t \in sent[w])
    /\ ~ (t \in queued[v] /\ t \in running[w])
    /\ ~ (t \in queued[v] /\ t \in answered[w])
    /\ ~ (t \in sent[v] /\ t \in running[w])
    /\ ~ (t \in sent[v] /\ t \in answered[w])
    /\ ~ (t \in running[v] /\ t \in answered[w])

\* A task that is anywhere has been accepted and not been settled; its
\* function has been called if, and only if, it has got as far as that.
PlaceTellsState ==
  \A t \in Tasks :
    /\ runs[t] \in {0, 1}
    /\ promise[t] = "none" => runs[t] = 0
    /\ \A w \in WorkerIds :
         /\ t \in queued[w] \/ t \in sent[w]
              => promise[t] = "pending" /\ runs[t] = 0
         /\ t \in running[w] \/ t \in answered[w]
              => promise[t] = "pending" /\ runs[t] = 1

PlacesInv == NoRepeats /\ OnePlace /\ PlaceTellsState

-----------------------------------------------------------------------------
(* What the operations on sequences do to the tasks in them.               *)

LEMMA QueueAppended ==
  ASSUME NEW q \in Seq(Tasks), NEW t \in Tasks,
         NEW r, r = Append(q, t)
  PROVE  /\ Items(r) = Items(q) \cup {t}
         /\ (\A i, j \in DOMAIN q : q[i] = q[j] => i = j)
            /\ t \notin Items(q)
              => \A i, j \in DOMAIN r : r[i] = r[j] => i = j
<1>1. /\ DOMAIN q = 1 .. Len(q) /\ Len(q) \in Nat
      /\ DOMAIN r = 1 .. Len(q) + 1
      /\ \A i \in 1 .. Len(q) : r[i] = q[i]
      /\ r[Len(q) + 1] = t
  BY AppendProperties, LenProperties
<1> QED
  BY <1>1 DEF Items

LEMMA QueueTaken ==
  ASSUME NEW q \in Seq(Tasks), q # <<>>, NEW r, r = Tail(q),
         \A i, j \in DOMAIN q : q[i] = q[j] => i = j
  PROVE  /\ Head(q) \in Tasks /\ Head(q) \in Items(q)
         /\ Items(r) = Items(q) \ {Head(q)}
         /\ \A i, j \in DOMAIN r : r[i] = r[j] => i = j
<1>1. /\ DOMAIN q = 1 .. Len(q) /\ Len(q) \in Nat \ {0}
      /\ DOMAIN r = 1 .. Len(q) - 1
      /\ \A i \in 1 .. Len(q) - 1 : r[i] = q[i + 1]
      /\ Head(q) = q[1] /\ Head(q) \in Tasks
  BY HeadTailProperties, LenProperties, EmptySeq
<1>2. ASSUME NEW i \in DOMAIN q, q[i] # Head(q)
      PROVE  i - 1 \in DOMAIN r /\ q[i] = r[i - 1]
  BY <1>1, <1>2
<1>3. ASSUME NEW i \in DOMAIN r
      PROVE  i + 1 \in DOMAIN q /\ r[i] = q[i + 1] /\ q[i + 1] # Head(q)
  BY <1>1
<1>4. Items(r) = Items(q) \ {Head(q)}
  <2>1. \A x \in Items(r) : x \in Items(q) \ {Head(q)}
    BY <1>3 DEF Items
  <2>2. ASSUME NEW x \in Items(q), x # Head(q) PROVE x \in Items(r)
    <3>1. PICK j \in DOMAIN q : x = q[j]
      BY DEF Items
    <3>2. j - 1 \in DOMAIN r /\ r[j - 1] = x
      BY <1>2, <2>2, <3>1
    <3> QED
      BY ONLY <3>2 DEF Items
  <2> QED
    BY <2>1, <2>2
<1>5. \A i, j \in DOMAIN r : r[i] = r[j] => i = j
  <2> SUFFICES ASSUME NEW i \in DOMAIN r, NEW j \in DOMAIN r, r[i] = r[j]
               PROVE  i = j
    OBVIOUS
  <2>1. i + 1 = j + 1
    BY <1>3
  <2> QED
    BY <1>1, <2>1
<1>6. Head(q) \in Items(q)
  BY <1>1 DEF Items
<1> QED
  BY <1>1, <1>4, <1>5, <1>6

LEMMA OtherAppended ==
  ASSUME NEW M, NEW s \in Seq(M), NEW m \in M, ~AboutTask(m),
         NEW r, r = Append(s, m)
  PROVE  /\ TasksIn(r) = TasksIn(s)
         /\ OnceIn(s) => OnceIn(r)
<1>1. /\ DOMAIN s = 1 .. Len(s) /\ Len(s) \in Nat
      /\ DOMAIN r = 1 .. Len(s) + 1
      /\ \A i \in 1 .. Len(s) : r[i] = s[i]
      /\ r[Len(s) + 1] = m
  BY AppendProperties, LenProperties
<1>2. /\ \A i \in DOMAIN s : i \in DOMAIN r /\ r[i] = s[i]
      /\ \A i \in DOMAIN r : AboutTask(r[i]) => i \in DOMAIN s
  BY <1>1
<1> QED
  BY <1>2 DEF TasksIn, OnceIn

LEMMA MessageAppended ==
  ASSUME NEW M, NEW s \in Seq(M), NEW m \in M, AboutTask(m),
         m.task \in Tasks, OnceIn(s), m.task \notin TasksIn(s),
         NEW r, r = Append(s, m)
  PROVE  /\ TasksIn(r) = TasksIn(s) \cup {m.task}
         /\ OnceIn(r)
<1>1. /\ DOMAIN s = 1 .. Len(s) /\ Len(s) \in Nat
      /\ DOMAIN r = 1 .. Len(s) + 1
      /\ \A i \in 1 .. Len(s) : r[i] = s[i]
      /\ r[Len(s) + 1] = m
  BY AppendProperties, LenProperties
<1>2. /\ \A i \in DOMAIN s : i \in DOMAIN r /\ r[i] = s[i]
      /\ \A i \in DOMAIN r : i \in DOMAIN s \/ i = Len(s) + 1
      /\ Len(s) + 1 \in DOMAIN r /\ r[Len(s) + 1] = m
  BY <1>1
<1> QED
  BY <1>2 DEF TasksIn, OnceIn

LEMMA TailMessages ==
  ASSUME NEW M, NEW s \in Seq(M), s # <<>>, NEW r, r = Tail(s)
  PROVE  /\ \A i \in DOMAIN r : i + 1 \in DOMAIN s /\ r[i] = s[i + 1] /\ i + 1 # 1
         /\ \A i \in DOMAIN s : i # 1 => i - 1 \in DOMAIN r /\ r[i - 1] = s[i]
         /\ \A i, j \in DOMAIN r : i + 1 = j + 1 => i = j
         /\ 1 \in DOMAIN s /\ Head(s) = s[1]
<1>1. /\ DOMAIN s = 1 .. Len(s) /\ Len(s) \in Nat \ {0}
      /\ DOMAIN r = 1 .. Len(s) - 1
      /\ \A i \in 1 .. Len(s) - 1 : r[i] = s[i + 1]
      /\ Head(s) = s[1]
  BY HeadTailProperties, LenProperties, EmptySeq
<1> QED
  BY <1>1

LEMMA OtherTaken ==
  ASSUME NEW M, NEW s \in Seq(M), s # <<>>, ~AboutTask(Head(s)),
         NEW r, r = Tail(s)
  PROVE  /\ TasksIn(r) = TasksIn(s)
         /\ OnceIn(s) => OnceIn(r)
<1>1. /\ \A i \in DOMAIN r : i + 1 \in DOMAIN s /\ r[i] = s[i + 1]
      /\ \A i \in DOMAIN s : i # 1 => i - 1 \in DOMAIN r /\ r[i - 1] = s[i]
      /\ \A i, j \in DOMAIN r : i + 1 = j + 1 => i = j
      /\ \A i \in DOMAIN s : AboutTask(s[i]) => i # 1
  BY TailMessages
<1>2. ASSUME NEW t \in TasksIn(r) PROVE t \in TasksIn(s)
  BY <1>1 DEF TasksIn
<1>3. ASSUME NEW t \in TasksIn(s) PROVE t \in TasksIn(r)
  <2>1. PICK i \in DOMAIN s : AboutTask(s[i]) /\ s[i].task = t
    BY DEF TasksIn
  <2>2. i - 1 \in DOMAIN r /\ r[i - 1] = s[i]
    BY <1>1, <2>1
  <2> QED
    BY <2>1, <2>2 DEF TasksIn
<1>4. OnceIn(s) => OnceIn(r)
  BY <1>1 DEF OnceIn
<1> QED
  BY <1>2, <1>3, <1>4

LEMMA MessageTaken ==
  ASSUME NEW M, NEW s \in Seq(M), s # <<>>, AboutTask(Head(s)),
         Head(s).task \in Tasks, OnceIn(s), NEW r, r = Tail(s)
  PROVE  /\ Head(s).task \in TasksIn(s)
         /\ TasksIn(r) = TasksIn(s) \ {Head(s).task}
         /\ OnceIn(r)
<1>1. /\ \A i \in DOMAIN r : i + 1 \in DOMAIN s /\ r[i] = s[i + 1] /\ i + 1 # 1
      /\ \A i \in DOMAIN s : i # 1 => i - 1 \in DOMAIN r /\ r[i - 1] = s[i]
      /\ \A i, j \in DOMAIN r : i + 1 = j + 1 => i = j
      /\ 1 \in DOMAIN s /\ Head(s) = s[1]
  BY TailMessages
<1>2. Head(s).task \in TasksIn(s)
  BY <1>1 DEF TasksIn
<1>3. \A i \in DOMAIN s : AboutTask(s[i]) /\ s[i].task = Head(s).task => i = 1
  BY <1>1 DEF OnceIn
<1>4. ASSUME NEW t \in TasksIn(r)
      PROVE  t \in TasksIn(s) /\ t # Head(s).task
  BY <1>1, <1>3 DEF TasksIn
<1>5. ASSUME NEW t \in TasksIn(s), t # Head(s).task
      PROVE  t \in TasksIn(r)
  <2>1. PICK i \in DOMAIN s : AboutTask(s[i]) /\ s[i].task = t
    BY DEF TasksIn
  <2>2. i - 1 \in DOMAIN r /\ r[i - 1] = s[i]
    BY <1>1, <1>5, <2>1
  <2> QED
    BY <2>1, <2>2 DEF TasksIn
<1>6. OnceIn(r)
  BY <1>1 DEF OnceIn
<1> QED
  BY <1>2, <1>4, <1>5, <1>6

LEMMA MessagesEmpty ==
  TasksIn(<<>>) = {} /\ OnceIn(<<>>)
BY EmptySeq DEF TasksIn, OnceIn

\* The messages that flushTasksQueue sends for a queue.
Flushed(queue) == [i \in DOMAIN queue |-> TaskMessage(queue[i])]

LEMMA MessagesFlushed ==
  ASSUME NEW s \in Seq(ToWorkerMessages), NEW q \in Seq(Tasks),
         NEW last \in {<<>>, <<KillMessage>>}, NEW r,
         r = s \o Flushed(q) \o last,
         OnceIn(s), \A i, j \in DOMAIN q : q[i] = q[j] => i = j,
         \A t \in TasksIn(s) : t \notin Items(q)
  PROVE  TasksIn(r) = TasksIn(s) \cup Items(q) /\ OnceIn(r)
<1> DEFINE moved == Flushed(q)
<1>1. /\ DOMAIN s = 1 .. Len(s) /\ Len(s) \in Nat
      /\ DOMAIN q = 1 .. Len(q) /\ Len(q) \in Nat
      /\ \A i \in DOMAIN q : q[i] \in Tasks
  BY LenProperties, ElementOfSeq
<1>2. moved \in [1 .. Len(q) -> ToWorkerMessages]
  BY <1>1 DEF Flushed, TaskMessage, ToWorkerMessages
<1>3. moved \in Seq(ToWorkerMessages) /\ Len(moved) = Len(q)
  BY <1>1, <1>2, FunctionIsSeq
<1>4. last \in Seq(ToWorkerMessages) /\ Len(last) \in Nat
      /\ \A i \in 1 .. Len(last) : ~AboutTask(last[i])
  <2>1. CASE last = <<>>
    BY <2>1, EmptySeq
  <2>2. CASE last = <<KillMessage>>
    <3>1. KillMessage \in ToWorkerMessages /\ ~AboutTask(KillMessage)
      BY DEF KillMessage, ToWorkerMessages, AboutTask
    <3>2. /\ <<KillMessage>> \in Seq(ToWorkerMessages)
          /\ Len(<<KillMessage>>) = 1 /\ <<KillMessage>>[1] = KillMessage
      BY <3>1
    <3> QED
      BY <2>2, <3>1, <3>2
  <2> QED
    BY <2>1, <2>2
<1>5. \A i \in DOMAIN q : AboutTask(moved[i]) /\ moved[i].task = q[i]
  BY DEF Flushed, TaskMessage, AboutTask
<1> DEFINE both == s \o moved
<1> HIDE DEF moved
<1>6. /\ both \in Seq(ToWorkerMessages)
      /\ Len(both) = Len(s) + Len(q)
      /\ \A i \in 1 .. Len(s) + Len(q) : both[i] =
           IF i <= Len(s) THEN s[i] ELSE moved[i - Len(s)]
  <2>1. /\ both \in Seq(ToWorkerMessages)
        /\ Len(both) = Len(s) + Len(moved)
        /\ \A i \in 1 .. Len(s) + Len(moved) : both[i] =
             IF i <= Len(s) THEN s[i] ELSE moved[i - Len(s)]
    BY ONLY <1>3, s \in Seq(ToWorkerMessages), ConcatProperties
  <2> QED
    BY ONLY <1>3, <2>1
<1> r = both \o last
  BY DEF moved
<1> HIDE DEF both
<1>7. /\ DOMAIN r = 1 .. Len(s) + Len(q) + Len(last)
      /\ \A i \in DOMAIN r : r[i] =
           IF i <= Len(s) + Len(q) THEN both[i]
           ELSE last[i - (Len(s) + Len(q))]
  <2>1. /\ r \in Seq(ToWorkerMessages)
        /\ Len(r) = Len(both) + Len(last)
        /\ \A i \in 1 .. Len(both) + Len(last) : r[i] =
             IF i <= Len(both) THEN both[i] ELSE last[i - Len(both)]
    <3>1. last \in Seq(ToWorkerMessages) /\ both \in Seq(ToWorkerMessages)
      BY <1>4, <1>6
    <3> QED
      BY ONLY <3>1, r = both \o last, ConcatProperties
  <2>2. DOMAIN r = 1 .. Len(r)
    BY <2>1, LenProperties
  <2> QED
    BY ONLY <1>6, <2>1, <2>2
<1>8. /\ \A i \in DOMAIN s : i \in DOMAIN r /\ r[i] = s[i]
      /\ \A i \in DOMAIN q : /\ Len(s) + i \in DOMAIN r
                             /\ AboutTask(r[Len(s) + i])
                             /\ r[Len(s) + i].task = q[i]
  <2>1. ASSUME NEW i \in DOMAIN s PROVE i \in DOMAIN r /\ r[i] = s[i]
    BY <1>1, <1>4, <1>6, <1>7
  <2>2. ASSUME NEW i \in DOMAIN q
        PROVE  Len(s) + i \in DOMAIN r /\ r[Len(s) + i] = moved[i]
    <3>1. Len(s) + i \in 1 .. Len(s) + Len(q)
      BY <1>1
    <3>2. both[Len(s) + i] = moved[i]
      BY <1>1, <1>6, <3>1
    <3> QED
      BY ONLY <1>1, <1>4, <1>7, <3>1, <3>2
  <2> QED
    BY <1>5, <2>1, <2>2
<1>9. ASSUME NEW i \in DOMAIN r, AboutTask(r[i])
      PROVE  \/ i \in DOMAIN s /\ r[i] = s[i]
             \/ /\ i - Len(s) \in DOMAIN q
                /\ r[i].task = q[i - Len(s)]
  <2>1. CASE i <= Len(s)
    BY <1>1, <1>4, <1>6, <1>7, <2>1
  <2>2. CASE ~(i <= Len(s)) /\ i <= Len(s) + Len(q)
    <3>1. i \in 1 .. Len(s) + Len(q) /\ r[i] = both[i]
      BY ONLY <1>1, <1>4, <1>7, <2>2, i \in DOMAIN r
    <3>2. i - Len(s) \in DOMAIN q /\ r[i] = moved[i - Len(s)]
      BY <1>1, <1>6, <2>2, <3>1
    <3> QED
      BY <1>5, <3>2
  <2>3. CASE ~(i <= Len(s) + Len(q))
    <3>1. i - (Len(s) + Len(q)) \in 1 .. Len(last)
          /\ r[i] = last[i - (Len(s) + Len(q))]
      BY ONLY <1>1, <1>4, <1>7, <2>3, i \in DOMAIN r
    <3> QED
      BY ONLY <1>4, <1>9, <3>1
  <2> QED
    BY <2>1, <2>2, <2>3
<1>10. ASSUME NEW t \in Tasks
       PROVE  t \in TasksIn(r)
                <=> t \in TasksIn(s) \cup Items(q)
  <2>1. CASE t \in TasksIn(r)
    BY <1>9, <2>1 DEF TasksIn, Items
  <2>2. CASE t \in TasksIn(s)
    BY <1>8, <2>2 DEF TasksIn
  <2>3. CASE t \in Items(q)
    <3>1. PICK i \in DOMAIN q : q[i] = t
      BY <2>3 DEF Items
    <3>2. /\ Len(s) + i \in DOMAIN r /\ AboutTask(r[Len(s) + i])
          /\ r[Len(s) + i].task = t
      BY <1>8, <3>1
    <3> QED
      BY <2>3, <3>2 DEF TasksIn
  <2> QED
    BY <2>1, <2>2, <2>3
<1>11. TasksIn(r) = TasksIn(s) \cup Items(q)
  <2>1. TasksIn(r) \subseteq Tasks /\ TasksIn(s) \subseteq Tasks
        /\ Items(q) \subseteq Tasks
    BY <1>1 DEF TasksIn, Items
  <2> QED
    BY <1>10, <2>1
<1>12. OnceIn(r)
  <2> SUFFICES ASSUME NEW i \in DOMAIN r, NEW j \in DOMAIN r,
                      AboutTask(r[i]), AboutTask(r[j]),
                      r[i].task = r[j].task
               PROVE  i = j
    BY DEF OnceIn
  <2>1. i \in Int /\ j \in Int
    BY <1>7
  <2>2. CASE (i \in DOMAIN s /\ r[i] = s[i]) /\ (j \in DOMAIN s /\ r[j] = s[j])
    BY <2>2 DEF OnceIn
  <2>3. CASE /\ i - Len(s) \in DOMAIN q /\ r[i].task = q[i - Len(s)]
             /\ j - Len(s) \in DOMAIN q /\ r[j].task = q[j - Len(s)]
    <3>1. i - Len(s) = j - Len(s)
      BY <2>3
    <3> QED
      BY <1>1, <2>1, <3>1
  <2>4. ASSUME NEW k \in DOMAIN s, NEW l \in DOMAIN q,
               AboutTask(s[k]), s[k].task = q[l]
        PROVE  FALSE
    BY <1>1, <2>4 DEF TasksIn, Items
  <2> QED
    BY <1>9, <2>2, <2>3, <2>4
<1> QED
  BY <1>11, <1>12

-----------------------------------------------------------------------------
(* What becomes of the places when a queue or a channel changes.           *)

LEMMA QueuesAppended ==
  ASSUME NEW f \in [WorkerIds -> Seq(Tasks)], NEW w \in WorkerIds,
         NEW t \in Tasks, NEW g, g[w] = Append(f[w], t),
         \A v \in WorkerIds : v # w => g[v] = f[v],
         OnceInQueue(f), t \notin TasksOf(f)[w]
  PROVE  /\ \A v \in WorkerIds : TasksOf(g)[v] =
              IF v = w THEN TasksOf(f)[v] \cup {t} ELSE TasksOf(f)[v]
         /\ OnceInQueue(g)
<1>1. f[w] \in Seq(Tasks) /\ g[w] = Append(f[w], t)
  OBVIOUS
<1>2. /\ Items(g[w]) = Items(f[w]) \cup {t}
      /\ (\A i, j \in DOMAIN f[w] : f[w][i] = f[w][j] => i = j)
         /\ t \notin Items(f[w])
           => \A i, j \in DOMAIN g[w] : g[w][i] = g[w][j] => i = j
  BY <1>1, QueueAppended
<1>3. \A v \in WorkerIds : TasksOf(g)[v] =
        IF v = w THEN TasksOf(f)[v] \cup {t} ELSE TasksOf(f)[v]
  BY <1>2 DEF TasksOf
<1>4. OnceInQueue(g)
  BY <1>1, <1>2 DEF TasksOf, OnceInQueue
<1> QED
  BY <1>3, <1>4

LEMMA QueuesTaken ==
  ASSUME NEW f \in [WorkerIds -> Seq(Tasks)], NEW w \in WorkerIds,
         f[w] # <<>>, OnceInQueue(f), NEW g, g[w] = Tail(f[w]),
         \A v \in WorkerIds : v # w => g[v] = f[v]
  PROVE  /\ Head(f[w]) \in Tasks /\ Head(f[w]) \in TasksOf(f)[w]
         /\ \A v \in WorkerIds : TasksOf(g)[v] =
              IF v = w THEN TasksOf(f)[v] \ {Head(f[w])} ELSE TasksOf(f)[v]
         /\ OnceInQueue(g)
<1>1. f[w] \in Seq(Tasks) /\ g[w] = Tail(f[w])
  OBVIOUS
<1>2. \A i, j \in DOMAIN f[w] : f[w][i] = f[w][j] => i = j
  BY DEF OnceInQueue
<1>3. /\ Head(f[w]) \in Tasks /\ Head(f[w]) \in Items(f[w])
      /\ Items(g[w]) = Items(f[w]) \ {Head(f[w])}
      /\ \A i, j \in DOMAIN g[w] : g[w][i] = g[w][j] => i = j
  BY <1>1, <1>2, QueueTaken
<1>4. \A v \in WorkerIds : TasksOf(g)[v] =
        IF v = w THEN TasksOf(f)[v] \ {Head(f[w])} ELSE TasksOf(f)[v]
  BY <1>3 DEF TasksOf
<1>5. OnceInQueue(g)
  BY <1>1, <1>3 DEF OnceInQueue
<1> QED
  BY <1>3, <1>4, <1>5 DEF TasksOf

LEMMA MessageTypes ==
  /\ \A m \in ToWorkerMessages :
       /\ AboutTask(m) <=> m.type = "task"
       /\ AboutTask(m) => m.task \in Tasks
  /\ \A m \in ToPoolMessages :
       /\ AboutTask(m) <=> m.type = "response"
       /\ AboutTask(m) => m.task \in Tasks
BY DEF ToWorkerMessages, ToPoolMessages, AboutTask

LEMMA PlacesNow ==
  \A v \in WorkerIds :
    /\ queued[v] = Items(tasksQueue[v])
    /\ sent[v] = TasksIn(toWorker[v])
    /\ answered[v] = TasksIn(toPool[v])
BY DEF queued, sent, answered, TasksOf

LEMMA PlacesNext ==
  \A v \in WorkerIds :
    /\ queued'[v] = Items(tasksQueue'[v])
    /\ sent'[v] = TasksIn(toWorker'[v])
    /\ answered'[v] = TasksIn(toPool'[v])
BY DEF queued, sent, answered, TasksOf

\* A task sent to a worker is on its way if the port is open, else lost.
LEMMA SentPlaces ==
  ASSUME TypeOK, NoRepeats, NEW w \in WorkerIds, NEW t \in Tasks,
         \A v \in WorkerIds : t \notin sent[v],
         SendToWorker(w, <<TaskMessage(t)>>)
  PROVE  /\ \A v \in WorkerIds : sent'[v] =
              IF v = w /\ PortOpen(w) THEN sent[v] \cup {t} ELSE sent[v]
         /\ \A v \in WorkerIds : OnceIn(toWorker'[v])
<1>1. CASE ~PortOpen(w)
  BY <1>1 DEF SendToWorker, sent, NoRepeats
<1>2. CASE PortOpen(w)
  <2> DEFINE m == TaskMessage(t)
             r == Append(toWorker[w], m)
  <2>1. m \in ToWorkerMessages /\ AboutTask(m) /\ m.task = t
    BY DEF TaskMessage, ToWorkerMessages, AboutTask
  <2>2. toWorker[w] \in Seq(ToWorkerMessages)
    BY DEF TypeOK
  <2>3. toWorker[w] \o <<m>> = r
    BY <2>1, <2>2, AppendIsConcat
  <2>4. toWorker' = [toWorker EXCEPT ![w] = r]
    BY <1>2, <2>3 DEF SendToWorker
  <2> HIDE DEF m
  <2>5. m.task \notin TasksIn(toWorker[w])
    BY <2>1 DEF sent
  <2>6. OnceIn(toWorker[w])
    BY DEF NoRepeats
  <2>7. TasksIn(r) = TasksIn(toWorker[w]) \cup {m.task} /\ OnceIn(r)
    BY <2>1, <2>2, <2>5, <2>6, MessageAppended
  <2> HIDE DEF r
  <2>8. toWorker'[w] = r /\ \A v \in WorkerIds : v # w => toWorker'[v] = toWorker[v]
    BY <2>4 DEF TypeOK
  <2> QED
    BY <1>2, <2>1, <2>7, <2>8 DEF sent, NoRepeats
<1> QED
  BY <1>1, <1>2

\* A worker takes a message from its port.
LEMMA ReceivedPlaces ==
  ASSUME TypeOK, NoRepeats, NEW w \in WorkerIds, toWorker[w] # <<>>,
         Head(toWorker[w]).type = "task",
         toWorker' = [toWorker EXCEPT ![w] = Tail(@)]
  PROVE  LET t == Head(toWorker[w]).task IN
         /\ t \in Tasks /\ t \in sent[w]
         /\ \A v \in WorkerIds : sent'[v] =
              IF v = w THEN sent[v] \ {t} ELSE sent[v]
         /\ \A v \in WorkerIds : OnceIn(toWorker'[v])
<1>1. toWorker[w] \in Seq(ToWorkerMessages)
  BY DEF TypeOK
<1>2. AboutTask(Head(toWorker[w])) /\ Head(toWorker[w]).task \in Tasks
  BY TakenTypes, MessageTypes
<1>3. toWorker'[w] = Tail(toWorker[w])
      /\ \A v \in WorkerIds : v # w => toWorker'[v] = toWorker[v]
  BY DEF TypeOK
<1>4. OnceIn(toWorker[w])
  BY DEF NoRepeats
<1>5. LET t == Head(toWorker[w]).task IN
      /\ t \in TasksIn(toWorker[w])
      /\ TasksIn(toWorker'[w]) = TasksIn(toWorker[w]) \ {t}
      /\ OnceIn(toWorker'[w])
  BY <1>1, <1>2, <1>3, <1>4, MessageTaken
<1>6. \A v \in WorkerIds : OnceIn(toWorker'[v])
  <2>1. \A v \in WorkerIds : OnceIn(toWorker[v])
    BY DEF NoRepeats
  <2> QED
    BY ONLY <1>3, <1>5, <2>1
<1>7. \A v \in WorkerIds : /\ sent[v] = TasksIn(toWorker[v])
                          /\ sent'[v] = TasksIn(toWorker'[v])
  BY ONLY PlacesNow, PlacesNext
<1>8. PICK t : t = Head(toWorker[w]).task
  OBVIOUS
<1>9. t \in Tasks /\ t \in sent[w] /\ sent'[w] = sent[w] \ {t}
  BY ONLY <1>2, <1>5, <1>7, <1>8, w \in WorkerIds
<1>10. \A v \in WorkerIds : v # w => sent'[v] = sent[v]
  BY ONLY <1>3, <1>7
<1>11. \A v \in WorkerIds : sent'[v] =
         IF v = w THEN sent[v] \ {t} ELSE sent[v]
  BY ONLY <1>9, <1>10
<1> QED
  BY ONLY <1>6, <1>8, <1>9, <1>11

\* The pool takes a message, or a thread posts one.
LEMMA HeardPlaces ==
  ASSUME TypeOK, NoRepeats, NEW w \in WorkerIds, toPool[w] # <<>>,
         toPool' = [toPool EXCEPT ![w] = Tail(@)]
  PROVE  LET m == Head(toPool[w]) IN
         /\ m.type = "response" => m.task \in Tasks /\ m.task \in answered[w]
         /\ \A v \in WorkerIds : answered'[v] =
              IF v = w /\ m.type = "response"
              THEN answered[v] \ {m.task} ELSE answered[v]
         /\ \A v \in WorkerIds : OnceIn(toPool'[v])
<1> DEFINE m == Head(toPool[w])
<1>1. toPool[w] \in Seq(ToPoolMessages)
  BY DEF TypeOK
<1>2. /\ AboutTask(m) <=> m.type = "response"
      /\ AboutTask(m) => m.task \in Tasks
  BY ReceivedTypes, MessageTypes
<1>3. toPool'[w] = Tail(toPool[w])
      /\ \A v \in WorkerIds : v # w => toPool'[v] = toPool[v]
  BY DEF TypeOK
<1>4. OnceIn(toPool[w])
  BY DEF NoRepeats
<1>5. CASE AboutTask(m)
  <2>1. /\ m.task \in TasksIn(toPool[w])
        /\ TasksIn(toPool'[w]) = TasksIn(toPool[w]) \ {m.task}
        /\ OnceIn(toPool'[w])
    BY <1>1, <1>2, <1>3, <1>4, <1>5, MessageTaken
  <2>2. \A v \in WorkerIds : OnceIn(toPool'[v])
    <3>1. \A v \in WorkerIds : OnceIn(toPool[v])
      BY DEF NoRepeats
    <3> QED
      BY ONLY <1>3, <2>1, <3>1
  <2>3. \A v \in WorkerIds : /\ answered[v] = TasksIn(toPool[v])
                            /\ answered'[v] = TasksIn(toPool'[v])
    BY ONLY PlacesNow, PlacesNext
  <2> HIDE DEF m
  <2>4. answered'[w] = answered[w] \ {m.task} /\ m.task \in answered[w]
    BY ONLY <2>1, <2>3, w \in WorkerIds
  <2>5. \A v \in WorkerIds : v # w => answered'[v] = answered[v]
    BY ONLY <1>3, <2>3
  <2>6. m.type = "response" /\ m.task \in Tasks
    BY ONLY <1>2, <1>5
  <2>7. \A v \in WorkerIds : answered'[v] =
          IF v = w /\ m.type = "response" THEN answered[v] \ {m.task} ELSE answered[v]
    BY ONLY <2>4, <2>5, <2>6
  <2> QED
    BY <2>2, <2>4, <2>6, <2>7 DEF m
<1>6. CASE ~AboutTask(m)
  <2>1. TasksIn(toPool'[w]) = TasksIn(toPool[w]) /\ OnceIn(toPool'[w])
    BY <1>1, <1>3, <1>4, <1>6, OtherTaken
  <2> QED
    BY <1>2, <1>3, <1>6, <2>1 DEF answered, NoRepeats
<1> QED
  BY <1>5, <1>6

LEMMA PostedPlaces ==
  ASSUME TypeOK, NoRepeats, NEW w \in WorkerIds, NEW m \in ToPoolMessages,
         toPool' = [toPool EXCEPT ![w] = Append(@, m)],
         m.type = "response" => m.task \notin answered[w]
  PROVE  /\ \A v \in WorkerIds : answered'[v] =
              IF v = w /\ m.type = "response"
              THEN answered[v] \cup {m.task} ELSE answered[v]
         /\ \A v \in WorkerIds : OnceIn(toPool'[v])
<1>1. toPool[w] \in Seq(ToPoolMessages)
  BY DEF TypeOK
<1>2. /\ AboutTask(m) <=> m.type = "response"
      /\ AboutTask(m) => m.task \in Tasks
  BY MessageTypes
<1>3. toPool'[w] = Append(toPool[w], m)
      /\ \A v \in WorkerIds : v # w => toPool'[v] = toPool[v]
  BY DEF TypeOK
<1>4. OnceIn(toPool[w])
  BY DEF NoRepeats
<1>5. CASE AboutTask(m)
  <2>1. m.task \notin TasksIn(toPool[w])
    BY <1>2, <1>5 DEF answered
  <2>2. /\ TasksIn(toPool'[w]) = TasksIn(toPool[w]) \cup {m.task}
        /\ OnceIn(toPool'[w])
    <3> DEFINE r == Append(toPool[w], m)
    <3>1. TasksIn(r) = TasksIn(toPool[w]) \cup {m.task} /\ OnceIn(r)
      BY <1>1, <1>2, <1>4, <1>5, <2>1, MessageAppended
    <3> QED
      BY <1>3, <3>1
  <2>3. \A v \in WorkerIds : v # w => answered'[v] = answered[v]
    BY <1>3, PlacesNow, PlacesNext
  <2>4. answered'[w] = answered[w] \cup {m.task} /\ m.type = "response"
    BY <1>2, <1>5, <2>2, PlacesNow, PlacesNext
  <2>5. \A v \in WorkerIds : OnceIn(toPool'[v])
    BY <1>3, <2>2 DEF NoRepeats
  <2> QED
    BY <2>3, <2>4, <2>5
<1>6. CASE ~AboutTask(m)
  <2>1. TasksIn(toPool'[w]) = TasksIn(toPool[w]) /\ OnceIn(toPool'[w])
    <3> DEFINE r == Append(toPool[w], m)
    <3>1. TasksIn(r) = TasksIn(toPool[w]) /\ OnceIn(r)
      BY <1>1, <1>4, <1>6, OtherAppended
    <3> QED
      BY <1>3, <3>1
  <2> QED
    BY <1>2, <1>3, <1>6, <2>1 DEF answered, NoRepeats
<1> QED
  BY <1>5, <1>6

LEMMA FlushedPlaces ==
  ASSUME IInv, QueuesInv, PlacesInv, NEW ws,
         NEW last \in {<<>>, <<KillMessage>>}, FlushTasksQueues(ws, last)
  PROVE  /\ OnceInQueue(tasksQueue') /\ \A w \in WorkerIds : OnceIn(toWorker'[w])
         /\ \A w \in WorkerIds :
              \/ queued'[w] \subseteq queued[w] /\ sent'[w] = sent[w]
              \/ /\ w \in ws /\ PortOpen(w) /\ queued'[w] = {}
                 /\ sent'[w] = sent[w] \cup queued[w]
<1>1. ASSUME NEW w \in WorkerIds
      PROVE  /\ \A i, j \in DOMAIN tasksQueue[w] :
                  tasksQueue[w][i] = tasksQueue[w][j] => i = j
             /\ OnceIn(toWorker[w])
             /\ tasksQueue[w] \in Seq(Tasks)
             /\ toWorker[w] \in Seq(ToWorkerMessages)
             /\ \A t \in TasksIn(toWorker[w]) : t \notin Items(tasksQueue[w])
  <2>1. TasksIn(toWorker[w]) \subseteq Tasks
    BY DEF TasksIn
  <2>2. tasksQueue[w] \in Seq(Tasks) /\ toWorker[w] \in Seq(ToWorkerMessages)
    BY DEF IInv, TypeOK
  <2>3. /\ \A i, j \in DOMAIN tasksQueue[w] :
             tasksQueue[w][i] = tasksQueue[w][j] => i = j
        /\ OnceIn(toWorker[w])
    BY DEF PlacesInv, NoRepeats, OnceInQueue
  <2>4. \A t \in TasksIn(toWorker[w]) : t \notin Items(tasksQueue[w])
    BY <2>1, PlacesNow DEF PlacesInv, OnePlace
  <2> QED
    BY <2>2, <2>3, <2>4
<1>2. Items(<<>>) = {}
  BY EmptySeq DEF Items
<1>3. ASSUME NEW w \in WorkerIds
      PROVE  /\ Items(tasksQueue'[w]) \subseteq Items(tasksQueue[w])
             /\ \A i, j \in DOMAIN tasksQueue'[w] :
                  tasksQueue'[w][i] = tasksQueue'[w][j] => i = j
  <2>1. CASE tasksQueue'[w] = tasksQueue[w]
    BY <1>1, <2>1
  <2>2. CASE tasksQueue'[w] = <<>>
    BY <1>2, <2>2, EmptySeq
  <2>3. CASE tasksQueue[w] # <<>> /\ tasksQueue'[w] = Tail(tasksQueue[w])
    <3> DEFINE r == Tail(tasksQueue[w])
    <3>1. /\ Items(r) = Items(tasksQueue[w]) \ {Head(tasksQueue[w])}
          /\ \A i, j \in DOMAIN r : r[i] = r[j] => i = j
      BY <1>1, <2>3, QueueTaken
    <3> QED
      BY <2>3, <3>1
  <2> QED
    BY <2>1, <2>2, <2>3 DEF FlushTasksQueues
<1>4. ASSUME NEW w \in WorkerIds, w \in ws, PortOpen(w)
      PROVE  /\ tasksQueue'[w] = <<>>
             /\ TasksIn(toWorker'[w]) = TasksIn(toWorker[w]) \cup Items(tasksQueue[w])
             /\ OnceIn(toWorker'[w])
  <2>1. channel[w] \/ tasksQueue[w] = <<>>
    BY <1>4
    DEF IInv, NodesInv, ChannelsOpen, PortOpen, QueuesInv, FreshQueuesEmpty
  <2>2. tasksQueue'[w] = <<>>
    BY <1>4, <2>1 DEF FlushTasksQueues
  <2> DEFINE r == toWorker[w] \o Flushed(tasksQueue[w]) \o last
  <2>3. toWorker'[w] = r
    BY <1>4 DEF FlushTasksQueues, Flushed
  <2>4. TasksIn(r) = TasksIn(toWorker[w]) \cup Items(tasksQueue[w]) /\ OnceIn(r)
    <3> DEFINE q == tasksQueue[w]
               s == toWorker[w]
    <3>1. /\ s \in Seq(ToWorkerMessages) /\ q \in Seq(Tasks)
          /\ OnceIn(s) /\ \A i, j \in DOMAIN q : q[i] = q[j] => i = j
          /\ \A t \in TasksIn(s) : t \notin Items(q)
      BY <1>1
    <3> HIDE DEF q, s
    <3>2. \A x : x = s \o Flushed(q) \o last
                 => TasksIn(x) = TasksIn(s) \cup Items(q) /\ OnceIn(x)
      BY <3>1, MessagesFlushed
    <3> QED
      BY <3>2 DEF q, s
  <2> QED
    BY <2>2, <2>3, <2>4
<1>5. ASSUME NEW w \in WorkerIds, ~(w \in ws /\ PortOpen(w))
      PROVE  toWorker'[w] = toWorker[w]
  BY <1>5 DEF FlushTasksQueues
<1>6. OnceInQueue(tasksQueue') /\ \A w \in WorkerIds : OnceIn(toWorker'[w])
  BY <1>1, <1>3, <1>4, <1>5 DEF OnceInQueue
<1>7. ASSUME NEW w \in WorkerIds
      PROVE  \/ queued'[w] \subseteq queued[w] /\ sent'[w] = sent[w]
             \/ /\ w \in ws /\ PortOpen(w) /\ queued'[w] = {}
                /\ sent'[w] = sent[w] \cup queued[w]
  BY <1>2, <1>3, <1>4, <1>5, PlacesNow, PlacesNext
<1> QED
  BY <1>6, <1>7

-----------------------------------------------------------------------------
(* Every step keeps each task at one place.                                *)

\* Steps by which tasks get lost or settled, or stay where they are.
LEMMA FewerPlaces ==
  ASSUME PlacesInv, NoRepeats', UNCHANGED runs,
         \A w \in WorkerIds :
           /\ queued'[w] \subseteq queued[w] /\ sent'[w] \subseteq sent[w]
           /\ running'[w] \subseteq running[w]
           /\ answered'[w] \subseteq answered[w],
         \A t \in Tasks :
           \/ promise'[t] = promise[t]
           \/ /\ promise'[t] # "none"
              /\ \A w \in WorkerIds :
                   /\ t \notin queued'[w] /\ t \notin sent'[w]
                   /\ t \notin running'[w] /\ t \notin answered'[w]
  PROVE  PlacesInv'
<1>1. OnePlace'
  BY DEF PlacesInv, OnePlace
<1>2. PlaceTellsState'
  BY DEF PlacesInv, PlaceTellsState
<1> QED
  BY <1>1, <1>2 DEF PlacesInv

\* A task comes to a place of worker x, or to none; the others stay where
\* they are, or get lost or settled.
OnlyMoved(t, x, place) ==
  /\ place \in {"none", "queued", "sent", "running", "answered"}
  /\ \A w \in WorkerIds :
       /\ t \in queued'[w] => place = "queued" /\ w = x
       /\ t \in sent'[w] => place = "sent" /\ w = x
       /\ t \in running'[w] => place = "running" /\ w = x
       /\ t \in answered'[w] => place = "answered" /\ w = x
  /\ place \in {"queued", "sent"} => promise'[t] = "pending" /\ runs'[t] = 0
  /\ place \in {"running", "answered"}
       => promise'[t] = "pending" /\ runs'[t] = 1
  /\ runs'[t] \in {0, 1} /\ (promise'[t] = "none" => runs'[t] = 0)
  /\ \A u \in Tasks : u # t =>
       /\ runs'[u] = runs[u]
       /\ \A w \in WorkerIds :
            /\ u \in queued'[w] => u \in queued[w]
            /\ u \in sent'[w] => u \in sent[w]
            /\ u \in running'[w] => u \in running[w]
            /\ u \in answered'[w] => u \in answered[w]
       /\ \/ promise'[u] = promise[u]
          \/ /\ promise'[u] # "none"
             /\ \A w \in WorkerIds :
                  /\ u \notin queued'[w] /\ u \notin sent'[w]
                  /\ u \notin running'[w] /\ u \notin answered'[w]

LEMMA OneTaskPlaces ==
  ASSUME PlacesInv, NoRepeats', NEW t \in Tasks, NEW x \in WorkerIds,
         NEW place, OnlyMoved(t, x, place)
  PROVE  PlacesInv'
<1>1. OnePlace'
  BY DEF PlacesInv, OnePlace, OnlyMoved
<1>2. PlaceTellsState'
  BY DEF PlacesInv, PlaceTellsState, OnlyMoved
<1> QED
  BY <1>1, <1>2 DEF PlacesInv

\* Steps that send what is in queues to the workers.
LEMMA FlushKeepsPlaces ==
  ASSUME IInv, QueuesInv, PlacesInv, NEW ws,
         NEW last \in {<<>>, <<KillMessage>>}, FlushTasksQueues(ws, last),
         UNCHANGED <<promise, runs, running>>,
         \A w \in WorkerIds : OnceIn(toPool'[w]),
         \A w \in WorkerIds : answered'[w] \subseteq answered[w]
  PROVE  PlacesInv'
<1>1. /\ OnceInQueue(tasksQueue') /\ \A w \in WorkerIds : OnceIn(toWorker'[w])
      /\ \A w \in WorkerIds :
           \/ queued'[w] \subseteq queued[w] /\ sent'[w] = sent[w]
           \/ queued'[w] = {} /\ sent'[w] = sent[w] \cup queued[w]
  BY FlushedPlaces
<1>2. NoRepeats'
  BY <1>1 DEF NoRepeats
<1>3. OnePlace'
  BY <1>1 DEF PlacesInv, OnePlace
<1>4. PlaceTellsState'
  BY <1>1 DEF PlacesInv, PlaceTellsState
<1> QED
  BY <1>2, <1>3, <1>4 DEF PlacesInv

\* An accepted task that has not been anywhere yet is nowhere.
LEMMA FreshNowhere ==
  ASSUME PlacesInv, NEW t \in Tasks, promise[t] # "pending"
  PROVE  \A w \in WorkerIds : /\ t \notin queued[w] /\ t \notin sent[w]
                              /\ t \notin running[w] /\ t \notin answered[w]
BY DEF PlacesInv, PlaceTellsState

LEMMA KeptPlaces ==
  /\ UNCHANGED tasksQueue => queued' = queued
  /\ UNCHANGED toWorker => sent' = sent
  /\ UNCHANGED toPool => answered' = answered
BY DEF queued, sent, answered

LEMMA ExecutePlaces ==
  ASSUME IInv, IInv', PlacesInv, NEW t \in Tasks, Execute(t)
  PROVE  PlacesInv'
<1>1. /\ promise[t] = "none" /\ TypeOK /\ NoRepeats
      /\ promise \in [Tasks -> {"none", "pending", "resolved", "rejected"}]
      /\ UNCHANGED <<toPool, running, runs>>
  BY DEF Execute, IInv, TypeOK, PlacesInv
<1>2. /\ answered' = answered /\ runs[t] = 0
      /\ \A w \in WorkerIds : OnceIn(toPool'[w])
      /\ \A w \in WorkerIds : /\ t \notin queued[w] /\ t \notin sent[w]
                              /\ t \notin running[w] /\ t \notin answered[w]
  BY <1>1, KeptPlaces, FreshNowhere
  DEF PlacesInv, NoRepeats, PlaceTellsState
<1>3. PICK key \in Choices(Len(workerNodes')) :
        LET found == key \in 0 .. Len(workerNodes') - 1
            w == workerNodes'[key + 1]
        IN
        \/ /\ ~found
           /\ promise' = [promise EXCEPT ![t] = "rejected"]
           /\ UNCHANGED <<tasksQueue, toWorker>>
        \/ /\ found
           /\ ExecuteTask(w, t, executing)
           /\ promise' = [promise EXCEPT
                ![t] = IF HasChannel(w) THEN "pending" ELSE "rejected"]
           /\ UNCHANGED tasksQueue
        \/ /\ found
           /\ tasksQueue' = [tasksQueue EXCEPT ![w] = Append(@, t)]
           /\ promise' = [promise EXCEPT ![t] = "pending"]
           /\ UNCHANGED toWorker
  BY DEF Execute, queueVars
<1> DEFINE w == workerNodes'[key + 1]
<1>4. key \in 0 .. Len(workerNodes') - 1 => w \in WorkerIds
  <2>1. workerNodes' \in Seq(WorkerIds)
    BY DEF IInv, TypeOK
  <2>2. Len(workerNodes') \in Nat
    BY <2>1, LenProperties
  <2>3. key \in 0 .. Len(workerNodes') - 1 => key + 1 \in 1 .. Len(workerNodes')
    BY <2>2
  <2> QED
    BY <2>1, <2>3, ElementOfSeq
<1> HIDE DEF w
<1>5. CASE /\ promise' = [promise EXCEPT ![t] = "rejected"]
           /\ UNCHANGED <<tasksQueue, toWorker>>
  <2>1. NoRepeats' /\ queued' = queued /\ sent' = sent
    BY <1>1, <1>2, <1>5, KeptPlaces DEF NoRepeats
  <2> QED
    BY <1>1, <1>2, <1>5, <2>1, FewerPlaces
<1>6. CASE /\ w \in WorkerIds /\ ExecuteTask(w, t, executing)
           /\ promise' = [promise EXCEPT
                ![t] = IF HasChannel(w) THEN "pending" ELSE "rejected"]
           /\ UNCHANGED tasksQueue
  <2>1. /\ \A v \in WorkerIds : sent'[v] =
             IF v = w /\ PortOpen(w) THEN sent[v] \cup {t} ELSE sent[v]
        /\ \A v \in WorkerIds : OnceIn(toWorker'[v])
    BY <1>1, <1>2, <1>6, SentPlaces DEF ExecuteTask
  <2>2. NoRepeats' /\ queued' = queued
    BY <1>1, <1>2, <1>6, <2>1, KeptPlaces DEF NoRepeats
  <2>3. PortOpen(w) => HasChannel(w)
    BY <1>6 DEF PortOpen, HasChannel, IInv, NodesInv, ChannelsOpen
  <2> DEFINE place == IF PortOpen(w) THEN "sent" ELSE "none"
  <2>4. \A v \in WorkerIds :
          /\ t \notin queued'[v] /\ t \notin running'[v] /\ t \notin answered'[v]
          /\ t \in sent'[v] => place = "sent" /\ v = w
    BY <1>1, <1>2, <2>1, <2>2
  <2>5. place = "sent" => promise'[t] = "pending"
    BY <1>1, <1>6, <2>3
  <2>6. /\ runs'[t] = 0 /\ promise'[t] # "none"
        /\ \A u \in Tasks : u # t => promise'[u] = promise[u] /\ runs'[u] = runs[u]
    BY <1>1, <1>2, <1>6
  <2>7. \A u \in Tasks : u # t => \A v \in WorkerIds :
          /\ u \in queued'[v] => u \in queued[v]
          /\ u \in sent'[v] => u \in sent[v]
          /\ u \in running'[v] => u \in running[v]
          /\ u \in answered'[v] => u \in answered[v]
    BY <1>1, <1>2, <2>1, <2>2
  <2>8. place \in {"none", "sent"}
    OBVIOUS
  <2> HIDE DEF place
  <2>9. OnlyMoved(t, w, place)
    BY <2>4, <2>5, <2>6, <2>7, <2>8 DEF OnlyMoved
  <2> QED
    BY <1>6, <2>2, <2>9, OneTaskPlaces
<1>7. CASE /\ w \in WorkerIds
           /\ tasksQueue' = [tasksQueue EXCEPT ![w] = Append(@, t)]
           /\ promise' = [promise EXCEPT ![t] = "pending"]
           /\ UNCHANGED toWorker
  <2>1. tasksQueue \in [WorkerIds -> Seq(Tasks)] /\ OnceInQueue(tasksQueue)
    BY <1>1 DEF TypeOK, NoRepeats
  <2>2. /\ \A v \in WorkerIds : queued'[v] =
             IF v = w THEN queued[v] \cup {t} ELSE queued[v]
        /\ OnceInQueue(tasksQueue')
    <3>1. queued = TasksOf(tasksQueue) /\ queued' = TasksOf(tasksQueue')
      BY DEF queued
    <3>2. t \notin TasksOf(tasksQueue)[w]
      BY <1>2, <1>7, <3>1
    <3>3. /\ tasksQueue'[w] = Append(tasksQueue[w], t)
          /\ \A v \in WorkerIds : v # w => tasksQueue'[v] = tasksQueue[v]
      BY <1>7, <2>1
    <3>4. w \in WorkerIds
      BY <1>7
    <3>5. /\ \A v \in WorkerIds : TasksOf(tasksQueue')[v] =
               IF v = w THEN TasksOf(tasksQueue)[v] \cup {t}
               ELSE TasksOf(tasksQueue)[v]
          /\ OnceInQueue(tasksQueue')
      BY ONLY <2>1, <3>2, <3>3, <3>4, t \in Tasks, QueuesAppended
    <3> QED
      BY <3>1, <3>5
  <2>3. NoRepeats' /\ sent' = sent
    BY <1>1, <1>2, <1>7, <2>2, KeptPlaces DEF NoRepeats
  <2>4. \A v \in WorkerIds :
          /\ t \notin sent'[v] /\ t \notin running'[v] /\ t \notin answered'[v]
          /\ t \in queued'[v] => v = w
    BY <1>1, <1>2, <2>2, <2>3
  <2>5. /\ runs'[t] = 0 /\ promise'[t] = "pending"
        /\ \A u \in Tasks : u # t => promise'[u] = promise[u] /\ runs'[u] = runs[u]
    BY <1>1, <1>2, <1>7
  <2>6. \A u \in Tasks : u # t => \A v \in WorkerIds :
          /\ u \in queued'[v] => u \in queued[v]
          /\ u \in sent'[v] => u \in sent[v]
          /\ u \in running'[v] => u \in running[v]
          /\ u \in answered'[v] => u \in answered[v]
    BY <1>1, <1>2, <2>2, <2>3
  <2> DEFINE place == "queued"
  <2> HIDE DEF place
  <2>7. place = "queued"
    BY DEF place
  <2>8. OnlyMoved(t, w, place)
    BY <2>4, <2>5, <2>6, <2>7 DEF OnlyMoved
  <2> QED
    BY <1>7, <2>3, <2>8, OneTaskPlaces
<1> QED
  BY <1>3, <1>4, <1>5, <1>6, <1>7 DEF w

LEMMA RunTaskPlaces ==
  ASSUME IInv, PlacesInv, NEW w \in WorkerIds, RunTask(w)
  PROVE  /\ PlacesInv'
         /\ LET t == Head(toWorker[w]).task IN
            /\ t \in Tasks /\ promise[t] = "pending" /\ runs[t] = 0
            /\ runs' = [runs EXCEPT ![t] = 1] /\ UNCHANGED promise
<1> DEFINE t == Head(toWorker[w]).task
<1>1. /\ TypeOK /\ NoRepeats /\ UNCHANGED <<promise, tasksQueue, toPool>>
      /\ toWorker[w] # <<>> /\ Head(toWorker[w]).type = "task"
      /\ toWorker' = [toWorker EXCEPT ![w] = Tail(@)]
      /\ running' = [running EXCEPT ![w] = @ \cup {t}]
      /\ runs' = [runs EXCEPT ![t] = @ + 1]
  BY DEF IInv, PlacesInv, RunTask, WorkerReceives, queueVars, taskVars
<1>2. /\ t \in Tasks /\ t \in sent[w]
      /\ \A v \in WorkerIds : sent'[v] = IF v = w THEN sent[v] \ {t} ELSE sent[v]
      /\ \A v \in WorkerIds : OnceIn(toWorker'[v])
  BY <1>1, ReceivedPlaces
<1> HIDE DEF t
<1>3. NoRepeats' /\ queued' = queued /\ answered' = answered
  BY <1>1, <1>2, KeptPlaces DEF NoRepeats
<1>4. promise[t] = "pending" /\ runs[t] = 0
  BY <1>2 DEF PlacesInv, PlaceTellsState
<1>5. \A v \in WorkerIds :
        running'[v] = IF v = w THEN running[v] \cup {t} ELSE running[v]
  BY <1>1 DEF TypeOK
<1>10. \A v \in WorkerIds :
         /\ t \notin queued[v] /\ t \notin answered[v] /\ t \notin running[v]
         /\ t \in sent[v] => v = w
  BY <1>2 DEF PlacesInv, OnePlace
<1>11. \A v \in WorkerIds :
         /\ t \notin queued'[v] /\ t \notin answered'[v] /\ t \notin sent'[v]
         /\ t \in running'[v] => v = w
  BY <1>2, <1>3, <1>5, <1>10
<1>6. runs'[t] = 1 /\ promise'[t] = "pending" /\ runs' = [runs EXCEPT ![t] = 1]
  BY <1>1, <1>2, <1>4 DEF TypeOK
<1>7. \A u \in Tasks : u # t =>
        /\ promise'[u] = promise[u] /\ runs'[u] = runs[u]
        /\ \A v \in WorkerIds :
             /\ u \in queued'[v] => u \in queued[v]
             /\ u \in sent'[v] => u \in sent[v]
             /\ u \in running'[v] => u \in running[v]
             /\ u \in answered'[v] => u \in answered[v]
  <2>1. \A u \in Tasks : u # t => promise'[u] = promise[u] /\ runs'[u] = runs[u]
    BY <1>1
  <2> QED
    BY <1>2, <1>3, <1>5, <2>1
<1> DEFINE place == "running"
<1> HIDE DEF place
<1>8. place = "running"
  BY DEF place
<1>12. OnlyMoved(t, w, place)
  BY <1>6, <1>7, <1>8, <1>11 DEF OnlyMoved
<1>9. PlacesInv'
  BY <1>2, <1>3, <1>12, OneTaskPlaces
<1> QED
  BY <1>1, <1>2, <1>4, <1>6, <1>9 DEF t

LEMMA AnswerTaskPlaces ==
  ASSUME IInv, PlacesInv, NEW w \in WorkerIds, NEW t \in Tasks,
         NEW ok \in BOOLEAN, AnswerTask(w, t, ok)
  PROVE  PlacesInv'
<1> DEFINE m == [type |-> "response", task |-> t, ok |-> ok]
<1>1. /\ TypeOK /\ NoRepeats /\ UNCHANGED <<promise, runs, tasksQueue, toWorker>>
      /\ t \in running[w]
      /\ running' = [running EXCEPT ![w] = @ \ {t}]
      /\ toPool' = [toPool EXCEPT ![w] = Append(@, m)]
  BY DEF IInv, PlacesInv, AnswerTask, queueVars, taskVars
<1>2. m \in ToPoolMessages /\ m.type = "response" /\ m.task = t
  BY DEF ToPoolMessages
<1> HIDE DEF m
<1>3. /\ promise[t] = "pending" /\ runs[t] = 1
      /\ \A v \in WorkerIds :
           /\ t \notin queued[v] /\ t \notin answered[v] /\ t \notin sent[v]
           /\ t \in running[v] => v = w
  BY <1>1 DEF PlacesInv, PlaceTellsState, OnePlace
<1>4. /\ \A v \in WorkerIds : answered'[v] =
           IF v = w THEN answered[v] \cup {t} ELSE answered[v]
      /\ \A v \in WorkerIds : OnceIn(toPool'[v])
  BY <1>1, <1>2, <1>3, PostedPlaces
<1>5. NoRepeats' /\ queued' = queued /\ sent' = sent
  BY <1>1, <1>4, KeptPlaces DEF NoRepeats
<1>6. \A v \in WorkerIds :
        running'[v] = IF v = w THEN running[v] \ {t} ELSE running[v]
  BY <1>1 DEF TypeOK
<1>10. \A v \in WorkerIds :
         /\ t \notin queued'[v] /\ t \notin running'[v] /\ t \notin sent'[v]
         /\ t \in answered'[v] => v = w
  BY <1>3, <1>4, <1>5, <1>6
<1>7. \A u \in Tasks : u # t =>
        /\ promise'[u] = promise[u] /\ runs'[u] = runs[u]
        /\ \A v \in WorkerIds :
             /\ u \in queued'[v] => u \in queued[v]
             /\ u \in sent'[v] => u \in sent[v]
             /\ u \in running'[v] => u \in running[v]
             /\ u \in answered'[v] => u \in answered[v]
  <2>1. UNCHANGED <<promise, runs>>
    BY <1>1
  <2> QED
    BY <1>4, <1>5, <1>6, <2>1
<1> DEFINE place == "answered"
<1> HIDE DEF place
<1>8. place = "answered"
  BY DEF place
<1>9. runs'[t] = 1 /\ promise'[t] = "pending"
  BY <1>1, <1>3
<1>11. OnlyMoved(t, w, place)
  BY <1>7, <1>8, <1>9, <1>10 DEF OnlyMoved
<1> QED
  BY <1>5, <1>11, OneTaskPlaces

LEMMA HandleTaskExecutionResponsePlaces ==
  ASSUME IInv, PlacesInv, NEW w \in WorkerIds, HandleTaskExecutionResponse(w)
  PROVE  /\ PlacesInv'
         /\ UNCHANGED runs
         /\ \E t \in Tasks :
              /\ promise[t] = "pending" /\ runs[t] = 1
              /\ \/ UNCHANGED promise
                 \/ \E outcome \in {"resolved", "rejected"} :
                      promise' = [promise EXCEPT ![t] = outcome]
<1> DEFINE t == Head(toPool[w]).task
           key == promiseResponseMap[t]
           x == Node(key)
           left == Decremented(executing[x])
           u == Head(tasksQueue[x])
<1>1. /\ TypeOK /\ NoRepeats /\ UNCHANGED <<running, runs>>
      /\ toPool[w] # <<>> /\ Head(toPool[w]).type = "response"
      /\ toPool' = [toPool EXCEPT ![w] = Tail(@)]
  BY DEF IInv, PlacesInv, HandleTaskExecutionResponse, Received, threadVars
<1>2. /\ t \in Tasks /\ t \in answered[w]
      /\ \A v \in WorkerIds : answered'[v] =
           IF v = w THEN answered[v] \ {t} ELSE answered[v]
      /\ \A v \in WorkerIds : OnceIn(toPool'[v])
  BY <1>1, HeardPlaces
<1>3. promise[t] = "pending" /\ runs[t] = 1
  BY <1>2 DEF PlacesInv, PlaceTellsState
<1>4. promise' = [promise EXCEPT
        ![t] = IF @ # "pending" \/ key = NoEntry THEN @
               ELSE IF Head(toPool[w]).ok THEN "resolved" ELSE "rejected"]
  BY DEF HandleTaskExecutionResponse
<1>5. \/ UNCHANGED <<tasksQueue, toWorker>>
      \/ /\ key \in Keys /\ tasksQueue[x] # <<>>
         /\ SendToWorker(x, <<TaskMessage(u)>>)
         /\ tasksQueue' = Dequeued(x)
  BY DEF HandleTaskExecutionResponse, ExecuteTask, queueVars
<1> HIDE DEF t, key, x, u
<1>6. \A v \in WorkerIds :
        /\ t \notin queued[v] /\ t \notin sent[v] /\ t \notin running[v]
        /\ t \in answered[v] => v = w
  BY <1>2 DEF PlacesInv, OnePlace
<1>7. promise \in [Tasks -> {"none", "pending", "resolved", "rejected"}]
  BY <1>1 DEF TypeOK
<1>8. \/ UNCHANGED promise
      \/ \E outcome \in {"resolved", "rejected"} :
           promise' = [promise EXCEPT ![t] = outcome]
  BY <1>2, <1>4, <1>7
<1>9. \A o \in Tasks : o # t => promise'[o] = promise[o]
  BY <1>4, <1>7
<1>10. promise'[t] # "none"
  BY <1>2, <1>3, <1>7, <1>8
<1>11. CASE UNCHANGED <<tasksQueue, toWorker>>
  <2>1. NoRepeats' /\ queued' = queued /\ sent' = sent
    BY <1>1, <1>2, <1>11, KeptPlaces DEF NoRepeats
  <2>2. \A v \in WorkerIds :
          /\ queued'[v] \subseteq queued[v] /\ sent'[v] \subseteq sent[v]
          /\ running'[v] \subseteq running[v]
          /\ answered'[v] \subseteq answered[v]
    BY <1>1, <1>2, <2>1
  <2>3. \A v \in WorkerIds :
          /\ t \notin queued'[v] /\ t \notin sent'[v]
          /\ t \notin running'[v] /\ t \notin answered'[v]
    BY <1>1, <1>2, <1>6, <2>1
  <2>4. PlacesInv'
    BY <1>1, <1>9, <1>10, <2>1, <2>2, <2>3, FewerPlaces
  <2> QED
    BY <1>1, <1>2, <1>3, <1>8, <2>4
<1>12. CASE /\ key \in Keys /\ tasksQueue[x] # <<>>
            /\ SendToWorker(x, <<TaskMessage(u)>>)
            /\ tasksQueue' = Dequeued(x)
  <2>1. x \in WorkerIds
    BY <1>1, <1>12, NodeIsListed DEF x
  <2>2. tasksQueue \in [WorkerIds -> Seq(Tasks)] /\ OnceInQueue(tasksQueue)
    BY <1>1 DEF TypeOK, NoRepeats
  <2>3. /\ tasksQueue'[x] = Tail(tasksQueue[x])
        /\ \A v \in WorkerIds : v # x => tasksQueue'[v] = tasksQueue[v]
    BY <1>12, <2>1, <2>2 DEF Dequeued
  <2>4. /\ u \in Tasks /\ u \in queued[x]
        /\ \A v \in WorkerIds : queued'[v] =
             IF v = x THEN queued[v] \ {u} ELSE queued[v]
        /\ OnceInQueue(tasksQueue')
    <3>1. queued = TasksOf(tasksQueue) /\ queued' = TasksOf(tasksQueue')
      BY DEF queued
    <3>2. tasksQueue[x] # <<>>
      BY <1>12
    <3>3. /\ u \in Tasks /\ u \in TasksOf(tasksQueue)[x]
          /\ \A v \in WorkerIds : TasksOf(tasksQueue')[v] =
               IF v = x THEN TasksOf(tasksQueue)[v] \ {u}
               ELSE TasksOf(tasksQueue)[v]
          /\ OnceInQueue(tasksQueue')
      BY ONLY <2>1, <2>2, <2>3, <3>2, QueuesTaken DEF u
    <3> QED
      BY <3>1, <3>3
  <2>5. /\ promise[u] = "pending" /\ runs[u] = 0 /\ u # t
        /\ \A v \in WorkerIds :
             /\ u \notin sent[v] /\ u \notin running[v] /\ u \notin answered[v]
             /\ u \in queued[v] => v = x
    BY <1>6, <2>1, <2>4 DEF PlacesInv, OnePlace, PlaceTellsState
  <2>6. /\ \A v \in WorkerIds : sent'[v] =
             IF v = x /\ PortOpen(x) THEN sent[v] \cup {u} ELSE sent[v]
        /\ \A v \in WorkerIds : OnceIn(toWorker'[v])
    BY <1>1, <1>12, <2>1, <2>4, <2>5, SentPlaces
  <2>7. NoRepeats'
    BY <1>2, <2>4, <2>6 DEF NoRepeats
  <2> DEFINE place == IF PortOpen(x) THEN "sent" ELSE "none"
  <2>8. \A v \in WorkerIds :
          /\ u \notin queued'[v] /\ u \notin running'[v] /\ u \notin answered'[v]
          /\ u \in sent'[v] => place = "sent" /\ v = x
    BY <1>1, <1>2, <2>4, <2>5, <2>6
  <2>9. /\ runs'[u] = 0 /\ promise'[u] = "pending"
        /\ \A o \in Tasks : runs'[o] = runs[o]
    BY <1>1, <1>9, <2>4, <2>5
  <2>10. \A o \in Tasks : o # u => \A v \in WorkerIds :
          /\ o \in queued'[v] => o \in queued[v]
          /\ o \in sent'[v] => o \in sent[v]
          /\ o \in running'[v] => o \in running[v]
          /\ o \in answered'[v] => o \in answered[v]
    BY <1>1, <1>2, <2>4, <2>6
  <2>11. \A v \in WorkerIds :
          /\ t \notin queued'[v] /\ t \notin sent'[v]
          /\ t \notin running'[v] /\ t \notin answered'[v]
    BY <1>1, <1>2, <1>6, <2>5, <2>10
  <2>12. place \in {"none", "sent"}
    OBVIOUS
  <2> HIDE DEF place
  <2>14. OnlyMoved(u, x, place)
    BY <1>9, <1>10, <2>8, <2>9, <2>10, <2>11, <2>12 DEF OnlyMoved
  <2>13. PlacesInv'
    BY <2>1, <2>4, <2>7, <2>14, OneTaskPlaces
  <2> QED
    BY <1>1, <1>2, <1>3, <1>8, <2>13
<1> QED
  BY <1>5, <1>11, <1>12

LEMMA RedistributeQueuedTaskPlaces ==
  ASSUME IInv, PlacesInv, RedistributeQueuedTask
  PROVE  PlacesInv'
<1>0. PICK w : w = redistributing
  OBVIOUS
<1>1. /\ TypeOK /\ NoRepeats /\ w \in WorkerIds /\ w \in Listed
      /\ tasksQueue[w] # <<>>
      /\ UNCHANGED <<promise, running, runs, toPool>>
  BY <1>0
  DEF IInv, NodesInv, TypeOK, TaskToRedistribute, ListedUntilExit,
      RedistributeQueuedTask, PlacesInv, taskVars, threadVars
<1>2. PICK d \in WorkerIds : d = Destination
  BY <1>1, DestinationListed, ListedWorkers, EmptySeq DEF Listed
<1>3. /\ Dequeued(w) \in [WorkerIds -> Seq(Tasks)]
      /\ Head(tasksQueue[w]) \in Tasks
  BY <1>1, DequeuedTypes
<1>13. PICK rest \in [WorkerIds -> Seq(Tasks)] : rest = Dequeued(w)
  BY <1>3
<1>14. PICK t \in Tasks : t = Head(tasksQueue[w])
  BY <1>3
<1>4. \/ /\ SendToWorker(d, <<TaskMessage(t)>>)
         /\ tasksQueue' = rest
      \/ /\ tasksQueue' = [rest EXCEPT ![d] = Append(@, t)]
         /\ UNCHANGED toWorker
  BY <1>0, <1>2, <1>13, <1>14 DEF RedistributeQueuedTask, ExecuteTask
<1>5. tasksQueue \in [WorkerIds -> Seq(Tasks)] /\ OnceInQueue(tasksQueue)
  BY <1>1 DEF TypeOK, NoRepeats
<1>6. /\ rest[w] = Tail(tasksQueue[w])
      /\ \A v \in WorkerIds : v # w => rest[v] = tasksQueue[v]
  BY <1>1, <1>5, <1>13 DEF Dequeued
<1>7. /\ t \in queued[w]
      /\ \A v \in WorkerIds : TasksOf(rest)[v] =
           IF v = w THEN queued[v] \ {t} ELSE queued[v]
      /\ OnceInQueue(rest)
  <2>1. queued = TasksOf(tasksQueue)
    BY DEF queued
  <2>2. tasksQueue[w] # <<>> /\ w \in WorkerIds
    BY <1>1
  <2>3. /\ t \in TasksOf(tasksQueue)[w]
        /\ \A v \in WorkerIds : TasksOf(rest)[v] =
             IF v = w THEN TasksOf(tasksQueue)[v] \ {t}
             ELSE TasksOf(tasksQueue)[v]
        /\ OnceInQueue(rest)
    <3> DEFINE f == tasksQueue
               h == Head(f[w])
    <3>1. /\ f \in [WorkerIds -> Seq(Tasks)] /\ OnceInQueue(f)
          /\ w \in WorkerIds /\ f[w] # <<>> /\ rest[w] = Tail(f[w])
          /\ \A v \in WorkerIds : v # w => rest[v] = f[v]
      BY <1>5, <1>6, <2>2
    <3> HIDE DEF f
    <3>2. /\ Head(f[w]) \in Tasks /\ Head(f[w]) \in TasksOf(f)[w]
          /\ \A v \in WorkerIds : TasksOf(rest)[v] =
               IF v = w THEN TasksOf(f)[v] \ {Head(f[w])} ELSE TasksOf(f)[v]
          /\ OnceInQueue(rest)
      BY ONLY <3>1, QueuesTaken
    <3> QED
      BY <1>14, <3>2 DEF f
  <2> QED
    BY <2>1, <2>3
<1>8. /\ promise[t] = "pending" /\ runs[t] = 0
      /\ \A v \in WorkerIds :
           /\ t \notin sent[v] /\ t \notin running[v] /\ t \notin answered[v]
           /\ t \in queued[v] => v = w
           /\ t \notin TasksOf(rest)[v]
  BY <1>1, <1>7 DEF PlacesInv, OnePlace, PlaceTellsState
<1>9. answered' = answered /\ \A v \in WorkerIds : OnceIn(toPool'[v])
  BY <1>1, KeptPlaces DEF NoRepeats
<1>10. /\ runs'[t] = 0 /\ promise'[t] = "pending"
       /\ \A o \in Tasks : promise'[o] = promise[o] /\ runs'[o] = runs[o]
  BY <1>1, <1>8
<1>11. CASE SendToWorker(d, <<TaskMessage(t)>>) /\ tasksQueue' = rest
  <2>1. /\ \A v \in WorkerIds : sent'[v] =
             IF v = d /\ PortOpen(d) THEN sent[v] \cup {t} ELSE sent[v]
        /\ \A v \in WorkerIds : OnceIn(toWorker'[v])
    BY <1>1, <1>2, <1>8, <1>11, SentPlaces
  <2>2. queued' = TasksOf(rest)
    BY <1>11 DEF queued
  <2>3. NoRepeats'
    BY <1>7, <1>9, <1>11, <2>1 DEF NoRepeats
  <2> DEFINE place == IF PortOpen(d) THEN "sent" ELSE "none"
  <2>4. \A v \in WorkerIds :
          /\ t \notin queued'[v] /\ t \notin running'[v] /\ t \notin answered'[v]
          /\ t \in sent'[v] => place = "sent" /\ v = d
    BY <1>1, <1>8, <1>9, <2>1, <2>2
  <2>5. \A o \in Tasks : o # t =>
          /\ runs'[o] = runs[o]
          /\ \A v \in WorkerIds :
               /\ o \in queued'[v] => o \in queued[v]
               /\ o \in sent'[v] => o \in sent[v]
               /\ o \in running'[v] => o \in running[v]
               /\ o \in answered'[v] => o \in answered[v]
          /\ promise'[o] = promise[o]
    BY <1>1, <1>7, <1>9, <1>10, <2>1, <2>2
  <2>6. place \in {"none", "sent"}
    OBVIOUS
  <2> HIDE DEF place
  <2>7. OnlyMoved(t, d, place)
    BY <1>10, <2>4, <2>5, <2>6 DEF OnlyMoved
  <2> QED
    BY <2>3, <2>7, OneTaskPlaces
<1>12. CASE /\ tasksQueue' = [rest EXCEPT ![d] = Append(@, t)]
            /\ UNCHANGED toWorker
  <2>1. /\ tasksQueue'[d] = Append(rest[d], t)
        /\ \A v \in WorkerIds : v # d => tasksQueue'[v] = rest[v]
    BY <1>2, <1>12
  <2>2. t \notin TasksOf(rest)[d]
    BY <1>2, <1>8
  <2>3. /\ \A v \in WorkerIds : TasksOf(tasksQueue')[v] =
             IF v = d THEN TasksOf(rest)[v] \cup {t} ELSE TasksOf(rest)[v]
        /\ OnceInQueue(tasksQueue')
    BY ONLY <1>2, <1>7, <2>1, <2>2, QueuesAppended
  <2>4. queued' = TasksOf(tasksQueue')
    BY DEF queued
  <2>5. NoRepeats' /\ sent' = sent
    BY <1>1, <1>9, <1>12, <2>3, KeptPlaces DEF NoRepeats
  <2>6. \A v \in WorkerIds :
          /\ t \notin sent'[v] /\ t \notin running'[v] /\ t \notin answered'[v]
          /\ t \in queued'[v] => v = d
    BY <1>1, <1>8, <1>9, <2>3, <2>4, <2>5
  <2>7. \A o \in Tasks : o # t =>
          /\ runs'[o] = runs[o]
          /\ \A v \in WorkerIds :
               /\ o \in queued'[v] => o \in queued[v]
               /\ o \in sent'[v] => o \in sent[v]
               /\ o \in running'[v] => o \in running[v]
               /\ o \in answered'[v] => o \in answered[v]
          /\ promise'[o] = promise[o]
    <3> SUFFICES ASSUME NEW o \in Tasks, o # t
                 PROVE  \A v \in WorkerIds : o \in queued'[v] => o \in queued[v]
      BY <1>1, <1>9, <1>10, <2>5
    <3>1. \A v \in WorkerIds : o \in queued'[v] => o \in TasksOf(rest)[v]
      BY ONLY o # t, <2>3, <2>4
    <3> QED
      BY <1>7, <3>1
  <2> DEFINE place == "queued"
  <2> HIDE DEF place
  <2>8. place = "queued"
    BY DEF place
  <2>9. OnlyMoved(t, d, place)
    BY <1>10, <2>6, <2>7, <2>8 DEF OnlyMoved
  <2> QED
    BY <2>5, <2>9, OneTaskPlaces
<1> QED
  BY <1>4, <1>11, <1>12

\* Steps by which no task moves, unless it gets lost.
LEMMA CalmPlaces ==
  ASSUME PlacesInv, UNCHANGED <<runs, tasksQueue>>,
         \A w \in WorkerIds : running'[w] \subseteq running[w],
         \A w \in WorkerIds : toWorker'[w] = toWorker[w] \/ toWorker'[w] = <<>>,
         \A w \in WorkerIds :
           \/ toPool'[w] = toPool[w]
           \/ toPool'[w] = <<>>
           \/ OnceIn(toPool'[w]) /\ answered'[w] = answered[w],
         \A t \in Tasks :
           \/ promise'[t] = promise[t]
           \/ promise[t] = "none" /\ promise'[t] = "rejected"
  PROVE  PlacesInv'
<1>1. /\ queued' = queued
      /\ \A w \in WorkerIds :
           /\ sent'[w] \subseteq sent[w] /\ answered'[w] \subseteq answered[w]
           /\ OnceIn(toWorker'[w]) /\ OnceIn(toPool'[w])
  BY KeptPlaces, PlacesNow, PlacesNext, MessagesEmpty DEF PlacesInv, NoRepeats
<1>2. NoRepeats'
  BY <1>1 DEF PlacesInv, NoRepeats
<1>3. \A w \in WorkerIds :
        /\ queued'[w] \subseteq queued[w] /\ sent'[w] \subseteq sent[w]
        /\ running'[w] \subseteq running[w]
        /\ answered'[w] \subseteq answered[w]
  BY <1>1
<1>4. \A t \in Tasks :
        \/ promise'[t] = promise[t]
        \/ /\ promise'[t] # "none"
           /\ \A w \in WorkerIds :
                /\ t \notin queued'[w] /\ t \notin sent'[w]
                /\ t \notin running'[w] /\ t \notin answered'[w]
  BY <1>3, FreshNowhere
<1> QED
  BY <1>2, <1>3, <1>4, FewerPlaces

\* The pool hears a message that answers no task.
LEMMA HeardOther ==
  ASSUME TypeOK, PlacesInv, NEW w \in WorkerIds, toPool[w] # <<>>,
         Head(toPool[w]).type # "response",
         toPool' = [toPool EXCEPT ![w] = Tail(@)]
  PROVE  \A v \in WorkerIds : OnceIn(toPool'[v]) /\ answered'[v] = answered[v]
<1>1. NoRepeats
  BY DEF PlacesInv
<1> QED
  BY <1>1, HeardPlaces

\* A worker posts one.
LEMMA PostedOther ==
  ASSUME TypeOK, PlacesInv, NEW w \in WorkerIds, NEW m \in ToPoolMessages,
         m.type # "response", toPool' = [toPool EXCEPT ![w] = Append(@, m)]
  PROVE  \A v \in WorkerIds : OnceIn(toPool'[v]) /\ answered'[v] = answered[v]
<1>1. NoRepeats
  BY DEF PlacesInv
<1> QED
  BY <1>1, PostedPlaces

LEMMA CallerPlaces ==
  ASSUME IInv, QueuesInv, PlacesInv,
         \/ Start \/ Destroy \/ SetWorkerChoiceStrategy
         \/ \E t \in Tasks : ExecuteNotStarted(t)
         \/ \E enable \in BOOLEAN : SetEnableTasksQueue(enable)
  PROVE  PlacesInv'
<1>1. /\ TypeOK /\ UNCHANGED <<toPool, running, runs>>
      /\ \A w \in WorkerIds : answered'[w] \subseteq answered[w]
      /\ \A w \in WorkerIds : OnceIn(toPool'[w])
  <2>1. UNCHANGED <<toPool, running, runs>>
    BY DEF Start, Destroy, SetWorkerChoiceStrategy, ExecuteNotStarted,
           SetEnableTasksQueue, threadVars, channelVars
  <2> QED
    BY <2>1, KeptPlaces DEF IInv, PlacesInv, NoRepeats
<1>2. ASSUME NEW t \in Tasks, ExecuteNotStarted(t) PROVE PlacesInv'
  <2>1. /\ promise[t] = "none" /\ promise' = [promise EXCEPT ![t] = "rejected"]
        /\ UNCHANGED <<tasksQueue, toWorker>>
    BY <1>2 DEF ExecuteNotStarted, queueVars, channelVars
  <2>2. \A o \in Tasks :
          \/ promise'[o] = promise[o]
          \/ promise[o] = "none" /\ promise'[o] = "rejected"
    BY <1>1, <2>1 DEF TypeOK
  <2> QED
    BY <1>1, <2>1, <2>2, CalmPlaces
<1>3. CASE Start \/ SetWorkerChoiceStrategy
  <2>1. UNCHANGED <<promise, tasksQueue, toWorker>>
    BY <1>3 DEF Start, SetWorkerChoiceStrategy, taskVars, queueVars, channelVars
  <2> QED
    BY <1>1, <2>1, CalmPlaces
<1>4. CASE Destroy
  <2>1. FlushTasksQueues(Listed, <<KillMessage>>) /\ UNCHANGED promise
    BY <1>4 DEF Destroy, DestroyWorkerNodes, taskVars
  <2> DEFINE last == <<KillMessage>>
  <2>2. last \in {<<>>, <<KillMessage>>} /\ FlushTasksQueues(Listed, last)
    BY <2>1
  <2> HIDE DEF last
  <2> QED
    BY <1>1, <2>1, <2>2, FlushKeepsPlaces
<1>5. ASSUME NEW enable \in BOOLEAN, SetEnableTasksQueue(enable)
      PROVE  PlacesInv'
  <2>1. /\ UNCHANGED promise
        /\ \/ UNCHANGED <<tasksQueue, toWorker>>
           \/ \E ws : FlushTasksQueues(ws, <<>>)
    BY <1>5 DEF SetEnableTasksQueue, queueVars, taskVars
  <2>2. CASE UNCHANGED <<tasksQueue, toWorker>>
    BY <1>1, <2>1, <2>2, CalmPlaces
  <2>3. CASE \E ws : FlushTasksQueues(ws, <<>>)
    <3> DEFINE last == <<>>
    <3>1. last \in {<<>>, <<KillMessage>>}
      OBVIOUS
    <3>2. PICK ws : FlushTasksQueues(ws, last)
      BY <2>3
    <3> HIDE DEF last
    <3> QED
      BY <1>1, <2>1, <3>1, <3>2, FlushKeepsPlaces
  <2> QED
    BY <2>1, <2>2, <2>3
<1> QED
  BY <1>2, <1>3, <1>4, <1>5

LEMMA ListenerPlaces ==
  ASSUME IInv, QueuesInv, PlacesInv, NEW w \in WorkerIds,
         \/ HandleWorkerReadyResponse(w) \/ HandleKillRequest(w)
         \/ HandleKillSuccess(w) \/ HandleKillFailure(w)
  PROVE  PlacesInv'
<1>1. TypeOK /\ UNCHANGED <<promise, running, runs>>
  BY DEF IInv, HandleWorkerReadyResponse, HandleKillRequest,
         HandleKillSuccess, HandleKillFailure, taskVars, threadVars
<1>2. CASE HandleKillSuccess(w)
  <2>1. /\ toPool' = [toPool EXCEPT ![w] = <<>>]
        /\ toWorker' = [toWorker EXCEPT ![w] = <<>>]
        /\ UNCHANGED tasksQueue
    BY <1>2 DEF HandleKillSuccess, queueVars
  <2>2. \A v \in WorkerIds :
          /\ toPool'[v] = toPool[v] \/ toPool'[v] = <<>>
          /\ toWorker'[v] = toWorker[v] \/ toWorker'[v] = <<>>
    BY <1>1, <2>1 DEF TypeOK
  <2> QED
    BY <1>1, <2>1, <2>2, CalmPlaces
<1>3. CASE ~HandleKillSuccess(w)
  <2>1. /\ toPool[w] # <<>> /\ Head(toPool[w]).type # "response"
        /\ toPool' = [toPool EXCEPT ![w] = Tail(@)]
    BY <1>3
    DEF HandleWorkerReadyResponse, HandleKillRequest, HandleKillFailure,
        Received
  <2>2. \A v \in WorkerIds : OnceIn(toPool'[v]) /\ answered'[v] = answered[v]
    BY <1>1, <2>1, HeardOther
  <2>3. \/ UNCHANGED <<tasksQueue, toWorker>>
        \/ FlushTasksQueues({w}, <<KillMessage>>)
    BY <1>3
    DEF HandleWorkerReadyResponse, HandleKillRequest, HandleKillFailure,
        DestroyWorkerNodes, queueVars
  <2>4. CASE UNCHANGED <<tasksQueue, toWorker>>
    BY <1>1, <2>2, <2>4, CalmPlaces
  <2>5. CASE FlushTasksQueues({w}, <<KillMessage>>)
    <3> DEFINE last == <<KillMessage>>
    <3>1. last \in {<<>>, <<KillMessage>>} /\ FlushTasksQueues({w}, last)
      BY <2>5
    <3> HIDE DEF last
    <3>2. \A v \in WorkerIds : OnceIn(toPool'[v]) /\ answered'[v] \subseteq answered[v]
      BY <2>2
    <3> QED
      BY <1>1, <3>1, <3>2, FlushKeepsPlaces
  <2> QED
    BY <2>3, <2>4, <2>5
<1> QED
  BY <1>2, <1>3

LEMMA WorkerPlaces ==
  ASSUME IInv, PlacesInv, NEW w \in WorkerIds,
         \/ HandleWorkerError(w) \/ HandleWorkerExit(w)
         \/ HandleReadyMessage(w) \/ HandleKillMessage(w)
         \/ RequestKill(w) \/ UncaughtError(w)
  PROVE  PlacesInv'
<1>1. TypeOK /\ UNCHANGED <<promise, runs, tasksQueue>>
  BY DEF IInv, HandleWorkerError, HandleWorkerExit, HandleReadyMessage,
         HandleKillMessage, RequestKill, UncaughtError, taskVars, queueVars,
         threadVars
<1>2. \A v \in WorkerIds :
        /\ running'[v] \subseteq running[v]
        /\ toWorker'[v] = toWorker[v] \/ toWorker'[v] = <<>>
  <2>1. UNCHANGED running \/ running' = [running EXCEPT ![w] = {}]
    BY DEF HandleWorkerError, HandleWorkerExit, HandleReadyMessage,
           HandleKillMessage, RequestKill, UncaughtError, threadVars
  <2>2. UNCHANGED toWorker \/ toWorker' = [toWorker EXCEPT ![w] = <<>>]
    BY DEF HandleWorkerError, HandleWorkerExit, HandleReadyMessage,
           HandleKillMessage, RequestKill, UncaughtError, channelVars
  <2> QED
    BY <1>1, <2>1, <2>2 DEF TypeOK
<1>3. \/ UNCHANGED toPool
      \/ toPool' = [toPool EXCEPT ![w] = <<>>]
      \/ \E m \in ToPoolMessages :
           m.type # "response" /\ toPool' = [toPool EXCEPT ![w] = Append(@, m)]
  <2>1. CASE HandleWorkerError(w) \/ HandleWorkerExit(w) \/ UncaughtError(w)
    BY <2>1 DEF HandleWorkerError, HandleWorkerExit, UncaughtError, channelVars
  <2>2. CASE HandleReadyMessage(w)
    <3>1. [type |-> "ready"] \in ToPoolMessages
      BY DEF ToPoolMessages
    <3> QED
      BY <2>2, <3>1 DEF HandleReadyMessage
  <2>3. CASE RequestKill(w)
    <3>1. [type |-> "kill", kill |-> KillBehavior] \in ToPoolMessages
      BY OptionAssumption DEF ToPoolMessages
    <3> QED
      BY <2>3, <3>1 DEF RequestKill
  <2>4. CASE HandleKillMessage(w)
    <3>1. \A outcome \in {"success", "failure"} :
            [type |-> "kill", kill |-> outcome] \in ToPoolMessages
      BY DEF ToPoolMessages
    <3> QED
      BY <2>4, <3>1 DEF HandleKillMessage, KillOutcomes
  <2> QED
    BY <2>1, <2>2, <2>3, <2>4
<1>4. \A v \in WorkerIds :
        \/ toPool'[v] = toPool[v]
        \/ toPool'[v] = <<>>
        \/ OnceIn(toPool'[v]) /\ answered'[v] = answered[v]
  <2>1. CASE UNCHANGED toPool \/ toPool' = [toPool EXCEPT ![w] = <<>>]
    BY <1>1, <2>1 DEF TypeOK
  <2>2. ASSUME NEW m \in ToPoolMessages, m.type # "response",
               toPool' = [toPool EXCEPT ![w] = Append(@, m)]
        PROVE  \A v \in WorkerIds : OnceIn(toPool'[v]) /\ answered'[v] = answered[v]
    BY <1>1, <2>2, PostedOther
  <2> QED
    BY <1>3, <2>1, <2>2
<1> QED
  BY <1>1, <1>2, <1>4, CalmPlaces

LEMMA NextPlaces ==
  ASSUME IInv, IInv', QueuesInv, PlacesInv, Next
  PROVE  PlacesInv'
<1>1. ASSUME NEW t \in Tasks, Execute(t) PROVE PlacesInv'
  BY <1>1, ExecutePlaces
<1>2. CASE Caller
  BY <1>1, <1>2, CallerPlaces DEF Caller
<1>3. ASSUME NEW w \in WorkerIds, Listener(w) PROVE PlacesInv'
  BY <1>3, ListenerPlaces, HandleTaskExecutionResponsePlaces DEF Listener
<1>4. ASSUME NEW w \in WorkerIds,
             WorkerEvent(w) \/ Thread(w) \/ Environment(w)
      PROVE  PlacesInv'
  BY <1>4, WorkerPlaces, RunTaskPlaces, AnswerTaskPlaces
  DEF WorkerEvent, Thread, Environment
<1> QED
  BY <1>2, <1>3, <1>4, RedistributeQueuedTaskPlaces DEF Next

LEMMA PlacesStep ==
  IInv /\ IInv' /\ QueuesInv /\ PlacesInv /\ [Next]_vars => PlacesInv'
<1>1. CASE UNCHANGED vars
  BY <1>1
  DEF vars, queueVars, channelVars, threadVars, taskVars, PlacesInv, NoRepeats,
      OnePlace, PlaceTellsState, queued, sent, answered
<1> QED
  BY <1>1, NextPlaces

\* No task is ever at two places: it waits in one queue, is on one channel or
\* is run by one worker, whatever fails, is restarted or is switched off.
THEOREM PlacesInvAlways == Spec => []PlacesInv
<1>1. Init => PlacesInv
  <2> SUFFICES ASSUME Init PROVE PlacesInv
    OBVIOUS
  <2>1. \A w \in WorkerIds : /\ tasksQueue[w] = <<>> /\ toWorker[w] = <<>>
                             /\ toPool[w] = <<>> /\ running[w] = {}
    BY DEF Init
  <2>2. NoRepeats
    BY <2>1, EmptySeq DEF NoRepeats, OnceInQueue, OnceIn
  <2>3. \A w \in WorkerIds : queued[w] = {} /\ sent[w] = {} /\ answered[w] = {}
    BY <2>1, EmptySeq, PlacesNow DEF Items, TasksIn
  <2>4. OnePlace /\ PlaceTellsState
    BY <2>1, <2>3 DEF OnePlace, PlaceTellsState, Init
  <2> QED
    BY <2>2, <2>4 DEF PlacesInv
<1> QED
  BY <1>1, PlacesStep, IInvAlways, QueuesInvAlways, PTL DEF Spec

-----------------------------------------------------------------------------
(* The pool implements what TaskPromises promises.                         *)

LEMMA PromisesStep ==
  ASSUME IInv, PlacesInv, Next
  PROVE  Promises!Next \/ UNCHANGED <<promise, runs>>
<1>1. promise \in [Tasks -> {"none", "pending", "resolved", "rejected"}]
  BY DEF IInv, TypeOK
<1>2. ASSUME NEW t \in Tasks, Execute(t) PROVE Promises!Next
  <2>1. /\ promise[t] = "none" /\ UNCHANGED runs
        /\ \/ promise' = [promise EXCEPT ![t] = "rejected"]
           \/ promise' = [promise EXCEPT ![t] = "pending"]
    BY <1>2 DEF Execute
  <2> QED
    BY <2>1 DEF Promises!Next, Promises!Accept, Promises!Refuse
<1>3. ASSUME NEW t \in Tasks, ExecuteNotStarted(t) PROVE Promises!Next
  BY <1>3
  DEF ExecuteNotStarted, threadVars, Promises!Next, Promises!Refuse
<1>4. ASSUME NEW w \in WorkerIds, RunTask(w) PROVE Promises!Next
  <2>1. PICK t \in Tasks : /\ promise[t] = "pending" /\ runs[t] = 0
                           /\ runs' = [runs EXCEPT ![t] = 1]
                           /\ UNCHANGED promise
    BY <1>4, RunTaskPlaces
  <2> QED
    BY <2>1 DEF Promises!Next, Promises!Run
<1>5. ASSUME NEW w \in WorkerIds, HandleTaskExecutionResponse(w)
      PROVE  Promises!Next \/ UNCHANGED <<promise, runs>>
  <2>1. UNCHANGED runs
    BY <1>5, HandleTaskExecutionResponsePlaces
  <2>2. PICK t \in Tasks :
          /\ promise[t] = "pending" /\ runs[t] = 1
          /\ \/ UNCHANGED promise
             \/ \E outcome \in {"resolved", "rejected"} :
                  promise' = [promise EXCEPT ![t] = outcome]
    BY <1>5, HandleTaskExecutionResponsePlaces
  <2> QED
    BY <2>1, <2>2 DEF Promises!Next, Promises!Settle
<1>6. CASE \/ Start \/ SetWorkerChoiceStrategy \/ Destroy
           \/ \E enable \in BOOLEAN : SetEnableTasksQueue(enable)
           \/ RedistributeQueuedTask
  BY <1>6
  DEF Start, SetWorkerChoiceStrategy, Destroy, SetEnableTasksQueue,
      RedistributeQueuedTask, taskVars, threadVars
<1>7. ASSUME NEW w \in WorkerIds,
             \/ HandleWorkerReadyResponse(w) \/ HandleKillRequest(w)
             \/ HandleKillSuccess(w) \/ HandleKillFailure(w)
             \/ HandleWorkerError(w) \/ HandleWorkerExit(w)
             \/ HandleReadyMessage(w) \/ HandleKillMessage(w)
             \/ RequestKill(w) \/ UncaughtError(w)
             \/ \E t \in Tasks, ok \in BOOLEAN : AnswerTask(w, t, ok)
      PROVE  UNCHANGED <<promise, runs>>
  BY <1>7
  DEF HandleWorkerReadyResponse, HandleKillRequest, HandleKillSuccess,
      HandleKillFailure, HandleWorkerError, HandleWorkerExit,
      HandleReadyMessage, HandleKillMessage, RequestKill, UncaughtError,
      AnswerTask, taskVars, threadVars
<1> QED
  BY <1>2, <1>3, <1>4, <1>5, <1>6, <1>7
  DEF Next, Caller, Listener, WorkerEvent, Thread, Environment

\* Whatever workers, queues and messages go through, each call of execute()
\* gets a promise that is settled once at most, its task function is called
\* once at most, and no promise is settled before that, except when the call
\* is refused.
THEOREM PoolKeepsPromises == Spec => RefinesTaskPromises
<1>1. Init => Promises!Init
  BY DEF Init, Promises!Init
<1>2. IInv /\ PlacesInv /\ [Next]_vars => [Promises!Next]_(Promises!vars)
  <2>1. CASE UNCHANGED vars
    BY <2>1 DEF vars, taskVars, threadVars, Promises!vars
  <2> QED
    BY <2>1, PromisesStep DEF Promises!vars
<1> QED
  BY <1>1, <1>2, IInvAlways, PlacesInvAlways, PTL
  DEF Spec, RefinesTaskPromises, Promises!Spec
=============================================================================
