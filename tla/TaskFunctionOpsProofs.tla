------------------------ MODULE TaskFunctionOpsProofs ------------------------
(***************************************************************************)
(* Theorems about TaskFunctionOps, for every value of its constants: what  *)
(* the pool knows of its workers' functions, what its operations leave in  *)
(* them, and what ends its process.                                        *)
(***************************************************************************)
EXTENDS TaskFunctionOps, SequenceTheorems, FiniteSetTheorems,
        WellFoundedInduction, TLAPS

-----------------------------------------------------------------------------
(* The inductive invariants.                                               *)

Kinds == {"add", "remove", "default"}
OperationMessages == [type : {"operation"}, kind : Kinds, name : Names, fn : Calls]
WorkerMessages == [type : {"ready", "kill", "disconnect"}] \cup OperationMessages
NameLists == [default : Names \cup {Default}, names : SUBSET Names]
PoolMessages == [type : {"ready", "names"}, names : NameLists]
                  \cup [type : {"status"}, ok : BOOLEAN]
                  \cup [type : {"killed"}]
FunctionValues == ({Undefined, OfFile} \cup Calls) \X (Names \cup {Default})
FunctionMaps == [Names \cup {Default} -> FunctionValues]

Typed ==
  /\ workerNodes \in Seq(Ids) /\ dynamic \in [Ids -> BOOLEAN]
  /\ taskFunctionNames \in [Ids -> NameLists]
  /\ poolFunctions \in [Names -> {Undefined} \cup Calls]
  /\ operation \in Seq([kind : Kinds, name : Names])
  /\ promise \in [Calls -> {"none", "pending", "resolved", "rejected"}]
  /\ listening \in [Calls -> SUBSET Ids]
  /\ received \in [Calls -> Seq(BOOLEAN)]
  /\ replaying \in [Ids -> Nat] /\ crashed \in BOOLEAN
  /\ process \in [Ids -> ProcessStates]
  /\ functions \in [Ids -> FunctionMaps]
  /\ toWorker \in [Ids -> Seq(WorkerMessages)]
  /\ toPool \in [Ids -> Seq(PoolMessages)]
  /\ disturbed \subseteq Calls
  /\ created \in Nat /\ created <= Workers

Items(s) == {s[i] : i \in DOMAIN s}
NoneOf(s, type) == \A i \in DOMAIN s : s[i].type # type
OnceOf(s, type) ==
  \A i, j \in DOMAIN s : s[i].type = type /\ s[j].type = type => i = j

\* A worker is in the array from its creation until its exit, and what it still
\* has to be told or to tell goes with its process.
NodesInv ==
  /\ \A i, j \in DOMAIN workerNodes : workerNodes[i] = workerNodes[j] => i = j
  /\ \A w \in Ids :
       /\ process[w] = "none" <=> w > created
       /\ w \in Listed <=> process[w] \notin {"none", "exited"}
       /\ process[w] \notin {"forked", "running"} => toWorker[w] = <<>>
       /\ process[w] \notin {"running", "left"} => toPool[w] = <<>>
       /\ process[w] = "forked" => toWorker[w] # <<>> /\ toWorker[w][1].type = "ready"
       /\ process[w] \in {"none", "forked"} => functions[w] = FileFunctions

\* The default function of a worker has a name.
DefaultInv ==
  \A w \in Ids : \E n \in Names :
    functions[w][n] = functions[w][Default] /\ Has(functions[w], n)

\* What the pool will know last of a worker.
Told(s) == {i \in DOMAIN s : s[i].type \in {"ready", "names"}}
Knows(s, known, names) ==
  \/ Told(s) = {} /\ names = known
  \/ \E i \in Told(s) : names = s[i].names /\ \A j \in Told(s) : j <= i
NamesInv ==
  \A w \in Ids :
    process[w] = "running" =>
      Knows(toPool[w], taskFunctionNames[w], ListTaskFunctionNames(functions[w]))

\* What has not been called has no answers, and the pool's functions are those
\* of operations that were resolved.
CallsInv ==
  /\ \A o \in Calls :
       /\ promise[o] = "none" <=> o > Len(operation)
       /\ promise[o] = "none" => listening[o] = {} /\ received[o] = <<>>
  /\ \A n \in Names : poolFunctions[n] # Undefined =>
       /\ promise[poolFunctions[n]] = "resolved"
       /\ operation[poolFunctions[n]] = [kind |-> "add", name |-> n]

\* A position looked up is not beyond those of the nodes that were before.
ReplayInv ==
  /\ \A w \in Ids : replaying[w] <= w
  /\ crashed => CrashOnlyAfterRemoval

\* An operation under way that nothing has upset: every node is about to carry
\* it out, or has answered and done so, or has been counted.
Asks(o) == OperationMessage(operation[o].kind, operation[o].name, o)
Asked(w, o) ==
  /\ OnceOf(toWorker[w], "operation") /\ OnceOf(toPool[w], "status")
  /\ NoneOf(toWorker[w], "operation") \/ NoneOf(toPool[w], "status")
  /\ \A m \in Items(toWorker[w]) : m.type = "operation" => m = Asks(o)
  /\ \A m \in Items(toPool[w]) : m.type = "status" =>
       /\ m.ok => Done(w, o)
       /\ operation[o].kind = "add" => m.ok
Counted(w, o) ==
  /\ NoneOf(toWorker[w], "operation") /\ NoneOf(toPool[w], "status")
  /\ Succeeded(received[o]) => Done(w, o)
OperationInv(o) ==
  /\ Pending = {o}
  /\ \A w \in Listed : Asked(w, o)
  /\ \E C \in SUBSET Listed :
       /\ Len(received[o]) = Cardinality(C) /\ \A w \in C : Counted(w, o)
  /\ operation[o].kind = "add" => Succeeded(received[o])
OperationsInv == \A o \in Pending : o \notin disturbed => OperationInv(o)

\* As long as nothing has been upset, what is on its way to a worker is what the
\* pool has, or the one operation under way, which is the last one called that
\* was not refused at once.
CatchUpInv ==
  disturbed = {} =>
    /\ \A w \in Listed : \A m \in Items(toWorker[w]) : m.type = "operation" =>
         \/ m.fn \in Pending
         \/ m = OperationMessage("add", m.name, poolFunctions[m.name])
    /\ \A o \in Pending, p \in Calls : p > o => promise[p] \in {"none", "rejected"}
    /\ NodesCatchUp

IInv == /\ Typed /\ NodesInv /\ DefaultInv /\ NamesInv /\ CallsInv /\ ReplayInv
        /\ OperationsInv /\ CatchUpInv

-----------------------------------------------------------------------------
(* Sequences of messages: one more at the end, the first one taken.        *)

LEMMA SmallestElement ==
  ASSUME NEW S \in SUBSET Nat, S # {}
  PROVE  \E m \in S : \A n \in S : m <= n
<1>1. \E m \in S : \A n \in S : ~ (<<n, m>> \in OpToRel(<, Nat))
  BY NatLessThanWellFounded, WFMin
<1>2. \A m, n \in Nat : <<n, m>> \in OpToRel(<, Nat) <=> n < m
  BY DEF OpToRel
<1>3. PICK m \in S : \A n \in S : ~ (<<n, m>> \in OpToRel(<, Nat))
  BY <1>1
<1>4. ASSUME NEW n \in S PROVE m <= n
  <2>1. m \in Nat /\ n \in Nat /\ ~ (n < m)
    BY <1>2, <1>3
  <2> QED
    BY <2>1
<1> QED
  BY <1>4

LEMMA LargestElement ==
  ASSUME NEW b \in Nat, NEW S \in SUBSET (1 .. b), S # {}
  PROVE  \E m \in S : \A n \in S : n <= m
<1> DEFINE T == {b - n : n \in S}
<1>1. T \in SUBSET Nat /\ T # {}
  <2>1. ASSUME NEW n \in S PROVE b - n \in Nat
    OBVIOUS
  <2> QED
    BY <2>1
<1> HIDE DEF T
<1>2. PICK k \in T : \A n \in T : k <= n
  BY <1>1, SmallestElement
<1>3. PICK m \in S : k = b - m
  BY DEF T
<1>4. ASSUME NEW n \in S PROVE n <= m
  <2>1. b - n \in T
    BY DEF T
  <2>2. b - m <= b - n
    BY <1>2, <1>3, <2>1
  <2> QED
    BY <2>2
<1> QED
  BY <1>4

LEMMA JoinedSeqs ==
  ASSUME NEW S, NEW s \in Seq(S), NEW t \in Seq(S), NEW r, r = s \o t
  PROVE  /\ r \in Seq(S) /\ Len(s) \in Nat
         /\ \A i \in DOMAIN s : /\ i \in DOMAIN r /\ r[i] = s[i]
                                /\ i \in Nat /\ i <= Len(s)
         /\ \A i \in DOMAIN t : /\ Len(s) + i \in DOMAIN r /\ r[Len(s) + i] = t[i]
                                /\ i \in Nat /\ i >= 1
         /\ \A i \in DOMAIN r : \/ i \in DOMAIN s /\ r[i] = s[i]
                                \/ /\ i - Len(s) \in DOMAIN t
                                   /\ r[i] = t[i - Len(s)]
                                   /\ i \notin DOMAIN s
<1>1. /\ DOMAIN s = 1 .. Len(s) /\ Len(s) \in Nat
      /\ DOMAIN t = 1 .. Len(t) /\ Len(t) \in Nat
  BY LenProperties
<1>2. /\ r \in Seq(S) /\ Len(r) = Len(s) + Len(t)
      /\ \A i \in 1 .. Len(s) + Len(t) : r[i] =
           IF i <= Len(s) THEN s[i] ELSE t[i - Len(s)]
  BY ConcatProperties
<1>3. DOMAIN r = 1 .. Len(s) + Len(t)
  BY <1>2, LenProperties
<1> QED
  BY <1>1, <1>2, <1>3

LEMMA OneMessage ==
  ASSUME NEW S, NEW m \in S
  PROVE  /\ <<m>> \in Seq(S) /\ DOMAIN <<m>> = {1} /\ <<m>>[1] = m
OBVIOUS

LEMMA ShiftedSeq ==
  ASSUME NEW S, NEW s \in Seq(S), s # <<>>, NEW r, r = Tail(s)
  PROVE  /\ r \in Seq(S) /\ 1 \in DOMAIN s /\ s[1] \in S
         /\ \A i \in DOMAIN r : /\ i + 1 \in DOMAIN s /\ r[i] = s[i + 1]
                                /\ i \in Nat /\ i >= 1
         /\ \A i \in DOMAIN s : /\ i \in Nat /\ i >= 1
                                /\ \/ i = 1
                                   \/ i - 1 \in DOMAIN r /\ r[i - 1] = s[i]
<1>1. /\ r \in Seq(S) /\ Len(r) = Len(s) - 1 /\ Len(s) \in Nat \ {0}
      /\ \A i \in 1 .. Len(r) : r[i] = s[i + 1]
  BY HeadTailProperties, LenProperties, EmptySeq
<1>2. DOMAIN s = 1 .. Len(s) /\ DOMAIN r = 1 .. Len(r)
  BY <1>1, LenProperties
<1>3. s[1] \in S
  BY <1>1, ElementOfSeq
<1> QED
  BY <1>1, <1>2, <1>3

\* What becomes of the messages of a type, and of the last news of a worker.
LEMMA JoinedMessages ==
  ASSUME NEW S, NEW s \in Seq(S), NEW t \in Seq(S), NEW r, r = s \o t
  PROVE  /\ r \in Seq(S)
         /\ \A m : m \in Items(r) <=> m \in Items(s) \/ m \in Items(t)
         /\ \A type : NoneOf(r, type) <=> NoneOf(s, type) /\ NoneOf(t, type)
         /\ \A type : OnceOf(s, type) /\ NoneOf(t, type) => OnceOf(r, type)
         /\ \A type : NoneOf(s, type) /\ OnceOf(t, type) => OnceOf(r, type)
<1>1. /\ r \in Seq(S) /\ Len(s) \in Nat
      /\ \A i \in DOMAIN s : /\ i \in DOMAIN r /\ r[i] = s[i]
                             /\ i \in Nat /\ i <= Len(s)
      /\ \A i \in DOMAIN t : /\ Len(s) + i \in DOMAIN r /\ r[Len(s) + i] = t[i]
                             /\ i \in Nat /\ i >= 1
      /\ \A i \in DOMAIN r : \/ i \in DOMAIN s /\ r[i] = s[i]
                             \/ /\ i - Len(s) \in DOMAIN t
                                /\ r[i] = t[i - Len(s)]
                                /\ i \notin DOMAIN s
  BY JoinedSeqs
<1>2. DOMAIN r = 1 .. Len(r) /\ Len(r) \in Nat
  BY <1>1, LenProperties
<1>3. \A m : m \in Items(r) <=> m \in Items(s) \/ m \in Items(t)
  <2>1. ASSUME NEW m \in Items(r) PROVE m \in Items(s) \/ m \in Items(t)
    BY <1>1 DEF Items
  <2>2. ASSUME NEW m \in Items(s) PROVE m \in Items(r)
    <3>1. PICK i \in DOMAIN s : m = s[i]
      BY DEF Items
    <3> QED
      BY <1>1, <3>1 DEF Items
  <2>3. ASSUME NEW m \in Items(t) PROVE m \in Items(r)
    <3>1. PICK i \in DOMAIN t : m = t[i]
      BY DEF Items
    <3> QED
      BY <1>1, <3>1 DEF Items
  <2> QED
    BY <2>1, <2>2, <2>3
<1>4. ASSUME NEW type
      PROVE  NoneOf(r, type) <=> NoneOf(s, type) /\ NoneOf(t, type)
  <2>1. ASSUME NoneOf(r, type), NEW i \in DOMAIN s PROVE s[i].type # type
    BY <1>1, <2>1 DEF NoneOf
  <2>2. ASSUME NoneOf(r, type), NEW i \in DOMAIN t PROVE t[i].type # type
    <3>1. Len(s) + i \in DOMAIN r /\ r[Len(s) + i] = t[i]
      BY <1>1
    <3> QED
      BY <2>2, <3>1 DEF NoneOf
  <2>3. ASSUME NoneOf(s, type), NoneOf(t, type), NEW i \in DOMAIN r
        PROVE  r[i].type # type
    BY <1>1, <2>3 DEF NoneOf
  <2> QED
    BY <2>1, <2>2, <2>3 DEF NoneOf
<1>5. ASSUME NEW type, OnceOf(s, type), NoneOf(t, type)
      PROVE  OnceOf(r, type)
  <2>1. \A i \in DOMAIN r : r[i].type = type => i \in DOMAIN s /\ r[i] = s[i]
    BY <1>1, <1>5 DEF NoneOf
  <2> QED
    BY <1>5, <2>1 DEF OnceOf
<1>6. ASSUME NEW type, NoneOf(s, type), OnceOf(t, type)
      PROVE  OnceOf(r, type)
  <2>1. \A i \in DOMAIN r : r[i].type = type =>
          i - Len(s) \in DOMAIN t /\ r[i] = t[i - Len(s)]
    BY <1>1, <1>6 DEF NoneOf
  <2>2. ASSUME NEW i \in DOMAIN r, NEW j \in DOMAIN r,
               r[i].type = type, r[j].type = type
        PROVE  i = j
    <3>1. i - Len(s) = j - Len(s)
      BY <1>6, <2>1, <2>2 DEF OnceOf
    <3> QED
      BY <1>1, <1>2, <3>1
  <2> QED
    BY <2>2 DEF OnceOf
<1> QED
  BY <1>1, <1>3, <1>4, <1>5, <1>6

LEMMA ShiftedMessages ==
  ASSUME NEW S, NEW s \in Seq(S), s # <<>>, NEW r, r = Tail(s)
  PROVE  /\ r \in Seq(S) /\ s[1] \in S /\ s[1] \in Items(s)
         /\ \A m : m \in Items(r) => m \in Items(s)
         /\ \A m : m \in Items(s) => m \in Items(r) \/ m = s[1]
         /\ \A type : NoneOf(s, type) => NoneOf(r, type)
         /\ \A type : NoneOf(s, type) => s[1].type # type
         /\ \A type : OnceOf(s, type) => OnceOf(r, type)
         /\ \A type : OnceOf(s, type) /\ s[1].type = type => NoneOf(r, type)
<1>1. /\ r \in Seq(S) /\ 1 \in DOMAIN s /\ s[1] \in S
      /\ \A i \in DOMAIN r : /\ i + 1 \in DOMAIN s /\ r[i] = s[i + 1]
                             /\ i \in Nat /\ i >= 1
      /\ \A i \in DOMAIN s : /\ i \in Nat /\ i >= 1
                             /\ \/ i = 1
                                \/ i - 1 \in DOMAIN r /\ r[i - 1] = s[i]
  BY ShiftedSeq
<1>2. ASSUME NEW m \in Items(r) PROVE m \in Items(s)
  BY <1>1 DEF Items
<1>3. ASSUME NEW m \in Items(s) PROVE m \in Items(r) \/ m = s[1]
  <2>1. PICK i \in DOMAIN s : m = s[i]
    BY DEF Items
  <2> QED
    BY <1>1, <2>1 DEF Items
<1>4. ASSUME NEW type, NoneOf(s, type) PROVE NoneOf(r, type) /\ s[1].type # type
  BY <1>1, <1>4 DEF NoneOf
<1>5. ASSUME NEW type, OnceOf(s, type) PROVE OnceOf(r, type)
  <2>1. ASSUME NEW i \in DOMAIN r, NEW j \in DOMAIN r,
               r[i].type = type, r[j].type = type
        PROVE  i = j
    <3>1. i + 1 = j + 1
      BY <1>1, <1>5, <2>1 DEF OnceOf
    <3> QED
      BY <1>1, <3>1
  <2> QED
    BY <2>1 DEF OnceOf
<1>6. ASSUME NEW type, OnceOf(s, type), s[1].type = type PROVE NoneOf(r, type)
  <2>1. ASSUME NEW i \in DOMAIN r, r[i].type = type PROVE FALSE
    <3>1. i + 1 = 1
      BY <1>1, <1>6, <2>1 DEF OnceOf
    <3> QED
      BY <1>1, <3>1
  <2> QED
    BY <2>1 DEF NoneOf
<1> QED
  BY <1>1, <1>2, <1>3, <1>4, <1>5, <1>6 DEF Items

LEMMA NothingKnown ==
  ASSUME NEW known
  PROVE  Knows(<<>>, known, known)
BY DEF Knows, Told

\* News at the end is what will be known; other messages change nothing.
LEMMA KnownAtEnd ==
  ASSUME NEW S, NEW s \in Seq(S), NEW t \in Seq(S), NEW r, r = s \o t,
         NEW known, NEW names
  PROVE  /\ Knows(t, known, names) /\ Told(t) # {} => Knows(r, known, names)
         /\ Told(t) = {} /\ Knows(s, known, names) => Knows(r, known, names)
<1>1. /\ r \in Seq(S) /\ Len(s) \in Nat
      /\ \A i \in DOMAIN s : /\ i \in DOMAIN r /\ r[i] = s[i]
                             /\ i \in Nat /\ i <= Len(s)
      /\ \A i \in DOMAIN t : /\ Len(s) + i \in DOMAIN r /\ r[Len(s) + i] = t[i]
                             /\ i \in Nat /\ i >= 1
      /\ \A i \in DOMAIN r : \/ i \in DOMAIN s /\ r[i] = s[i]
                             \/ /\ i - Len(s) \in DOMAIN t
                                /\ r[i] = t[i - Len(s)]
                                /\ i \notin DOMAIN s
  BY JoinedSeqs
<1>d. DOMAIN r = 1 .. Len(r) /\ Len(r) \in Nat
  BY <1>1, LenProperties
<1>2. ASSUME Knows(t, known, names), Told(t) # {} PROVE Knows(r, known, names)
  <2>1. PICK i \in Told(t) : names = t[i].names /\ \A j \in Told(t) : j <= i
    BY <1>2 DEF Knows
  <2> DEFINE k == Len(s) + i
  <2>2. k \in Told(r) /\ r[k].names = names
    BY <1>1, <2>1 DEF Told
  <2>3. ASSUME NEW j \in Told(r) PROVE j <= k
    <3>1. CASE j \in DOMAIN s
      BY <1>1, <2>1, <3>1 DEF Told
    <3>2. CASE j - Len(s) \in DOMAIN t /\ r[j] = t[j - Len(s)]
      <4>1. j - Len(s) \in Told(t)
        BY <3>2 DEF Told
      <4>2. j - Len(s) <= i
        BY <2>1, <4>1
      <4>3. j \in Nat /\ i \in Nat
        BY <1>1, <1>d DEF Told
      <4> QED
        BY <1>1, <4>2, <4>3
    <3> QED
      BY <1>1, <3>1, <3>2 DEF Told
  <2> QED
    BY <2>2, <2>3 DEF Knows
<1>3. ASSUME Told(t) = {}, Knows(s, known, names) PROVE Knows(r, known, names)
  <2>1. ASSUME NEW j \in Told(r) PROVE j \in Told(s) /\ r[j] = s[j]
    BY <1>1, <1>3, <2>1 DEF Told
  <2>2. ASSUME NEW j \in Told(s) PROVE j \in Told(r) /\ r[j] = s[j]
    BY <1>1, <2>2 DEF Told
  <2> QED
    BY <1>3, <2>1, <2>2 DEF Knows
<1> QED
  BY <1>2, <1>3

LEMMA KnownAfter ==
  ASSUME NEW S, NEW s \in Seq(S), s # <<>>, NEW r, r = Tail(s),
         NEW known, NEW names, Knows(s, known, names)
  PROVE  Knows(r, IF s[1].type \in {"ready", "names"} THEN s[1].names ELSE known,
               names)
<1> DEFINE now == IF s[1].type \in {"ready", "names"} THEN s[1].names ELSE known
<1>1. /\ r \in Seq(S) /\ 1 \in DOMAIN s /\ s[1] \in S
      /\ \A i \in DOMAIN r : /\ i + 1 \in DOMAIN s /\ r[i] = s[i + 1]
                             /\ i \in Nat /\ i >= 1
      /\ \A i \in DOMAIN s : /\ i \in Nat /\ i >= 1
                             /\ \/ i = 1
                                \/ i - 1 \in DOMAIN r /\ r[i - 1] = s[i]
  BY ShiftedSeq
<1>2. CASE Told(s) = {} /\ names = known
  <2>1. Told(r) = {} /\ now = known
    BY <1>1, <1>2 DEF Told
  <2> QED
    BY <1>2, <2>1 DEF Knows
<1>3. ASSUME NEW i \in Told(s), names = s[i].names, \A j \in Told(s) : j <= i
      PROVE  Knows(r, now, names)
  <2>1. CASE i = 1
    <3>1. now = names
      BY <1>3, <2>1 DEF Told
    <3>2. ASSUME NEW j \in Told(r) PROVE FALSE
      <4>1. j + 1 \in Told(s) /\ j \in Nat /\ j >= 1
        BY <1>1 DEF Told
      <4>2. j + 1 <= 1
        BY <1>3, <2>1, <4>1
      <4> QED
        BY <4>1, <4>2
    <3> QED
      BY <3>1, <3>2 DEF Knows
  <2>2. CASE i # 1
    <3>1. i - 1 \in Told(r) /\ r[i - 1].names = names /\ i \in Nat
      BY <1>1, <1>3, <2>2 DEF Told
    <3>2. ASSUME NEW j \in Told(r) PROVE j <= i - 1
      <4>1. j + 1 \in Told(s) /\ j \in Nat
        BY <1>1 DEF Told
      <4>2. j + 1 <= i
        BY <1>3, <4>1
      <4> QED
        BY <3>1, <4>1, <4>2
    <3> QED
      BY <3>1, <3>2 DEF Knows
  <2> QED
    BY <2>1, <2>2
<1> QED
  BY <1>2, <1>3 DEF Knows

-----------------------------------------------------------------------------
(* The array of the nodes: one more at the end, one taken out.             *)

LEMMA CutSeq ==
  ASSUME NEW S, NEW s \in Seq(S), NEW k \in 1 .. Len(s)
  PROVE  /\ SubSeq(s, k + 1, Len(s)) \in Seq(S)
         /\ Len(SubSeq(s, k + 1, Len(s))) = Len(s) - k
         /\ \A i \in 1 .. Len(s) - k : SubSeq(s, k + 1, Len(s))[i] = s[i + k]
<1> DEFINE r == SubSeq(s, k + 1, Len(s))
<1>1. /\ Len(s) \in Nat \ {0} /\ s # <<>>
      /\ k \in Int /\ k + 1 \in Int /\ k <= Len(s) /\ 1 <= k
  BY LenProperties, EmptySeq
<1>2. \A i \in k + 1 .. Len(s) : s[i] \in S
  BY <1>1, ElementOfSeq
<1>3. /\ r \in Seq(S)
      /\ Len(r) = IF k + 1 <= Len(s) THEN Len(s) - (k + 1) + 1 ELSE 0
      /\ \A i \in 1 .. Len(s) - (k + 1) + 1 : r[i] = s[k + 1 + i - 1]
  BY <1>1, <1>2, SubSeqProperties
<1> HIDE DEF r
<1>4. Len(r) = Len(s) - k /\ \A i \in 1 .. Len(s) - k : r[i] = s[i + k]
  BY <1>1, <1>3
<1> QED
  BY <1>3, <1>4 DEF r

LEMMA SplicedSeq ==
  ASSUME NEW S, NEW s \in Seq(S), NEW k \in 1 .. Len(s)
  PROVE  LET spliced == SubSeq(s, 1, k - 1) \o SubSeq(s, k + 1, Len(s)) IN
         /\ spliced \in Seq(S)
         /\ Len(spliced) = Len(s) - 1
         /\ \A i \in 1 .. Len(s) - 1 :
              spliced[i] = IF i < k THEN s[i] ELSE s[i + 1]
<1> DEFINE front == SubSeq(s, 1, k - 1)
           back == SubSeq(s, k + 1, Len(s))
<1>1. /\ Len(s) \in Nat /\ k \in Int /\ k - 1 \in Int /\ 1 \in Int
      /\ 1 <= k /\ k <= Len(s)
      /\ \A i \in 1 .. k - 1 : s[i] \in S
  BY LenProperties, ElementOfSeq
<1>2. /\ front \in Seq(S)
      /\ Len(front) = IF 1 <= k - 1 THEN (k - 1) - 1 + 1 ELSE 0
      /\ \A i \in 1 .. (k - 1) - 1 + 1 : front[i] = s[1 + i - 1]
  BY <1>1, SubSeqProperties
<1>3. /\ back \in Seq(S) /\ Len(back) = Len(s) - k
      /\ \A i \in 1 .. Len(s) - k : back[i] = s[i + k]
  BY CutSeq
<1> HIDE DEF front, back
<1>4. Len(front) = k - 1 /\ \A i \in 1 .. k - 1 : front[i] = s[i]
  BY <1>1, <1>2
<1>5. /\ front \o back \in Seq(S)
      /\ Len(front \o back) = Len(front) + Len(back)
      /\ \A i \in 1 .. Len(front) + Len(back) : (front \o back)[i] =
           IF i <= Len(front) THEN front[i] ELSE back[i - Len(front)]
  BY <1>2, <1>3, ConcatProperties
<1>6. Len(front) + Len(back) = Len(s) - 1
  BY <1>1, <1>3, <1>4
<1>7. ASSUME NEW i \in 1 .. Len(s) - 1
      PROVE  (front \o back)[i] = IF i < k THEN s[i] ELSE s[i + 1]
  <2>1. (front \o back)[i] = IF i <= k - 1 THEN front[i] ELSE back[i - (k - 1)]
    BY <1>4, <1>5, <1>6
  <2>2. CASE i < k
    BY <1>1, <1>4, <2>1, <2>2
  <2>3. CASE ~(i < k)
    <3>1. i - (k - 1) \in 1 .. Len(s) - k /\ i - (k - 1) + k = i + 1
      BY <1>1, <2>3
    <3>2. back[i - (k - 1)] = s[i + 1]
      BY <1>3, <3>1
    <3> QED
      BY <1>1, <2>1, <2>3, <3>2
  <2> QED
    BY <2>2, <2>3
<1> QED
  BY <1>5, <1>6, <1>7 DEF front, back

-----------------------------------------------------------------------------
(* What operations leave of the functions of a worker.                     *)

LEMMA AddedTo ==
  ASSUME NEW fns \in FunctionMaps, NEW name \in Names, NEW fn \in Calls
  PROVE  /\ Added(fns, name, fn) \in FunctionMaps
         /\ Added(fns, name, fn)[name] = <<fn, name>>
         /\ \A n \in Names : n # name => Added(fns, name, fn)[n] = fns[n]
         /\ Added(fns, name, fn)[Default] =
              IF fns[name] = fns[Default] THEN <<fn, name>> ELSE fns[Default]
<1>1. Default \notin Names
  BY DefaultAssumption
<1>2. <<fn, name>> \in FunctionValues
  BY DEF FunctionValues
<1> QED
  BY <1>1, <1>2 DEF Added, FunctionMaps

LEMMA RemovedFrom ==
  ASSUME NEW fns \in FunctionMaps, NEW name \in Names
  PROVE  /\ Removed(fns, name) \in FunctionMaps
         /\ IsDefault(fns, name) => Removed(fns, name) = fns
         /\ ~IsDefault(fns, name) => ~Has(Removed(fns, name), name)
         /\ \A n \in Names : n # name => Removed(fns, name)[n] = fns[n]
         /\ Removed(fns, name)[Default] = fns[Default]
<1>1. Default \notin Names
  BY DefaultAssumption
<1>2. <<Undefined, name>> \in FunctionValues
  BY DEF FunctionValues
<1>3. CASE IsDefault(fns, name)
  BY <1>3 DEF Removed
<1>4. CASE ~IsDefault(fns, name)
  <2>1. Removed(fns, name) = [fns EXCEPT ![name] = <<Undefined, name>>]
    BY <1>4 DEF Removed
  <2>2. Removed(fns, name)[name] = <<Undefined, name>>
    BY <2>1 DEF FunctionMaps
  <2>3. <<Undefined, name>>[1] = Undefined
    OBVIOUS
  <2> QED
    BY <1>1, <1>2, <1>4, <2>1, <2>2, <2>3 DEF FunctionMaps, Has
<1> QED
  BY <1>3, <1>4

LEMMA DefaultSet ==
  ASSUME NEW fns \in FunctionMaps, NEW name \in Names
  PROVE  /\ SetDefault(fns, name) \in FunctionMaps
         /\ Has(fns, name) => SetDefault(fns, name)[Default] = fns[name]
         /\ ~Has(fns, name) => SetDefault(fns, name) = fns
         /\ \A n \in Names : SetDefault(fns, name)[n] = fns[n]
<1>1. Default \notin Names
  BY DefaultAssumption
<1>2. fns[name] \in FunctionValues
  BY DEF FunctionMaps
<1> QED
  BY <1>1, <1>2 DEF SetDefault, FunctionMaps

\* A worker carries an operation out where it answers that it has, leaves its
\* other functions alone, and only refuses what would change nothing.
LEMMA OperatedOn ==
  ASSUME NEW fns \in FunctionMaps, NEW m \in OperationMessages
  PROVE  /\ Operated(fns, m) \in FunctionMaps
         /\ Refused(fns, m) => Operated(fns, m) = fns
         /\ \A n \in Names : n # m.name \/ m.kind = "default" =>
              Operated(fns, m)[n] = fns[n]
         /\ m.kind = "add" => Operated(fns, m)[m.name] = <<m.fn, m.name>>
         /\ Status(fns, m) /\ m.kind = "remove" => ~Has(Operated(fns, m), m.name)
         /\ Status(fns, m) /\ m.kind = "default" =>
              IsDefault(Operated(fns, m), m.name)
         /\ Status(fns, m) \in BOOLEAN /\ (m.kind = "add" => Status(fns, m))
<1>1. m.kind \in Kinds /\ m.name \in Names /\ m.fn \in Calls
  BY DEF OperationMessages
<1>2. CASE m.kind = "add"
  <2> DEFINE after == Added(fns, m.name, m.fn)
  <2>1. Operated(fns, m) = after /\ Status(fns, m) = TRUE /\ Refused(fns, m) = FALSE
    BY <1>2 DEF Operated, Status, Refused
  <2>2. /\ after \in FunctionMaps /\ after[m.name] = <<m.fn, m.name>>
        /\ \A n \in Names : n # m.name => after[n] = fns[n]
    BY <1>1, AddedTo
  <2> HIDE DEF after
  <2> QED
    BY <1>2, <2>1, <2>2
<1>3. CASE m.kind = "remove"
  <2> DEFINE after == Removed(fns, m.name)
  <2>1. /\ Operated(fns, m) = after
        /\ Status(fns, m) = (Has(fns, m.name) /\ ~IsDefault(fns, m.name))
        /\ Refused(fns, m) = IsDefault(fns, m.name)
    BY <1>3 DEF Operated, Status, Refused
  <2>2. /\ after \in FunctionMaps
        /\ IsDefault(fns, m.name) => after = fns
        /\ ~IsDefault(fns, m.name) => ~Has(after, m.name)
        /\ \A n \in Names : n # m.name => after[n] = fns[n]
    BY <1>1, RemovedFrom
  <2> HIDE DEF after
  <2>3. Status(fns, m) \in BOOLEAN
    BY <2>1
  <2>4. Status(fns, m) => ~Has(after, m.name)
    BY <2>1, <2>2
  <2>5. Refused(fns, m) => after = fns
    BY <2>1, <2>2
  <2> QED
    BY <1>3, <2>1, <2>2, <2>3, <2>4, <2>5
<1>4. CASE m.kind = "default"
  <2> DEFINE after == SetDefault(fns, m.name)
  <2>1. /\ Operated(fns, m) = after
        /\ Status(fns, m) = Has(fns, m.name)
        /\ Refused(fns, m) = ~Has(fns, m.name)
    BY <1>4 DEF Operated, Status, Refused
  <2>2. /\ after \in FunctionMaps
        /\ Has(fns, m.name) => after[Default] = fns[m.name]
        /\ ~Has(fns, m.name) => after = fns
        /\ \A n \in Names : after[n] = fns[n]
    BY <1>1, DefaultSet
  <2> HIDE DEF after
  <2>3. Status(fns, m) \in BOOLEAN
    <3>1. Has(fns, m.name) \in BOOLEAN
      BY DEF Has
    <3> QED
      BY <2>1, <3>1
  <2>4. Status(fns, m) => IsDefault(after, m.name)
    <3>1. SUFFICES ASSUME Status(fns, m) PROVE after[m.name] = after[Default]
      BY DEF IsDefault
    <3>2. Has(fns, m.name)
      BY <2>1, <3>1
    <3> QED
      BY <1>1, <2>2, <3>2
  <2>5. Refused(fns, m) => after = fns
    BY <2>1, <2>2
  <2> QED
    BY <1>4, <2>1, <2>2, <2>3, <2>4, <2>5
<1> QED
  BY <1>1, <1>2, <1>3, <1>4 DEF Kinds

LEMMA DefaultKept ==
  ASSUME NEW fns \in FunctionMaps, NEW m \in OperationMessages,
         NEW d \in Names, fns[d] = fns[Default], Has(fns, d)
  PROVE  LET after == Operated(fns, m)
         IN  \E n \in Names : after[n] = after[Default] /\ Has(after, n)
<1>1. m.kind \in Kinds /\ m.name \in Names /\ m.fn \in Calls
  BY DEF OperationMessages
<1>2. CASE m.kind = "add"
  <2> DEFINE after == Added(fns, m.name, m.fn)
  <2>1. Operated(fns, m) = after
    BY <1>2 DEF Operated
  <2>2. CASE fns[m.name] = fns[Default]
    <3>1. after[m.name] = <<m.fn, m.name>> /\ after[Default] = <<m.fn, m.name>>
      BY <1>1, <2>2, AddedTo
    <3>2. m.fn # Undefined
      BY <1>1 DEF Calls, Undefined
    <3>3. <<m.fn, m.name>>[1] = m.fn
      OBVIOUS
    <3> QED
      BY <1>1, <2>1, <3>1, <3>2, <3>3 DEF Has
  <2>3. CASE fns[m.name] # fns[Default]
    <3>1. d # m.name
      BY <2>3
    <3>2. after[d] = fns[d] /\ after[Default] = fns[Default]
      BY <1>1, <2>3, <3>1, AddedTo
    <3> QED
      BY <2>1, <3>2 DEF Has
  <2> QED
    BY <2>2, <2>3
<1>3. CASE m.kind = "remove"
  <2>1. Operated(fns, m) = Removed(fns, m.name)
    BY <1>3 DEF Operated
  <2>2. CASE IsDefault(fns, m.name)
    BY <1>1, <2>1, <2>2, RemovedFrom
  <2>3. CASE ~IsDefault(fns, m.name)
    <3>1. d # m.name
      BY <2>3 DEF IsDefault
    <3>2. /\ Removed(fns, m.name)[d] = fns[d]
          /\ Removed(fns, m.name)[Default] = fns[Default]
      BY <1>1, <3>1, RemovedFrom
    <3> QED
      BY <2>1, <3>2 DEF Has
  <2> QED
    BY <2>2, <2>3
<1>4. CASE m.kind = "default"
  <2>1. Operated(fns, m) = SetDefault(fns, m.name)
    BY <1>4 DEF Operated
  <2>2. CASE Has(fns, m.name)
    <3>1. /\ SetDefault(fns, m.name)[Default] = fns[m.name]
          /\ SetDefault(fns, m.name)[m.name] = fns[m.name]
      BY <1>1, <2>2, DefaultSet
    <3> QED
      BY <1>1, <2>1, <2>2, <3>1 DEF Has
  <2>3. CASE ~Has(fns, m.name)
    BY <1>1, <2>1, <2>3, DefaultSet
  <2> QED
    BY <2>2, <2>3
<1> QED
  BY <1>1, <1>2, <1>3, <1>4 DEF Kinds

LEMMA ListType ==
  ASSUME NEW fns
  PROVE  ListTaskFunctionNames(fns) \in NameLists
<1> DEFINE names == {n \in Names : Has(fns, n)}
           defaults == {n \in names : fns[n] = fns[Default]}
           d == IF defaults = {} THEN Default ELSE CHOOSE n \in defaults : TRUE
<1>1. d \in Names \cup {Default}
  OBVIOUS
<1>2. ListTaskFunctionNames(fns) = [default |-> d, names |-> names]
  BY DEF ListTaskFunctionNames
<1> HIDE DEF d
<1> QED
  BY <1>1, <1>2 DEF NameLists

\* A worker begins with the functions the pool takes it to have.
LEMMA FileList ==
  /\ FileFunctions \in FunctionMaps
  /\ ListTaskFunctionNames(FileFunctions)
       = [default |-> FileDefault, names |-> FileNames]
  /\ FileDefault \in Names /\ Has(FileFunctions, FileDefault)
  /\ FileFunctions[FileDefault] = FileFunctions[Default]
<1>1. /\ FileNames \subseteq Names /\ FileDefault \in FileNames /\ Default \notin Names
  BY NamesAssumption, DefaultAssumption
<1>2. /\ \A n \in FileNames : FileFunctions[n] = <<OfFile, n>>
      /\ \A n \in Names : n \notin FileNames => FileFunctions[n] = <<Undefined, n>>
      /\ FileFunctions[Default] = <<OfFile, FileDefault>>
  BY <1>1 DEF FileFunctions
<1>3. \A n \in Names : Has(FileFunctions, n) <=> n \in FileNames
  BY <1>2 DEF Has, Undefined, OfFile
<1>4. FileFunctions \in FunctionMaps
  BY <1>1 DEF FileFunctions, FunctionMaps, FunctionValues
<1>5. {n \in Names : Has(FileFunctions, n)} = FileNames
  BY <1>1, <1>3
<1>6. {n \in FileNames : FileFunctions[n] = FileFunctions[Default]} = {FileDefault}
  BY <1>1, <1>2
<1>7. ListTaskFunctionNames(FileFunctions)
        = [default |-> CHOOSE n \in {FileDefault} : TRUE, names |-> FileNames]
  BY <1>5, <1>6 DEF ListTaskFunctionNames
<1>8. (CHOOSE n \in {FileDefault} : TRUE) = FileDefault
  OBVIOUS
<1> QED
  BY <1>1, <1>2, <1>3, <1>4, <1>7, <1>8

-----------------------------------------------------------------------------
(* What is replayed to a dynamic node.                                     *)

Rank(S, o) == Cardinality({p \in S : p < o})

LEMMA RankOf ==
  ASSUME NEW b \in Nat, NEW S \in SUBSET (1 .. b), NEW o \in S, NEW q \in S
  PROVE  /\ IsFiniteSet(S) /\ Cardinality(S) \in Nat
         /\ Rank(S, o) \in 0 .. Cardinality(S) - 1
         /\ Rank(S, o) = Rank(S, q) => o = q
<1> DEFINE below(x) == {p \in S : p < x}
<1>1. IsFiniteSet(S) /\ Cardinality(S) \in Nat
  <2>1. 1 \in Int /\ b \in Int
    OBVIOUS
  <2>2. IsFiniteSet(1 .. b)
    BY <2>1, FS_Interval
  <2>3. IsFiniteSet(S)
    BY <2>2, FS_Subset
  <2> QED
    BY <2>3, FS_CardinalityType
<1>2. ASSUME NEW x \in S, NEW y \in S, x < y
      PROVE  Rank(S, x) < Rank(S, y)
  <2>1. below(x) \subseteq below(y)
    <3>1. \A p \in S : p \in Int
      OBVIOUS
    <3>2. \A p \in S : p < x => p < y
      BY <1>2, <3>1
    <3> QED
      BY <3>2
  <2>2. x \in below(y) /\ x \notin below(x)
    BY <1>2
  <2>3. IsFiniteSet(below(y)) /\ IsFiniteSet(below(x))
    BY <1>1, FS_Subset
  <2>4. /\ Rank(S, x) = Cardinality(below(x))
        /\ Rank(S, y) = Cardinality(below(y))
    BY DEF Rank
  <2> HIDE DEF below
  <2>5. /\ Cardinality(below(x)) <= Cardinality(below(y))
        /\ Cardinality(below(y)) = Cardinality(below(x)) => below(y) = below(x)
    BY <2>1, <2>3, FS_Subset
  <2>6. Cardinality(below(x)) \in Nat /\ Cardinality(below(y)) \in Nat
    BY <2>3, FS_CardinalityType
  <2> QED
    BY <2>2, <2>4, <2>5, <2>6
<1>3. Rank(S, o) \in 0 .. Cardinality(S) - 1
  <2>1. below(o) \subseteq S /\ o \notin below(o)
    OBVIOUS
  <2>2. Rank(S, o) = Cardinality(below(o))
    BY DEF Rank
  <2> HIDE DEF below
  <2>3. /\ IsFiniteSet(below(o))
        /\ Cardinality(below(o)) <= Cardinality(S)
        /\ Cardinality(S) = Cardinality(below(o)) => S = below(o)
    BY <1>1, <2>1, FS_Subset
  <2>4. Cardinality(below(o)) \in Nat
    BY <2>3, FS_CardinalityType
  <2> QED
    BY <1>1, <2>1, <2>2, <2>3, <2>4
<1>4. ASSUME Rank(S, o) = Rank(S, q) PROVE o = q
  <2>1. ~(o < q) /\ ~(q < o)
    <3>1. /\ o < q => Rank(S, o) < Rank(S, q)
          /\ q < o => Rank(S, q) < Rank(S, o)
      BY <1>2
    <3>2. Rank(S, o) \in Int
      BY <1>1, <1>3
    <3> QED
      BY <1>4, <3>1, <3>2
  <2> QED
    BY <2>1
<1> QED
  BY <1>1, <1>3, <1>4

LEMMA RanksTaken ==
  ASSUME NEW b \in Nat, NEW S \in SUBSET (1 .. b), NEW i \in 1 .. Cardinality(S),
         IsFiniteSet(S), Cardinality(S) \in Nat
  PROVE  \E o \in S : Rank(S, o) = i - 1
<1> SUFFICES ASSUME \A o \in S : Rank(S, o) # i - 1 PROVE FALSE
  OBVIOUS
<1> DEFINE n == Cardinality(S)
           all == 0 .. n - 1
           others == all \ {i - 1}
           rank == [o \in S |-> Rank(S, o)]
<1>1. n \in Nat /\ i \in 1 .. n /\ i - 1 \in all
  OBVIOUS
<1>2. IsFiniteSet(all) /\ Cardinality(all) = n
  <2>1. 0 \in Int /\ n - 1 \in Int
    BY <1>1
  <2>2. /\ IsFiniteSet(0 .. n - 1)
        /\ Cardinality(0 .. n - 1) = IF 0 > n - 1 THEN 0 ELSE n - 1 - 0 + 1
    BY ONLY <2>1, FS_Interval
  <2> HIDE DEF n
  <2> QED
    BY <1>1, <2>2
<1> HIDE DEF all
<1>3. IsFiniteSet(others) /\ Cardinality(others) = n - 1
  BY <1>1, <1>2, FS_RemoveElement
<1>4. rank \in [S -> others]
  <2>1. ASSUME NEW o \in S PROVE Rank(S, o) \in others
    BY RankOf DEF all
  <2> QED
    BY <2>1
<1>5. \A o, q \in S : rank[o] = rank[q] => o = q
  BY RankOf
<1>6. rank \in Injection(S, others)
  BY <1>4, <1>5 DEF Injection, IsInjective
<1>7. Cardinality(S) <= Cardinality(others)
  BY <1>3, <1>6, FS_Injection
<1> HIDE DEF others
<1> QED
  BY <1>1, <1>3, <1>7

\* What is replayed are the functions the pool has, and all of them.
LEMMA ReplayedMessages ==
  ASSUME Typed, CallsInv
  PROVE  /\ Replayed \in Seq(OperationMessages)
         /\ \A m \in Items(Replayed) :
              m = OperationMessage("add", m.name, poolFunctions[m.name])
         /\ \A n \in Names : poolFunctions[n] # Undefined =>
              OperationMessage("add", n, poolFunctions[n]) \in Items(Replayed)
<1> DEFINE added == {o \in Calls : \E n \in Names : poolFunctions[n] = o}
           Picked(i) == CHOOSE o \in added : Cardinality({p \in added : p < o}) = i - 1
           Message_(o) == OperationMessage("add", operation[o].name, o)
<1>1. Replayed = [i \in 1 .. Cardinality(added) |-> Message_(Picked(i))]
  BY DEF Replayed
<1>2. Operations \in Nat /\ added \in SUBSET (1 .. Operations)
  BY SizeAssumption DEF Calls
<1>3. IsFiniteSet(added) /\ Cardinality(added) \in Nat
  <2>1. 1 \in Int /\ Operations \in Int
    BY <1>2
  <2>2. IsFiniteSet(1 .. Operations)
    BY <2>1, FS_Interval
  <2>3. IsFiniteSet(added)
    BY <1>2, <2>2, FS_Subset
  <2> QED
    BY <2>3, FS_CardinalityType
<1>4. ASSUME NEW o \in added
      PROVE  /\ \E n \in Names : /\ poolFunctions[n] = o
                                 /\ Message_(o) = OperationMessage("add", n, o)
             /\ Message_(o) \in OperationMessages
             /\ Message_(o)
                  = OperationMessage("add", Message_(o).name,
                                     poolFunctions[Message_(o).name])
  <2>1. PICK n \in Names : poolFunctions[n] = o
    OBVIOUS
  <2>2. o \in Calls /\ o # Undefined
    BY DEF Calls, Undefined
  <2>3. operation[o] = [kind |-> "add", name |-> n]
    BY <2>1, <2>2 DEF CallsInv
  <2>4. Message_(o) = OperationMessage("add", n, o)
    BY <2>3
  <2>5. OperationMessage("add", n, o).name = n
    BY DEF OperationMessage
  <2>6. OperationMessage("add", n, o) \in OperationMessages
    BY <2>2 DEF OperationMessage, OperationMessages, Kinds
  <2> HIDE DEF Message_
  <2> QED
    BY <2>1, <2>4, <2>5, <2>6
<1>5. ASSUME NEW i \in 1 .. Cardinality(added)
      PROVE  Picked(i) \in added /\ Rank(added, Picked(i)) = i - 1
  <2>1. \E o \in added : Rank(added, o) = i - 1
    BY <1>2, <1>3, RanksTaken
  <2> HIDE DEF added
  <2> QED
    BY <2>1 DEF Rank
<1>6. ASSUME NEW o \in added
      PROVE  \E i \in 1 .. Cardinality(added) : Picked(i) = o
  <2> DEFINE i == Rank(added, o) + 1
  <2>1. Rank(added, o) \in 0 .. Cardinality(added) - 1
    BY <1>2, RankOf
  <2>2. i \in 1 .. Cardinality(added) /\ i - 1 = Rank(added, o)
    BY <1>3, <2>1
  <2>3. Picked(i) \in added /\ Rank(added, Picked(i)) = Rank(added, o)
    BY <1>5, <2>2
  <2> HIDE DEF added, Picked, i
  <2>4. Picked(i) = o
    BY <1>2, <2>3, RankOf
  <2> QED
    BY <2>2, <2>4
<1> HIDE DEF Picked, Message_
<1>7. ASSUME NEW i \in 1 .. Cardinality(added)
      PROVE  Message_(Picked(i)) \in OperationMessages
  BY <1>4, <1>5
<1>8. /\ Replayed \in Seq(OperationMessages) /\ DOMAIN Replayed = 1 .. Cardinality(added)
      /\ \A i \in 1 .. Cardinality(added) : Replayed[i] = Message_(Picked(i))
  <2> HIDE DEF added
  <2> QED
    BY <1>1, <1>3, <1>7
<1>9. ASSUME NEW m \in Items(Replayed)
      PROVE  m = OperationMessage("add", m.name, poolFunctions[m.name])
  <2>1. PICK i \in 1 .. Cardinality(added) : m = Message_(Picked(i))
    BY <1>8 DEF Items
  <2> QED
    BY <1>4, <1>5, <2>1
<1>10. ASSUME NEW n \in Names, poolFunctions[n] # Undefined
       PROVE  OperationMessage("add", n, poolFunctions[n]) \in Items(Replayed)
  <2>1. poolFunctions[n] \in added
    BY <1>10 DEF Typed
  <2>2. PICK i \in 1 .. Cardinality(added) : Picked(i) = poolFunctions[n]
    BY <1>6, <2>1
  <2>3. Message_(poolFunctions[n]) = OperationMessage("add", n, poolFunctions[n])
    <3>1. operation[poolFunctions[n]] = [kind |-> "add", name |-> n]
      BY <1>10 DEF CallsInv
    <3> QED
      BY <3>1 DEF Message_
  <2> QED
    BY <1>8, <2>2, <2>3 DEF Items
<1> QED
  BY <1>8, <1>9, <1>10

-----------------------------------------------------------------------------
(* What a worker answers.                                                  *)

AfterMessage(fns, m) == IF m.type = "operation" THEN Operated(fns, m) ELSE fns

LEMMA KindsOfMessages ==
  ASSUME NEW m \in WorkerMessages
  PROVE  /\ m.type \in {"ready", "kill", "disconnect", "operation"}
         /\ m.type = "operation" => m \in OperationMessages
<1>1. CASE m \in [type : {"ready", "kill", "disconnect"}]
  BY <1>1
<1>2. CASE m \in OperationMessages
  BY <1>2 DEF OperationMessages
<1> QED
  BY <1>1, <1>2 DEF WorkerMessages

LEMMA OperationAnswers ==
  ASSUME NEW fns \in FunctionMaps, NEW m \in OperationMessages
  PROVE  /\ Answers(fns, m) \in Seq(PoolMessages)
         /\ OnceOf(Answers(fns, m), "status")
         /\ \A a \in Items(Answers(fns, m)) : a.type = "status" =>
              a.ok = Status(fns, m)
         /\ Told(Answers(fns, m)) = {} => Operated(fns, m) = fns
         /\ Told(Answers(fns, m)) # {} => \A known :
              Knows(Answers(fns, m), known,
                    ListTaskFunctionNames(Operated(fns, m)))
<1> DEFINE status == [type |-> "status", ok |-> Status(fns, m)]
           list == ListTaskFunctionNames(Operated(fns, m))
           names == [type |-> "names", names |-> list]
<1>1. m.type = "operation" /\ Status(fns, m) \in BOOLEAN /\ list \in NameLists
  BY OperatedOn, ListType DEF OperationMessages
<1>2. status \in PoolMessages /\ names \in PoolMessages
  BY <1>1 DEF PoolMessages
<1>3. Answers(fns, m) = (IF Refused(fns, m) THEN <<>> ELSE <<names>>) \o <<status>>
  BY <1>1 DEF Answers
<1>4. /\ status.type = "status" /\ status.ok = Status(fns, m)
      /\ names.type = "names" /\ names.names = list
  OBVIOUS
<1> HIDE DEF status, names
<1>5. CASE Refused(fns, m)
  <2>1. Answers(fns, m) = <<status>>
    BY <1>2, <1>3, <1>5
  <2>2. DOMAIN <<status>> = {1} /\ <<status>>[1] = status /\ <<status>> \in Seq(PoolMessages)
    BY <1>2, OneMessage
  <2>3. Operated(fns, m) = fns
    BY <1>5, OperatedOn
  <2>4. Told(Answers(fns, m)) = {}
    BY <1>4, <2>1, <2>2 DEF Told
  <2> QED
    BY <1>4, <2>1, <2>2, <2>3, <2>4 DEF OnceOf, Items
<1>6. CASE ~Refused(fns, m)
  <2> DEFINE r == <<names>> \o <<status>>
  <2>1. Answers(fns, m) = r
    BY <1>3, <1>6
  <2>2. /\ DOMAIN r = {1, 2} /\ r[1] = names /\ r[2] = status
        /\ r \in Seq(PoolMessages)
    <3>1. /\ <<names>> \in Seq(PoolMessages) /\ <<status>> \in Seq(PoolMessages)
          /\ Len(<<names>>) = 1 /\ Len(<<status>>) = 1
          /\ <<names>>[1] = names /\ <<status>>[1] = status
      BY <1>2
    <3>2. /\ r \in Seq(PoolMessages) /\ Len(r) = 1 + 1
          /\ \A i \in 1 .. 1 + 1 : r[i] =
               IF i <= 1 THEN <<names>>[i] ELSE <<status>>[i - 1]
      BY <3>1, ConcatProperties
    <3> HIDE DEF r
    <3>3. DOMAIN r = 1 .. 2
      BY <3>2, LenProperties
    <3> QED
      BY <3>1, <3>2, <3>3
  <2> HIDE DEF r
  <2>3. Told(r) = {1}
    BY <1>4, <2>2 DEF Told
  <2>4. \A known : Knows(r, known, list)
    BY <1>4, <2>2, <2>3 DEF Knows
  <2>5. OnceOf(r, "status")
    BY <1>4, <2>2 DEF OnceOf
  <2>6. \A a \in Items(r) : a.type = "status" => a.ok = Status(fns, m)
    BY <1>4, <2>2 DEF Items
  <2> QED
    BY <2>1, <2>2, <2>3, <2>4, <2>5, <2>6
<1> QED
  BY <1>5, <1>6

LEMMA AnswersTo ==
  ASSUME NEW fns \in FunctionMaps, NEW m \in WorkerMessages
  PROVE  /\ Answers(fns, m) \in Seq(PoolMessages)
         /\ AfterMessage(fns, m) \in FunctionMaps
         /\ m.type # "operation" => NoneOf(Answers(fns, m), "status")
         /\ Told(Answers(fns, m)) = {} =>
              AfterMessage(fns, m) = fns /\ m.type # "ready"
         /\ Told(Answers(fns, m)) # {} => \A known :
              Knows(Answers(fns, m), known,
                    ListTaskFunctionNames(AfterMessage(fns, m)))
<1>1. CASE m.type = "operation"
  <2>1. m \in OperationMessages
    BY <1>1, KindsOfMessages
  <2> QED
    BY <1>1, <2>1, OperationAnswers, OperatedOn DEF AfterMessage
<1>2. CASE m.type = "ready"
  <2> DEFINE list == ListTaskFunctionNames(fns)
             ready == [type |-> "ready", names |-> list]
  <2>1. list \in NameLists
    BY ListType
  <2>2. ready \in PoolMessages /\ ready.type = "ready" /\ ready.names = list
    BY <2>1 DEF PoolMessages
  <2>3. Answers(fns, m) = <<ready>> /\ AfterMessage(fns, m) = fns
    BY <1>2 DEF Answers, AfterMessage
  <2> HIDE DEF ready
  <2>4. DOMAIN <<ready>> = {1} /\ <<ready>>[1] = ready /\ <<ready>> \in Seq(PoolMessages)
    BY <2>2, OneMessage
  <2>5. Told(<<ready>>) = {1}
    BY <2>2, <2>4 DEF Told
  <2>6. \A known : Knows(<<ready>>, known, list)
    BY <2>2, <2>4, <2>5 DEF Knows
  <2>7. NoneOf(<<ready>>, "status")
    BY <2>2, <2>4 DEF NoneOf
  <2> QED
    BY <2>3, <2>4, <2>5, <2>6, <2>7
<1>3. CASE m.type = "kill"
  <2> DEFINE killed == Message("killed")
  <2>1. killed \in PoolMessages /\ killed.type = "killed"
    BY DEF Message, PoolMessages
  <2>2. Answers(fns, m) = <<killed>> /\ AfterMessage(fns, m) = fns
    BY <1>3 DEF Answers, AfterMessage
  <2> HIDE DEF killed
  <2>3. DOMAIN <<killed>> = {1} /\ <<killed>>[1] = killed
        /\ <<killed>> \in Seq(PoolMessages)
    BY <2>1, OneMessage
  <2>4. Told(<<killed>>) = {} /\ NoneOf(<<killed>>, "status")
    BY <2>1, <2>3 DEF Told, NoneOf
  <2> QED
    BY <1>3, <2>2, <2>3, <2>4
<1>4. CASE m.type = "disconnect"
  <2>1. Answers(fns, m) = <<>> /\ AfterMessage(fns, m) = fns
    BY <1>4 DEF Answers, AfterMessage
  <2>2. Told(<<>>) = {} /\ NoneOf(<<>>, "status") /\ <<>> \in Seq(PoolMessages)
    BY DEF Told, NoneOf
  <2> QED
    BY <1>4, <2>1, <2>2
<1> QED
  BY <1>1, <1>2, <1>3, <1>4, KindsOfMessages

-----------------------------------------------------------------------------
(* What the steps do.                                                      *)

LEMMA NodesListed ==
  ASSUME Typed
  PROVE  /\ DOMAIN workerNodes = 1 .. Len(workerNodes) /\ Len(workerNodes) \in Nat
         /\ \A i \in DOMAIN workerNodes : workerNodes[i] \in Ids
         /\ Listed \subseteq Ids
<1>1. workerNodes \in Seq(Ids)
  BY DEF Typed
<1>2. DOMAIN workerNodes = 1 .. Len(workerNodes) /\ Len(workerNodes) \in Nat
  BY <1>1, LenProperties
<1>3. \A i \in DOMAIN workerNodes : workerNodes[i] \in Ids
  BY <1>1, <1>2, ElementOfSeq
<1> QED
  BY <1>2, <1>3 DEF Listed

LEMMA NodesCounted ==
  ASSUME Typed, NodesInv
  PROVE  IsFiniteSet(Listed) /\ Cardinality(Listed) = Len(workerNodes)
<1> DEFINE keys == 1 .. Len(workerNodes)
           node == [i \in keys |-> workerNodes[i]]
<1>1. DOMAIN workerNodes = keys /\ Len(workerNodes) \in Nat
  BY NodesListed
<1>2. node \in Bijection(keys, Listed)
  BY <1>1 DEF Bijection, Injection, Surjection, IsInjective, NodesInv, Listed
<1>3. IsFiniteSet(keys) /\ Cardinality(keys) = Len(workerNodes)
  <2>1. 1 \in Int /\ Len(workerNodes) \in Int
    BY <1>1
  <2>2. /\ IsFiniteSet(1 .. Len(workerNodes))
        /\ Cardinality(1 .. Len(workerNodes)) =
             IF 1 > Len(workerNodes) THEN 0 ELSE Len(workerNodes) - 1 + 1
    BY ONLY <2>1, FS_Interval
  <2> QED
    BY <1>1, <2>2
<1>4. ExistsBijection(keys, Listed)
  BY <1>2 DEF ExistsBijection
<1> HIDE DEF keys
<1> QED
  BY <1>3, <1>4, FS_Bijection

\* A node leaves the array.
LEMMA NodeLeaves ==
  ASSUME Typed, NodesInv, NEW w \in Listed,
         workerNodes' = SubSeq(workerNodes, 1, Position(w) - 1)
                          \o SubSeq(workerNodes, Position(w) + 1, Len(workerNodes))
  PROVE  /\ workerNodes' \in Seq(Ids)
         /\ Listed' = Listed \ {w}
         /\ \A i, j \in DOMAIN workerNodes' : workerNodes'[i] = workerNodes'[j] => i = j
<1> DEFINE k == Position(w)
<1>1. DOMAIN workerNodes = 1 .. Len(workerNodes) /\ Len(workerNodes) \in Nat
  BY NodesListed
<1>2. k \in DOMAIN workerNodes /\ workerNodes[k] = w
  <2>1. \E i \in DOMAIN workerNodes : workerNodes[i] = w
    BY DEF Listed
  <2> QED
    BY <2>1 DEF Position
<1>3. k \in 1 .. Len(workerNodes) /\ workerNodes \in Seq(Ids)
  BY <1>1, <1>2 DEF Typed
<1>0. k \in Int /\ 1 <= k /\ k <= Len(workerNodes)
  BY <1>1, <1>3
<1> DEFINE spliced == SubSeq(workerNodes, 1, k - 1)
                        \o SubSeq(workerNodes, k + 1, Len(workerNodes))
<1> HIDE DEF k
<1>4. /\ spliced \in Seq(Ids)
      /\ Len(spliced) = Len(workerNodes) - 1
      /\ \A i \in 1 .. Len(workerNodes) - 1 :
           spliced[i] = IF i < k THEN workerNodes[i] ELSE workerNodes[i + 1]
  BY <1>3, SplicedSeq
<1>5. workerNodes' = spliced
  BY DEF k
<1> HIDE DEF spliced
<1>6. DOMAIN workerNodes' = 1 .. Len(workerNodes) - 1
  BY <1>1, <1>4, <1>5, LenProperties
<1>7. \A i \in DOMAIN workerNodes' : workerNodes'[i] =
        IF i < k THEN workerNodes[i] ELSE workerNodes[i + 1]
  BY <1>4, <1>5, <1>6
<1>8. \A x, y \in DOMAIN workerNodes : workerNodes[x] = workerNodes[y] => x = y
  BY DEF NodesInv
<1>9. ASSUME NEW i \in DOMAIN workerNodes', NEW j \in DOMAIN workerNodes',
             workerNodes'[i] = workerNodes'[j]
      PROVE  i = j
  BY ONLY <1>0, <1>1, <1>3, <1>6, <1>7, <1>8, <1>9
<1>10. ASSUME NEW i \in DOMAIN workerNodes'
       PROVE  workerNodes'[i] \in Listed \ {w}
  <2>1. CASE i < k
    <3>1. i \in DOMAIN workerNodes /\ workerNodes'[i] = workerNodes[i] /\ i # k
      BY ONLY <1>0, <1>1, <1>3, <1>6, <1>7, <2>1
    <3> QED
      BY <1>2, <1>8, <3>1 DEF Listed
  <2>2. CASE ~(i < k)
    <3>1. /\ i + 1 \in DOMAIN workerNodes /\ workerNodes'[i] = workerNodes[i + 1]
          /\ i + 1 # k
      BY ONLY <1>0, <1>1, <1>3, <1>6, <1>7, <2>2
    <3> QED
      BY <1>2, <1>8, <3>1 DEF Listed
  <2> QED
    BY <2>1, <2>2
<1>11. ASSUME NEW v \in Listed \ {w} PROVE v \in Listed'
  <2>1. PICK i \in DOMAIN workerNodes : v = workerNodes[i]
    BY DEF Listed
  <2>2. i # k
    BY <1>2, <2>1
  <2>3. CASE i < k
    <3>1. i \in DOMAIN workerNodes' /\ workerNodes'[i] = v
      BY ONLY <1>0, <1>1, <1>3, <1>6, <1>7, <2>1, <2>2, <2>3
    <3> QED
      BY <3>1 DEF Listed
  <2>4. CASE ~(i < k)
    <3>1. i - 1 \in DOMAIN workerNodes' /\ ~(i - 1 < k) /\ (i - 1) + 1 = i
      BY ONLY <1>0, <1>1, <1>3, <1>6, <2>1, <2>2, <2>4
    <3>2. workerNodes'[i - 1] = v
      BY <1>7, <2>1, <3>1
    <3> QED
      BY <3>1, <3>2 DEF Listed
  <2> QED
    BY <2>3, <2>4
<1>12. Listed' = Listed \ {w}
  <2>1. \A v \in Listed' : v \in Listed \ {w}
    BY <1>10 DEF Listed
  <2> QED
    BY <1>11, <2>1
<1> QED
  BY <1>4, <1>5, <1>9, <1>12

\* A node is added to it.
LEMMA NodeAdded ==
  ASSUME Typed, NodesInv, NEW w \in Ids, w \notin Listed,
         workerNodes' = Append(workerNodes, w)
  PROVE  /\ workerNodes' \in Seq(Ids)
         /\ Len(workerNodes') = Len(workerNodes) + 1
         /\ Listed' = Listed \cup {w}
         /\ \A i, j \in DOMAIN workerNodes' : workerNodes'[i] = workerNodes'[j] => i = j
<1>1. DOMAIN workerNodes = 1 .. Len(workerNodes) /\ Len(workerNodes) \in Nat
  BY NodesListed
<1>2. workerNodes \in Seq(Ids)
  BY DEF Typed
<1>3. /\ workerNodes' \in Seq(Ids) /\ Len(workerNodes') = Len(workerNodes) + 1
      /\ \A i \in 1 .. Len(workerNodes) : workerNodes'[i] = workerNodes[i]
      /\ workerNodes'[Len(workerNodes) + 1] = w
  BY <1>2, AppendProperties
<1>4. DOMAIN workerNodes' = 1 .. Len(workerNodes) + 1
  BY <1>3, LenProperties
<1>5. \A i \in 1 .. Len(workerNodes) : workerNodes'[i] # w
  BY <1>1, <1>3 DEF Listed
<1>6. \A x, y \in DOMAIN workerNodes : workerNodes[x] = workerNodes[y] => x = y
  BY DEF NodesInv
<1>7. ASSUME NEW i \in DOMAIN workerNodes', NEW j \in DOMAIN workerNodes',
             workerNodes'[i] = workerNodes'[j]
      PROVE  i = j
  BY <1>1, <1>3, <1>4, <1>5, <1>6, <1>7
<1>8. ASSUME NEW v \in Listed PROVE v \in Listed'
  <2>1. PICK i \in DOMAIN workerNodes : v = workerNodes[i]
    BY DEF Listed
  <2>2. i \in DOMAIN workerNodes' /\ workerNodes'[i] = v
    BY <1>1, <1>3, <1>4, <2>1
  <2> QED
    BY <2>2 DEF Listed
<1>9. w \in Listed'
  <2>1. Len(workerNodes) + 1 \in DOMAIN workerNodes'
    BY <1>1, <1>4
  <2> QED
    BY <1>3, <2>1 DEF Listed
<1>10. ASSUME NEW v \in Listed' PROVE v \in Listed \cup {w}
  <2>1. PICK i \in DOMAIN workerNodes' : v = workerNodes'[i]
    BY DEF Listed
  <2>2. CASE i = Len(workerNodes) + 1
    BY <1>3, <2>1, <2>2
  <2>3. CASE i \in DOMAIN workerNodes
    BY <1>1, <1>3, <2>1, <2>3 DEF Listed
  <2> QED
    BY <1>1, <1>4, <2>2, <2>3
<1> QED
  BY <1>3, <1>7, <1>8, <1>9, <1>10

LEMMA SentTo ==
  ASSUME Typed, NEW w \in Ids, NEW ms \in Seq(WorkerMessages)
  PROVE  /\ Sent(toWorker, w, ms) \in [Ids -> Seq(WorkerMessages)]
         /\ \A v \in Ids : v # w => Sent(toWorker, w, ms)[v] = toWorker[v]
         /\ Sent(toWorker, w, ms)[w] =
              IF process[w] \in {"left", "closed"} THEN toWorker[w]
                                                   ELSE toWorker[w] \o ms
<1>1. toWorker \in [Ids -> Seq(WorkerMessages)] /\ toWorker[w] \in Seq(WorkerMessages)
  BY DEF Typed
<1>2. toWorker[w] \o ms \in Seq(WorkerMessages)
  BY <1>1, ConcatProperties
<1> QED
  BY <1>1, <1>2 DEF Sent

\* What a worker changes as it handles a message, but for the types.
HandledMessage(w, m) ==
  /\ process[w] \in {"forked", "running"} /\ toWorker[w] # <<>>
  /\ m \in WorkerMessages
  /\ toPool'[w] = toPool[w] \o Answers(functions[w], m)
  /\ functions'[w] = AfterMessage(functions[w], m)
  /\ process'[w] = IF m.type = "disconnect" THEN "left" ELSE "running"
  /\ toWorker'[w] = IF m.type = "disconnect" THEN <<>> ELSE Tail(toWorker[w])
  /\ \A v \in Ids : v # w => /\ toPool'[v] = toPool[v]
                             /\ functions'[v] = functions[v]
                             /\ process'[v] = process[v]
                             /\ toWorker'[v] = toWorker[v]
  /\ UNCHANGED <<workerNodes, dynamic, created, operation, promise, listening,
                 received, poolFunctions, replaying, crashed, taskFunctionNames,
                 disturbed>>

LEMMA WorkerHandlesEffect ==
  ASSUME Typed, NEW w \in Ids, WorkerHandles(w), NEW m, m = toWorker[w][1]
  PROVE  HandledMessage(w, m) /\ Typed'
<1>1. /\ process[w] \in {"forked", "running"} /\ toWorker[w] # <<>>
      /\ toPool' = [toPool EXCEPT ![w] = @ \o Answers(functions[w], m)]
      /\ functions' = IF m.type = "operation"
                        THEN [functions EXCEPT ![w] = Operated(@, m)] ELSE functions
      /\ process' = [process EXCEPT ![w] =
                       IF m.type = "disconnect" THEN "left" ELSE "running"]
      /\ toWorker' = [toWorker EXCEPT ![w] =
                        IF m.type = "disconnect" THEN <<>> ELSE Tail(@)]
      /\ UNCHANGED <<workerNodes, dynamic, created, operation, promise, listening,
                     received, poolFunctions, replaying, crashed,
                     taskFunctionNames, disturbed>>
  BY DEF WorkerHandles, nodeVars, operationVars, replayVars
<1>2. /\ toWorker \in [Ids -> Seq(WorkerMessages)] /\ toWorker[w] \in Seq(WorkerMessages)
      /\ toPool \in [Ids -> Seq(PoolMessages)] /\ toPool[w] \in Seq(PoolMessages)
      /\ functions \in [Ids -> FunctionMaps] /\ functions[w] \in FunctionMaps
      /\ process \in [Ids -> ProcessStates]
  BY DEF Typed
<1>3. m \in WorkerMessages /\ Tail(toWorker[w]) \in Seq(WorkerMessages)
  BY <1>1, <1>2, ShiftedSeq
<1>4. /\ Answers(functions[w], m) \in Seq(PoolMessages)
      /\ AfterMessage(functions[w], m) \in FunctionMaps
  BY <1>2, <1>3, AnswersTo
<1>5. toPool[w] \o Answers(functions[w], m) \in Seq(PoolMessages)
  BY <1>2, <1>4, ConcatProperties
<1>6. functions' = [functions EXCEPT ![w] = AfterMessage(functions[w], m)]
  BY <1>1, <1>2 DEF AfterMessage
<1>7. /\ toPool' \in [Ids -> Seq(PoolMessages)]
      /\ toPool'[w] = toPool[w] \o Answers(functions[w], m)
      /\ \A v \in Ids : v # w => toPool'[v] = toPool[v]
  BY <1>1, <1>2, <1>5
<1>8. /\ functions' \in [Ids -> FunctionMaps]
      /\ functions'[w] = AfterMessage(functions[w], m)
      /\ \A v \in Ids : v # w => functions'[v] = functions[v]
  BY <1>2, <1>4, <1>6
<1>9. /\ process' \in [Ids -> ProcessStates]
      /\ process'[w] = IF m.type = "disconnect" THEN "left" ELSE "running"
      /\ \A v \in Ids : v # w => process'[v] = process[v]
  BY <1>1, <1>2 DEF ProcessStates
<1>10. /\ toWorker' \in [Ids -> Seq(WorkerMessages)]
       /\ toWorker'[w] = IF m.type = "disconnect" THEN <<>> ELSE Tail(toWorker[w])
       /\ \A v \in Ids : v # w => toWorker'[v] = toWorker[v]
  BY <1>1, <1>2, <1>3
<1>11. Typed'
  BY <1>1, <1>7, <1>8, <1>9, <1>10 DEF Typed
<1> QED
  BY <1>1, <1>3, <1>7, <1>8, <1>9, <1>10, <1>11 DEF HandledMessage

LEMMA WorkerDiesEffect ==
  ASSUME Typed, NEW w \in Ids, WorkerDies(w)
  PROVE  /\ process[w] \in {"forked", "running"}
         /\ process'[w] = "left" /\ toWorker'[w] = <<>>
         /\ \A v \in Ids : v # w => /\ process'[v] = process[v]
                                    /\ toWorker'[v] = toWorker[v]
         /\ UNCHANGED <<workerNodes, dynamic, created, operation, promise, listening,
                        received, poolFunctions, replaying, crashed,
                        taskFunctionNames, functions, toPool, disturbed>>
         /\ Typed'
<1>1. /\ process[w] \in {"forked", "running"}
      /\ process' = [process EXCEPT ![w] = "left"]
      /\ toWorker' = [toWorker EXCEPT ![w] = <<>>]
      /\ UNCHANGED <<workerNodes, dynamic, created, operation, promise, listening,
                     received, poolFunctions, replaying, crashed,
                     taskFunctionNames, functions, toPool, disturbed>>
  BY DEF WorkerDies, nodeVars, operationVars, replayVars
<1>2. toWorker \in [Ids -> Seq(WorkerMessages)] /\ process \in [Ids -> ProcessStates]
  BY DEF Typed
<1>3. /\ process' \in [Ids -> ProcessStates] /\ process'[w] = "left"
      /\ \A v \in Ids : v # w => process'[v] = process[v]
  BY <1>1, <1>2 DEF ProcessStates
<1>4. /\ toWorker' \in [Ids -> Seq(WorkerMessages)] /\ toWorker'[w] = <<>>
      /\ \A v \in Ids : v # w => toWorker'[v] = toWorker[v]
  BY <1>1, <1>2
<1>5. Typed'
  BY <1>1, <1>3, <1>4 DEF Typed
<1> QED
  BY <1>1, <1>3, <1>4, <1>5

LEMMA CreateDynamicNodeEffect ==
  ASSUME Typed, NodesInv, CallsInv, CreateDynamicNode, NEW w, w = created + 1
  PROVE  /\ ~crashed /\ w \in Ids /\ process[w] = "none" /\ w \notin Listed
         /\ created' = w
         /\ Listed' = Listed \cup {w}
         /\ Len(workerNodes') = Len(workerNodes) + 1
         /\ \A i, j \in DOMAIN workerNodes' : workerNodes'[i] = workerNodes'[j] => i = j
         /\ process'[w] = "forked"
         /\ toWorker'[w] = <<Message("ready")>> \o Replayed
         /\ replaying'[w] \in {None, Len(workerNodes) + 1}
         /\ \A v \in Ids : v # w => /\ process'[v] = process[v]
                                    /\ toWorker'[v] = toWorker[v]
                                    /\ replaying'[v] = replaying[v]
         /\ disturbed' = disturbed \cup Pending
         /\ UNCHANGED <<operation, promise, listening, received, poolFunctions,
                        crashed, taskFunctionNames, functions, toPool>>
         /\ Typed'
<1>1. /\ ~crashed /\ created < Workers
      /\ created' = w
      /\ workerNodes' = Append(workerNodes, w)
      /\ dynamic' = [dynamic EXCEPT ![w] = TRUE]
      /\ process' = [process EXCEPT ![w] = "forked"]
      /\ toWorker' = [toWorker EXCEPT ![w] = <<Message("ready")>> \o Replayed]
      /\ replaying' = [replaying EXCEPT ![w] = IF Replayed = <<>> THEN None
                                                ELSE Len(workerNodes) + 1]
      /\ disturbed' = disturbed \cup Pending
      /\ UNCHANGED <<operation, promise, listening, received, poolFunctions,
                     crashed, taskFunctionNames, functions, toPool>>
  BY DEF CreateDynamicNode, operationVars, PositionCreated
<1>2. /\ created \in Nat /\ Workers \in Nat /\ Len(workerNodes) \in Nat
  BY SizeAssumption, NodesListed DEF Typed
<1>3. w \in Ids /\ w > created /\ w <= Workers /\ w \in Nat
  BY <1>1, <1>2 DEF Ids
<1>4. process[w] = "none" /\ w \notin Listed
  BY <1>3 DEF NodesInv
<1>5. /\ workerNodes' \in Seq(Ids)
      /\ Len(workerNodes') = Len(workerNodes) + 1
      /\ Listed' = Listed \cup {w}
      /\ \A i, j \in DOMAIN workerNodes' : workerNodes'[i] = workerNodes'[j] => i = j
  BY <1>1, <1>3, <1>4, NodeAdded
<1>6. <<Message("ready")>> \o Replayed \in Seq(WorkerMessages)
  <2>1. <<Message("ready")>> \in Seq(WorkerMessages)
    BY DEF Message, WorkerMessages
  <2>2. Replayed \in Seq(WorkerMessages)
    <3>1. Replayed \in Seq(OperationMessages)
      BY ReplayedMessages
    <3>2. OperationMessages \subseteq WorkerMessages
      BY DEF WorkerMessages
    <3> HIDE DEF Replayed
    <3> QED
      BY <3>1, <3>2
  <2> QED
    BY <2>1, <2>2, ConcatProperties
<1>7. /\ toWorker \in [Ids -> Seq(WorkerMessages)] /\ process \in [Ids -> ProcessStates]
      /\ replaying \in [Ids -> Nat] /\ dynamic \in [Ids -> BOOLEAN]
      /\ disturbed \subseteq Calls
  BY DEF Typed
<1>8. /\ process' \in [Ids -> ProcessStates] /\ process'[w] = "forked"
      /\ \A v \in Ids : v # w => process'[v] = process[v]
  BY <1>1, <1>3, <1>7 DEF ProcessStates
<1>9. /\ toWorker' \in [Ids -> Seq(WorkerMessages)]
      /\ toWorker'[w] = <<Message("ready")>> \o Replayed
      /\ \A v \in Ids : v # w => toWorker'[v] = toWorker[v]
  BY <1>1, <1>3, <1>6, <1>7
<1>10. /\ replaying' \in [Ids -> Nat]
       /\ replaying'[w] \in {None, Len(workerNodes) + 1}
       /\ \A v \in Ids : v # w => replaying'[v] = replaying[v]
  <2> DEFINE k == IF Replayed = <<>> THEN None ELSE Len(workerNodes) + 1
  <2>1. k \in Nat /\ k \in {None, Len(workerNodes) + 1}
    BY <1>2 DEF None
  <2>2. replaying' = [replaying EXCEPT ![w] = k]
    BY <1>1
  <2> HIDE DEF k
  <2> QED
    BY <1>3, <1>7, <2>1, <2>2
<1>11. dynamic' \in [Ids -> BOOLEAN]
  BY <1>1, <1>7
<1>12. disturbed' \subseteq Calls
  BY <1>1, <1>7 DEF Pending
<1>13. Typed'
  BY <1>1, <1>3, <1>5, <1>8, <1>9, <1>10, <1>11, <1>12 DEF Typed
<1> QED
  BY <1>1, <1>3, <1>4, <1>5, <1>8, <1>9, <1>10, <1>13

LEMMA DestroyNodeEffect ==
  ASSUME Typed, NEW w \in Ids, DestroyNode(w)
  PROVE  /\ ~crashed /\ process[w] = "running" /\ w \in Listed
         /\ toWorker'[w] = toWorker[w] \o <<Message("kill")>>
         /\ <<Message("kill")>> \in Seq(WorkerMessages)
         /\ \A v \in Ids : v # w => toWorker'[v] = toWorker[v]
         /\ UNCHANGED <<workerNodes, dynamic, created, operation, promise, listening,
                        received, poolFunctions, replaying, crashed, process,
                        taskFunctionNames, functions, toPool, disturbed>>
         /\ Typed'
<1>1. /\ ~crashed /\ process[w] = "running" /\ w \in Listed
      /\ toWorker' = Sent(toWorker, w, <<Message("kill")>>)
      /\ UNCHANGED <<workerNodes, dynamic, created, operation, promise, listening,
                     received, poolFunctions, replaying, crashed, process,
                     taskFunctionNames, functions, toPool, disturbed>>
  BY DEF DestroyNode, nodeVars, operationVars, replayVars
<1>2. <<Message("kill")>> \in Seq(WorkerMessages)
  BY DEF Message, WorkerMessages
<1> DEFINE ms == <<Message("kill")>>
<1> HIDE DEF ms
<1>3. /\ Sent(toWorker, w, ms) \in [Ids -> Seq(WorkerMessages)]
      /\ \A v \in Ids : v # w => Sent(toWorker, w, ms)[v] = toWorker[v]
      /\ Sent(toWorker, w, ms)[w] = toWorker[w] \o ms
  <2>1. ms \in Seq(WorkerMessages)
    BY <1>2 DEF ms
  <2> QED
    BY <1>1, <2>1, SentTo
<1>4. toWorker' = Sent(toWorker, w, ms)
  BY <1>1 DEF ms
<1>5. Typed'
  BY <1>1, <1>3, <1>4 DEF Typed
<1> QED
  BY <1>1, <1>2, <1>3, <1>4, <1>5 DEF ms

LEMMA DisconnectedEffect ==
  ASSUME Typed, NEW w \in Ids, Disconnected(w)
  PROVE  /\ ~crashed /\ process[w] = "left" /\ toPool[w] = <<>>
         /\ process'[w] = "closed"
         /\ \A v \in Ids : v # w => process'[v] = process[v]
         /\ UNCHANGED <<workerNodes, dynamic, created, operation, promise, listening,
                        received, poolFunctions, replaying, crashed,
                        taskFunctionNames, functions, toWorker, toPool, disturbed>>
         /\ Typed'
<1>1. /\ ~crashed /\ process[w] = "left" /\ toPool[w] = <<>>
      /\ process' = [process EXCEPT ![w] = "closed"]
      /\ UNCHANGED <<workerNodes, dynamic, created, operation, promise, listening,
                     received, poolFunctions, replaying, crashed,
                     taskFunctionNames, functions, toWorker, toPool, disturbed>>
  BY DEF Disconnected, nodeVars, operationVars, replayVars
<1>2. process \in [Ids -> ProcessStates]
  BY DEF Typed
<1>3. /\ process' \in [Ids -> ProcessStates] /\ process'[w] = "closed"
      /\ \A v \in Ids : v # w => process'[v] = process[v]
  BY <1>1, <1>2 DEF ProcessStates
<1>4. Typed'
  BY <1>1, <1>3 DEF Typed
<1> QED
  BY <1>1, <1>3, <1>4

LEMMA WorkerExitEffect ==
  ASSUME Typed, NodesInv, NEW w \in Ids, WorkerExit(w)
  PROVE  /\ ~crashed /\ process[w] = "closed" /\ w \in Listed
         /\ process'[w] = "exited"
         /\ \A v \in Ids : v # w => process'[v] = process[v]
         /\ Listed' = Listed \ {w}
         /\ \A i, j \in DOMAIN workerNodes' : workerNodes'[i] = workerNodes'[j] => i = j
         /\ disturbed' = disturbed \cup Pending
         /\ UNCHANGED <<dynamic, created, operation, promise, listening,
                        received, poolFunctions, replaying, crashed,
                        taskFunctionNames, functions, toWorker, toPool>>
         /\ Typed'
<1>1. /\ ~crashed /\ process[w] = "closed"
      /\ process' = [process EXCEPT ![w] = "exited"]
      /\ workerNodes' = SubSeq(workerNodes, 1, Position(w) - 1)
                          \o SubSeq(workerNodes, Position(w) + 1, Len(workerNodes))
      /\ disturbed' = disturbed \cup Pending
      /\ UNCHANGED <<dynamic, created, operation, promise, listening,
                     received, poolFunctions, replaying, crashed,
                     taskFunctionNames, functions, toWorker, toPool>>
  BY DEF WorkerExit, operationVars, replayVars
<1>2. w \in Listed
  BY <1>1 DEF NodesInv
<1>3. /\ workerNodes' \in Seq(Ids) /\ Listed' = Listed \ {w}
      /\ \A i, j \in DOMAIN workerNodes' : workerNodes'[i] = workerNodes'[j] => i = j
  BY <1>1, <1>2, NodeLeaves
<1>4. process \in [Ids -> ProcessStates] /\ disturbed \subseteq Calls
  BY DEF Typed
<1>5. /\ process' \in [Ids -> ProcessStates] /\ process'[w] = "exited"
      /\ \A v \in Ids : v # w => process'[v] = process[v]
  BY <1>1, <1>4 DEF ProcessStates
<1>6. disturbed' \subseteq Calls
  BY <1>1, <1>4 DEF Pending
<1>7. Typed'
  BY <1>1, <1>3, <1>5, <1>6 DEF Typed
<1> QED
  BY <1>1, <1>2, <1>3, <1>5, <1>7

\* What an answer does to an operation.
Now(o, w, ok) == IF w \in listening[o] THEN Append(received[o], ok) ELSE received[o]
Settles(o, w, ok) ==
  w \in listening[o] /\ promise[o] = "pending" /\ Complete(Now(o, w, ok))
Resolves(o, w, ok) == Settles(o, w, ok) /\ Succeeded(Now(o, w, ok))
Sets(o, n) == operation[o].kind \in {"add", "remove"} /\ operation[o].name = n

LEMMA StatusReceivedEffect ==
  ASSUME Typed, NEW w \in Ids, NEW ok \in BOOLEAN, StatusReceived(w, ok)
  PROVE  /\ \A o \in Calls :
              /\ received'[o] = Now(o, w, ok)
              /\ listening'[o] \in {listening[o], listening[o] \ {w}}
              /\ promise'[o] = IF Resolves(o, w, ok) THEN "resolved"
                               ELSE IF Settles(o, w, ok) THEN "rejected"
                               ELSE promise[o]
         /\ \A n \in Names :
              \/ /\ poolFunctions'[n] = poolFunctions[n]
                 /\ \A o \in Calls : Resolves(o, w, ok) => ~Sets(o, n)
              \/ \E o \in Calls :
                   /\ Resolves(o, w, ok) /\ Sets(o, n)
                   /\ poolFunctions'[n] =
                        IF operation[o].kind = "add" THEN o ELSE Undefined
         /\ received' \in [Calls -> Seq(BOOLEAN)]
         /\ listening' \in [Calls -> SUBSET Ids]
         /\ promise' \in [Calls -> {"none", "pending", "resolved", "rejected"}]
         /\ poolFunctions' \in [Names -> {Undefined} \cup Calls]
<1> DEFINE reached == {o \in Calls : w \in listening[o]}
           now == [o \in Calls |-> IF o \in reached THEN Append(received[o], ok)
                                                    ELSE received[o]]
           settled == {o \in reached : Complete(now[o])}
           resolved == {o \in settled : promise[o] = "pending" /\ Succeeded(now[o])}
           Changing(n) == {o \in resolved : operation[o].kind \in {"add", "remove"}
                                              /\ operation[o].name = n}
           Last(os) == CHOOSE o \in os : \A p \in os : p <= o
<1>1. /\ received' = now
      /\ listening' = [o \in Calls |-> IF o \in settled THEN listening[o] \ {w}
                                                        ELSE listening[o]]
      /\ promise' = [o \in Calls |->
           IF o \in settled /\ promise[o] = "pending"
             THEN IF o \in resolved THEN "resolved" ELSE "rejected"
             ELSE promise[o]]
      /\ poolFunctions' = [n \in Names |->
           IF Changing(n) = {} THEN poolFunctions[n]
           ELSE IF operation[Last(Changing(n))].kind = "add" THEN Last(Changing(n))
           ELSE Undefined]
  BY DEF StatusReceived
<1>2. \A o \in Calls : now[o] = Now(o, w, ok)
  BY DEF Now
<1>3. \A o \in Calls : o \in settled /\ promise[o] = "pending" <=> Settles(o, w, ok)
  BY <1>2 DEF Settles
<1>4. \A o \in Calls : o \in resolved <=> Resolves(o, w, ok)
  BY <1>2, <1>3 DEF Resolves
<1>5. ASSUME NEW o \in Calls
      PROVE  /\ received'[o] = Now(o, w, ok)
             /\ listening'[o] \in {listening[o], listening[o] \ {w}}
             /\ promise'[o] = IF Resolves(o, w, ok) THEN "resolved"
                              ELSE IF Settles(o, w, ok) THEN "rejected"
                              ELSE promise[o]
  <2>1. received'[o] = Now(o, w, ok)
    BY <1>1, <1>2
  <2> HIDE DEF now
  <2>2. listening'[o] = IF o \in settled THEN listening[o] \ {w} ELSE listening[o]
    BY <1>1
  <2>3. promise'[o] = IF o \in settled /\ promise[o] = "pending"
                        THEN IF o \in resolved THEN "resolved" ELSE "rejected"
                        ELSE promise[o]
    BY <1>1
  <2> HIDE DEF settled, resolved
  <2> QED
    BY <1>3, <1>4, <2>1, <2>2, <2>3 DEF Resolves
<1>6. ASSUME NEW n \in Names
      PROVE  Changing(n) \in SUBSET Calls
             /\ \A o \in Calls : o \in Changing(n) <=> Resolves(o, w, ok) /\ Sets(o, n)
  <2>1. Changing(n) \in SUBSET Calls
    OBVIOUS
  <2> HIDE DEF resolved
  <2> QED
    BY <1>4, <2>1 DEF Sets
<1>7. ASSUME NEW n \in Names, Changing(n) # {}
      PROVE  Last(Changing(n)) \in Changing(n) /\ Last(Changing(n)) \in Calls
  <2> DEFINE os == Changing(n)
  <2>1. os \in SUBSET (1 .. Operations) /\ os # {} /\ Operations \in Nat
    BY <1>6, <1>7, SizeAssumption DEF Calls
  <2> HIDE DEF os
  <2>2. \E o \in os : \A p \in os : p <= o
    BY <2>1, LargestElement
  <2>3. Last(os) \in os
    BY <2>2
  <2> QED
    BY <1>6, <2>3 DEF os
<1> HIDE DEF Changing, Last
<1>8. ASSUME NEW n \in Names
      PROVE  poolFunctions'[n] =
               IF Changing(n) = {} THEN poolFunctions[n]
               ELSE IF operation[Last(Changing(n))].kind = "add" THEN Last(Changing(n))
               ELSE Undefined
  BY <1>1
<1>9. ASSUME NEW n \in Names
      PROVE  \/ /\ poolFunctions'[n] = poolFunctions[n]
                /\ \A o \in Calls : Resolves(o, w, ok) => ~Sets(o, n)
             \/ \E o \in Calls :
                  /\ Resolves(o, w, ok) /\ Sets(o, n)
                  /\ poolFunctions'[n] =
                       IF operation[o].kind = "add" THEN o ELSE Undefined
  <2>1. CASE Changing(n) = {}
    BY <1>6, <1>8, <2>1
  <2>2. CASE Changing(n) # {}
    BY <1>6, <1>7, <1>8, <2>2
  <2> QED
    BY <2>1, <2>2
<1>10. received' \in [Calls -> Seq(BOOLEAN)]
  <2>1. ASSUME NEW o \in Calls PROVE now[o] \in Seq(BOOLEAN)
    <3>1. received[o] \in Seq(BOOLEAN)
      BY DEF Typed
    <3>2. Append(received[o], ok) \in Seq(BOOLEAN)
      BY <3>1, AppendProperties
    <3> QED
      BY <3>1, <3>2
  <2>2. now = [o \in Calls |-> now[o]]
    OBVIOUS
  <2> HIDE DEF now
  <2> QED
    BY <1>1, <2>1, <2>2
<1>11. listening' \in [Calls -> SUBSET Ids]
  <2> HIDE DEF settled
  <2> QED
    BY <1>1 DEF Typed
<1>12. promise' \in [Calls -> {"none", "pending", "resolved", "rejected"}]
  <2> HIDE DEF settled, resolved
  <2> QED
    BY <1>1 DEF Typed
<1>13. poolFunctions' \in [Names -> {Undefined} \cup Calls]
  <2>1. ASSUME NEW n \in Names PROVE poolFunctions'[n] \in {Undefined} \cup Calls
    BY <1>7, <1>8 DEF Typed
  <2>2. poolFunctions' = [n \in Names |-> poolFunctions'[n]]
    BY <1>1
  <2> QED
    BY <2>1, <2>2
<1> HIDE DEF reached, now, settled, resolved
<1> QED
  BY <1>5, <1>9, <1>10, <1>11, <1>12, <1>13

LEMMA PoolHandlesEffect ==
  ASSUME Typed, NodesInv, NEW w \in Ids, PoolHandles(w), NEW m, m = toPool[w][1]
  PROVE  /\ ~crashed /\ toPool[w] # <<>> /\ m \in PoolMessages
         /\ process[w] \in {"running", "left"}
         /\ crashed' = (replaying[w] > Len(workerNodes))
         /\ toPool'[w] = Tail(toPool[w])
         /\ replaying'[w] \in {None, replaying[w]}
         /\ crashed' => replaying'[w] = replaying[w]
         /\ taskFunctionNames'[w] = IF m.type \in {"ready", "names"} THEN m.names
                                    ELSE taskFunctionNames[w]
         /\ \/ m.type # "killed" /\ toWorker'[w] = toWorker[w]
            \/ toWorker'[w] = toWorker[w] /\ process[w] = "left"
            \/ /\ m.type = "killed" /\ process[w] = "running"
               /\ toWorker'[w] = toWorker[w] \o <<Message("disconnect")>>
         /\ <<Message("disconnect")>> \in Seq(WorkerMessages)
         /\ \A v \in Ids : v # w => /\ toPool'[v] = toPool[v]
                                    /\ replaying'[v] = replaying[v]
                                    /\ taskFunctionNames'[v] = taskFunctionNames[v]
                                    /\ toWorker'[v] = toWorker[v]
         /\ \/ m.type = "status" /\ m.ok \in BOOLEAN /\ StatusReceived(w, m.ok)
            \/ /\ m.type = "status" => crashed'
               /\ UNCHANGED <<promise, listening, received, poolFunctions>>
         /\ UNCHANGED <<workerNodes, dynamic, created, operation, process, functions,
                        disturbed>>
         /\ Typed'
<1>1. /\ ~crashed /\ toPool[w] # <<>>
      /\ crashed' = (replaying[w] > Len(workerNodes))
      /\ replaying' = [replaying EXCEPT ![w] =
           IF m.type = "status" /\ @ \in DOMAIN workerNodes /\ workerNodes[@] = w
             THEN None ELSE @]
      /\ toPool' = [toPool EXCEPT ![w] = Tail(@)]
      /\ taskFunctionNames' = IF m.type \in {"ready", "names"}
           THEN [taskFunctionNames EXCEPT ![w] = m.names] ELSE taskFunctionNames
      /\ IF m.type = "status" /\ ~crashed' THEN StatusReceived(w, m.ok)
           ELSE UNCHANGED <<promise, listening, received, poolFunctions>>
      /\ toWorker' = IF m.type = "killed"
                       THEN Sent(toWorker, w, <<Message("disconnect")>>)
                       ELSE toWorker
      /\ UNCHANGED <<workerNodes, dynamic, created, operation, process, functions,
                     disturbed>>
  BY DEF PoolHandles, ReplayAnswered, nodeVars
<1>2. /\ toWorker \in [Ids -> Seq(WorkerMessages)]
      /\ toPool \in [Ids -> Seq(PoolMessages)] /\ toPool[w] \in Seq(PoolMessages)
      /\ replaying \in [Ids -> Nat] /\ taskFunctionNames \in [Ids -> NameLists]
      /\ Len(workerNodes) \in Nat /\ DOMAIN workerNodes = 1 .. Len(workerNodes)
  BY NodesListed DEF Typed
<1>3. m \in PoolMessages /\ Tail(toPool[w]) \in Seq(PoolMessages)
  BY <1>1, <1>2, ShiftedSeq
<1>4. process[w] \in {"running", "left"}
  BY <1>1 DEF NodesInv
<1>5. /\ m.type \in {"ready", "names"} => m.names \in NameLists
      /\ m.type = "status" => m.ok \in BOOLEAN
  BY <1>3 DEF PoolMessages
<1>6. /\ toPool' \in [Ids -> Seq(PoolMessages)] /\ toPool'[w] = Tail(toPool[w])
      /\ \A v \in Ids : v # w => toPool'[v] = toPool[v]
  BY <1>1, <1>2, <1>3
<1>7. /\ replaying' \in [Ids -> Nat] /\ replaying'[w] \in {None, replaying[w]}
      /\ crashed' => replaying'[w] = replaying[w]
      /\ \A v \in Ids : v # w => replaying'[v] = replaying[v]
  <2> DEFINE k == IF m.type = "status" /\ replaying[w] \in DOMAIN workerNodes
                       /\ workerNodes[replaying[w]] = w THEN None ELSE replaying[w]
  <2>1. k \in {None, replaying[w]}
    OBVIOUS
  <2>2. replaying[w] > Len(workerNodes) => k = replaying[w]
    BY <1>2
  <2>3. replaying' = [replaying EXCEPT ![w] = k]
    BY <1>1
  <2> HIDE DEF k
  <2>4. k \in Nat
    BY <1>2, <2>1 DEF None
  <2>5. /\ replaying' \in [Ids -> Nat] /\ replaying'[w] = k
        /\ \A v \in Ids : v # w => replaying'[v] = replaying[v]
    BY ONLY <1>2, <2>3, <2>4, w \in Ids
  <2>6. crashed' => k = replaying[w]
    BY <1>1, <2>2
  <2> QED
    BY <2>1, <2>5, <2>6
<1>8. /\ taskFunctionNames' \in [Ids -> NameLists]
      /\ taskFunctionNames'[w] = IF m.type \in {"ready", "names"} THEN m.names
                                 ELSE taskFunctionNames[w]
      /\ \A v \in Ids : v # w => taskFunctionNames'[v] = taskFunctionNames[v]
  BY <1>1, <1>2, <1>5
<1>9. <<Message("disconnect")>> \in Seq(WorkerMessages)
  BY DEF Message, WorkerMessages
<1>10. /\ toWorker' \in [Ids -> Seq(WorkerMessages)]
       /\ \A v \in Ids : v # w => toWorker'[v] = toWorker[v]
       /\ \/ m.type # "killed" /\ toWorker'[w] = toWorker[w]
          \/ toWorker'[w] = toWorker[w] /\ process[w] = "left"
          \/ /\ m.type = "killed" /\ process[w] = "running"
             /\ toWorker'[w] = toWorker[w] \o <<Message("disconnect")>>
  <2>1. CASE m.type # "killed"
    BY <1>1, <1>2, <2>1
  <2>2. CASE m.type = "killed"
    <3> DEFINE ms == <<Message("disconnect")>>
    <3>1. ms \in Seq(WorkerMessages) /\ toWorker' = Sent(toWorker, w, ms)
      BY <1>1, <1>9, <2>2
    <3> HIDE DEF ms
    <3>2. /\ Sent(toWorker, w, ms) \in [Ids -> Seq(WorkerMessages)]
          /\ \A v \in Ids : v # w => Sent(toWorker, w, ms)[v] = toWorker[v]
          /\ Sent(toWorker, w, ms)[w] =
               IF process[w] \in {"left", "closed"} THEN toWorker[w]
                                                    ELSE toWorker[w] \o ms
      BY <3>1, SentTo
    <3>3. CASE process[w] = "left"
      BY <2>2, <3>1, <3>2, <3>3
    <3>4. CASE process[w] = "running"
      BY <2>2, <3>1, <3>2, <3>4 DEF ms
    <3> QED
      BY <1>4, <3>3, <3>4
  <2> QED
    BY <2>1, <2>2
<1>11. \/ m.type = "status" /\ m.ok \in BOOLEAN /\ StatusReceived(w, m.ok)
       \/ /\ m.type = "status" => crashed'
          /\ UNCHANGED <<promise, listening, received, poolFunctions>>
  BY <1>1, <1>5
<1>12. /\ received' \in [Calls -> Seq(BOOLEAN)]
       /\ listening' \in [Calls -> SUBSET Ids]
       /\ promise' \in [Calls -> {"none", "pending", "resolved", "rejected"}]
       /\ poolFunctions' \in [Names -> {Undefined} \cup Calls]
  <2>1. CASE m.ok \in BOOLEAN /\ StatusReceived(w, m.ok)
    BY <2>1, StatusReceivedEffect
  <2>2. CASE UNCHANGED <<promise, listening, received, poolFunctions>>
    BY <2>2 DEF Typed
  <2> QED
    BY <1>11, <2>1, <2>2
<1>13. crashed' \in BOOLEAN
  BY <1>1
<1>14. Typed'
  BY <1>1, <1>6, <1>7, <1>8, <1>10, <1>12, <1>13 DEF Typed
<1> QED
  BY <1>1, <1>3, <1>4, <1>6, <1>7, <1>8, <1>9, <1>10, <1>11, <1>14

\* What a call does: it is rejected at once, or sent to every node.
RejectedCall(kind, name, o) ==
  /\ kind = "remove" /\ poolFunctions[name] = Undefined
  /\ promise'[o] = "rejected" /\ listening'[o] = listening[o]
  /\ toWorker' = toWorker /\ disturbed' = disturbed
BroadcastCall(kind, name, o) ==
  /\ promise'[o] = "pending" /\ listening'[o] = Listed
  /\ \A v \in Ids : toWorker'[v] =
       IF v \in Listed /\ process[v] \notin {"left", "closed"}
         THEN toWorker[v] \o <<OperationMessage(kind, name, o)>>
         ELSE toWorker[v]
  /\ disturbed' = disturbed \cup Overlapping(o)

OtherCallsKept(o) ==
  \A p \in Calls : p # o => promise'[p] = promise[p] /\ listening'[p] = listening[p]

LEMMA CallOperationEffect ==
  ASSUME Typed, NodesInv, NEW kind \in Kinds, NEW name \in Names,
         CallOperation(kind, name), NEW o, o = Len(operation) + 1
  PROVE  /\ ~crashed /\ o \in Calls
         /\ operation'[o] = [kind |-> kind, name |-> name]
         /\ Len(operation') = o /\ Len(operation) \in Nat
         /\ \A p \in Calls : p <= Len(operation) => operation'[p] = operation[p]
         /\ OtherCallsKept(o)
         /\ RejectedCall(kind, name, o) \/ BroadcastCall(kind, name, o)
         /\ <<OperationMessage(kind, name, o)>> \in Seq(WorkerMessages)
         /\ UNCHANGED <<workerNodes, dynamic, created, received, poolFunctions,
                        replaying, crashed, process, taskFunctionNames, functions,
                        toPool>>
         /\ Typed'
<1> DEFINE op == [kind |-> kind, name |-> name]
           ms == <<OperationMessage(kind, name, o)>>
<1>1. /\ ~crashed /\ o \in Calls
      /\ operation' = Append(operation, op)
      /\ IF kind = "remove" /\ poolFunctions[name] = Undefined
           THEN /\ promise' = [promise EXCEPT ![o] = "rejected"]
                /\ UNCHANGED <<listening, toWorker, disturbed>>
           ELSE Broadcast(o, kind, name)
      /\ UNCHANGED <<workerNodes, dynamic, created, received, poolFunctions,
                     replaying, crashed, process, taskFunctionNames, functions,
                     toPool>>
  BY DEF CallOperation, nodeVars, replayVars
<1>2. /\ operation \in Seq([kind : Kinds, name : Names])
      /\ op \in [kind : Kinds, name : Names]
      /\ promise \in [Calls -> {"none", "pending", "resolved", "rejected"}]
      /\ listening \in [Calls -> SUBSET Ids] /\ disturbed \subseteq Calls
      /\ toWorker \in [Ids -> Seq(WorkerMessages)] /\ Listed \subseteq Ids
  BY NodesListed DEF Typed
<1>3. ms \in Seq(WorkerMessages)
  <2>1. OperationMessage(kind, name, o) \in OperationMessages
    BY <1>1 DEF OperationMessage, OperationMessages
  <2> QED
    BY <2>1 DEF WorkerMessages
<1> HIDE DEF op
<1>4. /\ operation' \in Seq([kind : Kinds, name : Names])
      /\ Len(operation') = o /\ Len(operation) \in Nat
      /\ operation'[o] = op
      /\ \A p \in 1 .. Len(operation) : operation'[p] = operation[p]
  BY <1>1, <1>2, AppendProperties, LenProperties
<1>5. \A p \in Calls : p <= Len(operation) => operation'[p] = operation[p]
  BY <1>4 DEF Calls
<1> HIDE DEF ms
<1>6. CASE kind = "remove" /\ poolFunctions[name] = Undefined
  <2>1. /\ promise' \in [Calls -> {"none", "pending", "resolved", "rejected"}]
        /\ promise'[o] = "rejected"
        /\ \A p \in Calls : p # o => promise'[p] = promise[p]
    BY <1>1, <1>2, <1>6
  <2>2. UNCHANGED <<listening, toWorker, disturbed>>
    BY <1>1, <1>6
  <2>3. Typed'
    BY <1>1, <1>4, <2>1, <2>2 DEF Typed
  <2> QED
    BY <1>1, <1>3, <1>4, <1>5, <1>6, <2>1, <2>2, <2>3 DEF op, ms, RejectedCall, OtherCallsKept
<1>7. CASE ~(kind = "remove" /\ poolFunctions[name] = Undefined)
  <2>1. /\ promise' = [promise EXCEPT ![o] = "pending"]
        /\ listening' = [listening EXCEPT ![o] = Listed]
        /\ toWorker' = [v \in Ids |-> IF v \in Listed THEN Sent(toWorker, v, ms)[v]
                                                       ELSE toWorker[v]]
        /\ disturbed' = disturbed \cup Overlapping(o)
    BY <1>1, <1>7 DEF Broadcast, Listened, ms
  <2>2. /\ promise' \in [Calls -> {"none", "pending", "resolved", "rejected"}]
        /\ promise'[o] = "pending"
        /\ \A p \in Calls : p # o => promise'[p] = promise[p]
    BY <1>1, <1>2, <2>1
  <2>3. /\ listening' \in [Calls -> SUBSET Ids] /\ listening'[o] = Listed
        /\ \A p \in Calls : p # o => listening'[p] = listening[p]
    BY <1>1, <1>2, <2>1
  <2>4. ASSUME NEW v \in Ids
        PROVE  /\ toWorker'[v] \in Seq(WorkerMessages)
               /\ toWorker'[v] =
                    IF v \in Listed /\ process[v] \notin {"left", "closed"}
                      THEN toWorker[v] \o ms ELSE toWorker[v]
    <3>1. toWorker'[v] = IF v \in Listed THEN Sent(toWorker, v, ms)[v] ELSE toWorker[v]
      BY <2>1
    <3>2. /\ Sent(toWorker, v, ms) \in [Ids -> Seq(WorkerMessages)]
          /\ Sent(toWorker, v, ms)[v] =
               IF process[v] \in {"left", "closed"} THEN toWorker[v]
                                                    ELSE toWorker[v] \o ms
      BY <1>3, SentTo
    <3> QED
      BY <1>2, <3>1, <3>2
  <2>5. toWorker' \in [Ids -> Seq(WorkerMessages)]
    <3>1. toWorker' = [v \in Ids |-> toWorker'[v]]
      BY <2>1
    <3> QED
      BY <2>4, <3>1
  <2>6. disturbed' \subseteq Calls
    <3>1. Overlapping(o) \subseteq Calls
      BY <1>1 DEF Overlapping, Pending
    <3> QED
      BY <1>2, <2>1, <3>1
  <2>7. Typed'
    BY <1>1, <1>4, <2>2, <2>3, <2>5, <2>6 DEF Typed
  <2>8. BroadcastCall(kind, name, o)
    BY <2>1, <2>2, <2>3, <2>4 DEF ms, BroadcastCall
  <2> QED
    BY <1>1, <1>3, <1>4, <1>5, <2>2, <2>3, <2>7, <2>8 DEF op, ms, OtherCallsKept
<1> QED
  BY <1>6, <1>7

-----------------------------------------------------------------------------
(* The invariants that the array, the messages and the functions keep.     *)

LEMMA NextNodes ==
  ASSUME Typed, NodesInv, CallsInv, Next
  PROVE  NodesInv'
<1> DEFINE NodeInv(v) ==
             /\ process[v] = "none" <=> v > created
             /\ v \in Listed <=> process[v] \notin {"none", "exited"}
             /\ process[v] \notin {"forked", "running"} => toWorker[v] = <<>>
             /\ process[v] \notin {"running", "left"} => toPool[v] = <<>>
             /\ process[v] = "forked" => toWorker[v] # <<>> /\ toWorker[v][1].type = "ready"
             /\ process[v] \in {"none", "forked"} => functions[v] = FileFunctions
           Distinct == \A i, j \in DOMAIN workerNodes :
                         workerNodes[i] = workerNodes[j] => i = j
<1>1. \A v \in Ids : NodeInv(v)
  BY DEF NodesInv
<1>2. Distinct
  BY DEF NodesInv
<1>3. SUFFICES Distinct' /\ \A v \in Ids : NodeInv(v)'
  BY DEF NodesInv
<1>4. ASSUME NEW v \in Ids, v \in Listed' <=> v \in Listed, created' = created,
             process'[v] = process[v], toWorker'[v] = toWorker[v],
             toPool'[v] = toPool[v], functions'[v] = functions[v]
      PROVE  NodeInv(v)'
  BY <1>1, <1>4
<1>5. UNCHANGED workerNodes => Distinct' /\ Listed' = Listed
  BY <1>2 DEF Listed
<1> HIDE DEF Distinct
<1>6. ASSUME NEW w \in Ids, WorkerHandles(w) PROVE Distinct' /\ \A v \in Ids : NodeInv(v)'
  <2> DEFINE m == toWorker[w][1]
  <2>1. /\ process[w] \in {"forked", "running"} /\ toWorker[w] # <<>>
        /\ m \in WorkerMessages
        /\ functions'[w] = AfterMessage(functions[w], m)
        /\ process'[w] = IF m.type = "disconnect" THEN "left" ELSE "running"
        /\ toWorker'[w] = IF m.type = "disconnect" THEN <<>> ELSE Tail(toWorker[w])
        /\ \A v \in Ids : v # w => /\ toPool'[v] = toPool[v]
                                   /\ functions'[v] = functions[v]
                                   /\ process'[v] = process[v]
                                   /\ toWorker'[v] = toWorker[v]
        /\ UNCHANGED <<workerNodes, created>>
    <3>1. HandledMessage(w, m)
      BY <1>6, WorkerHandlesEffect
    <3> QED
      BY ONLY <3>1 DEF HandledMessage
  <2> HIDE DEF m
  <2>2. NodeInv(w)'
    <3>1. w \in Listed' /\ ~(w > created)
      BY <1>1, <1>5, <2>1
    <3> QED
      BY <2>1, <3>1
  <2>3. \A v \in Ids : v # w => NodeInv(v)'
    BY <1>4, <1>5, <2>1
  <2> QED
    BY <1>5, <2>1, <2>2, <2>3
<1>7. ASSUME NEW w \in Ids, WorkerDies(w) PROVE Distinct' /\ \A v \in Ids : NodeInv(v)'
  <2>1. /\ process[w] \in {"forked", "running"}
        /\ process'[w] = "left" /\ toWorker'[w] = <<>>
        /\ \A v \in Ids : v # w => /\ process'[v] = process[v]
                                   /\ toWorker'[v] = toWorker[v]
        /\ UNCHANGED <<workerNodes, created, functions, toPool>>
    BY <1>7, WorkerDiesEffect
  <2>2. NodeInv(w)'
    BY <1>1, <1>5, <2>1
  <2> QED
    BY <1>4, <1>5, <2>1, <2>2
<1>8. ASSUME NEW w \in Ids, DestroyNode(w) PROVE Distinct' /\ \A v \in Ids : NodeInv(v)'
  <2>1. /\ process[w] = "running"
        /\ \A v \in Ids : v # w => toWorker'[v] = toWorker[v]
        /\ UNCHANGED <<workerNodes, created, process, functions, toPool>>
    BY <1>8, DestroyNodeEffect
  <2>2. NodeInv(w)'
    BY <1>1, <1>5, <2>1
  <2> QED
    BY <1>4, <1>5, <2>1, <2>2
<1>9. ASSUME NEW w \in Ids, Disconnected(w) PROVE Distinct' /\ \A v \in Ids : NodeInv(v)'
  <2>1. /\ process[w] = "left" /\ toPool[w] = <<>> /\ process'[w] = "closed"
        /\ \A v \in Ids : v # w => process'[v] = process[v]
        /\ UNCHANGED <<workerNodes, created, functions, toWorker, toPool>>
    BY <1>9, DisconnectedEffect
  <2>2. NodeInv(w)'
    BY <1>1, <1>5, <2>1
  <2> QED
    BY <1>4, <1>5, <2>1, <2>2
<1>10. ASSUME NEW w \in Ids, WorkerExit(w) PROVE Distinct' /\ \A v \in Ids : NodeInv(v)'
  <2>1. /\ process[w] = "closed" /\ process'[w] = "exited"
        /\ \A v \in Ids : v # w => process'[v] = process[v]
        /\ Listed' = Listed \ {w} /\ Distinct'
        /\ UNCHANGED <<created, functions, toWorker, toPool>>
    BY <1>10, WorkerExitEffect DEF Distinct
  <2>2. NodeInv(w)'
    BY <1>1, <2>1
  <2> QED
    BY <1>4, <2>1, <2>2
<1>11. ASSUME NEW w \in Ids, PoolHandles(w) PROVE Distinct' /\ \A v \in Ids : NodeInv(v)'
  <2>1. /\ process[w] \in {"running", "left"}
        /\ \/ toWorker'[w] = toWorker[w]
           \/ process[w] = "running"
        /\ \A v \in Ids : v # w => /\ toPool'[v] = toPool[v]
                                   /\ toWorker'[v] = toWorker[v]
        /\ UNCHANGED <<workerNodes, created, process, functions>>
    BY <1>11, PoolHandlesEffect
  <2>2. NodeInv(w)'
    BY <1>1, <1>5, <2>1
  <2> QED
    BY <1>4, <1>5, <2>1, <2>2
<1>12. ASSUME CreateDynamicNode PROVE Distinct' /\ \A v \in Ids : NodeInv(v)'
  <2>0. PICK w : w = created + 1
    OBVIOUS
  <2> DEFINE ready == <<Message("ready")>>
  <2>1. /\ w \in Ids /\ process[w] = "none" /\ w \notin Listed
        /\ created' = w /\ Listed' = Listed \cup {w} /\ Distinct'
        /\ process'[w] = "forked" /\ toWorker'[w] = ready \o Replayed
        /\ \A v \in Ids : v # w => /\ process'[v] = process[v]
                                   /\ toWorker'[v] = toWorker[v]
        /\ UNCHANGED <<functions, toPool>>
    BY <1>12, <2>0, CreateDynamicNodeEffect DEF Distinct
  <2>2. toWorker'[w] # <<>> /\ toWorker'[w][1].type = "ready"
    <3>1. ready \in Seq(WorkerMessages) /\ ready[1].type = "ready" /\ 1 \in DOMAIN ready
      BY DEF Message, WorkerMessages
    <3>2. Replayed \in Seq(WorkerMessages)
      <4>1. Replayed \in Seq(OperationMessages)
        BY ReplayedMessages
      <4>2. OperationMessages \subseteq WorkerMessages
        BY DEF WorkerMessages
      <4> HIDE DEF Replayed
      <4> QED
        BY <4>1, <4>2
    <3> HIDE DEF ready
    <3>3. 1 \in DOMAIN toWorker'[w] /\ toWorker'[w][1] = ready[1]
      BY <2>1, <3>1, <3>2, JoinedSeqs
    <3> QED
      BY <3>1, <3>3
  <2>3. created \in Nat /\ w = created + 1 /\ \A v \in Ids : v \in Int
    BY <2>0 DEF Typed, Ids
  <2> HIDE DEF ready
  <2>4. NodeInv(w)'
    <3>1. ~(w > created') /\ w \in Listed'
      BY <2>1, <2>3
    <3>2. toPool'[w] = <<>> /\ functions'[w] = FileFunctions
      BY <1>1, <2>1
    <3> QED
      BY <2>1, <2>2, <3>1, <3>2
  <2>5. ASSUME NEW v \in Ids, v # w PROVE NodeInv(v)'
    <3>1. v > created' <=> v > created
      BY <2>1, <2>3, <2>5
    <3>2. v \in Listed' <=> v \in Listed
      BY <2>1, <2>5
    <3>3. /\ process'[v] = process[v] /\ toWorker'[v] = toWorker[v]
          /\ toPool'[v] = toPool[v] /\ functions'[v] = functions[v]
      BY <2>1, <2>5
    <3> QED
      BY <1>1, <3>1, <3>2, <3>3
  <2> HIDE DEF NodeInv
  <2> QED
    BY <2>1, <2>4, <2>5
<1>13. ASSUME NEW kind \in Kinds, NEW name \in Names, CallOperation(kind, name)
       PROVE  Distinct' /\ \A v \in Ids : NodeInv(v)'
  <2>0. PICK o : o = Len(operation) + 1
    OBVIOUS
  <2> DEFINE ms == <<OperationMessage(kind, name, o)>>
  <2>1. /\ ms \in Seq(WorkerMessages)
        /\ UNCHANGED <<workerNodes, created, process, functions, toPool>>
        /\ \/ toWorker' = toWorker
           \/ \A v \in Ids : toWorker'[v] =
                IF v \in Listed /\ process[v] \notin {"left", "closed"}
                  THEN toWorker[v] \o ms ELSE toWorker[v]
    <3>1. /\ ms \in Seq(WorkerMessages)
          /\ UNCHANGED <<workerNodes, created, process, functions, toPool>>
      BY <1>13, <2>0, CallOperationEffect
    <3>2. \/ toWorker' = toWorker
          \/ \A v \in Ids : toWorker'[v] =
               IF v \in Listed /\ process[v] \notin {"left", "closed"}
                 THEN toWorker[v] \o <<OperationMessage(kind, name, o)>>
                 ELSE toWorker[v]
      <4>1. RejectedCall(kind, name, o) \/ BroadcastCall(kind, name, o)
        BY <1>13, <2>0, CallOperationEffect
      <4> QED
        BY <4>1 DEF RejectedCall, BroadcastCall
    <3> QED
      BY <3>1, <3>2
  <2> HIDE DEF ms
  <2>2. ASSUME NEW v \in Ids PROVE NodeInv(v)'
    <3>1. CASE toWorker'[v] = toWorker[v]
      BY <1>4, <1>5, <2>1, <3>1
    <3>2. CASE process[v] = "running"
      BY <1>1, <1>5, <2>1, <3>2
    <3>3. CASE process[v] = "forked" /\ toWorker'[v] = toWorker[v] \o ms
      <4>1. toWorker[v] \in Seq(WorkerMessages) /\ toWorker[v] # <<>>
        BY <1>1, <3>3 DEF Typed
      <4>2. 1 \in DOMAIN toWorker[v]
        BY <4>1, ShiftedSeq
      <4>3. 1 \in DOMAIN toWorker'[v] /\ toWorker'[v][1] = toWorker[v][1]
        BY <2>1, <3>3, <4>1, <4>2, JoinedSeqs
      <4>4. toWorker'[v] # <<>>
        BY <4>3
      <4> QED
        BY <1>1, <1>5, <2>1, <3>3, <4>3, <4>4
    <3>4. process[v] \in ProcessStates
      BY DEF Typed
    <3>5. process[v] \in {"none", "exited"} => v \notin Listed
      BY <1>1
    <3> QED
      BY <2>1, <3>1, <3>2, <3>3, <3>4, <3>5 DEF ProcessStates
  <2> QED
    BY <1>5, <2>1, <2>2
<1> QED
  BY <1>6, <1>7, <1>8, <1>9, <1>10, <1>11, <1>12, <1>13 DEF Next, Progress, Kinds

LEMMA NextDefault ==
  ASSUME Typed, NodesInv, CallsInv, DefaultInv, Next
  PROVE  DefaultInv'
<1> DEFINE Named(fns) == \E n \in Names : fns[n] = fns[Default] /\ Has(fns, n)
<1>1. \A v \in Ids : Named(functions[v])
  BY DEF DefaultInv
<1>2. SUFFICES \A v \in Ids : Named(functions'[v])
  BY DEF DefaultInv
<1>3. ASSUME NEW w \in Ids, WorkerHandles(w) PROVE \A v \in Ids : Named(functions'[v])
  <2> DEFINE m == toWorker[w][1]
  <2>1. /\ m \in WorkerMessages /\ functions'[w] = AfterMessage(functions[w], m)
        /\ \A v \in Ids : v # w => functions'[v] = functions[v]
    <3>1. HandledMessage(w, m)
      BY <1>3, WorkerHandlesEffect
    <3> QED
      BY ONLY <3>1 DEF HandledMessage
  <2> HIDE DEF m
  <2>2. functions[w] \in FunctionMaps
    BY DEF Typed
  <2>3. Named(AfterMessage(functions[w], m))
    <3>1. CASE m.type = "operation"
      <4>1. m \in OperationMessages
        BY <2>1, <3>1, KindsOfMessages
      <4>2. PICK d \in Names :
              functions[w][d] = functions[w][Default] /\ Has(functions[w], d)
        BY <1>1
      <4>3. Named(Operated(functions[w], m))
        BY <2>2, <4>1, <4>2, DefaultKept
      <4> QED
        BY <3>1, <4>3 DEF AfterMessage
    <3>2. CASE m.type # "operation"
      BY <1>1, <3>2 DEF AfterMessage
    <3> QED
      BY <3>1, <3>2
  <2> HIDE DEF Named
  <2> QED
    BY <1>1, <2>1, <2>3
<1>4. ASSUME UNCHANGED functions PROVE \A v \in Ids : Named(functions'[v])
  BY <1>1, <1>4
<1>5. \A w \in Ids : WorkerDies(w) => UNCHANGED functions
  BY WorkerDiesEffect
<1>6. \A w \in Ids : DestroyNode(w) => UNCHANGED functions
  BY DestroyNodeEffect
<1>7. \A w \in Ids : Disconnected(w) => UNCHANGED functions
  BY DisconnectedEffect
<1>8. \A w \in Ids : WorkerExit(w) => UNCHANGED functions
  BY WorkerExitEffect
<1>9. \A w \in Ids : PoolHandles(w) => UNCHANGED functions
  BY PoolHandlesEffect
<1>10. CreateDynamicNode => UNCHANGED functions
  BY CreateDynamicNodeEffect
<1>11. \A kind \in Kinds, name \in Names : CallOperation(kind, name) => UNCHANGED functions
  BY CallOperationEffect
<1> HIDE DEF Named
<1> QED
  BY <1>3, <1>4, <1>5, <1>6, <1>7, <1>8, <1>9, <1>10, <1>11 DEF Next, Progress, Kinds

LEMMA NextNames ==
  ASSUME Typed, NodesInv, CallsInv, NamesInv, Next
  PROVE  NamesInv'
<1> DEFINE Follows(v) == process[v] = "running" =>
             Knows(toPool[v], taskFunctionNames[v], ListTaskFunctionNames(functions[v]))
<1>1. \A v \in Ids : Follows(v)
  BY DEF NamesInv
<1>2. SUFFICES \A v \in Ids : Follows(v)'
  BY DEF NamesInv
<1>3. ASSUME NEW v \in Ids, process'[v] = "running" => process[v] = "running",
             toPool'[v] = toPool[v], functions'[v] = functions[v],
             taskFunctionNames'[v] = taskFunctionNames[v]
      PROVE  Follows(v)'
  BY <1>1, <1>3
<1>4. ASSUME NEW w \in Ids, WorkerHandles(w) PROVE \A v \in Ids : Follows(v)'
  <2> DEFINE m == toWorker[w][1]
             s == toPool[w]
             t == Answers(functions[w], m)
             known == taskFunctionNames[w]
             list == ListTaskFunctionNames(AfterMessage(functions[w], m))
  <2>1. /\ process[w] \in {"forked", "running"} /\ m \in WorkerMessages
        /\ toPool'[w] = s \o t
        /\ functions'[w] = AfterMessage(functions[w], m)
        /\ \A v \in Ids : v # w => /\ toPool'[v] = toPool[v]
                                   /\ functions'[v] = functions[v]
                                   /\ process'[v] = process[v]
        /\ taskFunctionNames' = taskFunctionNames
    <3>1. HandledMessage(w, m)
      BY <1>4, WorkerHandlesEffect
    <3> QED
      BY ONLY <3>1 DEF HandledMessage
  <2>2. functions[w] \in FunctionMaps /\ s \in Seq(PoolMessages)
    BY DEF Typed
  <2>3. /\ t \in Seq(PoolMessages)
        /\ Told(t) = {} => AfterMessage(functions[w], m) = functions[w] /\ m.type # "ready"
        /\ Told(t) # {} => Knows(t, known, list)
    BY <2>1, <2>2, AnswersTo
  <2>4. process[w] = "forked" => m.type = "ready"
    BY DEF NodesInv
  <2>5. process[w] = "running" => Knows(s, known, ListTaskFunctionNames(functions[w]))
    BY <1>1
  <2> HIDE DEF m, s, t, known, list
  <2>6. ASSUME Told(t) # {} PROVE Follows(w)'
    <3>1. Knows(s \o t, known, list)
      BY <2>2, <2>3, <2>6, KnownAtEnd
    <3> QED
      BY <2>1, <3>1 DEF known, list
  <2>7. ASSUME Told(t) = {} PROVE Follows(w)'
    <3>1. Knows(s, known, list)
      BY <2>1, <2>3, <2>4, <2>5, <2>7 DEF list
    <3>2. Knows(s \o t, known, list)
      BY <2>2, <2>3, <2>7, <3>1, KnownAtEnd
    <3> QED
      BY <2>1, <3>2 DEF known, list
  <2>8. \A v \in Ids : v # w => Follows(v)'
    BY <1>3, <2>1
  <2>9. Follows(w)'
    BY <2>6, <2>7
  <2> QED
    BY <2>8, <2>9
<1>5. ASSUME NEW w \in Ids, PoolHandles(w) PROVE \A v \in Ids : Follows(v)'
  <2> DEFINE m == toPool[w][1]
             s == toPool[w]
             list == ListTaskFunctionNames(functions[w])
             known == taskFunctionNames[w]
  <2>1. /\ s # <<>> /\ toPool'[w] = Tail(s)
        /\ taskFunctionNames'[w] = IF m.type \in {"ready", "names"} THEN m.names
                                   ELSE known
        /\ \A v \in Ids : v # w => /\ toPool'[v] = toPool[v]
                                   /\ taskFunctionNames'[v] = taskFunctionNames[v]
        /\ UNCHANGED <<process, functions>>
    BY <1>5, PoolHandlesEffect
  <2>2. s \in Seq(PoolMessages)
    BY DEF Typed
  <2>3. \A v \in Ids : v # w => Follows(v)'
    BY <1>3, <2>1
  <2>4. Follows(w)'
    <3>1. SUFFICES ASSUME process[w] = "running"
                   PROVE  Knows(toPool'[w], taskFunctionNames'[w], list)
      BY <2>1
    <3>2. Knows(s, known, list)
      BY <1>1, <3>1
    <3> HIDE DEF s, known, list
    <3>3. Knows(Tail(s), IF s[1].type \in {"ready", "names"} THEN s[1].names ELSE known,
                list)
      BY <2>1, <2>2, <3>2, KnownAfter
    <3> QED
      BY <2>1, <3>3 DEF s
  <2> QED
    BY <2>3, <2>4
<1>6. ASSUME NEW w \in Ids, WorkerDies(w) PROVE \A v \in Ids : Follows(v)'
  <2>1. /\ process'[w] = "left"
        /\ \A v \in Ids : v # w => process'[v] = process[v]
        /\ UNCHANGED <<toPool, functions, taskFunctionNames>>
    BY <1>6, WorkerDiesEffect
  <2> QED
    BY <1>3, <2>1
<1>7. ASSUME NEW w \in Ids, DestroyNode(w) PROVE \A v \in Ids : Follows(v)'
  <2>1. UNCHANGED <<process, toPool, functions, taskFunctionNames>>
    BY <1>7, DestroyNodeEffect
  <2> QED
    BY <1>3, <2>1
<1>8. ASSUME NEW w \in Ids, Disconnected(w) PROVE \A v \in Ids : Follows(v)'
  <2>1. /\ process'[w] = "closed"
        /\ \A v \in Ids : v # w => process'[v] = process[v]
        /\ UNCHANGED <<toPool, functions, taskFunctionNames>>
    BY <1>8, DisconnectedEffect
  <2> QED
    BY <1>3, <2>1
<1>9. ASSUME NEW w \in Ids, WorkerExit(w) PROVE \A v \in Ids : Follows(v)'
  <2>1. /\ process'[w] = "exited"
        /\ \A v \in Ids : v # w => process'[v] = process[v]
        /\ UNCHANGED <<toPool, functions, taskFunctionNames>>
    BY <1>9, WorkerExitEffect
  <2> QED
    BY <1>3, <2>1
<1>10. ASSUME CreateDynamicNode PROVE \A v \in Ids : Follows(v)'
  <2> DEFINE w == created + 1
  <2>1. /\ process'[w] = "forked"
        /\ \A v \in Ids : v # w => process'[v] = process[v]
        /\ UNCHANGED <<toPool, functions, taskFunctionNames>>
    BY <1>10, CreateDynamicNodeEffect
  <2> QED
    BY <1>3, <2>1
<1>11. ASSUME NEW kind \in Kinds, NEW name \in Names, CallOperation(kind, name)
       PROVE  \A v \in Ids : Follows(v)'
  <2>1. UNCHANGED <<process, toPool, functions, taskFunctionNames>>
    BY <1>11, CallOperationEffect
  <2> QED
    BY <1>3, <2>1
<1> QED
  BY <1>4, <1>5, <1>6, <1>7, <1>8, <1>9, <1>10, <1>11 DEF Next, Progress, Kinds

LEMMA NextCalls ==
  ASSUME Typed, NodesInv, CallsInv, Next
  PROVE  CallsInv'
<1> DEFINE Call(o) == /\ promise[o] = "none" <=> o > Len(operation)
                      /\ promise[o] = "none" => listening[o] = {} /\ received[o] = <<>>
           Function(n) == poolFunctions[n] # Undefined =>
             /\ promise[poolFunctions[n]] = "resolved"
             /\ operation[poolFunctions[n]] = [kind |-> "add", name |-> n]
<1>1. /\ \A o \in Calls : Call(o)
      /\ \A n \in Names : Function(n)
  BY DEF CallsInv
<1>2. SUFFICES /\ \A o \in Calls : Call(o)'
               /\ \A n \in Names : Function(n)'
  BY DEF CallsInv
<1>3. /\ \A n \in Names : poolFunctions[n] # Undefined => poolFunctions[n] \in Calls
      /\ \A o \in Calls : o \in Int /\ o # Undefined
      /\ operation \in Seq([kind : Kinds, name : Names]) /\ Len(operation) \in Nat
      /\ DOMAIN operation = 1 .. Len(operation)
  <2>1. operation \in Seq([kind : Kinds, name : Names])
    BY DEF Typed
  <2>2. Len(operation) \in Nat /\ DOMAIN operation = 1 .. Len(operation)
    BY <2>1, LenProperties
  <2> QED
    BY <2>1, <2>2 DEF Typed, Calls, Undefined
<1>4. ASSUME UNCHANGED <<operation, promise, listening, received, poolFunctions>>
      PROVE  (\A o \in Calls : Call(o)') /\ (\A n \in Names : Function(n)')
  BY <1>1, <1>4
<1>5. ASSUME NEW w \in Ids, NEW ok \in BOOLEAN, StatusReceived(w, ok), UNCHANGED operation
      PROVE  (\A o \in Calls : Call(o)') /\ (\A n \in Names : Function(n)')
  <2>1. /\ \A o \in Calls :
             /\ received'[o] = Now(o, w, ok)
             /\ listening'[o] \in {listening[o], listening[o] \ {w}}
             /\ promise'[o] = IF Resolves(o, w, ok) THEN "resolved"
                              ELSE IF Settles(o, w, ok) THEN "rejected"
                              ELSE promise[o]
        /\ \A n \in Names :
             \/ /\ poolFunctions'[n] = poolFunctions[n]
                /\ \A o \in Calls : Resolves(o, w, ok) => ~Sets(o, n)
             \/ \E o \in Calls :
                  /\ Resolves(o, w, ok) /\ Sets(o, n)
                  /\ poolFunctions'[n] =
                       IF operation[o].kind = "add" THEN o ELSE Undefined
    BY <1>5, StatusReceivedEffect
  <2>2. \A o \in Calls : Resolves(o, w, ok) => Settles(o, w, ok)
    BY DEF Resolves
  <2>3. \A o \in Calls : Settles(o, w, ok) => promise[o] = "pending" /\ w \in listening[o]
    BY DEF Settles
  <2>4. ASSUME NEW o \in Calls PROVE Call(o)'
    <3>1. promise'[o] = "none" <=> promise[o] = "none"
      BY <2>1, <2>2, <2>3
    <3>2. promise[o] = "none" => listening'[o] = {} /\ received'[o] = <<>>
      BY <1>1, <2>1 DEF Now
    <3> QED
      BY <1>1, <1>5, <3>1, <3>2
  <2>5. ASSUME NEW n \in Names PROVE Function(n)'
    <3>1. CASE poolFunctions'[n] = poolFunctions[n]
      <4>1. SUFFICES ASSUME poolFunctions[n] # Undefined
                     PROVE  /\ promise'[poolFunctions[n]] = "resolved"
                            /\ operation[poolFunctions[n]] = [kind |-> "add", name |-> n]
        BY <1>5, <3>1
      <4> DEFINE f == poolFunctions[n]
      <4>2. f \in Calls /\ promise[f] = "resolved"
            /\ operation[f] = [kind |-> "add", name |-> n]
        BY <1>1, <1>3, <4>1
      <4>3. promise'[f] = "resolved"
        BY <2>1, <2>2, <2>3, <4>2
      <4> QED
        BY <4>2, <4>3
    <3>2. ASSUME NEW o \in Calls, Resolves(o, w, ok), Sets(o, n),
                 poolFunctions'[n] = IF operation[o].kind = "add" THEN o ELSE Undefined
          PROVE  Function(n)'
      <4>1. promise[o] = "pending" /\ promise'[o] = "resolved"
        BY <2>1, <2>2, <2>3, <3>2
      <4>2. o \in DOMAIN operation
        BY <1>1, <1>3, <4>1 DEF Calls
      <4>3. operation[o] \in [kind : Kinds, name : Names]
        BY <1>3, <4>2, ElementOfSeq
      <4>4. operation[o].kind = "add" => operation[o] = [kind |-> "add", name |-> n]
        BY <3>2, <4>3 DEF Sets
      <4> QED
        BY <1>5, <3>2, <4>1, <4>4
    <3> QED
      BY <2>1, <3>1, <3>2
  <2> QED
    BY <2>4, <2>5
<1>6. ASSUME NEW kind \in Kinds, NEW name \in Names, CallOperation(kind, name)
      PROVE  (\A o \in Calls : Call(o)') /\ (\A n \in Names : Function(n)')
  <2>0. PICK q : q = Len(operation) + 1
    OBVIOUS
  <2>1. /\ q \in Calls /\ Len(operation') = q
        /\ \A p \in Calls : p <= Len(operation) => operation'[p] = operation[p]
        /\ \A p \in Calls : p # q => /\ promise'[p] = promise[p]
                                     /\ listening'[p] = listening[p]
        /\ UNCHANGED <<received, poolFunctions>>
    <3>1. /\ q \in Calls /\ Len(operation') = q
          /\ UNCHANGED <<received, poolFunctions>>
      BY <1>6, <2>0, CallOperationEffect
    <3>2. \A p \in Calls : p <= Len(operation) => operation'[p] = operation[p]
      BY <1>6, <2>0, CallOperationEffect
    <3>3. \A p \in Calls : p # q => /\ promise'[p] = promise[p]
                                     /\ listening'[p] = listening[p]
      <4>1. OtherCallsKept(q)
        BY <1>6, <2>0, CallOperationEffect
      <4> QED
        BY <4>1 DEF OtherCallsKept
    <3> QED
      BY <3>1, <3>2, <3>3
  <2>2. promise'[q] \in {"pending", "rejected"}
    <3>1. RejectedCall(kind, name, q) \/ BroadcastCall(kind, name, q)
      BY <1>6, <2>0, CallOperationEffect
    <3> QED
      BY <3>1 DEF RejectedCall, BroadcastCall
  <2>3. ASSUME NEW o \in Calls PROVE Call(o)'
    <3>1. CASE o = q
      BY <1>3, <2>1, <2>2, <3>1
    <3>2. CASE o # q
      <4>1. o > Len(operation') <=> o > Len(operation)
        BY <1>3, <2>0, <2>1, <3>2
      <4> QED
        BY <1>1, <2>1, <3>2, <4>1
    <3> QED
      BY <3>1, <3>2
  <2>4. ASSUME NEW n \in Names PROVE Function(n)'
    <3>1. SUFFICES ASSUME poolFunctions[n] # Undefined
                   PROVE  /\ promise'[poolFunctions[n]] = "resolved"
                          /\ operation'[poolFunctions[n]] = [kind |-> "add", name |-> n]
      BY <2>1
    <3> DEFINE f == poolFunctions[n]
    <3>2. f \in Calls /\ promise[f] = "resolved"
          /\ operation[f] = [kind |-> "add", name |-> n]
      BY <1>1, <1>3, <3>1
    <3> HIDE DEF f
    <3>3. f <= Len(operation) /\ f # q
      <4>1. ~(f > Len(operation))
        BY <1>1, <3>2
      <4> QED
        BY <1>3, <2>0, <3>2, <4>1
    <3> QED
      BY <2>1, <3>2, <3>3 DEF f
  <2> QED
    BY <2>3, <2>4
<1>7. ASSUME NEW w \in Ids, PoolHandles(w)
      PROVE  (\A o \in Calls : Call(o)') /\ (\A n \in Names : Function(n)')
  <2>0. PICK m : m = toPool[w][1]
    OBVIOUS
  <2>1. /\ UNCHANGED operation
        /\ \/ m.type = "status" /\ m.ok \in BOOLEAN /\ StatusReceived(w, m.ok)
           \/ /\ m.type = "status" => crashed'
              /\ UNCHANGED <<promise, listening, received, poolFunctions>>
    BY <1>7, <2>0, PoolHandlesEffect
  <2> HIDE DEF Call, Function
  <2> QED
    BY <1>4, <1>5, <2>1
<1> DEFINE Kept == UNCHANGED <<operation, promise, listening, received, poolFunctions>>
<1>8. \A w \in Ids : WorkerHandles(w) => Kept
  <2> SUFFICES ASSUME NEW w \in Ids, WorkerHandles(w) PROVE Kept
    OBVIOUS
  <2>1. HandledMessage(w, toWorker[w][1])
    BY WorkerHandlesEffect
  <2> QED
    BY ONLY <2>1 DEF HandledMessage
<1>9. \A w \in Ids : WorkerDies(w) => Kept
  BY WorkerDiesEffect
<1>10. \A w \in Ids : DestroyNode(w) => Kept
  BY DestroyNodeEffect
<1>11. \A w \in Ids : Disconnected(w) => Kept
  BY DisconnectedEffect
<1>12. \A w \in Ids : WorkerExit(w) => Kept
  BY WorkerExitEffect
<1>13. CreateDynamicNode => Kept
  BY CreateDynamicNodeEffect
<1> HIDE DEF Call, Function
<1> QED
  BY <1>4, <1>6, <1>7, <1>8, <1>9, <1>10, <1>11, <1>12, <1>13
     DEF Next, Progress, Kinds

\* The workers that were ever created have the first ids, so the array is not
\* longer than there are.
LEMMA ArrayWithinCreated ==
  ASSUME Typed, NodesInv
  PROVE  Len(workerNodes) <= created
<1>1. Listed \subseteq 1 .. created
  <2>1. ASSUME NEW v \in Listed PROVE v \in 1 .. created
    <3>1. v \in Ids /\ ~(v > created)
      BY NodesListed DEF NodesInv
    <3> QED
      BY <3>1 DEF Typed, Ids
  <2> QED
    BY <2>1
<1>2. created \in Nat /\ Len(workerNodes) \in Nat
  BY NodesListed DEF Typed
<1>3. IsFiniteSet(1 .. created) /\ Cardinality(1 .. created) = created
  <2>1. 1 \in Int /\ created \in Int
    BY <1>2
  <2>2. /\ IsFiniteSet(1 .. created)
        /\ Cardinality(1 .. created) = IF 1 > created THEN 0 ELSE created - 1 + 1
    BY ONLY <2>1, FS_Interval
  <2> QED
    BY <1>2, <2>2
<1>4. Cardinality(Listed) <= Cardinality(1 .. created)
  BY <1>1, <1>3, FS_Subset
<1> QED
  BY <1>3, <1>4, NodesCounted

\* As long as no worker created before it has left, a node is where it was.
LEMMA PositionKept ==
  ASSUME Typed, NodesInv, NEW w \in Listed,
         \A v \in 1 .. w - 1 : process[v] # "exited"
  PROVE  w <= Len(workerNodes)
<1>1. w \in Ids /\ w \in Nat /\ w >= 1 /\ w <= Workers /\ Workers \in Nat
  BY NodesListed, SizeAssumption DEF Ids
<1>2. ~(w > created) /\ created \in Nat
  BY <1>1 DEF NodesInv, Typed
<1>3. 1 .. w \subseteq Listed
  <2>1. ASSUME NEW v \in 1 .. w PROVE v \in Listed
    <3>1. CASE v = w
      BY <3>1
    <3>2. CASE v # w
      <4>1. v \in 1 .. w - 1 /\ v \in Ids /\ ~(v > created)
        BY <1>1, <1>2, <3>2 DEF Ids
      <4> QED
        BY <4>1 DEF NodesInv
    <3> QED
      BY <3>1, <3>2
  <2> QED
    BY <2>1
<1>4. Cardinality(1 .. w) = w
  <2>1. 1 \in Int /\ w \in Int
    BY <1>1
  <2>2. Cardinality(1 .. w) = IF 1 > w THEN 0 ELSE w - 1 + 1
    BY ONLY <2>1, FS_Interval
  <2> QED
    BY <1>1, <2>2
<1>5. IsFiniteSet(Listed) /\ Cardinality(Listed) = Len(workerNodes)
  BY NodesCounted
<1>6. Cardinality(1 .. w) <= Cardinality(Listed)
  BY <1>3, <1>5, FS_Subset
<1> QED
  BY <1>4, <1>5, <1>6

LEMMA NextReplay ==
  ASSUME Typed, NodesInv, CallsInv, ReplayInv, Next
  PROVE  ReplayInv'
<1>1. /\ \A w \in Ids : replaying[w] <= w
      /\ crashed => \E w \in Listed : /\ replaying[w] > Len(workerNodes)
                                      /\ \E v \in 1 .. w - 1 : process[v] = "exited"
  BY DEF ReplayInv, CrashOnlyAfterRemoval
<1> DEFINE Within == \A w \in Ids : replaying'[w] <= w
           Blamed == crashed' =>
             \E w \in Listed' : /\ replaying'[w] > Len(workerNodes')
                                /\ \E v \in 1 .. w - 1 : process'[v] = "exited"
<1>2. SUFFICES Within /\ Blamed
  BY DEF ReplayInv, CrashOnlyAfterRemoval
<1>3. \A w \in Ids : w \in Nat /\ 1 .. w - 1 \subseteq Ids
  BY SizeAssumption DEF Ids
<1>4. ASSUME UNCHANGED <<replaying, workerNodes, crashed>>,
             \A v \in Ids : process[v] = "exited" => process'[v] = "exited"
      PROVE  Within /\ Blamed
  <2>1. Listed' = Listed
    BY <1>4 DEF Listed
  <2>2. Listed \subseteq Ids
    BY NodesListed
  <2>3. Blamed
    BY <1>1, <1>3, <1>4, <2>1, <2>2
  <2> QED
    BY <1>1, <1>4, <2>3
<1>5. ASSUME NEW w \in Ids, WorkerHandles(w) PROVE Within /\ Blamed
  <2>1. /\ UNCHANGED <<replaying, workerNodes, crashed>>
        /\ process[w] \in {"forked", "running"}
        /\ \A v \in Ids : v # w => process'[v] = process[v]
    <3>1. HandledMessage(w, toWorker[w][1])
      BY <1>5, WorkerHandlesEffect
    <3> QED
      BY ONLY <3>1 DEF HandledMessage
  <2> HIDE DEF Within, Blamed
  <2> QED
    BY <1>4, <2>1
<1>6. ASSUME NEW w \in Ids, WorkerDies(w) PROVE Within /\ Blamed
  <2>1. /\ UNCHANGED <<replaying, workerNodes, crashed>>
        /\ process[w] \in {"forked", "running"}
        /\ \A v \in Ids : v # w => process'[v] = process[v]
    BY <1>6, WorkerDiesEffect
  <2> HIDE DEF Within, Blamed
  <2> QED
    BY <1>4, <2>1
<1>7. ASSUME NEW w \in Ids, DestroyNode(w) PROVE Within /\ Blamed
  <2>1. ~crashed /\ UNCHANGED <<replaying, crashed>>
    BY <1>7, DestroyNodeEffect
  <2> QED
    BY <1>1, <2>1
<1>8. ASSUME NEW w \in Ids, Disconnected(w) PROVE Within /\ Blamed
  <2>1. ~crashed /\ UNCHANGED <<replaying, crashed>>
    BY <1>8, DisconnectedEffect
  <2> QED
    BY <1>1, <2>1
<1>9. ASSUME NEW w \in Ids, WorkerExit(w) PROVE Within /\ Blamed
  <2>1. ~crashed /\ UNCHANGED <<replaying, crashed>>
    BY <1>9, WorkerExitEffect
  <2> QED
    BY <1>1, <2>1
<1>10. ASSUME NEW kind \in Kinds, NEW name \in Names, CallOperation(kind, name)
       PROVE  Within /\ Blamed
  <2>1. ~crashed /\ UNCHANGED <<replaying, crashed>>
    BY <1>10, CallOperationEffect
  <2> QED
    BY <1>1, <2>1
<1>11. ASSUME CreateDynamicNode PROVE Within /\ Blamed
  <2>0. PICK w : w = created + 1
    OBVIOUS
  <2>1. /\ ~crashed /\ w \in Ids
        /\ replaying'[w] \in {None, Len(workerNodes) + 1}
        /\ \A v \in Ids : v # w => replaying'[v] = replaying[v]
        /\ UNCHANGED crashed
    BY <1>11, <2>0, CreateDynamicNodeEffect
  <2>2. replaying'[w] <= w
    <3>1. Len(workerNodes) <= created /\ Len(workerNodes) \in Nat /\ created \in Nat
      BY ArrayWithinCreated, NodesListed DEF Typed
    <3> QED
      BY <2>0, <2>1, <3>1 DEF None
  <2>3. Within
    BY <1>1, <2>1, <2>2
  <2> QED
    BY <2>1, <2>3
<1>12. ASSUME NEW w \in Ids, PoolHandles(w) PROVE Within /\ Blamed
  <2>1. /\ ~crashed /\ crashed' = (replaying[w] > Len(workerNodes))
        /\ process[w] \in {"running", "left"}
        /\ replaying'[w] \in {None, replaying[w]}
        /\ crashed' => replaying'[w] = replaying[w]
        /\ \A v \in Ids : v # w => replaying'[v] = replaying[v]
        /\ UNCHANGED <<workerNodes, process>>
    BY <1>12, PoolHandlesEffect
  <2>2. Within
    <3>1. replaying'[w] <= w
      BY <1>1, <1>3, <2>1 DEF None
    <3> QED
      BY <1>1, <2>1, <3>1
  <2>3. ASSUME crashed' PROVE Blamed
    <3>1. w \in Listed /\ Listed' = Listed
      BY <2>1 DEF NodesInv, Listed
    <3>2. replaying[w] > Len(workerNodes) /\ replaying[w] <= w
      BY <1>1, <2>1, <2>3
    <3>3. ~(w <= Len(workerNodes))
      <4>1. replaying[w] \in Nat /\ Len(workerNodes) \in Nat /\ w \in Nat
        BY <1>3, NodesListed DEF Typed
      <4> QED
        BY <3>2, <4>1
    <3>4. \E v \in 1 .. w - 1 : process[v] = "exited"
      BY <3>1, <3>3, PositionKept
    <3> QED
      BY <2>1, <2>3, <3>1, <3>2, <3>4
  <2> QED
    BY <2>2, <2>3
<1> HIDE DEF Within, Blamed
<1> QED
  BY <1>5, <1>6, <1>7, <1>8, <1>9, <1>10, <1>11, <1>12 DEF Next, Progress, Kinds

-----------------------------------------------------------------------------
(* An operation that nothing upsets.                                       *)

\* Of the messages of a type no more are left than there were.
Fewer(r, s, type) ==
  /\ \A m \in Items(r) : m.type = type => m \in Items(s)
  /\ NoneOf(s, type) => NoneOf(r, type)
  /\ OnceOf(s, type) => OnceOf(r, type)

LEMMA FewerMessages ==
  ASSUME NEW S, NEW s \in Seq(S), NEW t \in Seq(S), NEW type
  PROVE  /\ Fewer(s, s, type) /\ Fewer(<<>>, s, type)
         /\ s # <<>> => Fewer(Tail(s), s, type)
         /\ NoneOf(t, type) => Fewer(s \o t, s, type)
<1>1. Fewer(s, s, type) /\ Fewer(<<>>, s, type)
  BY DEF Fewer, Items, NoneOf, OnceOf
<1>2. ASSUME s # <<>> PROVE Fewer(Tail(s), s, type)
  <2>1. /\ \A m : m \in Items(Tail(s)) => m \in Items(s)
        /\ NoneOf(s, type) => NoneOf(Tail(s), type)
        /\ OnceOf(s, type) => OnceOf(Tail(s), type)
    BY <1>2, ShiftedMessages
  <2> QED
    BY <2>1 DEF Fewer
<1>3. ASSUME NoneOf(t, type) PROVE Fewer(s \o t, s, type)
  <2>1. /\ \A m : m \in Items(s \o t) <=> m \in Items(s) \/ m \in Items(t)
        /\ NoneOf(s \o t, type) <=> NoneOf(s, type) /\ NoneOf(t, type)
        /\ OnceOf(s, type) /\ NoneOf(t, type) => OnceOf(s \o t, type)
    BY JoinedMessages
  <2>2. \A m \in Items(t) : m.type # type
    BY <1>3 DEF Items, NoneOf
  <2> QED
    BY <1>3, <2>1, <2>2 DEF Fewer
<1> QED
  BY <1>1, <1>2, <1>3

\* A node that neither gets nor answers an operation stays as it is to one.
LEMMA AskedKept ==
  ASSUME NEW w, NEW o,
         Fewer(toWorker'[w], toWorker[w], "operation"),
         Fewer(toPool'[w], toPool[w], "status"),
         functions'[w] = functions[w], operation'[o] = operation[o]
  PROVE  /\ Asked(w, o) => Asked(w, o)'
         /\ received'[o] = received[o] /\ Counted(w, o) => Counted(w, o)'
<1>1. Done(w, o)' <=> Done(w, o)
  BY DEF Done, Has, IsDefault
<1>2. Asks(o)' = Asks(o)
  BY DEF Asks, OperationMessage
<1>3. ASSUME Asked(w, o) PROVE Asked(w, o)'
  <2>1. /\ OnceOf(toWorker'[w], "operation") /\ OnceOf(toPool'[w], "status")
        /\ NoneOf(toWorker'[w], "operation") \/ NoneOf(toPool'[w], "status")
    BY <1>3 DEF Asked, Fewer
  <2>2. \A m \in Items(toWorker'[w]) : m.type = "operation" => m = Asks(o)
    BY <1>3 DEF Asked, Fewer
  <2>3. ASSUME NEW m \in Items(toPool'[w]), m.type = "status"
        PROVE  /\ m.ok => Done(w, o)
               /\ operation[o].kind = "add" => m.ok
    BY <1>3, <2>3 DEF Asked, Fewer
  <2> QED
    BY <1>1, <1>2, <2>1, <2>2, <2>3 DEF Asked
<1>4. ASSUME received'[o] = received[o], Counted(w, o) PROVE Counted(w, o)'
  BY <1>1, <1>4 DEF Counted, Fewer, Succeeded
<1> QED
  BY <1>3, <1>4

LEMMA OperationKept ==
  ASSUME NEW o, OperationInv(o), Pending' = Pending, Listed' = Listed,
         received'[o] = received[o], operation'[o] = operation[o],
         \A v \in Listed : /\ Asked(v, o) => Asked(v, o)'
                           /\ Counted(v, o) => Counted(v, o)'
  PROVE  OperationInv(o)'
<1>1. PICK C \in SUBSET Listed :
        Len(received[o]) = Cardinality(C) /\ \A v \in C : Counted(v, o)
  BY DEF OperationInv
<1>2. \A v \in C : Counted(v, o)'
  BY <1>1
<1>3. Len(received'[o]) = Cardinality(C) /\ C \in SUBSET (Listed')
  BY <1>1
<1>4. operation'[o].kind = "add" => Succeeded(received'[o])
  BY DEF OperationInv
<1>5. \A v \in Listed' : Asked(v, o)'
  BY DEF OperationInv
<1>6. Pending' = {o}
  BY DEF OperationInv
<1> QED
  BY <1>2, <1>3, <1>4, <1>5, <1>6 DEF OperationInv

\* A worker carries out what it is asked.
LEMMA AskedCarriedOut ==
  ASSUME Typed, NEW w \in Ids, WorkerHandles(w), NEW o \in Calls,
         operation[o] \in [kind : Kinds, name : Names]
  PROVE  /\ Asked(w, o) => Asked(w, o)'
         /\ Counted(w, o) => Counted(w, o)'
<1>0. PICK m : m = toWorker[w][1]
  OBVIOUS
<1>1. /\ toWorker[w] # <<>> /\ m \in WorkerMessages
      /\ toPool'[w] = toPool[w] \o Answers(functions[w], m)
      /\ functions'[w] = AfterMessage(functions[w], m)
      /\ toWorker'[w] = IF m.type = "disconnect" THEN <<>> ELSE Tail(toWorker[w])
      /\ UNCHANGED <<operation, received>>
  <2>1. HandledMessage(w, m)
    BY <1>0, WorkerHandlesEffect
  <2> QED
    BY ONLY <2>1 DEF HandledMessage
<1> DEFINE s == toWorker[w]
           t == Answers(functions[w], m)
<1>2. /\ s \in Seq(WorkerMessages) /\ toPool[w] \in Seq(PoolMessages)
      /\ functions[w] \in FunctionMaps
  BY DEF Typed
<1>3. t \in Seq(PoolMessages)
  BY <1>1, <1>2, AnswersTo
<1>4. /\ m \in Items(s)
      /\ NoneOf(s, "operation") => m.type # "operation"
      /\ OnceOf(s, "operation") /\ m.type = "operation" =>
           NoneOf(Tail(s), "operation")
  <2>1. m = s[1] /\ s # <<>> /\ s \in Seq(WorkerMessages)
    BY <1>0, <1>1, <1>2
  <2> HIDE DEF s
  <2>2. /\ s[1] \in Items(s)
        /\ NoneOf(s, "operation") => s[1].type # "operation"
        /\ OnceOf(s, "operation") /\ s[1].type = "operation" =>
             NoneOf(Tail(s), "operation")
    BY <2>1, ShiftedMessages
  <2> QED
    BY <2>1, <2>2
<1>5. Fewer(toWorker'[w], s, "operation")
  BY <1>1, <1>2, FewerMessages
<1>6. ASSUME m.type # "operation"
      PROVE  /\ Asked(w, o) => Asked(w, o)'
             /\ Counted(w, o) => Counted(w, o)'
  <2>1. NoneOf(t, "status") /\ AfterMessage(functions[w], m) = functions[w]
    BY <1>1, <1>2, <1>6, AnswersTo DEF AfterMessage
  <2> HIDE DEF t
  <2>2. Fewer(toPool[w] \o t, toPool[w], "status")
    BY <1>2, <1>3, <2>1, FewerMessages
  <2>3. Fewer(toPool'[w], toPool[w], "status")
    BY <1>1, <2>2 DEF t
  <2> QED
    BY <1>1, <1>5, <2>1, <2>3, AskedKept
<1>7. ASSUME m.type = "operation"
      PROVE  /\ Asked(w, o) => Asked(w, o)'
             /\ Counted(w, o) => Counted(w, o)'
  <2>1. ~Counted(w, o)
    BY <1>4, <1>7 DEF Counted
  <2>2. ASSUME Asked(w, o) PROVE Asked(w, o)'
    <3>1. /\ OnceOf(s, "operation") /\ OnceOf(toPool[w], "status")
          /\ NoneOf(toPool[w], "status") /\ m = Asks(o)
      BY <1>4, <1>7, <2>2 DEF Asked
    <3>2. NoneOf(toWorker'[w], "operation")
      BY <1>1, <1>4, <1>7, <3>1
    <3>3. m \in OperationMessages
      BY <1>1, <1>7, KindsOfMessages
    <3>4. functions'[w] = Operated(functions[w], m)
      BY <1>1, <1>7 DEF AfterMessage
    <3>5. /\ OnceOf(t, "status")
          /\ \A a \in Items(t) : a.type = "status" => a.ok = Status(functions[w], m)
      BY <1>2, <3>3, OperationAnswers
    <3> DEFINE after == Operated(functions[w], m)
    <3>6. /\ m.kind = "add" => after[m.name] = <<m.fn, m.name>>
          /\ Status(functions[w], m) /\ m.kind = "remove" => ~Has(after, m.name)
          /\ Status(functions[w], m) /\ m.kind = "default" => IsDefault(after, m.name)
          /\ m.kind = "add" => Status(functions[w], m)
      BY <1>2, <3>3, OperatedOn
    <3>7. m.kind = operation[o].kind /\ m.name = operation[o].name /\ m.fn = o
      BY <3>1 DEF Asks, OperationMessage
    <3> HIDE DEF after
    <3>8. Status(functions[w], m) => Done(w, o)'
      <4>1. SUFFICES ASSUME Status(functions[w], m) PROVE Done(w, o)'
        OBVIOUS
      <4>2. CASE operation[o].kind = "add"
        BY <1>1, <3>4, <3>6, <3>7, <4>2 DEF Done, after
      <4>3. CASE operation[o].kind = "remove"
        BY <1>1, <3>4, <3>6, <3>7, <4>1, <4>3 DEF Done, after
      <4>4. CASE operation[o].kind = "default"
        BY <1>1, <3>4, <3>6, <3>7, <4>1, <4>4 DEF Done, after
      <4> QED
        BY <4>2, <4>3, <4>4 DEF Kinds
    <3> HIDE DEF t, s
    <3>9. /\ OnceOf(toPool[w] \o t, "status")
          /\ \A a : a \in Items(toPool[w] \o t) <=> a \in Items(toPool[w]) \/ a \in Items(t)
      BY <1>2, <1>3, <3>1, <3>5, JoinedMessages
    <3>10. toPool'[w] = toPool[w] \o t
      BY <1>1 DEF t
    <3>11. ASSUME NEW a \in Items(toPool'[w]), a.type = "status"
           PROVE  (a.ok => Done(w, o)') /\ (operation'[o].kind = "add" => a.ok)
      <4>1. \A b \in Items(toPool[w]) : b.type # "status"
        BY <3>1 DEF Items, NoneOf
      <4>2. a \in Items(t)
        BY <3>9, <3>10, <3>11, <4>1
      <4>3. a.ok = Status(functions[w], m)
        BY <3>5, <3>11, <4>2
      <4> QED
        BY <1>1, <3>6, <3>7, <3>8, <4>3
    <3>12. \A b \in Items(toWorker'[w]) : b.type # "operation"
      BY <3>2 DEF Items, NoneOf
    <3>13. OnceOf(toWorker'[w], "operation")
      BY <3>2 DEF OnceOf, NoneOf
    <3>14. OnceOf(toPool'[w], "status")
      BY <3>9, <3>10
    <3> QED
      BY <3>2, <3>11, <3>12, <3>13, <3>14 DEF Asked
  <2> QED
    BY <2>1, <2>2
<1> QED
  BY <1>6, <1>7

\* An answer that settles an operation is the last one: every node has answered.
LEMMA LastAnswer ==
  ASSUME Typed, NodesInv, NEW w \in Ids, NEW m, m = toPool[w][1], toPool[w] # <<>>,
         m.type = "status", m.ok \in BOOLEAN,
         NEW o \in Calls, OperationInv(o), Settles(o, w, m.ok)
  PROVE  /\ \A v \in Listed : /\ NoneOf(toWorker[v], "operation")
                              /\ Resolves(o, w, m.ok) => Done(v, o)
         /\ operation[o].kind = "add" => Resolves(o, w, m.ok)
<1>1. PICK C \in SUBSET Listed :
        Len(received[o]) = Cardinality(C) /\ \A v \in C : Counted(v, o)
  BY DEF OperationInv
<1>2. /\ toPool[w] \in Seq(PoolMessages) /\ received[o] \in Seq(BOOLEAN)
      /\ Len(workerNodes) \in Nat
  BY NodesListed DEF Typed
<1>3. m \in Items(toPool[w]) /\ (NoneOf(toPool[w], "status") => m.type # "status")
  BY <1>2, ShiftedMessages
<1>4. w \in Listed
  <2>1. process[w] \in {"running", "left"}
    BY DEF NodesInv
  <2> QED
    BY <2>1 DEF NodesInv
<1>5. /\ NoneOf(toWorker[w], "operation")
      /\ m.ok => Done(w, o)
      /\ operation[o].kind = "add" => m.ok
  BY <1>3, <1>4 DEF OperationInv, Asked
<1>6. w \notin C
  BY <1>1, <1>3 DEF Counted
<1>7. /\ IsFiniteSet(Listed) /\ Cardinality(Listed) = Len(workerNodes)
      /\ IsFiniteSet(C) /\ Cardinality(C) \in Nat
  <2>1. IsFiniteSet(Listed) /\ Cardinality(Listed) = Len(workerNodes)
    BY NodesCounted
  <2>2. IsFiniteSet(C)
    BY <2>1, FS_Subset
  <2> QED
    BY <2>1, <2>2, FS_CardinalityType
<1> DEFINE now == Append(received[o], m.ok)
<1>8. Now(o, w, m.ok) = now /\ Len(now) = Len(workerNodes)
  BY DEF Settles, Now, Complete
<1>9. /\ Len(now) = Len(received[o]) + 1 /\ Len(received[o]) \in Nat
      /\ \A i \in 1 .. Len(received[o]) : now[i] = received[o][i]
      /\ now[Len(received[o]) + 1] = m.ok /\ now \in Seq(BOOLEAN)
  BY <1>2, AppendProperties, LenProperties
<1>10. /\ DOMAIN now = 1 .. Len(received[o]) + 1
       /\ DOMAIN received[o] = 1 .. Len(received[o])
  BY <1>2, <1>9, LenProperties
<1> HIDE DEF now
<1>11. Succeeded(now) <=> Succeeded(received[o]) /\ m.ok
  BY <1>9, <1>10 DEF Succeeded
<1>12. C \cup {w} = Listed
  <2>1. IsFiniteSet(C \cup {w}) /\ Cardinality(C \cup {w}) = Cardinality(C) + 1
    BY <1>6, <1>7, FS_AddElement
  <2>2. Cardinality(C \cup {w}) = Cardinality(Listed)
    BY <1>1, <1>7, <1>8, <1>9, <2>1
  <2>3. C \cup {w} \subseteq Listed
    BY <1>4
  <2> QED
    BY <1>7, <2>2, <2>3, FS_Subset
<1>13. Resolves(o, w, m.ok) <=> Succeeded(received[o]) /\ m.ok
  BY <1>8, <1>11 DEF Resolves
<1>14. ASSUME NEW v \in Listed
       PROVE  /\ NoneOf(toWorker[v], "operation")
              /\ Resolves(o, w, m.ok) => Done(v, o)
  <2>1. CASE v = w
    BY <1>5, <1>13, <2>1
  <2>2. CASE v \in C
    BY <1>1, <1>13, <2>2 DEF Counted
  <2> QED
    BY <1>12, <2>1, <2>2
<1>15. operation[o].kind = "add" => Resolves(o, w, m.ok)
  BY <1>5, <1>13 DEF OperationInv
<1> QED
  BY <1>14, <1>15

\* Another answer is counted.
LEMMA AnswerCounted ==
  ASSUME Typed, NodesInv, NEW w \in Ids, PoolHandles(w), NEW m, m = toPool[w][1],
         m.type = "status", m.ok \in BOOLEAN, StatusReceived(w, m.ok),
         NEW o \in Calls, OperationInv(o), promise'[o] = "pending"
  PROVE  OperationInv(o)'
<1>1. /\ toPool[w] # <<>> /\ process[w] \in {"running", "left"}
      /\ toPool'[w] = Tail(toPool[w]) /\ toWorker'[w] = toWorker[w]
      /\ \A v \in Ids : v # w => toPool'[v] = toPool[v] /\ toWorker'[v] = toWorker[v]
      /\ UNCHANGED <<workerNodes, operation, functions>>
  BY PoolHandlesEffect
<1>2. \A p \in Calls : /\ received'[p] = Now(p, w, m.ok)
                       /\ promise'[p] = IF Resolves(p, w, m.ok) THEN "resolved"
                                        ELSE IF Settles(p, w, m.ok) THEN "rejected"
                                        ELSE promise[p]
  BY StatusReceivedEffect
<1>3. /\ toPool[w] \in Seq(PoolMessages) /\ received[o] \in Seq(BOOLEAN)
      /\ \A v \in Ids : toWorker[v] \in Seq(WorkerMessages)
                        /\ toPool[v] \in Seq(PoolMessages)
  BY DEF Typed
<1>4. Listed' = Listed /\ Listed \subseteq Ids
  BY <1>1, NodesListed DEF Listed
<1>5. Pending' = {o}
  <2>1. \A p \in Calls : promise'[p] = "pending" => promise[p] = "pending"
    BY <1>2
  <2>2. Pending' = {p \in Calls : promise'[p] = "pending"}
    BY DEF Pending
  <2>3. Pending = {o}
    BY DEF OperationInv
  <2> QED
    BY <2>1, <2>2, <2>3 DEF Pending
<1>6. \A v \in Ids : /\ Fewer(toWorker'[v], toWorker[v], "operation")
                     /\ Fewer(toPool'[v], toPool[v], "status")
  <2>1. \A v \in Ids : /\ Fewer(toWorker[v], toWorker[v], "operation")
                       /\ Fewer(toPool[v], toPool[v], "status")
    BY <1>3, FewerMessages
  <2>2. Fewer(Tail(toPool[w]), toPool[w], "status")
    BY <1>1, <1>3, FewerMessages
  <2> QED
    BY <1>1, <2>1, <2>2
<1>7. \A v \in Listed' : Asked(v, o)'
  <2>1. ASSUME NEW v \in Listed PROVE Asked(v, o)'
    <3>1. Asked(v, o)
      BY DEF OperationInv
    <3>2. /\ Fewer(toWorker'[v], toWorker[v], "operation")
          /\ Fewer(toPool'[v], toPool[v], "status")
      BY <1>4, <1>6
    <3> QED
      BY <1>1, <3>1, <3>2, AskedKept
  <2> QED
    BY <1>4, <2>1
<1>8. PICK C \in SUBSET Listed :
        Len(received[o]) = Cardinality(C) /\ \A v \in C : Counted(v, o)
  BY DEF OperationInv
<1>9. /\ m \in Items(toPool[w])
      /\ NoneOf(toPool[w], "status") => m.type # "status"
      /\ OnceOf(toPool[w], "status") /\ m.type = "status" =>
           NoneOf(Tail(toPool[w]), "status")
  BY <1>1, <1>3, ShiftedMessages
<1>10. w \in Listed
  BY <1>1 DEF NodesInv
<1>11. /\ NoneOf(toWorker[w], "operation") /\ NoneOf(Tail(toPool[w]), "status")
       /\ m.ok => Done(w, o)
       /\ operation[o].kind = "add" => m.ok
  BY <1>9, <1>10 DEF OperationInv, Asked
<1>12. w \notin C
  BY <1>8, <1>9 DEF Counted
<1>13. ASSUME NEW v \in C, Succeeded(received'[o]) => Succeeded(received[o])
       PROVE  Counted(v, o)'
  <2>1. /\ Fewer(toWorker'[v], toWorker[v], "operation")
        /\ Fewer(toPool'[v], toPool[v], "status")
    BY <1>4, <1>6
  <2>2. Done(v, o)' <=> Done(v, o)
    BY <1>1 DEF Done, Has, IsDefault
  <2>3. Counted(v, o)
    BY <1>8
  <2> QED
    BY <1>13, <2>1, <2>2, <2>3 DEF Counted, Fewer
<1>14. CASE w \notin listening[o]
  <2>1. received'[o] = received[o]
    BY <1>2, <1>14 DEF Now
  <2>2. \A v \in C : Counted(v, o)'
    BY <1>13, <2>1
  <2>3. operation'[o].kind = "add" => Succeeded(received'[o])
    BY <1>1, <2>1 DEF OperationInv
  <2>4. C \in SUBSET (Listed') /\ Len(received'[o]) = Cardinality(C)
    BY <1>4, <1>8, <2>1
  <2> QED
    BY <1>5, <1>7, <2>2, <2>3, <2>4 DEF OperationInv
<1>15. CASE w \in listening[o]
  <2> DEFINE now == Append(received[o], m.ok)
  <2>1. received'[o] = now
    BY <1>2, <1>15 DEF Now
  <2>2. /\ Len(now) = Len(received[o]) + 1 /\ Len(received[o]) \in Nat
        /\ \A i \in 1 .. Len(received[o]) : now[i] = received[o][i]
        /\ now[Len(received[o]) + 1] = m.ok /\ now \in Seq(BOOLEAN)
    BY <1>3, AppendProperties, LenProperties
  <2>3. /\ DOMAIN now = 1 .. Len(received[o]) + 1
        /\ DOMAIN received[o] = 1 .. Len(received[o])
    BY <1>3, <2>2, LenProperties
  <2> HIDE DEF now
  <2>4. Succeeded(now) <=> Succeeded(received[o]) /\ m.ok
    BY <2>2, <2>3 DEF Succeeded
  <2>5. \A v \in C : Counted(v, o)'
    BY <1>13, <2>1, <2>4
  <2>6. Counted(w, o)'
    <3>1. Done(w, o)' <=> Done(w, o)
      BY <1>1 DEF Done, Has, IsDefault
    <3> QED
      BY <1>1, <1>11, <2>1, <2>4, <3>1 DEF Counted
  <2>7. Cardinality(C \cup {w}) = Cardinality(C) + 1
    <3>1. IsFiniteSet(C)
      BY NodesCounted, FS_Subset
    <3> QED
      BY <1>12, <3>1, FS_AddElement
  <2> DEFINE D == C \cup {w}
  <2>8. /\ D \in SUBSET (Listed') /\ Len(received'[o]) = Cardinality(D)
        /\ \A v \in D : Counted(v, o)'
    BY <1>4, <1>8, <1>10, <2>1, <2>2, <2>5, <2>6, <2>7
  <2> HIDE DEF D
  <2>9. operation'[o].kind = "add" => Succeeded(received'[o])
    BY <1>1, <1>11, <2>1, <2>4 DEF OperationInv
  <2> QED
    BY <1>5, <1>7, <2>8, <2>9 DEF OperationInv
<1> QED
  BY <1>14, <1>15

LEMMA CalledOperation ==
  ASSUME Typed, CallsInv, NEW o \in Calls, promise[o] # "none"
  PROVE  operation[o] \in [kind : Kinds, name : Names] /\ o <= Len(operation)
<1>1. operation \in Seq([kind : Kinds, name : Names]) /\ Len(operation) \in Nat
  <2>1. operation \in Seq([kind : Kinds, name : Names])
    BY DEF Typed
  <2> QED
    BY <2>1, LenProperties
<1>2. ~(o > Len(operation))
  BY DEF CallsInv
<1>3. o \in 1 .. Len(operation)
  BY <1>1, <1>2 DEF Calls
<1>4. operation[o] \in [kind : Kinds, name : Names]
  BY <1>1, <1>3, ElementOfSeq
<1>5. o <= Len(operation)
  BY <1>1, <1>3
<1> QED
  BY <1>4, <1>5

LEMMA NextOperations ==
  ASSUME Typed, NodesInv, CallsInv, OperationsInv, Next
  PROVE  OperationsInv'
<1> DEFINE Quiet(o) == promise[o] = "pending" /\ o \notin disturbed
<1>1. \A o \in Calls : Quiet(o) => OperationInv(o)
  BY DEF OperationsInv, Pending
<1>2. SUFFICES ASSUME NEW o \in Calls, Quiet(o)'
               PROVE  OperationInv(o)'
  BY DEF OperationsInv, Pending
<1>3. /\ \A v \in Ids : toWorker[v] \in Seq(WorkerMessages)
                        /\ toPool[v] \in Seq(PoolMessages)
      /\ Listed \subseteq Ids
  BY NodesListed DEF Typed
<1>4. \A v \in Ids : /\ Fewer(toWorker[v], toWorker[v], "operation")
                     /\ Fewer(toPool[v], toPool[v], "status")
                     /\ Fewer(<<>>, toWorker[v], "operation")
  BY <1>3, FewerMessages
<1>5. ASSUME Quiet(o), UNCHANGED <<workerNodes, promise, received, operation>>,
             \A v \in Listed : /\ Asked(v, o) => Asked(v, o)'
                               /\ Counted(v, o) => Counted(v, o)'
      PROVE  OperationInv(o)'
  <2>1. Listed' = Listed /\ Pending' = Pending
    BY <1>5 DEF Listed, Pending
  <2>2. OperationInv(o)
    BY <1>1, <1>5
  <2> HIDE DEF Quiet
  <2> QED
    BY <1>5, <2>1, <2>2, OperationKept
<1>6. ASSUME Quiet(o),
             UNCHANGED <<workerNodes, promise, received, operation, functions>>,
             \A v \in Ids : /\ Fewer(toWorker'[v], toWorker[v], "operation")
                            /\ Fewer(toPool'[v], toPool[v], "status")
      PROVE  OperationInv(o)'
  <2>1. ASSUME NEW v \in Listed
        PROVE  /\ Asked(v, o) => Asked(v, o)'
               /\ Counted(v, o) => Counted(v, o)'
    <3>1. /\ Fewer(toWorker'[v], toWorker[v], "operation")
          /\ Fewer(toPool'[v], toPool[v], "status")
          /\ functions'[v] = functions[v] /\ operation'[o] = operation[o]
          /\ received'[o] = received[o]
      BY <1>3, <1>6
    <3> QED
      BY <3>1, AskedKept
  <2> QED
    BY <1>5, <1>6, <2>1
<1>7. ASSUME NEW w \in Ids, WorkerHandles(w) PROVE OperationInv(o)'
  <2>1. /\ \A v \in Ids : v # w => /\ toPool'[v] = toPool[v]
                                   /\ functions'[v] = functions[v]
                                   /\ toWorker'[v] = toWorker[v]
        /\ UNCHANGED <<workerNodes, promise, received, operation, disturbed>>
    <3>1. HandledMessage(w, toWorker[w][1])
      BY <1>7, WorkerHandlesEffect
    <3> QED
      BY ONLY <3>1 DEF HandledMessage
  <2>2. Quiet(o)
    BY <1>2, <2>1
  <2>3. operation[o] \in [kind : Kinds, name : Names]
    BY <2>2, CalledOperation
  <2>4. ASSUME NEW v \in Listed
        PROVE  /\ Asked(v, o) => Asked(v, o)'
               /\ Counted(v, o) => Counted(v, o)'
    <3>1. CASE v = w
      BY <1>7, <2>3, <3>1, AskedCarriedOut
    <3>2. CASE v # w
      <4>1. /\ Fewer(toWorker'[v], toWorker[v], "operation")
            /\ Fewer(toPool'[v], toPool[v], "status")
            /\ functions'[v] = functions[v] /\ operation'[o] = operation[o]
            /\ received'[o] = received[o]
        BY <1>3, <1>4, <2>1, <3>2
      <4> QED
        BY <4>1, AskedKept
    <3> QED
      BY <3>1, <3>2
  <2> QED
    BY <1>5, <2>1, <2>2, <2>4
<1>8. ASSUME NEW w \in Ids, WorkerDies(w) PROVE OperationInv(o)'
  <2>1. /\ toWorker'[w] = <<>>
        /\ \A v \in Ids : v # w => toWorker'[v] = toWorker[v]
        /\ UNCHANGED <<workerNodes, promise, received, operation, functions, toPool,
                       disturbed>>
    BY <1>8, WorkerDiesEffect
  <2>2. Quiet(o)
    BY <1>2, <2>1
  <2>3. \A v \in Ids : /\ Fewer(toWorker'[v], toWorker[v], "operation")
                       /\ Fewer(toPool'[v], toPool[v], "status")
    BY <1>4, <2>1
  <2> QED
    BY <1>6, <2>1, <2>2, <2>3
<1>9. ASSUME NEW w \in Ids, DestroyNode(w) PROVE OperationInv(o)'
  <2> DEFINE ms == <<Message("kill")>>
  <2>1. /\ toWorker'[w] = toWorker[w] \o ms /\ ms \in Seq(WorkerMessages)
        /\ \A v \in Ids : v # w => toWorker'[v] = toWorker[v]
        /\ UNCHANGED <<workerNodes, promise, received, operation, functions, toPool,
                       disturbed>>
    BY <1>9, DestroyNodeEffect
  <2>2. Quiet(o)
    BY <1>2, <2>1
  <2>3. NoneOf(ms, "operation")
    BY DEF NoneOf, Message
  <2> HIDE DEF ms
  <2>4. Fewer(toWorker[w] \o ms, toWorker[w], "operation")
    BY <1>3, <2>1, <2>3, FewerMessages
  <2>5. \A v \in Ids : /\ Fewer(toWorker'[v], toWorker[v], "operation")
                       /\ Fewer(toPool'[v], toPool[v], "status")
    BY <1>4, <2>1, <2>4
  <2> QED
    BY <1>6, <2>1, <2>2, <2>5
<1>10. ASSUME NEW w \in Ids, Disconnected(w) PROVE OperationInv(o)'
  <2>1. UNCHANGED <<workerNodes, promise, received, operation, functions, toWorker,
                    toPool, disturbed>>
    BY <1>10, DisconnectedEffect
  <2>2. Quiet(o)
    BY <1>2, <2>1
  <2> QED
    BY <1>4, <1>6, <2>1, <2>2
<1>11. ASSUME NEW w \in Ids, WorkerExit(w) PROVE FALSE
  <2>1. disturbed' = disturbed \cup Pending /\ UNCHANGED promise
    BY <1>11, WorkerExitEffect
  <2> QED
    BY <1>2, <2>1 DEF Pending
<1>12. ASSUME CreateDynamicNode PROVE FALSE
  <2>1. disturbed' = disturbed \cup Pending /\ UNCHANGED promise
    BY <1>12, CreateDynamicNodeEffect
  <2> QED
    BY <1>2, <2>1 DEF Pending
<1>13. ASSUME NEW w \in Ids, PoolHandles(w) PROVE OperationInv(o)'
  <2>0. PICK m : m = toPool[w][1]
    OBVIOUS
  <2>1. /\ toPool[w] # <<>> /\ toPool'[w] = Tail(toPool[w])
        /\ \A v \in Ids : v # w => toPool'[v] = toPool[v] /\ toWorker'[v] = toWorker[v]
        /\ UNCHANGED <<workerNodes, operation, functions, disturbed>>
    BY <1>13, <2>0, PoolHandlesEffect
  <2>2. \/ m.type = "status" /\ m.ok \in BOOLEAN /\ StatusReceived(w, m.ok)
        \/ UNCHANGED <<promise, listening, received, poolFunctions>>
    BY <1>13, <2>0, PoolHandlesEffect
  <2>3. CASE UNCHANGED <<promise, listening, received, poolFunctions>>
    <3> DEFINE ms == <<Message("disconnect")>>
    <3>1. ms \in Seq(WorkerMessages) /\ NoneOf(ms, "operation")
      BY DEF Message, WorkerMessages, NoneOf
    <3>2. toWorker'[w] = toWorker[w] \/ toWorker'[w] = toWorker[w] \o ms
      BY <1>13, <2>0, PoolHandlesEffect
    <3> HIDE DEF ms
    <3>3. Fewer(toWorker[w] \o ms, toWorker[w], "operation")
      BY <1>3, <3>1, FewerMessages
    <3>4. Fewer(toPool'[w], toPool[w], "status")
      BY <1>3, <2>1, FewerMessages
    <3>5. Fewer(toWorker'[w], toWorker[w], "operation")
      BY <1>4, <3>2, <3>3
    <3>6. \A v \in Ids : /\ Fewer(toWorker'[v], toWorker[v], "operation")
                         /\ Fewer(toPool'[v], toPool[v], "status")
      BY <1>4, <2>1, <3>4, <3>5
    <3>7. Quiet(o)
      BY <1>2, <2>1, <2>3
    <3> QED
      BY <1>6, <2>1, <2>3, <3>6, <3>7
  <2>4. CASE m.type = "status" /\ m.ok \in BOOLEAN /\ StatusReceived(w, m.ok)
    <3>1. promise'[o] = IF Resolves(o, w, m.ok) THEN "resolved"
                        ELSE IF Settles(o, w, m.ok) THEN "rejected"
                        ELSE promise[o]
      BY <2>4, StatusReceivedEffect
    <3>2. Quiet(o) /\ promise'[o] = "pending"
      BY <1>2, <2>1, <3>1
    <3>3. OperationInv(o)
      BY <1>1, <3>2
    <3> QED
      BY <1>13, <2>0, <2>4, <3>2, <3>3, AnswerCounted
  <2> QED
    BY <2>2, <2>3, <2>4
<1>14. ASSUME NEW kind \in Kinds, NEW name \in Names, CallOperation(kind, name)
       PROVE  OperationInv(o)'
  <2>0. PICK q : q = Len(operation) + 1
    OBVIOUS
  <2>1. /\ q \in Calls /\ operation'[q] = [kind |-> kind, name |-> name]
        /\ <<OperationMessage(kind, name, q)>> \in Seq(WorkerMessages)
        /\ UNCHANGED <<workerNodes, received, functions, toPool>>
    BY <1>14, <2>0, CallOperationEffect
  <2>2. OtherCallsKept(q) /\ Len(operation) \in Nat
    BY <1>14, <2>0, CallOperationEffect
  <2>3. \A p \in Calls : p <= Len(operation) => operation'[p] = operation[p]
    BY <1>14, <2>0, CallOperationEffect
  <2>4. RejectedCall(kind, name, q) \/ BroadcastCall(kind, name, q)
    BY <1>14, <2>0, CallOperationEffect
  <2>5. \A p \in Calls : p # q => promise'[p] = promise[p]
    BY <2>2 DEF OtherCallsKept
  <2>6. promise[q] = "none" /\ received[q] = <<>>
    <3>1. q > Len(operation)
      BY <2>0, <2>2
    <3> QED
      BY <2>1, <3>1 DEF CallsInv
  <2>7. CASE RejectedCall(kind, name, q)
    <3>1. /\ promise'[q] = "rejected" /\ toWorker' = toWorker
          /\ disturbed' = disturbed
      BY <2>7 DEF RejectedCall
    <3>2. o # q /\ Quiet(o)
      BY <1>2, <2>5, <3>1
    <3>3. operation'[o] = operation[o] /\ received'[o] = received[o]
      <4>1. o <= Len(operation)
        BY <3>2, CalledOperation
      <4> QED
        BY <2>1, <2>3, <4>1
    <3>4. Pending' = Pending /\ Listed' = Listed
      <4>1. \A p \in Calls : promise'[p] = "pending" <=> promise[p] = "pending"
        BY <2>5, <2>6, <3>1
      <4> QED
        BY <2>1, <4>1 DEF Pending, Listed
    <3>5. ASSUME NEW v \in Listed
          PROVE  /\ Asked(v, o) => Asked(v, o)'
                 /\ Counted(v, o) => Counted(v, o)'
      <4>1. /\ Fewer(toWorker'[v], toWorker[v], "operation")
            /\ Fewer(toPool'[v], toPool[v], "status")
            /\ functions'[v] = functions[v]
        BY <1>3, <1>4, <2>1, <3>1
      <4> QED
        BY <3>3, <4>1, AskedKept
    <3>6. OperationInv(o)
      BY <1>1, <3>2
    <3> QED
      BY <3>3, <3>4, <3>5, <3>6, OperationKept
  <2>8. CASE BroadcastCall(kind, name, q)
    <3> DEFINE m == OperationMessage(kind, name, q)
               ms == <<m>>
    <3>1. /\ promise'[q] = "pending"
          /\ \A v \in Ids : toWorker'[v] = toWorker[v] \/ toWorker'[v] = toWorker[v] \o ms
          /\ disturbed' = disturbed \cup Overlapping(q)
      BY <2>8 DEF BroadcastCall
    <3>2. o = q
      <4>1. Pending \subseteq disturbed'
        BY <3>1 DEF Overlapping
      <4>2. promise'[o] = "pending" /\ o \notin Pending
        BY <1>2, <4>1
      <4> QED
        BY <2>5, <4>2 DEF Pending
    <3>3. /\ Pending = {}
          /\ \A v \in Listed : /\ NoneOf(toWorker[v], "operation")
                               /\ NoneOf(toPool[v], "status")
      <4>1. q \notin Overlapping(q)
        BY <1>2, <3>1, <3>2
      <4> QED
        BY <4>1 DEF Overlapping, NoneOf
    <3>4. Pending' = {q} /\ Listed' = Listed
      <4>1. \A p \in Calls : promise'[p] = "pending" <=> p = q
        BY <2>5, <3>1, <3>3 DEF Pending
      <4> QED
        BY <2>1, <4>1 DEF Pending, Listed
    <3>5. DOMAIN ms = {1} /\ ms[1] = m /\ ms \in Seq(WorkerMessages)
      BY <2>1
    <3>6. Asks(q)' = m
      BY <2>1 DEF Asks, OperationMessage
    <3> HIDE DEF m, ms
    <3>7. OnceOf(ms, "operation") /\ \A a \in Items(ms) : a = m
      BY <3>5 DEF OnceOf, Items
    <3>8. ASSUME NEW v \in Listed PROVE Asked(v, q)'
      <4>1. v \in Ids /\ toWorker[v] \in Seq(WorkerMessages)
        BY <1>3
      <4>2. /\ OnceOf(toWorker'[v], "operation")
            /\ \A a \in Items(toWorker'[v]) : a.type = "operation" => a = m
        <5>1. \A a \in Items(toWorker[v]) : a.type # "operation"
          BY <3>3 DEF Items, NoneOf
        <5>2. CASE toWorker'[v] = toWorker[v]
          BY <3>3, <5>1, <5>2 DEF OnceOf, NoneOf
        <5>3. CASE toWorker'[v] = toWorker[v] \o ms
          <6>1. /\ \A a : a \in Items(toWorker[v] \o ms) <=>
                            a \in Items(toWorker[v]) \/ a \in Items(ms)
                /\ NoneOf(toWorker[v], "operation") /\ OnceOf(ms, "operation")
                     => OnceOf(toWorker[v] \o ms, "operation")
            BY <3>5, <4>1, JoinedMessages
          <6> QED
            BY <3>3, <3>7, <5>1, <5>3, <6>1
        <5> QED
          BY <3>1, <4>1, <5>2, <5>3
      <4>3. NoneOf(toPool'[v], "status") /\ \A a \in Items(toPool'[v]) : a.type # "status"
        BY <2>1, <3>3 DEF NoneOf, Items
      <4>4. OnceOf(toPool'[v], "status")
        BY <4>3 DEF NoneOf, OnceOf
      <4> QED
        BY <3>6, <4>2, <4>3, <4>4 DEF Asked
    <3>9. /\ {} \in SUBSET (Listed') /\ Len(received'[q]) = Cardinality({})
          /\ \A v \in {} : Counted(v, q)'
      BY <2>1, <2>6, FS_EmptySet
    <3>10. Succeeded(received'[q])
      BY <2>1, <2>6 DEF Succeeded
    <3>11. \E C \in SUBSET (Listed') :
             /\ Len(received'[q]) = Cardinality(C) /\ \A v \in C : Counted(v, q)'
      BY <3>9
    <3>12. OperationInv(q)'
      BY <3>4, <3>8, <3>10, <3>11 DEF OperationInv
    <3> QED
      BY <3>2, <3>12
  <2> QED
    BY <2>4, <2>7, <2>8
<1> HIDE DEF Quiet
<1> QED
  BY <1>7, <1>8, <1>9, <1>10, <1>11, <1>12, <1>13, <1>14 DEF Next, Progress, Kinds

-----------------------------------------------------------------------------
(* What nodes have, or are about to get.                                   *)

AddMessage(n) == OperationMessage("add", n, poolFunctions[n])
Expected(v, n) ==
  /\ process[v] \in {"forked", "running"}
  /\ poolFunctions[n] # Undefined
  /\ ~ \E o \in Pending : operation[o] = [kind |-> "add", name |-> n]
  /\ ~ RemovalTried(n)
Provided(v, n) ==
  \/ functions[v][n] = <<poolFunctions[n], n>>
  \/ AddMessage(n) \in Items(toWorker[v])
Underway(v) ==
  \A m \in Items(toWorker[v]) : m.type = "operation" =>
    m.fn \in Pending \/ m = OperationMessage("add", m.name, poolFunctions[m.name])
LastPending == \A o \in Pending, p \in Calls : p > o => promise[p] \in {"none", "rejected"}
CaughtUp == /\ \A v \in Listed : Underway(v)
            /\ LastPending
            /\ \A v \in Listed, n \in Names : Expected(v, n) => Provided(v, n)

LEMMA CatchUpUnfolded == CatchUpInv <=> (disturbed = {} => CaughtUp)
<1>1. \A v, n : AddMessage(n) \in Items(toWorker[v]) <=>
        \E i \in DOMAIN toWorker[v] :
          toWorker[v][i] = OperationMessage("add", n, poolFunctions[n])
  BY DEF AddMessage, Items
<1>2. NodesCatchUp <=>
        (disturbed = {} => \A v \in Listed, n \in Names : Expected(v, n) => Provided(v, n))
  BY <1>1 DEF NodesCatchUp, Expected, Provided
<1>3. (\A v \in Listed : Underway(v)) <=>
        \A w \in Listed : \A m \in Items(toWorker[w]) : m.type = "operation" =>
          \/ m.fn \in Pending
          \/ m = OperationMessage("add", m.name, poolFunctions[m.name])
  BY DEF Underway
<1> QED
  BY <1>2, <1>3 DEF CatchUpInv, CaughtUp, LastPending

LEMMA CatchUpUnfoldedNext == CatchUpInv' <=> (disturbed' = {} => CaughtUp')
<1>1. (CatchUpInv <=> (disturbed = {} => CaughtUp))'
  BY CatchUpUnfolded, PTL
<1> QED
  BY <1>1

\* As long as the pool's functions and the promises stay as they are.
LEMMA CatchUpKept ==
  ASSUME CaughtUp, Listed' \subseteq Listed,
         UNCHANGED <<poolFunctions, promise, operation>>,
         NEW D, \A v \in D : /\ process'[v] = process[v]
                             /\ functions'[v] = functions[v]
                             /\ \A m \in Items(toWorker'[v]) :
                                  m.type = "operation" => m \in Items(toWorker[v])
                             /\ \A m \in Items(toWorker[v]) :
                                  m \in Items(toWorker'[v]),
         \A v \in Listed' \ D :
           Underway(v)' /\ \A n \in Names : Expected(v, n)' => Provided(v, n)'
  PROVE  CaughtUp'
<1>1. /\ Pending' = Pending
      /\ \A n : RemovalTried(n)' <=> RemovalTried(n)
      /\ \A n : AddMessage(n)' = AddMessage(n)
  BY DEF Pending, RemovalTried, AddMessage, OperationMessage
<1>2. LastPending'
  BY <1>1 DEF CaughtUp, LastPending
<1>3. ASSUME NEW v \in Listed', v \in D PROVE Underway(v)'
  <2>1. Underway(v)
    BY <1>3 DEF CaughtUp
  <2>2. ASSUME NEW m \in Items(toWorker'[v]), m.type = "operation"
        PROVE  m.fn \in Pending \/ m = OperationMessage("add", m.name, poolFunctions[m.name])
    BY <1>3, <2>1, <2>2 DEF Underway
  <2> QED
    BY <1>1, <2>2 DEF Underway
<1>4. ASSUME NEW v \in Listed', v \in D, NEW n \in Names, Expected(v, n)'
      PROVE  Provided(v, n)'
  <2>1. Expected(v, n)
    BY <1>1, <1>3, <1>4 DEF Expected
  <2>2. Provided(v, n)
    BY <1>4, <2>1 DEF CaughtUp
  <2> QED
    BY <1>1, <1>4, <2>2 DEF Provided
<1> QED
  BY <1>2, <1>3, <1>4 DEF CaughtUp

\* A worker that handles a message: what it was about to get it has now, and
\* it loses nothing the pool takes it to have.
LEMMA HandledCatchesUp ==
  ASSUME Typed, NodesInv, CallsInv, OperationsInv, disturbed = {}, CaughtUp,
         NEW w \in Listed, WorkerHandles(w)
  PROVE  Underway(w)' /\ \A n \in Names : Expected(w, n)' => Provided(w, n)'
<1>0. w \in Ids
  BY NodesListed
<1>a. PICK m : m = toWorker[w][1]
  OBVIOUS
<1>1. /\ process[w] \in {"forked", "running"} /\ toWorker[w] # <<>>
      /\ m \in WorkerMessages
      /\ functions'[w] = AfterMessage(functions[w], m)
      /\ process'[w] = IF m.type = "disconnect" THEN "left" ELSE "running"
      /\ toWorker'[w] = IF m.type = "disconnect" THEN <<>> ELSE Tail(toWorker[w])
      /\ UNCHANGED <<workerNodes, operation, promise, poolFunctions>>
  <2>1. HandledMessage(w, m)
    BY <1>0, <1>a, WorkerHandlesEffect
  <2> QED
    BY ONLY <2>1 DEF HandledMessage
<1>2. /\ toWorker[w] \in Seq(WorkerMessages) /\ functions[w] \in FunctionMaps
  BY <1>0 DEF Typed
<1>3. /\ m \in Items(toWorker[w])
      /\ \A a : a \in Items(Tail(toWorker[w])) => a \in Items(toWorker[w])
      /\ \A a : a \in Items(toWorker[w]) => a \in Items(Tail(toWorker[w])) \/ a = m
  <2> DEFINE s == toWorker[w]
  <2>1. m = s[1] /\ s # <<>> /\ s \in Seq(WorkerMessages)
    BY <1>1, <1>2, <1>a
  <2> HIDE DEF s
  <2>2. /\ s[1] \in Items(s)
        /\ \A a : a \in Items(Tail(s)) => a \in Items(s)
        /\ \A a : a \in Items(s) => a \in Items(Tail(s)) \/ a = s[1]
    BY <2>1, ShiftedMessages
  <2> QED
    BY <2>1, <2>2 DEF s
<1>4. /\ Pending' = Pending
      /\ \A n : RemovalTried(n)' <=> RemovalTried(n)
      /\ \A n : AddMessage(n)' = AddMessage(n)
  BY <1>1 DEF Pending, RemovalTried, AddMessage, OperationMessage
<1>5. Underway(w)
  BY DEF CaughtUp
<1>6. Underway(w)'
  <2>1. ASSUME NEW a \in Items(toWorker'[w]) PROVE a \in Items(toWorker[w])
    <3>1. Items(<<>>) = {}
      BY DEF Items
    <3> QED
      BY <1>1, <1>3, <2>1, <3>1
  <2>2. ASSUME NEW a \in Items(toWorker'[w]), a.type = "operation"
        PROVE  a.fn \in Pending \/ a = OperationMessage("add", a.name, poolFunctions[a.name])
    BY <1>5, <2>1, <2>2 DEF Underway
  <2> QED
    BY <1>1, <1>4, <2>2 DEF Underway
<1>7. ASSUME NEW n \in Names, Expected(w, n)' PROVE Provided(w, n)'
  <2>1. Expected(w, n) /\ m.type # "disconnect"
    BY <1>1, <1>4, <1>7 DEF Expected
  <2>2. Provided(w, n) /\ toWorker'[w] = Tail(toWorker[w])
    BY <1>1, <2>1 DEF CaughtUp
  <2>3. CASE m = AddMessage(n)
    <3>1. m.type = "operation" /\ m.kind = "add" /\ m.name = n /\ m.fn = poolFunctions[n]
      BY <2>3 DEF AddMessage, OperationMessage
    <3>2. m \in OperationMessages
      BY <1>1, <3>1, KindsOfMessages
    <3>3. Operated(functions[w], m)[n] = <<poolFunctions[n], n>>
      BY <1>2, <3>1, <3>2, OperatedOn
    <3> QED
      BY <1>1, <3>1, <3>3 DEF Provided, AfterMessage
  <2>4. CASE m # AddMessage(n) /\ AddMessage(n) \in Items(toWorker[w])
    <3>1. AddMessage(n) \in Items(toWorker'[w])
      BY <1>3, <2>2, <2>4
    <3> QED
      BY <1>4, <3>1 DEF Provided
  <2>5. CASE m # AddMessage(n) /\ functions[w][n] = <<poolFunctions[n], n>>
    <3>1. SUFFICES functions'[w][n] = functions[w][n]
      BY <1>1, <2>5 DEF Provided
    <3>2. CASE m.type # "operation"
      BY <1>1, <3>2 DEF AfterMessage
    <3>3. CASE m.type = "operation"
      <4>1. m \in OperationMessages /\ functions'[w] = Operated(functions[w], m)
        BY <1>1, <3>3, KindsOfMessages DEF AfterMessage
      <4>2. m.name # n \/ m.kind = "default" => functions'[w][n] = functions[w][n]
        BY <1>2, <4>1, OperatedOn
      <4>3. SUFFICES ASSUME m.name = n, m.kind # "default" PROVE FALSE
        BY <4>2
      <4>4. m.fn \in Pending
        <5>1. OperationMessage("add", m.name, poolFunctions[m.name]) = AddMessage(n)
          BY <4>3 DEF AddMessage
        <5> QED
          BY <1>3, <1>5, <2>5, <3>3, <5>1 DEF Underway
      <4>5. PICK o \in Pending : m.fn = o
        BY <4>4
      <4>6. o \in Calls /\ promise[o] = "pending" /\ OperationInv(o)
        BY <4>5 DEF Pending, OperationsInv
      <4>7. m = Asks(o)
        BY <1>3, <3>3, <4>6 DEF OperationInv, Asked
      <4>8. operation[o].kind = m.kind /\ operation[o].name = n
        BY <4>3, <4>7 DEF Asks, OperationMessage
      <4>9. operation[o] \in [kind : Kinds, name : Names]
        BY <4>6, CalledOperation
      <4>10. CASE m.kind = "add"
        <5>1. operation[o] = [kind |-> "add", name |-> n]
          BY <4>8, <4>9, <4>10
        <5> QED
          BY <2>1, <4>5, <5>1 DEF Expected
      <4>11. CASE m.kind = "remove"
        <5>1. operation[o] = [kind |-> "remove", name |-> n]
          BY <4>8, <4>9, <4>11
        <5> DEFINE f == poolFunctions[n]
        <5>2. f \in Calls /\ promise[f] = "resolved"
          BY <2>1 DEF Expected, CallsInv, Typed
        <5>3. ~(f > o) /\ f # o
          BY <4>5, <4>6, <5>2 DEF CaughtUp, LastPending
        <5> HIDE DEF f
        <5>4. o > f
          BY <4>6, <5>2, <5>3 DEF Calls
        <5>5. RemovalTried(n)
          BY <4>6, <5>1, <5>4 DEF RemovalTried, f
        <5> QED
          BY <2>1, <5>5 DEF Expected
      <4> QED
        BY <4>1, <4>3, <4>10, <4>11 DEF OperationMessages, Kinds
    <3> QED
      BY <3>2, <3>3
  <2> QED
    BY <2>2, <2>3, <2>4, <2>5 DEF Provided
<1> QED
  BY <1>6, <1>7

\* An operation that settles, with no other one under way.
LEMMA SettledCatchesUp ==
  ASSUME Typed, NodesInv, CallsInv, OperationsInv, disturbed = {}, CaughtUp,
         NEW w \in Ids, PoolHandles(w), NEW m, m = toPool[w][1],
         m.type = "status", m.ok \in BOOLEAN, StatusReceived(w, m.ok)
  PROVE  CaughtUp'
<1>1. /\ toPool[w] # <<>> /\ toWorker'[w] = toWorker[w]
      /\ \A v \in Ids : v # w => toWorker'[v] = toWorker[v]
      /\ UNCHANGED <<workerNodes, operation, functions, process>>
  BY PoolHandlesEffect
<1>2. \A p \in Calls : promise'[p] = IF Resolves(p, w, m.ok) THEN "resolved"
                                     ELSE IF Settles(p, w, m.ok) THEN "rejected"
                                     ELSE promise[p]
  BY StatusReceivedEffect
<1>3. \A n \in Names :
        \/ /\ poolFunctions'[n] = poolFunctions[n]
           /\ \A o \in Calls : Resolves(o, w, m.ok) => ~Sets(o, n)
        \/ \E o \in Calls :
             /\ Resolves(o, w, m.ok) /\ Sets(o, n)
             /\ poolFunctions'[n] = IF operation[o].kind = "add" THEN o ELSE Undefined
  BY StatusReceivedEffect
<1>4. \A p \in Calls : /\ Resolves(p, w, m.ok) => Settles(p, w, m.ok)
                       /\ Settles(p, w, m.ok) => promise[p] = "pending"
  BY DEF Resolves, Settles
<1>5. Listed' = Listed /\ Listed \subseteq Ids
  BY <1>1, NodesListed DEF Listed
<1>6. \A v \in Listed : toWorker'[v] = toWorker[v]
  BY <1>1, <1>5
<1>7. Pending' \subseteq Pending
  BY <1>2, <1>4 DEF Pending
<1>8. LastPending'
  <2>1. ASSUME NEW o \in Pending', NEW p \in Calls, p > o
        PROVE  promise'[p] \in {"none", "rejected"}
    <3>1. promise[p] \in {"none", "rejected"}
      BY <1>7, <2>1 DEF CaughtUp, LastPending
    <3> QED
      BY <1>2, <1>4, <3>1
  <2> QED
    BY <2>1 DEF LastPending
<1>9. CASE \A p \in Calls : ~Settles(p, w, m.ok)
  <2>1. \A p \in Calls : promise'[p] = promise[p]
    BY <1>2, <1>4, <1>9
  <2>2. \A n \in Names : poolFunctions'[n] = poolFunctions[n]
    BY <1>3, <1>4, <1>9
  <2>3. UNCHANGED <<promise, poolFunctions>>
    <3>1. /\ promise \in [Calls -> {"none", "pending", "resolved", "rejected"}]
          /\ poolFunctions \in [Names -> {Undefined} \cup Calls]
      BY DEF Typed
    <3>2. /\ promise' \in [Calls -> {"none", "pending", "resolved", "rejected"}]
          /\ poolFunctions' \in [Names -> {Undefined} \cup Calls]
      BY StatusReceivedEffect
    <3> QED
      BY <2>1, <2>2, <3>1, <3>2
  <2> DEFINE D == Listed
  <2>4. \A v \in D : /\ process'[v] = process[v] /\ functions'[v] = functions[v]
                     /\ toWorker'[v] = toWorker[v]
    BY <1>1, <1>6
  <2>5. Listed' \ D = {}
    BY <1>5
  <2> HIDE DEF D
  <2> QED
    BY <1>1, <1>5, <2>3, <2>4, <2>5, CatchUpKept
<1>10. ASSUME NEW o \in Calls, Settles(o, w, m.ok) PROVE CaughtUp'
  <2>1. promise[o] = "pending" /\ OperationInv(o) /\ Pending = {o}
    <3>1. o \in Pending
      BY <1>4, <1>10 DEF Pending
    <3>2. OperationInv(o)
      BY <3>1 DEF OperationsInv
    <3> QED
      BY <3>1, <3>2 DEF OperationInv, Pending
  <2>2. /\ \A v \in Listed : /\ NoneOf(toWorker[v], "operation")
                             /\ Resolves(o, w, m.ok) => Done(v, o)
        /\ operation[o].kind = "add" => Resolves(o, w, m.ok)
    BY <1>1, <1>10, <2>1, LastAnswer
  <2>3. \A v \in Listed' : Underway(v)'
    BY <1>5, <1>6, <2>2 DEF Underway, NoneOf, Items
  <2>4. operation[o] \in [kind : Kinds, name : Names]
    BY <2>1, CalledOperation
  <2>5. \A p \in Calls : p # o => ~Resolves(p, w, m.ok) /\ promise'[p] = promise[p]
    BY <1>2, <1>4, <2>1 DEF Pending
  <2>6. promise'[o] = IF Resolves(o, w, m.ok) THEN "resolved" ELSE "rejected"
    BY <1>2, <1>10
  <2>7. ASSUME NEW v \in Listed, NEW n \in Names, Expected(v, n)'
        PROVE  Provided(v, n)'
    <3>1. CASE poolFunctions'[n] = poolFunctions[n]
               /\ \A p \in Calls : Resolves(p, w, m.ok) => ~Sets(p, n)
      <4>1. operation[o] # [kind |-> "add", name |-> n]
        <5>1. SUFFICES ASSUME operation[o] = [kind |-> "add", name |-> n] PROVE FALSE
          OBVIOUS
        <5>2. Resolves(o, w, m.ok) /\ Sets(o, n)
          BY <2>2, <5>1 DEF Sets
        <5> QED
          BY <3>1, <5>2
      <4>2. ~RemovalTried(n)
        <5>1. SUFFICES ASSUME NEW r \in Calls, r > poolFunctions[n],
                              promise[r] \in {"pending", "rejected"},
                              operation[r] = [kind |-> "remove", name |-> n]
                       PROVE  FALSE
          BY DEF RemovalTried
        <5>2. promise'[r] \notin {"pending", "rejected"}
          BY <1>1, <2>7, <3>1, <5>1 DEF Expected, RemovalTried
        <5>3. r = o /\ Resolves(o, w, m.ok)
          BY <2>5, <2>6, <5>1, <5>2
        <5>4. Sets(o, n)
          BY <5>1, <5>3 DEF Sets
        <5> QED
          BY <3>1, <5>3, <5>4
      <4>3. Expected(v, n)
        BY <1>1, <2>1, <2>7, <3>1, <4>1, <4>2 DEF Expected
      <4>4. Provided(v, n)
        BY <4>3 DEF CaughtUp
      <4> QED
        BY <1>1, <1>6, <3>1, <4>4 DEF Provided, AddMessage, OperationMessage
    <3>2. ASSUME NEW p \in Calls, Resolves(p, w, m.ok), Sets(p, n),
                 poolFunctions'[n] = IF operation[p].kind = "add" THEN p ELSE Undefined
          PROVE  Provided(v, n)'
      <4>1. p = o
        BY <2>5, <3>2
      <4>2. poolFunctions'[n] # Undefined
        BY <2>7 DEF Expected
      <4>3. operation[o].kind = "add" /\ operation[o].name = n /\ poolFunctions'[n] = o
        BY <3>2, <4>1, <4>2 DEF Sets
      <4>4. functions[v][n] = <<o, n>>
        BY <2>2, <3>2, <4>1, <4>3 DEF Done
      <4> QED
        BY <1>1, <4>3, <4>4 DEF Provided
    <3> QED
      BY <1>3, <3>1, <3>2
  <2> QED
    BY <1>5, <1>8, <2>3, <2>7 DEF CaughtUp
<1> QED
  BY <1>9, <1>10

LEMMA NextCatchUp ==
  ASSUME Typed, NodesInv, CallsInv, OperationsInv, CatchUpInv, Next
  PROVE  CatchUpInv'
<1>1. SUFFICES ASSUME disturbed' = {} PROVE CaughtUp'
  BY CatchUpUnfoldedNext
<1>2. disturbed = {} => CaughtUp
  BY CatchUpUnfolded
<1>3. Listed \subseteq Ids /\ \A v \in Ids : toWorker[v] \in Seq(WorkerMessages)
  BY NodesListed DEF Typed
<1>4. ASSUME NEW w \in Ids, WorkerHandles(w) PROVE CaughtUp'
  <2>1. /\ \A v \in Ids : v # w => /\ functions'[v] = functions[v]
                                   /\ process'[v] = process[v]
                                   /\ toWorker'[v] = toWorker[v]
        /\ process[w] \in {"forked", "running"}
        /\ UNCHANGED <<workerNodes, operation, promise, poolFunctions, disturbed>>
    <3>1. HandledMessage(w, toWorker[w][1])
      BY <1>4, WorkerHandlesEffect
    <3> QED
      BY ONLY <3>1 DEF HandledMessage
  <2>2. CaughtUp /\ disturbed = {} /\ Listed' = Listed /\ w \in Listed
    BY <1>1, <1>2, <2>1 DEF Listed, NodesInv
  <2> DEFINE D == Ids \ {w}
  <2>3. \A v \in D : /\ process'[v] = process[v] /\ functions'[v] = functions[v]
                     /\ toWorker'[v] = toWorker[v]
    BY <2>1
  <2>4. Underway(w)' /\ \A n \in Names : Expected(w, n)' => Provided(w, n)'
    BY <1>4, <2>2, HandledCatchesUp
  <2>5. \A v \in Listed' \ D : v = w
    BY <1>3, <2>2
  <2> HIDE DEF D
  <2>6. \A v \in Listed' \ D :
          Underway(v)' /\ \A n \in Names : Expected(v, n)' => Provided(v, n)'
    BY <2>4, <2>5
  <2> QED
    BY <2>1, <2>2, <2>3, <2>6, CatchUpKept
<1>5. ASSUME NEW w \in Ids, NEW ms \in Seq(WorkerMessages), NoneOf(ms, "operation"),
             toWorker'[w] \in {toWorker[w], <<>>, toWorker[w] \o ms},
             toWorker'[w] = <<>> => process'[w] = "left",
             toWorker'[w] # <<>> => process'[w] = process[w],
             \A v \in Ids : v # w => /\ process'[v] = process[v]
                                     /\ toWorker'[v] = toWorker[v],
             UNCHANGED <<workerNodes, operation, promise, poolFunctions, functions,
                         disturbed>>
      PROVE  CaughtUp'
  <2>1. CaughtUp /\ Listed' = Listed
    BY <1>1, <1>2, <1>5 DEF Listed
  <2>2. CASE toWorker'[w] = <<>>
    <3> DEFINE D == Ids \ {w}
    <3>1. \A v \in D : /\ process'[v] = process[v] /\ functions'[v] = functions[v]
                       /\ toWorker'[v] = toWorker[v]
      BY <1>5
    <3>2. Underway(w)' /\ \A n \in Names : ~Expected(w, n)'
      BY <1>5, <2>2 DEF Underway, Items, Expected
    <3>3. \A v \in Listed' \ D : v = w
      BY <1>3, <2>1
    <3> HIDE DEF D
    <3>4. \A v \in Listed' \ D :
            Underway(v)' /\ \A n \in Names : Expected(v, n)' => Provided(v, n)'
      BY <3>2, <3>3
    <3> QED
      BY <1>5, <2>1, <3>1, <3>4, CatchUpKept
  <2>3. CASE toWorker'[w] # <<>>
    <3> DEFINE D == Ids
    <3>1. /\ \A m \in Items(toWorker'[w]) : m.type = "operation" => m \in Items(toWorker[w])
          /\ \A m \in Items(toWorker[w]) : m \in Items(toWorker'[w])
      <4>1. CASE toWorker'[w] = toWorker[w]
        BY <4>1
      <4>2. CASE toWorker'[w] = toWorker[w] \o ms
        <5> DEFINE s == toWorker[w]
        <5>0. s \in Seq(WorkerMessages) /\ ms \in Seq(WorkerMessages)
          BY <1>3, <1>5
        <5> HIDE DEF s
        <5>3. \A m : m \in Items(s \o ms) <=> m \in Items(s) \/ m \in Items(ms)
          BY ONLY <5>0, JoinedMessages
        <5>1. \A m : m \in Items(toWorker[w] \o ms) <=> m \in Items(toWorker[w]) \/ m \in Items(ms)
          BY <5>3 DEF s
        <5>2. \A m \in Items(ms) : m.type # "operation"
          BY <1>5 DEF Items, NoneOf
        <5> QED
          BY <4>2, <5>1, <5>2
      <4> QED
        BY <1>5, <2>3, <4>1, <4>2
    <3>2. \A v \in D : /\ process'[v] = process[v] /\ functions'[v] = functions[v]
                       /\ \A m \in Items(toWorker'[v]) :
                            m.type = "operation" => m \in Items(toWorker[v])
                       /\ \A m \in Items(toWorker[v]) : m \in Items(toWorker'[v])
      <4>1. ASSUME NEW v \in Ids
            PROVE  /\ process'[v] = process[v] /\ functions'[v] = functions[v]
                   /\ \A m \in Items(toWorker'[v]) :
                        m.type = "operation" => m \in Items(toWorker[v])
                   /\ \A m \in Items(toWorker[v]) : m \in Items(toWorker'[v])
        <5>1. CASE v = w
          BY <1>5, <2>3, <3>1, <5>1
        <5>2. CASE v # w
          BY <1>5, <5>2
        <5> QED
          BY <5>1, <5>2
      <4> QED
        BY <4>1
    <3>3. Listed' \ D = {}
      BY <1>3, <2>1
    <3> HIDE DEF D
    <3> QED
      BY <1>5, <2>1, <3>2, <3>3, CatchUpKept
  <2> QED
    BY <2>2, <2>3
<1>6. <<>> \in Seq(WorkerMessages) /\ NoneOf(<<>>, "operation")
  BY DEF NoneOf
<1>7. ASSUME NEW w \in Ids, WorkerDies(w) PROVE CaughtUp'
  <2>1. /\ process'[w] = "left" /\ toWorker'[w] = <<>>
        /\ \A v \in Ids : v # w => /\ process'[v] = process[v]
                                   /\ toWorker'[v] = toWorker[v]
        /\ UNCHANGED <<workerNodes, operation, promise, poolFunctions, functions,
                       disturbed>>
    BY <1>7, WorkerDiesEffect
  <2> QED
    BY <1>5, <1>6, <2>1
<1>8. ASSUME NEW w \in Ids, DestroyNode(w) PROVE CaughtUp'
  <2> DEFINE ms == <<Message("kill")>>
  <2>1. /\ toWorker'[w] = toWorker[w] \o ms /\ ms \in Seq(WorkerMessages)
        /\ \A v \in Ids : v # w => toWorker'[v] = toWorker[v]
        /\ UNCHANGED <<workerNodes, operation, promise, poolFunctions, functions,
                       process, disturbed>>
    BY <1>8, DestroyNodeEffect
  <2>2. NoneOf(ms, "operation") /\ 1 \in DOMAIN ms
    BY DEF NoneOf, Message
  <2> HIDE DEF ms
  <2>3. toWorker'[w] # <<>>
    <3>1. Len(toWorker[w]) + 1 \in DOMAIN toWorker'[w]
      BY <1>3, <2>1, <2>2, JoinedSeqs
    <3> QED
      BY <3>1
  <2> QED
    BY <1>5, <2>1, <2>2, <2>3
<1>9. ASSUME NEW w \in Ids, Disconnected(w) PROVE CaughtUp'
  <2>1. /\ process[w] = "left" /\ process'[w] = "closed"
        /\ \A v \in Ids : v # w => process'[v] = process[v]
        /\ UNCHANGED <<workerNodes, operation, promise, poolFunctions, functions,
                       toWorker, disturbed>>
    BY <1>9, DisconnectedEffect
  <2>2. CaughtUp /\ Listed' = Listed
    BY <1>1, <1>2, <2>1 DEF Listed
  <2> DEFINE D == Ids \ {w}
  <2>3. \A v \in D : /\ process'[v] = process[v] /\ functions'[v] = functions[v]
                     /\ toWorker'[v] = toWorker[v]
    BY <2>1
  <2>4. toWorker'[w] = <<>>
    BY <2>1 DEF NodesInv
  <2>5. Underway(w)' /\ \A n \in Names : ~Expected(w, n)'
    BY <2>1, <2>4 DEF Underway, Items, Expected
  <2>6. \A v \in Listed' \ D : v = w
    BY <1>3, <2>2
  <2> HIDE DEF D
  <2>7. \A v \in Listed' \ D :
          Underway(v)' /\ \A n \in Names : Expected(v, n)' => Provided(v, n)'
    BY <2>5, <2>6
  <2> QED
    BY <2>1, <2>2, <2>3, <2>7, CatchUpKept
<1>10. ASSUME NEW w \in Ids, WorkerExit(w) PROVE CaughtUp'
  <2>1. /\ process[w] = "closed" /\ process'[w] = "exited"
        /\ \A v \in Ids : v # w => process'[v] = process[v]
        /\ Listed' = Listed \ {w} /\ disturbed' = disturbed \cup Pending
        /\ UNCHANGED <<operation, promise, poolFunctions, functions, toWorker>>
    BY <1>10, WorkerExitEffect
  <2>2. CaughtUp
    BY <1>1, <1>2, <2>1
  <2> DEFINE D == Ids \ {w}
  <2>3. \A v \in D : /\ process'[v] = process[v] /\ functions'[v] = functions[v]
                     /\ toWorker'[v] = toWorker[v]
    BY <2>1
  <2>4. Listed' \ D = {} /\ Listed' \subseteq Listed
    BY <1>3, <2>1
  <2> HIDE DEF D
  <2> QED
    BY <2>1, <2>2, <2>3, <2>4, CatchUpKept
<1>11. ASSUME CreateDynamicNode PROVE CaughtUp'
  <2>0. PICK w : w = created + 1
    OBVIOUS
  <2> DEFINE ready == <<Message("ready")>>
  <2>1. /\ w \in Ids /\ w \notin Listed /\ Listed' = Listed \cup {w}
        /\ toWorker'[w] = ready \o Replayed
        /\ \A v \in Ids : v # w => /\ process'[v] = process[v]
                                   /\ toWorker'[v] = toWorker[v]
        /\ disturbed' = disturbed \cup Pending
        /\ UNCHANGED <<operation, promise, poolFunctions, functions>>
    BY <1>11, <2>0, CreateDynamicNodeEffect
  <2>2. CaughtUp
    BY <1>1, <1>2, <2>1
  <2>3. /\ Replayed \in Seq(OperationMessages)
        /\ \A m \in Items(Replayed) :
             m = OperationMessage("add", m.name, poolFunctions[m.name])
        /\ \A n \in Names : poolFunctions[n] # Undefined =>
             AddMessage(n) \in Items(Replayed)
    BY ReplayedMessages DEF AddMessage
  <2>4. ready \in Seq(WorkerMessages) /\ \A m \in Items(ready) : m.type = "ready"
    BY DEF Message, WorkerMessages, Items
  <2> HIDE DEF Replayed, ready
  <2>5. Replayed \in Seq(WorkerMessages)
    <3>1. OperationMessages \subseteq WorkerMessages
      BY DEF WorkerMessages
    <3> QED
      BY <2>3, <3>1
  <2>6. \A m : m \in Items(ready \o Replayed) <=> m \in Items(ready) \/ m \in Items(Replayed)
    BY <2>4, <2>5, JoinedMessages
  <2>7. Underway(w)'
    <3>1. ASSUME NEW m \in Items(toWorker'[w]), m.type = "operation"
          PROVE  m = OperationMessage("add", m.name, poolFunctions[m.name])
      BY <2>1, <2>3, <2>4, <2>6, <3>1
    <3> QED
      BY <2>1, <3>1 DEF Underway
  <2>8. ASSUME NEW n \in Names, Expected(w, n)' PROVE Provided(w, n)'
    <3>1. poolFunctions[n] # Undefined
      BY <2>1, <2>8 DEF Expected
    <3>2. AddMessage(n) \in Items(toWorker'[w])
      BY <2>1, <2>3, <2>6, <3>1
    <3>3. AddMessage(n)' = AddMessage(n)
      BY <2>1 DEF AddMessage, OperationMessage
    <3> QED
      BY <3>2, <3>3 DEF Provided
  <2>9. /\ Pending' = Pending
        /\ \A n : RemovalTried(n)' <=> RemovalTried(n)
        /\ \A n : AddMessage(n)' = AddMessage(n)
    BY <2>1 DEF Pending, RemovalTried, AddMessage, OperationMessage
  <2>10. LastPending'
    BY <2>1, <2>2, <2>9 DEF CaughtUp, LastPending
  <2>11. ASSUME NEW v \in Listed PROVE Underway(v)'
    <3>1. Underway(v) /\ toWorker'[v] = toWorker[v]
      BY <1>3, <2>1, <2>2 DEF CaughtUp
    <3> QED
      BY <2>1, <2>9, <3>1 DEF Underway
  <2>12. ASSUME NEW v \in Listed, NEW n \in Names, Expected(v, n)' PROVE Provided(v, n)'
    <3>1. process'[v] = process[v] /\ toWorker'[v] = toWorker[v]
      BY <1>3, <2>1
    <3>2. Expected(v, n)
      BY <2>1, <2>9, <2>12, <3>1 DEF Expected
    <3>3. Provided(v, n)
      BY <2>2, <3>2 DEF CaughtUp
    <3> QED
      BY <2>1, <2>9, <3>1, <3>3 DEF Provided
  <2> QED
    BY <2>1, <2>7, <2>8, <2>10, <2>11, <2>12 DEF CaughtUp
<1>12. ASSUME NEW w \in Ids, PoolHandles(w) PROVE CaughtUp'
  <2>0. PICK m : m = toPool[w][1]
    OBVIOUS
  <2>1. /\ \A v \in Ids : v # w => toWorker'[v] = toWorker[v]
        /\ process[w] \in {"running", "left"}
        /\ UNCHANGED <<workerNodes, operation, functions, process, disturbed>>
    BY <1>12, <2>0, PoolHandlesEffect
  <2>2. \/ m.type = "status" /\ m.ok \in BOOLEAN /\ StatusReceived(w, m.ok)
        \/ UNCHANGED <<promise, listening, received, poolFunctions>>
    BY <1>12, <2>0, PoolHandlesEffect
  <2>3. CASE m.type = "status" /\ m.ok \in BOOLEAN /\ StatusReceived(w, m.ok)
    BY <1>1, <1>2, <1>12, <2>0, <2>1, <2>3, SettledCatchesUp
  <2>4. CASE UNCHANGED <<promise, listening, received, poolFunctions>>
    <3> DEFINE ms == <<Message("disconnect")>>
    <3>1. ms \in Seq(WorkerMessages) /\ NoneOf(ms, "operation") /\ 1 \in DOMAIN ms
      BY DEF Message, WorkerMessages, NoneOf
    <3>2. toWorker'[w] = toWorker[w] \/ toWorker'[w] = toWorker[w] \o ms
      BY <1>12, <2>0, PoolHandlesEffect
    <3> HIDE DEF ms
    <3>3. CaughtUp /\ Listed' = Listed
      BY <1>1, <1>2, <2>1 DEF Listed
    <3>4. /\ \A a \in Items(toWorker'[w]) : a.type = "operation" => a \in Items(toWorker[w])
          /\ \A a \in Items(toWorker[w]) : a \in Items(toWorker'[w])
      <4>1. \A a : a \in Items(toWorker[w] \o ms) <=> a \in Items(toWorker[w]) \/ a \in Items(ms)
        BY <1>3, <3>1, JoinedMessages
      <4>2. \A a \in Items(ms) : a.type # "operation"
        BY <3>1 DEF Items, NoneOf
      <4> QED
        BY <3>2, <4>1, <4>2
    <3>5. ASSUME NEW v \in Ids
          PROVE  /\ process'[v] = process[v] /\ functions'[v] = functions[v]
                 /\ \A a \in Items(toWorker'[v]) :
                      a.type = "operation" => a \in Items(toWorker[v])
                 /\ \A a \in Items(toWorker[v]) : a \in Items(toWorker'[v])
      <4>1. CASE v = w
        BY <2>1, <3>4, <4>1
      <4>2. CASE v # w
        BY <2>1, <4>2
      <4> QED
        BY <4>1, <4>2
    <3> DEFINE D == Ids
    <3>6. Listed' \ D = {}
      BY <1>3, <3>3
    <3>7. \A v \in D : /\ process'[v] = process[v] /\ functions'[v] = functions[v]
                       /\ \A a \in Items(toWorker'[v]) :
                            a.type = "operation" => a \in Items(toWorker[v])
                       /\ \A a \in Items(toWorker[v]) : a \in Items(toWorker'[v])
      BY <3>5
    <3> HIDE DEF D
    <3> QED
      BY <2>1, <2>4, <3>3, <3>6, <3>7, CatchUpKept
  <2> QED
    BY <2>2, <2>3, <2>4
<1>13. ASSUME NEW kind \in Kinds, NEW name \in Names, CallOperation(kind, name)
       PROVE  CaughtUp'
  <2>0. PICK q : q = Len(operation) + 1
    OBVIOUS
  <2>1. /\ q \in Calls /\ operation'[q] = [kind |-> kind, name |-> name]
        /\ <<OperationMessage(kind, name, q)>> \in Seq(WorkerMessages)
        /\ UNCHANGED <<workerNodes, poolFunctions, functions, process>>
    BY <1>13, <2>0, CallOperationEffect
  <2>2. OtherCallsKept(q) /\ Len(operation) \in Nat
    BY <1>13, <2>0, CallOperationEffect
  <2>3. \A p \in Calls : p <= Len(operation) => operation'[p] = operation[p]
    BY <1>13, <2>0, CallOperationEffect
  <2>4. RejectedCall(kind, name, q) \/ BroadcastCall(kind, name, q)
    BY <1>13, <2>0, CallOperationEffect
  <2>5. \A p \in Calls : p # q => promise'[p] = promise[p]
    BY <2>2 DEF OtherCallsKept
  <2>6. promise[q] = "none" /\ promise'[q] \in {"pending", "rejected"}
    <3>1. q > Len(operation)
      BY <2>0, <2>2
    <3> QED
      BY <2>1, <2>4, <3>1 DEF CallsInv, RejectedCall, BroadcastCall
  <2>7. disturbed = {} /\ CaughtUp /\ Listed' = Listed
    <3>1. disturbed \subseteq disturbed'
      BY <2>4 DEF RejectedCall, BroadcastCall
    <3> QED
      BY <1>1, <1>2, <2>1, <3>1 DEF Listed
  <2>8. \A p \in Calls : promise[p] # "none" =>
          promise'[p] = promise[p] /\ operation'[p] = operation[p]
    BY <2>3, <2>5, <2>6, CalledOperation
  <2>9. ASSUME NEW v \in Listed, NEW n \in Names, Expected(v, n)'
        PROVE  Expected(v, n)
    <3>1. ASSUME NEW p \in Pending, operation[p] = [kind |-> "add", name |-> n]
          PROVE  FALSE
      <4>1. p \in Pending' /\ operation'[p] = [kind |-> "add", name |-> n]
        BY <2>8, <3>1 DEF Pending
      <4> QED
        BY <2>9, <4>1 DEF Expected
    <3>2. ASSUME NEW r \in Calls, r > poolFunctions[n],
                 promise[r] \in {"pending", "rejected"},
                 operation[r] = [kind |-> "remove", name |-> n]
          PROVE  FALSE
      <4>1. promise'[r] \in {"pending", "rejected"}
            /\ operation'[r] = [kind |-> "remove", name |-> n]
        BY <2>8, <3>2
      <4>2. RemovalTried(n)'
        BY <2>1, <3>2, <4>1 DEF RemovalTried
      <4> QED
        BY <2>9, <4>2 DEF Expected
    <3> QED
      BY <2>1, <2>9, <3>1, <3>2 DEF Expected, RemovalTried
  <2>10. CASE RejectedCall(kind, name, q)
    <3>1. promise'[q] = "rejected" /\ toWorker' = toWorker
      BY <2>10 DEF RejectedCall
    <3>2. Pending' = Pending
      <4>1. \A p \in Calls : promise'[p] = "pending" <=> promise[p] = "pending"
        BY <2>5, <2>6, <3>1
      <4> QED
        BY <4>1 DEF Pending
    <3>3. LastPending'
      <4>1. ASSUME NEW o \in Pending, NEW p \in Calls, p > o
            PROVE  promise'[p] \in {"none", "rejected"}
        BY <2>5, <2>7, <3>1, <4>1 DEF CaughtUp, LastPending
      <4> QED
        BY <3>2, <4>1 DEF LastPending
    <3>4. ASSUME NEW v \in Listed PROVE Underway(v)'
      <4>1. Underway(v)
        BY <2>7 DEF CaughtUp
      <4> QED
        BY <2>1, <3>1, <3>2, <4>1 DEF Underway
    <3>5. ASSUME NEW v \in Listed, NEW n \in Names, Expected(v, n)'
          PROVE  Provided(v, n)'
      <4>1. Provided(v, n)
        BY <2>7, <2>9, <3>5 DEF CaughtUp
      <4> QED
        BY <2>1, <3>1, <4>1 DEF Provided, AddMessage, OperationMessage
    <3> QED
      BY <2>7, <3>3, <3>4, <3>5 DEF CaughtUp
  <2>11. CASE BroadcastCall(kind, name, q)
    <3> DEFINE m == OperationMessage(kind, name, q)
               ms == <<m>>
    <3>1. /\ promise'[q] = "pending"
          /\ \A v \in Ids : toWorker'[v] = toWorker[v] \/ toWorker'[v] = toWorker[v] \o ms
          /\ disturbed' = disturbed \cup Overlapping(q)
      BY <2>11 DEF BroadcastCall
    <3>2. Pending = {}
      BY <1>1, <3>1 DEF Overlapping
    <3>3. Pending' = {q}
      <4>1. \A p \in Calls : promise'[p] = "pending" <=> p = q
        BY <2>5, <3>1, <3>2 DEF Pending
      <4> QED
        BY <2>1, <4>1 DEF Pending
    <3>4. m.fn = q /\ DOMAIN ms = {1} /\ ms[1] = m /\ ms \in Seq(WorkerMessages)
      BY <2>1 DEF OperationMessage
    <3> HIDE DEF m, ms
    <3>5. \A a \in Items(ms) : a = m
      BY <3>4 DEF Items
    <3>6. LastPending'
      <4>1. ASSUME NEW p \in Calls, p > q PROVE promise'[p] = "none"
        <5>1. p # q /\ p > Len(operation)
          BY <2>0, <2>1, <2>2, <4>1 DEF Calls
        <5>2. promise[p] = "none"
          BY <5>1 DEF CallsInv
        <5> QED
          BY <2>5, <5>1, <5>2
      <4> QED
        BY <3>3, <4>1 DEF LastPending
    <3>7. ASSUME NEW v \in Listed
          PROVE  /\ \A a \in Items(toWorker'[v]) : a \in Items(toWorker[v]) \/ a = m
                 /\ \A a \in Items(toWorker[v]) : a \in Items(toWorker'[v])
      <4>1. v \in Ids /\ toWorker[v] \in Seq(WorkerMessages)
        BY <1>3
      <4>2. \A a : a \in Items(toWorker[v] \o ms) <=> a \in Items(toWorker[v]) \/ a \in Items(ms)
        BY <3>4, <4>1, JoinedMessages
      <4>3. toWorker'[v] = toWorker[v] \/ toWorker'[v] = toWorker[v] \o ms
        BY <3>1, <4>1
      <4> QED
        BY <3>5, <4>2, <4>3
    <3>8. ASSUME NEW v \in Listed PROVE Underway(v)'
      <4>1. ASSUME NEW a \in Items(toWorker'[v]), a.type = "operation"
            PROVE  \/ a.fn \in {q}
                   \/ a = OperationMessage("add", a.name, poolFunctions[a.name])
        <5>1. CASE a = m
          BY <3>4, <5>1
        <5>2. CASE a \in Items(toWorker[v])
          BY <2>7, <3>2, <4>1, <5>2 DEF CaughtUp, Underway
        <5> QED
          BY <3>7, <5>1, <5>2
      <4> QED
        BY <2>1, <3>3, <4>1 DEF Underway
    <3>9. ASSUME NEW v \in Listed, NEW n \in Names, Expected(v, n)'
          PROVE  Provided(v, n)'
      <4>1. Provided(v, n)
        BY <2>7, <2>9, <3>9 DEF CaughtUp
      <4>2. AddMessage(n)' = AddMessage(n)
        BY <2>1 DEF AddMessage, OperationMessage
      <4> QED
        BY <2>1, <3>7, <4>1, <4>2 DEF Provided
    <3> QED
      BY <2>7, <3>6, <3>8, <3>9 DEF CaughtUp
  <2> QED
    BY <2>4, <2>10, <2>11
<1> QED
  BY <1>4, <1>7, <1>8, <1>9, <1>10, <1>11, <1>12, <1>13 DEF Next, Progress, Kinds

-----------------------------------------------------------------------------
(* The invariants together.                                                *)

LEMMA InitIInv == Init => IInv
<1> SUFFICES ASSUME Init PROVE IInv
  OBVIOUS
<1> USE SizeAssumption
<1>1. /\ FileFunctions \in FunctionMaps
      /\ ListTaskFunctionNames(FileFunctions)
           = [default |-> FileDefault, names |-> FileNames]
      /\ FileDefault \in Names /\ Has(FileFunctions, FileDefault)
      /\ FileFunctions[FileDefault] = FileFunctions[Default]
  BY FileList
<1>2. workerNodes \in Seq(Ids) /\ DOMAIN workerNodes = 1 .. MinSize
      /\ \A i \in 1 .. MinSize : workerNodes[i] = i
  <2>1. \A i \in 1 .. MinSize : i \in Ids
    BY DEF Ids
  <2>2. workerNodes = [i \in 1 .. MinSize |-> i]
    BY DEF Init
  <2>3. [i \in 1 .. MinSize |-> i] \in Seq(Ids)
    BY <2>1, IsASeq
  <2> QED
    BY <2>2, <2>3
<1>3. Listed = 1 .. MinSize
  BY <1>2 DEF Listed
<1>4. Pending = {} /\ \A o \in Calls : promise[o] = "none"
  BY DEF Init, Pending
<1>5. Typed
  <2>7. dynamic \in [Ids -> BOOLEAN]
    BY DEF Init
  <2>8. crashed \in BOOLEAN
    BY DEF Init
  <2>1. /\ promise \in [Calls -> {"none", "pending", "resolved", "rejected"}]
        /\ listening \in [Calls -> SUBSET Ids]
        /\ received \in [Calls -> Seq(BOOLEAN)]
    BY DEF Init
  <2>5. operation \in Seq([kind : Kinds, name : Names])
    BY DEF Init
  <2>6. replaying \in [Ids -> Nat]
    BY DEF Init, None
  <2>2. /\ poolFunctions \in [Names -> {Undefined} \cup Calls]
        /\ process \in [Ids -> ProcessStates]
        /\ toWorker \in [Ids -> Seq(WorkerMessages)]
        /\ toPool \in [Ids -> Seq(PoolMessages)]
        /\ disturbed \subseteq Calls
        /\ created \in Nat /\ created <= Workers
    BY DEF Init, ProcessStates
  <2>3. functions \in [Ids -> FunctionMaps]
    BY <1>1 DEF Init
  <2>4. taskFunctionNames \in [Ids -> NameLists]
    BY NamesAssumption DEF Init, NameLists
  <2> QED
    BY <1>2, <2>1, <2>2, <2>3, <2>4, <2>5, <2>6, <2>7, <2>8 DEF Typed
<1>6. NodesInv
  <2>1. \A w \in Ids : w \in Nat /\ w >= 1
    BY DEF Ids
  <2> QED
    BY <1>2, <1>3, <2>1 DEF Init, NodesInv
<1>7. DefaultInv
  BY <1>1 DEF Init, DefaultInv
<1>8. NamesInv
  <2>1. ASSUME NEW w \in Ids, process[w] = "running"
        PROVE  Knows(toPool[w], taskFunctionNames[w], ListTaskFunctionNames(functions[w]))
    <3>1. /\ toPool[w] = <<>> /\ functions[w] = FileFunctions
          /\ taskFunctionNames[w] = [default |-> FileDefault, names |-> FileNames]
      BY <2>1 DEF Init
    <3> QED
      BY <1>1, <3>1, NothingKnown
  <2> QED
    BY <2>1 DEF NamesInv
<1>9. CallsInv
  <2>1. Len(operation) = 0
    BY DEF Init
  <2> QED
    BY <1>4, <2>1 DEF Init, CallsInv, Calls
<1>10. ReplayInv
  BY DEF Init, ReplayInv, None, Ids
<1>11. OperationsInv
  BY <1>4 DEF OperationsInv
<1>12. CatchUpInv
  <2>1. \A w \in Ids : Items(toWorker[w]) = {}
    BY DEF Init, Items
  <2>2. \A w \in Listed : Items(toWorker[w]) = {}
    BY <1>2, <2>1 DEF Listed, Ids
  <2>3. NodesCatchUp
    BY DEF Init, NodesCatchUp
  <2> QED
    BY <1>4, <2>2, <2>3 DEF CatchUpInv
<1> QED
  BY <1>5, <1>6, <1>7, <1>8, <1>9, <1>10, <1>11, <1>12 DEF IInv

LEMMA NextTyped ==
  ASSUME Typed, NodesInv, CallsInv, Next
  PROVE  Typed'
<1>1. ASSUME NEW w \in Ids, WorkerHandles(w) PROVE Typed'
  BY <1>1, WorkerHandlesEffect
<1>2. ASSUME NEW w \in Ids, WorkerDies(w) PROVE Typed'
  BY <1>2, WorkerDiesEffect
<1>3. ASSUME NEW w \in Ids, DestroyNode(w) PROVE Typed'
  BY <1>3, DestroyNodeEffect
<1>4. ASSUME NEW w \in Ids, Disconnected(w) PROVE Typed'
  BY <1>4, DisconnectedEffect
<1>5. ASSUME NEW w \in Ids, WorkerExit(w) PROVE Typed'
  BY <1>5, WorkerExitEffect
<1>6. ASSUME NEW w \in Ids, PoolHandles(w) PROVE Typed'
  BY <1>6, PoolHandlesEffect
<1>7. ASSUME CreateDynamicNode PROVE Typed'
  <2>1. PICK w : w = created + 1
    OBVIOUS
  <2> QED
    BY <1>7, <2>1, CreateDynamicNodeEffect
<1>8. ASSUME NEW kind \in Kinds, NEW name \in Names, CallOperation(kind, name)
      PROVE  Typed'
  <2>1. PICK o : o = Len(operation) + 1
    OBVIOUS
  <2> QED
    BY <1>8, <2>1, CallOperationEffect
<1> QED
  BY <1>1, <1>2, <1>3, <1>4, <1>5, <1>6, <1>7, <1>8 DEF Next, Progress, Kinds

LEMMA NextIInv == IInv /\ [Next]_vars => IInv'
<1>1. ASSUME IInv, Next PROVE IInv'
  <2>1. /\ Typed /\ NodesInv /\ DefaultInv /\ NamesInv /\ CallsInv /\ ReplayInv
        /\ OperationsInv /\ CatchUpInv /\ Next
    BY <1>1 DEF IInv
  <2>2. Typed' /\ NodesInv' /\ CallsInv'
    BY <2>1, NextTyped, NextNodes, NextCalls
  <2>3. DefaultInv' /\ NamesInv'
    BY <2>1, NextDefault, NextNames
  <2>4. ReplayInv' /\ OperationsInv'
    BY <2>1, NextReplay, NextOperations
  <2>5. CatchUpInv'
    BY <2>1, NextCatchUp
  <2> QED
    BY <2>2, <2>3, <2>4, <2>5 DEF IInv
<1>2. ASSUME IInv, UNCHANGED vars PROVE IInv'
  <2> USE <1>2 DEF vars, nodeVars, operationVars, replayVars, IInv
  <2>1. Typed'
    BY DEF Typed
  <2>2. Listed' = Listed /\ Pending' = Pending
    BY DEF Listed, Pending
  <2>3. NodesInv' /\ DefaultInv' /\ NamesInv' /\ CallsInv'
    BY <2>2 DEF NodesInv, DefaultInv, NamesInv, CallsInv
  <2>4. CrashOnlyAfterRemoval' <=> CrashOnlyAfterRemoval
    BY <2>2 DEF CrashOnlyAfterRemoval
  <2>5. ReplayInv'
    BY <2>4 DEF ReplayInv
  <2>6. \A o, w : /\ Done(w, o)' <=> Done(w, o)
                  /\ Asks(o)' = Asks(o)
    BY DEF Done, Asks
  <2>7. \A o, w : /\ Asked(w, o)' <=> Asked(w, o)
                  /\ Counted(w, o)' <=> Counted(w, o)
    BY <2>6 DEF Asked, Counted
  <2>8. \A o : OperationInv(o)' <=> OperationInv(o)
    BY <2>2, <2>7 DEF OperationInv
  <2>9. OperationsInv'
    BY <2>2, <2>8 DEF OperationsInv
  <2>10. NodesCatchUp' <=> NodesCatchUp
    BY <2>2 DEF NodesCatchUp, RemovalTried
  <2>11. CatchUpInv'
    BY <2>2, <2>10 DEF CatchUpInv
  <2> QED
    BY <2>1, <2>3, <2>5, <2>9, <2>11 DEF IInv
<1> QED
  BY <1>1, <1>2

-----------------------------------------------------------------------------
(* The theorems.                                                           *)

\* The invariant of the theorems below.
THEOREM IInvAlways == Spec => []IInv
BY InitIInv, NextIInv, PTL DEF Spec

\* Whatever functions are added, replaced, removed and made the default, in any
\* order, each worker's default function keeps a name, and the counts of
\* answers and the positions stay what they are declared.
THEOREM TypesKept == Spec => []TypeOK
<1>1. IInv => TypeOK
  BY DEF IInv, Typed, DefaultInv, TypeOK
<1> QED
  BY <1>1, IInvAlways, PTL

\* What the pool has on record of the functions of a live worker is what the
\* worker has, once the messages under way have arrived.
THEOREM NamesAlwaysFollow == Spec => []NamesFollow
<1>1. IInv => NamesFollow
  <2> SUFFICES ASSUME IInv, NEW w \in Listed, Live(w)
               PROVE  LET last == IF Told(toPool[w]) = {} THEN taskFunctionNames[w]
                                  ELSE toPool[w][CHOOSE i \in Told(toPool[w]) :
                                         \A j \in Told(toPool[w]) : j <= i].names
                      IN  last = ListTaskFunctionNames(functions[w])
    BY DEF NamesFollow, Told
  <2> DEFINE s == toPool[w]
             known == taskFunctionNames[w]
             names == ListTaskFunctionNames(functions[w])
  <2>1. Knows(s, known, names)
    <3>1. w \in Ids /\ process[w] = "running" /\ NamesInv
      BY NodesListed DEF IInv, Live
    <3> QED
      BY <3>1 DEF NamesInv
  <2>2. Told(s) \subseteq Nat
    <3>1. s \in Seq(PoolMessages)
      BY NodesListed DEF IInv, Typed
    <3> HIDE DEF s
    <3>2. DOMAIN s = 1 .. Len(s) /\ Len(s) \in Nat
      BY <3>1, LenProperties
    <3> QED
      BY <3>2 DEF Told
  <2> HIDE DEF s, known, names
  <2>3. (IF Told(s) = {} THEN known
         ELSE s[CHOOSE i \in Told(s) : \A j \in Told(s) : j <= i].names) = names
    <3>1. CASE Told(s) = {}
      BY <2>1, <3>1 DEF Knows
    <3>2. CASE Told(s) # {}
      <4>1. PICK i \in Told(s) : names = s[i].names /\ \A j \in Told(s) : j <= i
        BY <2>1, <3>2 DEF Knows
      <4>2. \A k \in Told(s) : (\A j \in Told(s) : j <= k) => k = i
        BY <2>2, <4>1
      <4>3. (CHOOSE k \in Told(s) : \A j \in Told(s) : j <= k) = i
        BY <4>1, <4>2
      <4> QED
        BY <3>2, <4>1, <4>3
    <3> QED
      BY <3>1, <3>2
  <2> QED
    BY <2>3 DEF s, known, names
<1> QED
  BY <1>1, IInvAlways, PTL

\* Wherever the creation and the death of a node fall between operations, it
\* has or is about to get the functions the pool has added.
THEOREM NodesAlwaysCatchUp == Spec => []NodesCatchUp
<1>1. IInv => NodesCatchUp
  BY DEF IInv, CatchUpInv, NodesCatchUp
<1> QED
  BY <1>1, IInvAlways, PTL

\* Only the removal of a node that was in the array before a dynamic one lets
\* the listener of its replayed functions end the pool's process.
THEOREM CrashAlwaysAfterRemoval == Spec => []CrashOnlyAfterRemoval
<1>1. IInv => CrashOnlyAfterRemoval
  BY DEF IInv, ReplayInv, CrashOnlyAfterRemoval
<1> QED
  BY <1>1, IInvAlways, PTL

\* An operation that resolves, the count of its answers not upset, has been
\* carried out by every worker.
THEOREM ResolvedAlwaysMeansDone == Spec => ResolvedMeansDone
<1> DEFINE DoneWhenResolved ==
             \A o \in Calls :
               promise[o] = "pending" /\ promise'[o] = "resolved" /\ o \notin disturbed =>
                 \A w \in Listed : Done(w, o)
<1>1. IInv /\ [Next]_vars => [DoneWhenResolved]_vars
  <2> SUFFICES ASSUME IInv, Next, NEW o \in Calls, promise[o] = "pending",
                      promise'[o] = "resolved", o \notin disturbed
               PROVE  \A v \in Listed : Done(v, o)
    OBVIOUS
  <2>1. Typed /\ NodesInv /\ CallsInv /\ OperationInv(o)
    BY DEF IInv, OperationsInv, Pending
  <2>2. promise' # promise
    OBVIOUS
  <2>3. ASSUME NEW kind \in Kinds, NEW name \in Names, CallOperation(kind, name)
        PROVE  FALSE
    <3>1. promise \in [Calls -> {"none", "pending", "resolved", "rejected"}]
      BY <2>1 DEF Typed
    <3>2. \E p, value : /\ value \in {"pending", "rejected"}
                        /\ promise' = [promise EXCEPT ![p] = value]
      BY <2>3 DEF CallOperation, Broadcast
    <3> QED
      BY <3>1, <3>2
  <2>4. ASSUME NEW w \in Ids, PoolHandles(w)
        PROVE  \A v \in Listed : Done(v, o)
    <3>1. PICK m : m = toPool[w][1]
      OBVIOUS
    <3>2. /\ toPool[w] # <<>>
          /\ m.type = "status" /\ m.ok \in BOOLEAN /\ StatusReceived(w, m.ok)
      BY <2>1, <2>2, <2>4, <3>1, PoolHandlesEffect
    <3>3. promise'[o] = IF Resolves(o, w, m.ok) THEN "resolved"
                        ELSE IF Settles(o, w, m.ok) THEN "rejected" ELSE promise[o]
      BY <2>1, <3>2, StatusReceivedEffect
    <3>4. Resolves(o, w, m.ok) /\ Settles(o, w, m.ok)
      BY <3>3 DEF Resolves
    <3> QED
      BY <2>1, <3>1, <3>2, <3>4, LastAnswer
  <2>5. ASSUME NEW w \in Ids,
               \/ WorkerHandles(w) \/ WorkerDies(w) \/ DestroyNode(w)
               \/ Disconnected(w) \/ WorkerExit(w)
        PROVE  FALSE
    BY <2>2, <2>5 DEF WorkerHandles, WorkerDies, DestroyNode, Disconnected,
                      WorkerExit, operationVars
  <2>6. CASE CreateDynamicNode
    BY <2>2, <2>6 DEF CreateDynamicNode, operationVars
  <2> QED
    BY <2>3, <2>4, <2>5, <2>6 DEF Next, Progress, Kinds
<1> QED
  BY <1>1, IInvAlways, PTL DEF Spec, ResolvedMeansDone
=============================================================================
