----------------------- MODULE ChoiceStrategiesProofs -----------------------
(***************************************************************************)
(* Theorems about ChoiceStrategies, for any number of nodes and changes:   *)
(* execute() returns the key of a node, least used keeps nodes level, and  *)
(* fair share does not forget.                                             *)
(***************************************************************************)
EXTENDS ChoiceStrategies, SequenceTheorems, FiniteSetTheorems,
        WellFoundedInduction, TLAPS

Interleaved == "INTERLEAVED_WEIGHTED_ROUND_ROBIN"

-----------------------------------------------------------------------------
(* The inductive invariant.                                                *)

Nodes == [executed : Nat, failed : Nat, executing : Nat, inFlight : Nat,
          busy : Nat, elu : Nat, runTime : Nat, end : Nat \cup {Absent}]

Typed ==
  /\ strategy \in Strategies /\ weights \in WeightOptions
  /\ retriesCount \in 0 .. Retries
  /\ nextWorkerNodeKey \in Nat /\ virtualTaskRunTime \in Nat
  /\ roundId \in Nat /\ workerNodeId \in Nat
  /\ workerNodes \in Seq(Nodes) /\ workerNodes # <<>> /\ Length <= MaxNodes
  /\ now \in Nat

\* A strategy that takes turns looks at a node next, and the interleaved one is
\* in its first round; where it found no node, it is at the first one.
TurnsInv ==
  ~strayed =>
    /\ strategy \in {"ROUND_ROBIN", "WEIGHTED_ROUND_ROBIN"} => nextWorkerNodeKey \in Keys
    /\ strategy = Interleaved =>
         /\ workerNodeId \in Keys /\ roundId = 0
         /\ retriesCount # 0 => workerNodeId = 0

\* Usages count the tasks there are.
BalanceInv ==
  strategy = "LEAST_USED" /\ ~disturbed =>
    /\ \A k \in Keys : NodeAt(k).executing = NodeAt(k).inFlight
    /\ LeastUsedBalances

IInv == Typed /\ TurnsInv /\ BalanceInv

-----------------------------------------------------------------------------
(* Weights and rounds.                                                     *)

LEMMA SmallestElement ==
  ASSUME NEW S \in SUBSET Nat, S # {}
  PROVE  \E m \in S : \A n \in S : m <= n
<1>1. \E m \in S : \A n \in S : ~ (<<n, m>> \in OpToRel(<, Nat))
  BY NatLessThanWellFounded, WFMin
<1>2. \A m, n \in Nat : <<n, m>> \in OpToRel(<, Nat) <=> n < m
  BY DEF OpToRel
<1>3. PICK m \in S : \A n \in S : ~ (<<n, m>> \in OpToRel(<, Nat))
  BY <1>1
<1>4. ASSUME NEW n \in S PROVE m <= n
  <2>1. m \in Nat /\ n \in Nat /\ ~ (n < m)
    BY <1>2, <1>3
  <2> QED
    BY <2>1
<1> QED
  BY <1>4

\* The weights given are as many as there may be nodes.
LEMMA WeightsGiven ==
  ASSUME NEW w \in WeightOptions
  PROVE  \/ w = NoWeights /\ DOMAIN w = {}
         \/ w # NoWeights /\ w \in [0 .. MaxNodes - 1 -> Weights]
<1> USE NodesAssumption
<1>1. CASE w = NoWeights
  BY <1>1 DEF NoWeights
<1>2. CASE w # NoWeights
  <2>1. PICK n \in 0 .. MaxNodes : w \in [0 .. n -> Weights]
    BY <1>2 DEF WeightOptions, GivenWeights
  <2>2. Cardinality(DOMAIN w) = MaxNodes
    BY <1>2 DEF WeightOptions, ValidWorkerChoiceStrategyOptions
  <2>3. Cardinality(0 .. n) = n + 1
    <3>1. 0 \in Int /\ n \in Int /\ ~(0 > n)
      BY <2>1
    <3>2. Cardinality(0 .. n) = IF 0 > n THEN 0 ELSE n - 0 + 1
      BY ONLY <3>1, FS_Interval
    <3> QED
      BY <3>1, <3>2
  <2>4. DOMAIN w = 0 .. n
    BY <2>1
  <2>5. n = MaxNodes - 1
    BY <2>1, <2>2, <2>3, <2>4
  <2> QED
    BY <1>2, <2>1, <2>5
<1> QED
  BY <1>1, <1>2

LEMMA RoundWeights ==
  ASSUME NEW w \in WeightOptions
  PROVE  /\ RoundWeightSet(w) \subseteq Nat \ {0} /\ RoundWeightSet(w) # {}
         /\ IsFiniteSet(RoundWeightSet(w))
         /\ RoundCount(w) \in Nat \ {0}
<1> USE NodesAssumption, ValueAssumption
<1>1. /\ RoundWeightSet(w) \subseteq Nat \ {0} /\ RoundWeightSet(w) # {}
      /\ IsFiniteSet(RoundWeightSet(w))
  <2>1. CASE w = NoWeights
    <3>1. RoundWeightSet(w) = {DefaultWeight}
      BY <2>1 DEF RoundWeightSet
    <3>2. IsFiniteSet({DefaultWeight})
      BY FS_Singleton
    <3> QED
      BY <3>1, <3>2
  <2>2. CASE w # NoWeights
    <3> DEFINE D == 0 .. MaxNodes - 1
    <3>1. w \in [D -> Weights]
      BY <2>2, WeightsGiven
    <3>2. RoundWeightSet(w) = {w[key] : key \in D}
      BY <2>2, <3>1 DEF RoundWeightSet
    <3>3. w \in Surjection(D, RoundWeightSet(w))
      BY <3>1, <3>2 DEF Surjection
    <3>4. IsFiniteSet(D)
      <4>1. 0 \in Int /\ MaxNodes - 1 \in Int
        OBVIOUS
      <4>2. IsFiniteSet(0 .. MaxNodes - 1)
        BY ONLY <4>1, FS_Interval
      <4> QED
        BY <4>2
    <3>5. 0 \in D
      OBVIOUS
    <3> HIDE DEF D
    <3>6. IsFiniteSet(RoundWeightSet(w))
      BY <3>3, <3>4, FS_Surjection
    <3> QED
      BY <3>1, <3>2, <3>5, <3>6
  <2> QED
    BY <2>1, <2>2
<1>2. RoundCount(w) \in Nat /\ RoundCount(w) # 0
  BY <1>1, FS_CardinalityType, FS_EmptySet DEF RoundCount
<1> QED
  BY <1>1, <1>2

\* The weight of a node is one of the rounds', and no less than that of the
\* first round.
LEMMA FirstRoundFits ==
  ASSUME Typed, NEW k \in Keys
  PROVE  /\ Weight(k) \in Nat \ {0}
         /\ Weight(k) >= RoundWeight(0)
<1> USE NodesAssumption, ValueAssumption
<1> DEFINE S == RoundWeightSet(weights)
<1>1. weights \in WeightOptions /\ k \in 0 .. MaxNodes - 1
  BY LenProperties DEF Typed, Keys, Length
<1>2. Weight(k) \in S
  <2>1. CASE weights = NoWeights /\ DOMAIN weights = {}
    BY <2>1 DEF Weight, RoundWeightSet
  <2>2. CASE weights # NoWeights /\ weights \in [0 .. MaxNodes - 1 -> Weights]
    BY <1>1, <2>2 DEF Weight, RoundWeightSet
  <2> QED
    BY <1>1, <2>1, <2>2, WeightsGiven
<1>3. S \subseteq Nat \ {0} /\ S # {} /\ IsFiniteSet(S)
  BY <1>1, RoundWeights
<1>4. RoundWeight(0) = CHOOSE w \in S : Cardinality({v \in S : v < w}) = 0
  BY DEF RoundWeight
<1> HIDE DEF S
<1>5. \E w \in S : Cardinality({v \in S : v < w}) = 0
  <2>1. PICK m \in S : \A n \in S : m <= n
    BY <1>3, SmallestElement
  <2>2. {v \in S : v < m} = {}
    <3>1. ASSUME NEW v \in S PROVE ~(v < m)
      <4>1. v \in Nat /\ m \in Nat /\ m <= v
        BY <1>3, <2>1
      <4> QED
        BY <4>1
    <3> QED
      BY <3>1
  <2> QED
    BY <2>2, FS_EmptySet
<1>6. PICK r : r = RoundWeight(0)
  OBVIOUS
<1>7. r \in S /\ Cardinality({v \in S : v < r}) = 0
  BY <1>4, <1>5, <1>6
<1>8. {v \in S : v < r} = {}
  <2>1. IsFiniteSet({v \in S : v < r})
    BY <1>3, FS_Subset
  <2> QED
    BY <1>7, <2>1, FS_EmptySet
<1>9. Weight(k) >= r
  <2>1. Weight(k) \in Nat /\ r \in Nat /\ ~(Weight(k) < r)
    BY <1>2, <1>3, <1>7, <1>8
  <2> QED
    BY <2>1
<1> QED
  BY <1>2, <1>3, <1>6, <1>9

-----------------------------------------------------------------------------
(* Keys, and the least of what nodes are compared by.                      *)

LEMMA KeysListed ==
  ASSUME Typed
  PROVE  /\ Length \in Nat \ {0} /\ Length <= MaxNodes
         /\ DOMAIN workerNodes = 1 .. Length
         /\ Keys \subseteq Nat /\ 0 \in Keys
         /\ \A k \in Nat : k \in Keys <=> k < Length
         /\ \A k \in Keys : k + 1 \in DOMAIN workerNodes /\ NodeAt(k) \in Nodes
         /\ \A i \in DOMAIN workerNodes : i - 1 \in Keys /\ workerNodes[i] \in Nodes
<1>1. workerNodes \in Seq(Nodes) /\ workerNodes # <<>>
  BY DEF Typed
<1>2. /\ Length \in Nat \ {0} /\ DOMAIN workerNodes = 1 .. Length
  BY <1>1, LenProperties, EmptySeq DEF Length
<1>3. \A i \in 1 .. Length : workerNodes[i] \in Nodes
  BY <1>1, ElementOfSeq DEF Length
<1> QED
  BY <1>2, <1>3 DEF Typed, Keys, NodeAt

LEMMA LeastListed ==
  ASSUME Typed, NEW value, \A k \in Keys : value[k] \in Nat
  PROVE  /\ LeastKey(value) \in Keys
         /\ \A j \in Keys : value[LeastKey(value)] <= value[j]
<1>1. Keys \subseteq Nat /\ 0 \in Keys
  BY KeysListed
<1> DEFINE V == {value[k] : k \in Keys}
<1>2. V \in SUBSET Nat /\ V # {}
  BY <1>1
<1>3. PICK v \in V : \A u \in V : v <= u
  BY <1>2, SmallestElement
<1> DEFINE S == {k \in Keys : value[k] = v}
<1>4. S \in SUBSET Nat /\ S # {}
  BY <1>1, <1>3
<1> HIDE DEF S
<1>5. PICK k \in S : \A j \in S : k <= j
  BY <1>4, SmallestElement
<1>6. k \in Keys /\ value[k] = v
  BY <1>5 DEF S
<1>7. \A j \in Keys : value[k] < value[j] \/ (value[k] = value[j] /\ k <= j)
  <2>1. ASSUME NEW j \in Keys
        PROVE  value[k] < value[j] \/ (value[k] = value[j] /\ k <= j)
    <3>1. value[k] <= value[j] /\ value[k] \in Nat /\ value[j] \in Nat
      BY <1>3, <1>6
    <3>2. CASE value[j] = v
      BY <1>5, <1>6, <3>2 DEF S
    <3>3. CASE value[j] # v
      BY <1>6, <3>1, <3>3
    <3> QED
      BY <3>2, <3>3
  <2> QED
    BY <2>1
<1>8. PICK l : l = LeastKey(value)
  OBVIOUS
<1>9. /\ l \in Keys
      /\ \A j \in Keys : value[l] < value[j] \/ (value[l] = value[j] /\ l <= j)
  BY <1>6, <1>7, <1>8 DEF LeastKey
<1>10. \A j \in Keys : value[l] <= value[j]
  <2>1. ASSUME NEW j \in Keys PROVE value[l] <= value[j]
    <3>1. value[l] \in Nat /\ value[j] \in Nat
      BY <1>9
    <3>2. value[l] < value[j] \/ value[l] = value[j]
      BY <1>9
    <3> QED
      BY <3>1, <3>2
  <2> QED
    BY <2>1
<1> QED
  BY <1>8, <1>9, <1>10

-----------------------------------------------------------------------------
(* The interleaved strategy.                                               *)

Choices == [key : Nat \cup {Absent, Thrown}, next : Nat, virtual : Nat,
            round : Nat, id : Nat]

LEMMA PositionsOf ==
  ASSUME Typed, NEW c \in Choices, c.id < Length, c.round < RoundCount(weights),
         NEW n, n = Length - c.id, NEW m, m = RoundCount(weights) - 1 - c.round
  PROVE  /\ n \in Nat \ {0} /\ m \in Nat /\ Len(Positions(c)) = n + m
         /\ \A i \in 1 .. n :
              Positions(c)[i] = [round |-> c.round, key |-> c.id + i - 1]
         /\ \A i \in n + 1 .. n + m :
              Positions(c)[i] = [round |-> c.round + (i - n), key |-> Length - 1]
<1> DEFINE R == [round : Nat, key : Nat]
           s == [i \in 1 .. n |-> [round |-> c.round, key |-> c.id + i - 1]]
           t == [i \in 1 .. m |-> [round |-> c.round + i, key |-> Length - 1]]
<1>1. Length \in Nat \ {0} /\ RoundCount(weights) \in Nat \ {0}
  BY KeysListed, RoundWeights DEF Typed
<1>2. n \in Nat \ {0} /\ m \in Nat /\ c.id \in Nat /\ c.round \in Nat
  BY <1>1 DEF Choices
<1>3. Positions(c) = s \o t
  <2>1. ~(c.id >= Length)
    BY <1>1, <1>2
  <2> QED
    BY <2>1, Zenon DEF Positions
<1>4. \A i \in 1 .. n : [round |-> c.round, key |-> c.id + i - 1] \in R
  BY <1>2
<1>5. \A i \in 1 .. m : [round |-> c.round + i, key |-> Length - 1] \in R
  BY <1>1, <1>2
<1>6. s \in Seq(R) /\ Len(s) = n
  <2> HIDE DEF R
  <2> QED
    BY <1>2, <1>4, IsASeq, LenProperties
<1>7. t \in Seq(R) /\ Len(t) = m
  <2> HIDE DEF R
  <2> QED
    BY <1>2, <1>5, IsASeq, LenProperties
<1>8. /\ \A i \in 1 .. n : s[i] = [round |-> c.round, key |-> c.id + i - 1]
      /\ \A i \in 1 .. m : t[i] = [round |-> c.round + i, key |-> Length - 1]
  OBVIOUS
<1> HIDE DEF R, s, t
<1>9. /\ Len(s \o t) = n + m
      /\ \A i \in 1 .. n + m : (s \o t)[i] = IF i <= n THEN s[i] ELSE t[i - n]
  <2>1. s \in Seq(R) /\ t \in Seq(R)
    BY <1>6, <1>7
  <2>2. /\ Len(s \o t) = Len(s) + Len(t)
        /\ \A i \in 1 .. Len(s) + Len(t) :
             (s \o t)[i] = IF i <= Len(s) THEN s[i] ELSE t[i - Len(s)]
    BY ONLY <2>1, ConcatProperties
  <2> QED
    BY <1>6, <1>7, <2>2
<1>10. \A i \in n + 1 .. n + m : i - n \in 1 .. m /\ ~(i <= n) /\ i \in 1 .. n + m
  BY <1>2
<1>11. \A i \in 1 .. n :
         Positions(c)[i] = [round |-> c.round, key |-> c.id + i - 1]
  <2>1. \A i \in 1 .. n : i \in 1 .. n + m /\ i <= n
    BY <1>2
  <2> QED
    BY <1>3, <1>8, <1>9, <2>1
<1>12. \A i \in n + 1 .. n + m :
         Positions(c)[i] = [round |-> c.round + (i - n), key |-> Length - 1]
  BY <1>3, <1>8, <1>9, <1>10
<1> QED
  BY <1>2, <1>3, <1>9, <1>11, <1>12

\* Every position is one of a node; the first ones are all the nodes from the one
\* looked at last, and after them only the last node comes again.
LEMMA PositionsListed ==
  ASSUME Typed, NEW c \in Choices, NEW p, p = Positions(c),
         c.round < RoundCount(weights)
  PROVE  /\ Len(p) \in Nat
         /\ \A i \in 1 .. Len(p) : p[i].key \in Keys /\ p[i].round \in Nat
         /\ c.id \in Keys => \E n \in 1 .. Len(p) :
              /\ n = Length - c.id
              /\ \A i \in 1 .. n : p[i].key = c.id + i - 1 /\ p[i].round = c.round
              /\ \A i \in 1 .. Len(p) : i >= n => p[i].key = Length - 1
<1>1. Length \in Nat \ {0} /\ \A k \in Nat : k \in Keys <=> k < Length
  BY KeysListed
<1>2. c.id \in Nat /\ c.round \in Nat
  BY DEF Choices
<1>3. CASE c.id >= Length
  <2>1. p = <<>>
    BY <1>3 DEF Positions
  <2>2. c.id \notin Keys
    BY <1>1, <1>2, <1>3
  <2> QED
    BY <2>1, <2>2
<1>4. CASE c.id < Length
  <2>1. PICK n, m : n = Length - c.id /\ m = RoundCount(weights) - 1 - c.round
    OBVIOUS
  <2>2. /\ n \in Nat \ {0} /\ m \in Nat /\ Len(p) = n + m
        /\ \A i \in 1 .. n : p[i] = [round |-> c.round, key |-> c.id + i - 1]
        /\ \A i \in n + 1 .. n + m :
             p[i] = [round |-> c.round + (i - n), key |-> Length - 1]
    BY <1>4, <2>1, PositionsOf
  <2>3. ASSUME NEW i \in 1 .. n
        PROVE  p[i].key = c.id + i - 1 /\ p[i].round = c.round
    <3> DEFINE k == c.id + i - 1
    <3>1. p[i] = [round |-> c.round, key |-> k]
      BY <2>2
    <3> HIDE DEF k
    <3>2. p[i].key = k /\ p[i].round = c.round
      BY <3>1
    <3> QED
      BY <3>2 DEF k
  <2>4. ASSUME NEW i \in n + 1 .. n + m
        PROVE  p[i].key = Length - 1 /\ p[i].round = c.round + (i - n)
    <3> DEFINE k == Length - 1
               r == c.round + (i - n)
    <3>1. p[i] = [round |-> r, key |-> k]
      BY <2>2
    <3> HIDE DEF k, r
    <3>2. p[i].key = k /\ p[i].round = r
      BY <3>1
    <3> QED
      BY <3>2 DEF k, r
  <2>5. ASSUME NEW i \in 1 .. n + m
        PROVE  /\ p[i].key \in Keys /\ p[i].round \in Nat
               /\ i >= n => p[i].key = Length - 1
    <3>1. PICK a \in Nat, b \in Nat, l \in Nat \ {0} :
            a = c.id /\ b = c.round /\ l = Length
      BY <1>1, <1>2
    <3>2. n = l - a /\ n \in Nat /\ m \in Nat /\ i \in 1 .. n + m
      <4>1. n = l - a /\ n \in Nat /\ m \in Nat
        BY ONLY <2>1, <2>2, <3>1
      <4> QED
        BY <4>1
    <3>3. \A k \in Nat : k < l => k \in Keys
      BY <1>1, <3>1
    <3>4. CASE i \in 1 .. n
      <4>1. p[i].key = a + i - 1 /\ p[i].round = b
        BY <2>3, <3>1, <3>4
      <4>2. a + i - 1 \in Nat /\ a + i - 1 < l /\ (i >= n => a + i - 1 = l - 1)
        BY ONLY <3>1, <3>2, <3>4
      <4>3. a + i - 1 \in Keys
        BY ONLY <3>3, <4>2
      <4> QED
        BY <3>1, <4>1, <4>2, <4>3
    <3>5. CASE i \in n + 1 .. n + m
      <4>1. p[i].key = l - 1 /\ p[i].round = b + (i - n)
        BY <2>4, <3>1, <3>5
      <4>2. l - 1 \in Nat /\ l - 1 < l /\ b + (i - n) \in Nat
        BY ONLY <3>1, <3>2, <3>5
      <4>3. l - 1 \in Keys
        BY ONLY <3>3, <4>2
      <4> QED
        BY <3>1, <4>1, <4>2, <4>3
    <3>6. i \in 1 .. n \/ i \in n + 1 .. n + m
      BY ONLY <3>2
    <3> QED
      BY <3>4, <3>5, <3>6
  <2>6. n \in 1 .. n + m /\ n + m \in Nat
    BY <2>2
  <2>7. /\ n \in 1 .. Len(p) /\ n = Length - c.id /\ Len(p) \in Nat
        /\ \A i \in 1 .. n : p[i].key = c.id + i - 1 /\ p[i].round = c.round
        /\ \A i \in 1 .. Len(p) : i >= n => p[i].key = Length - 1
        /\ \A i \in 1 .. Len(p) : p[i].key \in Keys /\ p[i].round \in Nat
    BY <2>1, <2>2, <2>3, <2>5, <2>6
  <2> HIDE DEF Length
  <2> QED
    BY <2>7
<1> QED
  BY <1>1, <1>2, <1>3, <1>4

LEMMA VirtualReset ==
  ASSUME NEW c \in Choices, NEW p, NEW i
  PROVE  /\ VirtualAt(c, p, i) \in Nat
         /\ (\E j \in 1 .. i : p[j].key # c.next) => VirtualAt(c, p, i) = 0
BY DEF VirtualAt, Choices

LEMMA NextIdKept ==
  ASSUME Typed, NEW g \in Choices
  PROVE  NextId(g) \in Choices /\ NextId(g).key = g.key
<1>1. RoundCount(weights) \in Nat \ {0}
  BY RoundWeights DEF Typed
<1>2. g.id \in Nat /\ g.round \in Nat
  BY DEF Choices
<1>3. ASSUME NEW a \in Nat, NEW b \in Nat
      PROVE  /\ [g EXCEPT !.id = a, !.round = b] \in Choices
             /\ [g EXCEPT !.id = a, !.round = b].key = g.key
  BY DEF Choices
<1>4. \E a, b \in Nat : NextId(g) = [g EXCEPT !.id = a, !.round = b]
  <2>1. CASE g.id # Length - 1
    <3>1. NextId(g) = [g EXCEPT !.id = g.id + 1, !.round = g.round]
      BY <2>1 DEF NextId, Choices
    <3>2. g.id + 1 \in Nat
      BY <1>2
    <3> QED
      BY <1>2, <3>1, <3>2, Zenon
  <2>2. CASE g.id = Length - 1
    <3> DEFINE b == IF g.round = RoundCount(weights) - 1 THEN 0 ELSE g.round + 1
    <3>1. NextId(g) = [g EXCEPT !.id = 0, !.round = b]
      BY <2>2 DEF NextId, Choices
    <3>2. b \in Nat
      BY <1>1, <1>2
    <3> HIDE DEF b
    <3> QED
      BY <3>1, <3>2
  <2> QED
    BY <2>1, <2>2
<1>5. PICK a \in Nat, b \in Nat : NextId(g) = [g EXCEPT !.id = a, !.round = b]
  BY <1>4
<1> DEFINE h == [g EXCEPT !.id = a, !.round = b]
<1>6. h \in Choices /\ h.key = g.key
  BY <1>3
<1>7. NextId(g) = h
  BY <1>5
<1> HIDE DEF h
<1> QED
  BY <1>6, <1>7

\* The first position that fits, or none.
LEMMA InterleavedChoice ==
  ASSUME Typed, NEW c \in Choices, NEW d, d = InterleavedWeightedRoundRobin(c)
  PROVE  /\ d \in Choices /\ d.key \in Keys \cup {Absent}
         /\ c.round = 0 /\ c.id \in Keys =>
              /\ d.round = 0
              /\ d.key \in Keys => d.id = d.key
              /\ d.key = Absent => d.id = 0
              /\ c.id = 0 /\ Length > 1 => d.key \in Keys
<1> DEFINE count == RoundCount(weights)
           p == IF c.round < count THEN Positions(c) ELSE <<>>
           last == Len(p)
           Fits(i) == /\ Weight(p[i].key) >= RoundWeight(p[i].round)
                      /\ VirtualAt(c, p, i) < Weight(p[i].key)
           first == CHOOSE i \in 1 .. last : Fits(i) /\ \A j \in 1 .. i - 1 : ~Fits(j)
           lastRound == IF c.round < count THEN count - 1 ELSE c.round
           gone == [c EXCEPT !.key = Absent, !.virtual = VirtualAt(c, p, last),
                             !.round = lastRound,
                             !.id = IF last = 0 THEN @ ELSE Length - 1]
<1>1. d = IF \E i \in 1 .. last : Fits(i)
            THEN Choice(p[first].key, p[first].key,
                        VirtualAt(c, p, first) + MeasuredTime(NodeAt(p[first].key)),
                        p[first].round, p[first].key)
            ELSE NextId(gone)
  BY DEF InterleavedWeightedRoundRobin
<1>2. /\ Length \in Nat \ {0} /\ 0 \in Keys /\ Keys \subseteq Nat
      /\ \A k \in Nat : k \in Keys <=> k < Length
      /\ \A k \in Keys : NodeAt(k) \in Nodes
  BY KeysListed
<1>3. count \in Nat \ {0}
  BY RoundWeights DEF Typed
<1>4. c.id \in Nat /\ c.round \in Nat /\ c.next \in Nat /\ c.virtual \in Nat
  BY DEF Choices
<1>5. /\ last \in Nat
      /\ \A i \in 1 .. last : p[i].key \in Keys /\ p[i].round \in Nat
  <2>1. CASE c.round < count
    BY <2>1, PositionsListed
  <2>2. CASE ~(c.round < count)
    BY <2>2
  <2> QED
    BY <2>1, <2>2
<1>6. \A i : VirtualAt(c, p, i) \in Nat
  BY VirtualReset
<1>7. ASSUME NEW f \in 1 .. last, Fits(f)
      PROVE  first \in 1 .. last /\ Fits(first) /\ \A j \in 1 .. first - 1 : ~Fits(j)
  <2> DEFINE S == {i \in 1 .. last : Fits(i)}
  <2>1. S \in SUBSET Nat /\ S # {}
    BY <1>5, <1>7
  <2>2. PICK g \in S : \A j \in S : g <= j
    BY <2>1, SmallestElement
  <2>3. g \in 1 .. last /\ Fits(g)
    OBVIOUS
  <2>4. \A j \in 1 .. g - 1 : ~Fits(j)
    <3>1. ASSUME NEW j \in 1 .. g - 1, Fits(j) PROVE FALSE
      <4>1. j \in 1 .. last /\ ~(g <= j)
        BY <1>5, <2>3
      <4> QED
        BY <2>2, <3>1, <4>1
    <3> QED
      BY <3>1
  <2> HIDE DEF Fits
  <2> QED
    BY <2>3, <2>4
<1>8. count - 1 \in Nat /\ lastRound \in Nat /\ Length - 1 \in Nat
  BY <1>2, <1>3, <1>4
<1>9. /\ gone \in Choices /\ gone.key = Absent /\ gone.round = lastRound
      /\ gone.id = IF last = 0 THEN c.id ELSE Length - 1
  <2> DEFINE v == VirtualAt(c, p, last)
             id == IF last = 0 THEN c.id ELSE Length - 1
  <2>1. v \in Nat /\ id \in Nat
    BY <1>4, <1>6, <1>8
  <2>2. gone = [c EXCEPT !.key = Absent, !.virtual = v, !.round = lastRound, !.id = id]
    BY DEF Choices
  <2> HIDE DEF v, lastRound, gone
  <2>3. gone \in Choices /\ gone.key = Absent /\ gone.round = lastRound /\ gone.id = id
    <3> HIDE DEF id
    <3> QED
      BY <1>8, <2>1, <2>2 DEF Choices
  <2> QED
    BY <2>3
<1>10. NextId(gone) \in Choices /\ NextId(gone).key = Absent
  <2> HIDE DEF gone
  <2> QED
    BY <1>9, NextIdKept

<1>11. ASSUME NEW f \in 1 .. last, Fits(f)
       PROVE  /\ d \in Choices /\ d.key \in Keys /\ d.id = d.key
              /\ d.round = p[first].round
  <2>1. first \in 1 .. last
    BY <1>7, <1>11
  <2> DEFINE k == p[first].key
             v == VirtualAt(c, p, first) + MeasuredTime(NodeAt(k))
             r == p[first].round
  <2>2. k \in Keys /\ r \in Nat
    BY <1>5, <2>1
  <2>3. v \in Nat
    <3> DEFINE a == VirtualAt(c, p, first)
               b == MeasuredTime(NodeAt(k))
    <3>1. a \in Nat
      BY <1>6
    <3>2. NodeAt(k) \in Nodes
      BY <1>2, <2>2
    <3> HIDE DEF k
    <3>3. b \in Nat
      BY <3>2 DEF MeasuredTime, Nodes
    <3> HIDE DEF a, b
    <3>4. a + b \in Nat
      BY <3>1, <3>3
    <3> QED
      BY <3>4 DEF a, b, k
  <2>4. d = Choice(k, k, v, r, k)
    BY <1>1, <1>11
  <2> HIDE DEF k, v, r
  <2>5. d.key = k /\ d.id = k /\ d.round = r /\ d \in Choices
    BY <1>2, <2>2, <2>3, <2>4 DEF Choice, Choices
  <2> QED
    BY <2>2, <2>5 DEF r
<1>12. ASSUME ~ \E i \in 1 .. last : Fits(i)
       PROVE  d = NextId(gone)
  BY <1>1, <1>12
<1>13. ASSUME c.round = 0, c.id \in Keys
       PROVE  /\ d.round = 0
              /\ d.key \in Keys => d.id = d.key
              /\ d.key = Absent => d.id = 0
              /\ c.id = 0 /\ Length > 1 => d.key \in Keys
  <2>1. PICK n \in 1 .. last :
          /\ n = Length - c.id
          /\ \A i \in 1 .. n : p[i].key = c.id + i - 1 /\ p[i].round = 0
          /\ \A i \in 1 .. last : i >= n => p[i].key = Length - 1
    <3>1. c.round < count
      BY <1>3, <1>13
    <3>2. p = Positions(c)
      BY <3>1
    <3> HIDE DEF p
    <3>3. \E n \in 1 .. Len(p) :
            /\ n = Length - c.id
            /\ \A i \in 1 .. n : p[i].key = c.id + i - 1 /\ p[i].round = c.round
            /\ \A i \in 1 .. Len(p) : i >= n => p[i].key = Length - 1
      <4>1. /\ Typed /\ c \in Choices /\ p = Positions(c)
            /\ c.round < RoundCount(weights) /\ c.id \in Keys
        BY <1>13, <3>1, <3>2
      <4> QED
        BY ONLY <4>1, PositionsListed
    <3>4. PICK n \in 1 .. Len(p) :
            /\ n = Length - c.id
            /\ \A i \in 1 .. n : p[i].key = c.id + i - 1 /\ p[i].round = c.round
            /\ \A i \in 1 .. Len(p) : i >= n => p[i].key = Length - 1
      BY <3>3
    <3> QED
      BY <1>13, <3>4
  <2>2. \A k \in Keys : Weight(k) \in Nat \ {0} /\ Weight(k) >= RoundWeight(0)
    BY FirstRoundFits
  <2>3. ASSUME NEW f \in 1 .. last, Fits(f) PROVE p[first].round = 0
    <3>1. first \in 1 .. last /\ Fits(first) /\ \A j \in 1 .. first - 1 : ~Fits(j)
      BY <1>7, <2>3
    <3> HIDE DEF first
    <3>2. CASE first <= n
      BY <1>5, <2>1, <3>1, <3>2
    <3>3. CASE first > n
      <4>1. ~Fits(n) /\ n \in 1 .. last /\ n \in 1 .. first
        BY <1>5, <2>1, <3>1, <3>3
      <4>2. p[first].key = p[n].key /\ p[n].round = 0 /\ p[n].key \in Keys
        BY <1>5, <2>1, <3>1, <3>3
      <4>3. (\E j \in 1 .. first : p[j].key # c.next) <=> (\E j \in 1 .. n : p[j].key # c.next)
        <5>1. ASSUME NEW j \in 1 .. first, p[j].key # c.next
              PROVE  \E i \in 1 .. n : p[i].key # c.next
          <6>1. CASE j <= n
            BY <1>5, <2>1, <5>1, <6>1
          <6>2. CASE j > n
            <7>1. /\ j \in 1 .. last /\ n \in 1 .. last /\ n \in 1 .. n
                  /\ j >= n /\ n >= n
              BY <1>5, <2>1, <3>1, <6>2
            <7>2. p[j].key = Length - 1 /\ p[n].key = Length - 1
              BY <2>1, <7>1
            <7> QED
              BY <5>1, <7>1, <7>2
          <6> QED
            BY <1>5, <2>1, <3>1, <6>1, <6>2
        <5>2. 1 .. n \subseteq 1 .. first
          BY <1>5, <2>1, <3>1, <3>3
        <5> QED
          BY <5>1, <5>2
      <4>4. VirtualAt(c, p, first) = VirtualAt(c, p, n)
        BY <4>3 DEF VirtualAt
      <4>5. Weight(p[n].key) >= RoundWeight(p[n].round)
        BY <2>2, <4>2
      <4>6. VirtualAt(c, p, n) < Weight(p[n].key)
        BY <3>1, <4>2, <4>4
      <4> QED
        BY <4>1, <4>5, <4>6
    <3> QED
      BY <1>5, <2>1, <3>1, <3>2, <3>3
  <2>4. ASSUME ~ \E i \in 1 .. last : Fits(i)
        PROVE  d.key = Absent /\ d.round = 0 /\ d.id = 0
    <3>1. last # 0 /\ c.round < count
      BY <1>3, <1>5, <1>13, <2>1
    <3>2. gone \in Choices /\ gone.key = Absent /\ gone.round = count - 1
          /\ gone.id = Length - 1
      BY <1>9, <3>1
    <3>3. d = NextId(gone)
      BY <1>12, <2>4
    <3> HIDE DEF gone
    <3>4. NextId(gone) = [gone EXCEPT !.id = 0, !.round = 0]
      BY <3>2 DEF NextId, Choices
    <3> QED
      BY <3>2, <3>3, <3>4 DEF Choices
  <2>5. ASSUME c.id = 0, Length > 1 PROVE \E i \in 1 .. last : Fits(i)
    <3>1. 1 \in 1 .. n /\ 2 \in 1 .. n /\ 2 \in 1 .. last /\ 1 \in 1 .. 2 /\ 2 \in 1 .. 2
      BY <1>2, <1>5, <2>1, <2>5
    <3>2. p[1].key = 0 /\ p[2].key = 1 /\ p[2].round = 0
      BY <2>1, <2>5, <3>1
    <3>3. VirtualAt(c, p, 2) = 0
      <4>1. \E j \in 1 .. 2 : p[j].key # c.next
        BY <3>1, <3>2
      <4> QED
        BY <4>1, VirtualReset
    <3>4. p[2].key \in Keys
      BY <1>5, <3>1
    <3>5. Weight(p[2].key) \in Nat \ {0} /\ Weight(p[2].key) >= RoundWeight(p[2].round)
      BY <2>2, <3>2, <3>4
    <3>6. Fits(2)
      BY <3>3, <3>5
    <3> QED
      BY <3>1, <3>6
  <2> HIDE DEF first, Fits, p, last, gone
  <2>6. CASE \E i \in 1 .. last : Fits(i)
    <3>1. PICK f \in 1 .. last : Fits(f)
      BY <2>6
    <3>2. d.key \in Keys /\ d.id = d.key /\ d.round = p[first].round
      BY <1>11, <3>1
    <3>3. d.round = 0 /\ d.key # Absent
      BY <1>2, <2>3, <3>1, <3>2 DEF Absent
    <3> QED
      BY <3>2, <3>3
  <2>7. CASE ~ \E i \in 1 .. last : Fits(i)
    <3>1. Absent \notin Keys
      BY <1>2 DEF Absent
    <3> QED
      BY <2>4, <2>5, <2>7, <3>1
  <2> QED
    BY <2>6, <2>7
<1> HIDE DEF first, Fits, p, last, gone
<1>14. d \in Choices /\ d.key \in Keys \cup {Absent}
  <2>1. CASE \E i \in 1 .. last : Fits(i)
    <3>1. PICK f \in 1 .. last : Fits(f)
      BY <2>1
    <3> QED
      BY <1>11, <3>1
  <2>2. CASE ~ \E i \in 1 .. last : Fits(i)
    BY <1>10, <1>12, <2>2
  <2> QED
    BY <2>1, <2>2
<1> QED
  BY <1>13, <1>14

-----------------------------------------------------------------------------
(* Every strategy, and the retries of the context.                         *)

\* Fair share gives every node an end, and takes none back.
LEMMA EndsGiven ==
  ASSUME Typed
  PROVE  /\ WithEnds \in Seq(Nodes) /\ Len(WithEnds) = Length
         /\ \A k \in Keys : WithEnds[k + 1].end \in Nat
                            /\ WithEnds[k + 1].end >= NodeAt(k).end
         /\ \A k \in Keys : WithEnds[k + 1].inFlight = NodeAt(k).inFlight
                            /\ WithEnds[k + 1].executing = NodeAt(k).executing
                            /\ WithEnds[k + 1].executed = NodeAt(k).executed
                            /\ WithEnds[k + 1].failed = NodeAt(k).failed
<1>1. /\ Length \in Nat \ {0} /\ DOMAIN workerNodes = 1 .. Length
      /\ \A k \in Keys : k + 1 \in 1 .. Length
      /\ \A i \in 1 .. Length : i - 1 \in Keys /\ workerNodes[i] \in Nodes
  BY KeysListed
<1> DEFINE E(n) == [n EXCEPT !.end = IF @ = Absent THEN VirtualEnd(n) ELSE @]
<1>2. WithEnds = [i \in 1 .. Length |-> E(workerNodes[i])]
  BY DEF WithEnds
<1>3. ASSUME NEW n \in Nodes
      PROVE  /\ E(n) \in Nodes /\ E(n).end \in Nat /\ E(n).end >= n.end
             /\ E(n).inFlight = n.inFlight /\ E(n).executing = n.executing
             /\ E(n).executed = n.executed /\ E(n).failed = n.failed
  <2> DEFINE e == IF n.end = Absent THEN VirtualEnd(n) ELSE n.end
  <2>1. n.end \in Nat \cup {Absent} /\ n.runTime \in Nat /\ now \in Nat
    BY DEF Nodes, Typed
  <2>2. VirtualEnd(n) \in Nat
    <3> DEFINE b == IF now < n.end THEN n.end ELSE now
    <3>1. b \in Nat
      <4>1. CASE n.end \in Nat
        BY <2>1, <4>1
      <4>2. CASE n.end = Absent
        BY <2>1, <4>2 DEF Absent
      <4> QED
        BY <2>1, <4>1, <4>2
    <3>2. VirtualEnd(n) = b + n.runTime
      BY DEF VirtualEnd, MeasuredTime
    <3> HIDE DEF b
    <3> QED
      BY <2>1, <3>1, <3>2
  <2>3. e \in Nat /\ e >= n.end
    BY <2>1, <2>2 DEF Absent
  <2>4. E(n) = [n EXCEPT !.end = e]
    BY DEF Nodes
  <2> HIDE DEF e, E
  <2> QED
    BY <2>3, <2>4 DEF Nodes
<1> HIDE DEF E
<1>4. ASSUME NEW i \in 1 .. Length PROVE E(workerNodes[i]) \in Nodes
  <2>1. PICK n : n = workerNodes[i]
    OBVIOUS
  <2>2. n \in Nodes
    BY <1>1, <2>1
  <2>3. E(n) \in Nodes
    BY <1>3, <2>2
  <2> QED
    BY <2>1, <2>3
<1>5. WithEnds \in Seq(Nodes) /\ Len(WithEnds) = Length
  <2> HIDE DEF Length
  <2>1. [i \in 1 .. Length |-> E(workerNodes[i])] \in Seq(Nodes)
    BY <1>1, <1>4, IsASeq
  <2>2. DOMAIN WithEnds = 1 .. Length
    BY <1>2
  <2> QED
    BY <1>1, <1>2, <2>1, <2>2, LenProperties
<1>6. ASSUME NEW k \in Keys PROVE WithEnds[k + 1] = E(NodeAt(k)) /\ NodeAt(k) \in Nodes
  <2>1. k + 1 \in 1 .. Length
    BY <1>1
  <2>2. WithEnds[k + 1] = E(workerNodes[k + 1])
    BY <1>2, <2>1
  <2> QED
    BY <1>1, <2>1, <2>2 DEF NodeAt
<1> QED
  BY <1>3, <1>5, <1>6

LEMMA Compared ==
  ASSUME Typed
  PROVE  \A k \in Keys : /\ LeastUsed[k] = NodeAt(k).executed + NodeAt(k).executing
                         /\ LeastUsed[k] \in Nat /\ LeastBusy[k] \in Nat
                         /\ LeastElu[k] \in Nat /\ FairShare[k] \in Nat
<1>1. ASSUME NEW k \in Keys
      PROVE  /\ LeastUsed[k] = NodeAt(k).executed + NodeAt(k).executing
             /\ LeastUsed[k] \in Nat /\ LeastBusy[k] \in Nat
             /\ LeastElu[k] \in Nat /\ FairShare[k] \in Nat
  <2>1. NodeAt(k) \in Nodes
    BY KeysListed
  <2>2. /\ NodeAt(k).executed \in Nat /\ NodeAt(k).executing \in Nat
        /\ NodeAt(k).busy \in Nat /\ NodeAt(k).elu \in Nat
    BY <2>1 DEF Nodes
  <2>3. FairShare[k] \in Nat
    BY EndsGiven DEF FairShare
  <2> QED
    BY <2>2, <2>3 DEF LeastUsed, LeastBusy, LeastElu
<1> QED
  BY <1>1

LEMMA AfterListed ==
  ASSUME Typed, NEW k \in Nat
  PROVE  /\ After(k) \in Nat
         /\ k \in Keys => After(k) \in Keys
<1>1. Length \in Nat \ {0} /\ 0 \in Keys /\ \A n \in Nat : n \in Keys <=> n < Length
  BY KeysListed
<1> HIDE DEF Length
<1>2. CASE k = Length - 1
  BY <1>1, <1>2 DEF After
<1>3. CASE k # Length - 1
  <2>1. After(k) = k + 1 /\ k + 1 \in Nat
    BY <1>3 DEF After
  <2>2. k < Length => k + 1 < Length
    BY <1>1, <1>3
  <2> QED
    BY <1>1, <2>1, <2>2
<1> QED
  BY <1>2, <1>3

Comparing == {"LEAST_USED", "LEAST_BUSY", "LEAST_ELU", "FAIR_SHARE"}

LEMMA ChooseListed ==
  ASSUME Typed, NEW c \in Choices, NEW d, d = Choose(c)
  PROVE  /\ d \in Choices
         /\ strategy # Interleaved => d.key # Absent
         /\ strategy \in Comparing => d.key \in Keys
         /\ strategy = "LEAST_USED" => d.key = LeastKey(LeastUsed)
         /\ strategy \in {"ROUND_ROBIN", "WEIGHTED_ROUND_ROBIN"} /\ c.next \in Keys =>
              d.key \in Keys /\ d.next \in Keys
<1>1. /\ Keys \subseteq Nat /\ \A k \in Keys : NodeAt(k) \in Nodes
  BY KeysListed
<1>2. c.next \in Nat /\ c.virtual \in Nat /\ c.round \in Nat /\ c.id \in Nat
  BY DEF Choices
<1>3. /\ After(c.next) \in Nat
      /\ c.next \in Keys => After(c.next) \in Keys
  BY <1>2, AfterListed
<1>4. Absent \notin Nat /\ Thrown \notin Nat /\ Thrown # Absent
  BY DEF Absent, Thrown
<1>5. ASSUME NEW value, \A k \in Keys : value[k] \in Nat,
             d = [c EXCEPT !.key = LeastKey(value)]
      PROVE  d \in Choices /\ d.key = LeastKey(value) /\ d.key \in Keys
  <2>1. PICK l : l = LeastKey(value)
    OBVIOUS
  <2>2. l \in Keys /\ l \in Nat
    BY <1>1, <1>5, <2>1, LeastListed
  <2> QED
    BY <1>5, <2>1, <2>2 DEF Choices
<1>6. CASE strategy \in Comparing
  <2>1. \E value : /\ \A k \in Keys : value[k] \in Nat
                   /\ d = [c EXCEPT !.key = LeastKey(value)]
                   /\ strategy = "LEAST_USED" => value = LeastUsed
    <3>1. CASE strategy = "LEAST_USED"
      <4>1. d = [c EXCEPT !.key = LeastKey(LeastUsed)]
        BY <3>1 DEF Choose
      <4> QED
        BY <4>1, Compared
    <3>2. CASE strategy = "LEAST_BUSY"
      <4>1. d = [c EXCEPT !.key = LeastKey(LeastBusy)]
        BY <3>2 DEF Choose
      <4> QED
        BY <3>2, <4>1, Compared
    <3>3. CASE strategy = "LEAST_ELU"
      <4>1. d = [c EXCEPT !.key = LeastKey(LeastElu)]
        BY <3>3 DEF Choose
      <4> QED
        BY <3>3, <4>1, Compared
    <3>4. CASE strategy = "FAIR_SHARE"
      <4>1. d = [c EXCEPT !.key = LeastKey(FairShare)]
        BY <3>4 DEF Choose
      <4> QED
        BY <3>4, <4>1, Compared
    <3> QED
      BY <1>6, <3>1, <3>2, <3>3, <3>4 DEF Comparing
  <2>2. PICK value : /\ \A k \in Keys : value[k] \in Nat
                     /\ d = [c EXCEPT !.key = LeastKey(value)]
                     /\ strategy = "LEAST_USED" => value = LeastUsed
    BY <2>1
  <2>3. d \in Choices /\ d.key = LeastKey(value) /\ d.key \in Keys
    BY <1>5, <2>2
  <2>4. d.key # Absent
    BY <1>1, <1>4, <2>3
  <2>5. strategy \notin {"ROUND_ROBIN", "WEIGHTED_ROUND_ROBIN"}
    BY <1>6 DEF Comparing
  <2> QED
    BY <2>2, <2>3, <2>4, <2>5
<1>7. CASE strategy = "ROUND_ROBIN"
  <2>1. d = Choice(c.next, After(c.next), c.virtual, c.round, c.id)
    BY <1>7 DEF Choose, RoundRobin
  <2>2. d \in Choices /\ d.key = c.next /\ d.next = After(c.next)
    BY <1>2, <1>3, <2>1 DEF Choice, Choices
  <2> QED
    BY <1>2, <1>3, <1>4, <1>7, <2>2 DEF Comparing
<1>8. CASE strategy = "WEIGHTED_ROUND_ROBIN"
  <2>1. \/ c.next \in Keys
            /\ d = [c EXCEPT !.key = c.next,
                             !.virtual = c.virtual + MeasuredTime(NodeAt(c.next))]
        \/ c.next \notin Keys /\ d = [c EXCEPT !.key = Thrown]
        \/ d = [c EXCEPT !.key = After(c.next), !.next = After(c.next), !.virtual = 0]
    BY <1>8 DEF Choose, WeightedRoundRobin, Choices
  <2>2. CASE c.next \in Keys
              /\ d = [c EXCEPT !.key = c.next,
                               !.virtual = c.virtual + MeasuredTime(NodeAt(c.next))]
    <3> DEFINE v == c.virtual + MeasuredTime(NodeAt(c.next))
    <3>1. MeasuredTime(NodeAt(c.next)) \in Nat
      BY <1>1, <2>2 DEF MeasuredTime, Nodes
    <3>2. v \in Nat /\ d = [c EXCEPT !.key = c.next, !.virtual = v]
      BY <1>2, <2>2, <3>1
    <3> HIDE DEF v
    <3>3. d \in Choices /\ d.key = c.next /\ d.next = c.next
      BY <1>2, <3>2 DEF Choices
    <3> QED
      BY <1>2, <1>4, <1>8, <2>2, <3>3 DEF Comparing
  <2>3. CASE c.next \notin Keys /\ d = [c EXCEPT !.key = Thrown]
    <3>1. d \in Choices /\ d.key = Thrown
      BY <2>3 DEF Choices
    <3> QED
      BY <1>4, <1>8, <2>3, <3>1 DEF Comparing
  <2>4. CASE d = [c EXCEPT !.key = After(c.next), !.next = After(c.next), !.virtual = 0]
    <3>0. PICK a : a = After(c.next)
      OBVIOUS
    <3>2. a \in Nat /\ d = [c EXCEPT !.key = a, !.next = a, !.virtual = 0]
      BY <1>3, <2>4, <3>0
    <3>4. d = [key |-> a, next |-> a, virtual |-> 0, round |-> c.round, id |-> c.id]
      BY <3>2 DEF Choices
    <3>3. d \in Choices /\ d.key = a /\ d.next = a
      BY <1>2, <3>2, <3>4 DEF Choices
    <3>1. d \in Choices /\ d.key = After(c.next) /\ d.next = After(c.next)
      BY <3>0, <3>3
    <3> QED
      BY <1>3, <1>4, <1>8, <3>1 DEF Comparing
  <2> QED
    BY <2>1, <2>2, <2>3, <2>4
<1>9. CASE strategy = Interleaved
  <2>1. d = InterleavedWeightedRoundRobin(c)
    BY <1>9 DEF Choose, Interleaved
  <2>2. d \in Choices
    BY <2>1, InterleavedChoice
  <2> QED
    BY <1>9, <2>2 DEF Interleaved, Comparing
<1>10. strategy \in {"ROUND_ROBIN", "LEAST_USED", "LEAST_BUSY", "LEAST_ELU",
                     "FAIR_SHARE", "WEIGHTED_ROUND_ROBIN", Interleaved}
  BY StrategyAssumption DEF Typed, Interleaved
<1> QED
  BY <1>6, <1>7, <1>8, <1>9, <1>10 DEF Comparing

\* One more try.
Again(c) == IF c.key # Absent THEN c ELSE Choose(c)

LEMMA FirstListed ==
  ASSUME Typed
  PROVE  /\ First \in Choices
         /\ \A c \in Choices : Again(c) \in Choices
<1>1. Choice(Absent, nextWorkerNodeKey, virtualTaskRunTime, roundId, workerNodeId)
        \in Choices
  BY DEF Typed, Choice, Choices
<1>2. \A c \in Choices : Choose(c) \in Choices
  BY ChooseListed
<1> QED
  BY <1>1, <1>2 DEF First, Again

\* What the recursion defines: the tries that can be made one after another are
\* a function that has its equation, so Tried has it as well.
LEMMA TriedUnfolded ==
  ASSUME Typed
  PROVE  /\ Tried[0] = {First}
         /\ \A r \in 1 .. Retries : Tried[r] = {Again(c) : c \in Tried[r - 1]}
<1> USE ValueAssumption
<1> DEFINE Tries(r, s) == /\ s \in [0 .. r -> Choices] /\ s[0] = First
                          /\ \A i \in 1 .. r : s[i] = Again(s[i - 1])
           Last(r) == {c \in Choices : \E s : Tries(r, s) /\ c = s[r]}
           Equation(f) == [r \in 0 .. Retries |->
             IF r = 0 THEN {First}
             ELSE {IF c.key # Absent THEN c ELSE Choose(c) : c \in f[r - 1]}]
           tried == [r \in 0 .. Retries |-> Last(r)]
<1>1. First \in Choices /\ \A c \in Choices : Again(c) \in Choices
  BY FirstListed
<1>2. Last(0) = {First}
  <2>1. ASSUME NEW c \in Last(0) PROVE c = First
    OBVIOUS
  <2>2. First \in Last(0)
    <3> DEFINE s == [i \in 0 .. 0 |-> First]
    <3>1. s \in [0 .. 0 -> Choices] /\ s[0] = First
      BY <1>1
    <3>2. \A i \in 1 .. 0 : s[i] = Again(s[i - 1])
      OBVIOUS
    <3> HIDE DEF s
    <3>3. Tries(0, s)
      BY <3>1, <3>2
    <3> QED
      BY <1>1, <3>1, <3>3
  <2> QED
    BY <2>1, <2>2
<1>3. ASSUME NEW r \in 1 .. Retries PROVE Last(r) = {Again(c) : c \in Last(r - 1)}
  <2>0. r \in Nat /\ r - 1 \in Nat /\ r - 1 \in 0 .. r /\ r \in 1 .. r /\ r \in 0 .. r
    OBVIOUS
  <2>1. ASSUME NEW c \in Last(r) PROVE \E b \in Last(r - 1) : c = Again(b)
    <3>1. PICK s : Tries(r, s) /\ c = s[r]
      OBVIOUS
    <3> DEFINE t == [i \in 0 .. r - 1 |-> s[i]]
    <3>2. \A i \in 0 .. r - 1 : i \in 0 .. r /\ s[i] \in Choices
      BY <2>0, <3>1
    <3>3. t \in [0 .. r - 1 -> Choices] /\ t[0] = First /\ t[r - 1] = s[r - 1]
      BY <2>0, <3>1, <3>2
    <3>4. \A i \in 1 .. r - 1 : t[i] = Again(t[i - 1])
      <4>1. ASSUME NEW i \in 1 .. r - 1 PROVE t[i] = Again(t[i - 1])
        <5>1. i \in 1 .. r /\ i \in 0 .. r - 1 /\ i - 1 \in 0 .. r - 1
          BY <2>0
        <5>2. s[i] = Again(s[i - 1])
          BY <3>1, <5>1
        <5>3. t[i] = s[i] /\ t[i - 1] = s[i - 1]
          BY <5>1
        <5> QED
          BY <5>2, <5>3
      <4> QED
        BY <4>1
    <3> HIDE DEF t
    <3>5. Tries(r - 1, t)
      BY <3>3, <3>4
    <3>6. s[r - 1] \in Last(r - 1)
      <4>1. s[r - 1] \in Choices /\ s[r - 1] = t[r - 1]
        BY <2>0, <3>2, <3>3
      <4> HIDE DEF Tries
      <4> QED
        BY <3>5, <4>1
    <3>7. c = Again(s[r - 1])
      <4>1. \A i \in 1 .. r : s[i] = Again(s[i - 1])
        BY <3>1
      <4>2. c = s[r] /\ r \in 1 .. r
        BY <2>0, <3>1
      <4> HIDE DEF Again
      <4> QED
        BY ONLY <4>1, <4>2
    <3> QED
      BY <3>6, <3>7
  <2>2. ASSUME NEW b \in Last(r - 1) PROVE Again(b) \in Last(r)
    <3>1. PICK s : Tries(r - 1, s) /\ b = s[r - 1]
      OBVIOUS
    <3> DEFINE t == [i \in 0 .. r |-> IF i = r THEN Again(b) ELSE s[i]]
    <3>2. Again(b) \in Choices
      BY <1>1
    <3>3. \A i \in 0 .. r : i # r => i \in 0 .. r - 1 /\ s[i] \in Choices
      <4>1. ASSUME NEW i \in 0 .. r, i # r PROVE i \in 0 .. r - 1
        BY <2>0, <4>1
      <4> QED
        BY <3>1, <4>1
    <3>4. t \in [0 .. r -> Choices] /\ t[0] = First /\ t[r] = Again(b)
      <4>1. \A i \in 0 .. r : t[i] \in Choices
        BY <3>2, <3>3
      <4>2. 0 # r /\ 0 \in 0 .. r
        OBVIOUS
      <4>3. t[0] = s[0]
        BY <4>2
      <4> QED
        BY <2>0, <3>1, <4>1, <4>3
    <3>5. \A i \in 1 .. r : t[i] = Again(t[i - 1])
      <4>1. ASSUME NEW i \in 1 .. r PROVE t[i] = Again(t[i - 1])
        <5>1. i \in 0 .. r /\ i - 1 \in 0 .. r /\ i - 1 # r
          BY <2>0
        <5>2. t[i - 1] = s[i - 1]
          BY <5>1
        <5>3. CASE i = r
          BY <2>0, <3>1, <3>4, <5>2, <5>3
        <5>4. CASE i # r
          <6>1. i \in 1 .. r - 1 /\ t[i] = s[i]
            BY <2>0, <5>1, <5>4
          <6>2. s[i] = Again(s[i - 1])
            BY <3>1, <6>1
          <6> QED
            BY <5>2, <6>1, <6>2
        <5> QED
          BY <5>3, <5>4
      <4> QED
        BY <4>1
    <3> HIDE DEF t
    <3>6. Tries(r, t)
      BY <3>4, <3>5
    <3> QED
      BY <3>2, <3>4, <3>6
  <2> HIDE DEF Last, Tries
  <2> QED
    BY <2>1, <2>2
<1> HIDE DEF Last, Tries
<1>4. tried = Equation(tried)
  <2>1. ASSUME NEW r \in 0 .. Retries PROVE tried[r] = Equation(tried)[r]
    <3>1. CASE r = 0
      BY <1>2, <3>1
    <3>2. CASE r # 0
      <4>1. r \in 1 .. Retries /\ r - 1 \in 0 .. Retries
        BY <3>2
      <4>2. tried[r] = {Again(c) : c \in tried[r - 1]}
        BY <1>3, <4>1
      <4>3. Equation(tried)[r] = {Again(c) : c \in tried[r - 1]}
        BY <3>2 DEF Again
      <4> QED
        BY <4>2, <4>3
    <3> QED
      BY <3>1, <3>2
  <2> HIDE DEF Last
  <2> QED
    BY <2>1
<1>5. Tried = CHOOSE f : f = Equation(f)
  BY DEF Tried
<1> HIDE DEF tried, Equation
<1>6. Tried = Equation(Tried)
  BY <1>4, <1>5
<1>7. \A r \in 0 .. Retries : Tried[r] =
        IF r = 0 THEN {First}
        ELSE {IF c.key # Absent THEN c ELSE Choose(c) : c \in Tried[r - 1]}
  BY <1>6 DEF Equation
<1>8. Tried[0] = {First}
  <2>1. 0 \in 0 .. Retries
    OBVIOUS
  <2>2. Tried[0] = IF 0 = 0 THEN {First}
                   ELSE {IF c.key # Absent THEN c ELSE Choose(c) : c \in Tried[0 - 1]}
    BY ONLY <1>7, <2>1
  <2> QED
    BY ONLY <2>2
<1>9. ASSUME NEW r \in 1 .. Retries
      PROVE  Tried[r] = {Again(c) : c \in Tried[r - 1]}
  <2>1. r \in 0 .. Retries /\ r # 0
    OBVIOUS
  <2>2. Tried[r] = {IF c.key # Absent THEN c ELSE Choose(c) : c \in Tried[r - 1]}
    BY <1>7, <2>1
  <2>3. PICK T : T = Tried[r - 1]
    OBVIOUS
  <2>4. \A c : Again(c) = IF c.key # Absent THEN c ELSE Choose(c)
    BY DEF Again
  <2>5. {Again(c) : c \in T} = {IF c.key # Absent THEN c ELSE Choose(c) : c \in T}
    BY ONLY <2>4
  <2> QED
    BY <2>2, <2>3, <2>5
<1> QED
  BY <1>8, <1>9

\* What holds of the first choice and of one more try holds of all tries.
LEMMA TriedWithin ==
  ASSUME Typed, NEW P, First \in P, \A c \in P : Again(c) \in P
  PROVE  \A r \in 0 .. Retries : Tried[r] \subseteq P
<1> USE ValueAssumption
<1> DEFINE S == {r \in 0 .. Retries : ~(Tried[r] \subseteq P)}
<1>1. SUFFICES ASSUME S # {} PROVE FALSE
  OBVIOUS
<1>2. S \in SUBSET Nat
  OBVIOUS
<1>3. PICK r \in S : \A n \in S : r <= n
  BY <1>1, <1>2, SmallestElement
<1>4. r \in 1 .. Retries
  <2>1. r # 0
    BY TriedUnfolded
  <2> QED
    BY <2>1
<1>5. r - 1 \in 0 .. Retries /\ ~(r <= r - 1)
  BY <1>4
<1>6. Tried[r - 1] \subseteq P
  BY <1>3, <1>5
<1>7. Tried[r] = {Again(c) : c \in Tried[r - 1]}
  BY <1>4, TriedUnfolded
<1> QED
  BY <1>6, <1>7

LEMMA OutcomesListed ==
  ASSUME Typed, NEW choice \in Outcomes
  PROVE  /\ choice \in Choices
         /\ First.key # Absent => choice = First
<1> USE ValueAssumption
<1>1. First \in Choices /\ \A c \in Choices : Again(c) \in Choices
  BY FirstListed
<1>2. \A r \in 0 .. Retries : Tried[r] \subseteq Choices
  BY <1>1, TriedWithin
<1>3. Retries - retriesCount \in 0 .. Retries
  BY DEF Typed
<1>4. CASE First.key # Absent
  BY <1>1, <1>4 DEF Outcomes
<1>5. CASE First.key = Absent
  BY <1>2, <1>3, <1>5 DEF Outcomes
<1> QED
  BY <1>4, <1>5

\* The interleaved strategy stays in its first round, a turn ends where no node
\* is found, and the next turn finds one: one retry is enough.
LEMMA InterleavedTurns ==
  ASSUME Typed, TurnsInv, ~strayed, strategy = Interleaved, NEW choice \in Outcomes
  PROVE  /\ choice.key \in Keys \cup {Absent} /\ choice.round = 0
         /\ choice.key \in Keys => choice.id = choice.key
         /\ choice.key = Absent => choice.id = 0
         /\ Retries > 0 /\ Length > 1 => choice.key \in Keys
<1> USE ValueAssumption
<1> DEFINE P == {c \in Choices : /\ c.key \in Keys \cup {Absent} /\ c.round = 0
                                 /\ c.key \in Keys => c.id = c.key
                                 /\ c.key = Absent => c.id = 0}
           c0 == Choice(Absent, nextWorkerNodeKey, virtualTaskRunTime, roundId,
                        workerNodeId)
<1>1. 0 \in Keys /\ Absent \notin Keys /\ Length \in Nat
  BY KeysListed DEF Absent
<1>2. ASSUME NEW c \in Choices, c.round = 0, c.id \in Keys
      PROVE  /\ Choose(c) \in P
             /\ c.id = 0 /\ Length > 1 => Choose(c).key \in Keys
  <2>1. PICK d : d = InterleavedWeightedRoundRobin(c)
    OBVIOUS
  <2>2. Choose(c) = d
    BY <2>1 DEF Choose, Interleaved
  <2>3. /\ d \in Choices /\ d.key \in Keys \cup {Absent}
        /\ d.round = 0
        /\ d.key \in Keys => d.id = d.key
        /\ d.key = Absent => d.id = 0
        /\ c.id = 0 /\ Length > 1 => d.key \in Keys
    BY <1>2, <2>1, InterleavedChoice
  <2> QED
    BY <2>2, <2>3
<1>3. c0 \in Choices /\ c0.round = roundId /\ c0.id = workerNodeId
  BY DEF Typed, Choice, Choices
<1>4. workerNodeId \in Keys /\ roundId = 0 /\ (retriesCount # 0 => workerNodeId = 0)
  BY DEF TurnsInv
<1>5. First = Choose(c0)
  BY DEF First
<1> HIDE DEF c0
<1>6. First \in P /\ (workerNodeId = 0 /\ Length > 1 => First.key \in Keys)
  BY <1>2, <1>3, <1>4, <1>5
<1>7. ASSUME NEW c \in P
      PROVE  Again(c) \in P /\ (Length > 1 => Again(c).key \in Keys)
  <2>1. CASE c.key = Absent
    <3>1. Again(c) = Choose(c) /\ c \in Choices /\ c.round = 0 /\ c.id = 0
      BY <2>1 DEF Again
    <3> HIDE DEF P
    <3> QED
      BY <1>1, <1>2, <3>1
  <2>2. CASE c.key # Absent
    BY <2>2 DEF Again
  <2> QED
    BY <2>1, <2>2
<1> HIDE DEF P
<1>8. \A r \in 0 .. Retries : Tried[r] \subseteq P
  BY <1>6, <1>7, TriedWithin
<1>9. Retries - retriesCount \in 0 .. Retries
  BY DEF Typed
<1>10. choice \in P
  BY <1>6, <1>8, <1>9 DEF Outcomes
<1>11. ASSUME Retries > 0, Length > 1 PROVE choice.key \in Keys
  <2>1. CASE First.key # Absent
    <3>1. choice = First
      BY <2>1, OutcomesListed
    <3> QED
      BY <1>6, <2>1, <3>1 DEF P
  <2>2. CASE First.key = Absent
    <3>1. retriesCount = 0
      BY <1>1, <1>4, <1>6, <1>11, <2>2
    <3>2. choice \in Tried[Retries]
      <4>1. Retries - retriesCount = Retries
        BY <3>1
      <4> QED
        BY <2>2, <4>1 DEF Outcomes
    <3>3. Retries \in 1 .. Retries /\ Retries - 1 \in 0 .. Retries
      BY <1>11
    <3>4. PICK c \in Tried[Retries - 1] : choice = Again(c)
      BY <3>2, <3>3, TriedUnfolded
    <3>5. c \in P
      BY <1>8, <3>3
    <3> QED
      BY <1>7, <1>11, <3>4, <3>5
  <2> QED
    BY <2>1, <2>2
<1> QED
  BY <1>10, <1>11 DEF P

-----------------------------------------------------------------------------
(* The steps.                                                              *)

\* What execute() does to the nodes.
LEMMA ExecuteGives ==
  ASSUME Typed, Execute
  PROVE  \E choice \in Outcomes :
           /\ chosen' = IF choice.key = Absent THEN Thrown ELSE choice.key
           /\ nextWorkerNodeKey' = choice.next /\ virtualTaskRunTime' = choice.virtual
           /\ roundId' = choice.round /\ workerNodeId' = choice.id
           /\ retriesCount' = CASE choice.key = Absent -> Retries
                                [] choice.key = Thrown -> retriesCount
                                [] OTHER -> 0
           /\ workerNodes' \in Seq(Nodes) /\ Len(workerNodes') = Length
           /\ \A k \in Keys :
                /\ workerNodes'[k + 1].end >= NodeAt(k).end
                /\ workerNodes'[k + 1].executed = NodeAt(k).executed
                /\ workerNodes'[k + 1].failed = NodeAt(k).failed
                /\ workerNodes'[k + 1].inFlight =
                     NodeAt(k).inFlight + (IF k = choice.key THEN 1 ELSE 0)
                /\ workerNodes'[k + 1].executing = NodeAt(k).executing
                     + (IF strategy = "LEAST_USED" /\ k = choice.key THEN 1 ELSE 0)
<1> DEFINE given == IF strategy = "FAIR_SHARE" THEN WithEnds ELSE workerNodes
           Left(key) ==
             IF key \notin Keys THEN given
             ELSE [given EXCEPT ![key + 1].inFlight = @ + 1,
                                ![key + 1].executing =
                                  IF strategy = "LEAST_USED" THEN @ + 1 ELSE @]
<1>1. PICK choice \in Outcomes :
        /\ chosen' = IF choice.key = Absent THEN Thrown ELSE choice.key
        /\ nextWorkerNodeKey' = choice.next /\ virtualTaskRunTime' = choice.virtual
        /\ roundId' = choice.round /\ workerNodeId' = choice.id
        /\ retriesCount' = CASE choice.key = Absent -> Retries
                             [] choice.key = Thrown -> retriesCount
                             [] OTHER -> 0
        /\ workerNodes' = Left(choice.key)
  BY DEF Execute
<1>2. /\ Length \in Nat \ {0} /\ Keys \subseteq Nat
      /\ \A k \in Keys : k + 1 \in 1 .. Length /\ NodeAt(k) \in Nodes
      /\ \A i \in 1 .. Length : i - 1 \in Keys
  BY KeysListed
<1>3. /\ given \in Seq(Nodes) /\ Len(given) = Length
      /\ \A k \in Keys : /\ given[k + 1].end >= NodeAt(k).end
                         /\ given[k + 1].executed = NodeAt(k).executed
                         /\ given[k + 1].failed = NodeAt(k).failed
                         /\ given[k + 1].inFlight = NodeAt(k).inFlight
                         /\ given[k + 1].executing = NodeAt(k).executing
  <2>1. CASE strategy = "FAIR_SHARE"
    <3>1. given = WithEnds
      BY <2>1
    <3> HIDE DEF given
    <3> QED
      BY <3>1, EndsGiven
  <2>2. CASE strategy # "FAIR_SHARE"
    <3>1. given = workerNodes /\ workerNodes \in Seq(Nodes)
      BY <2>2 DEF Typed
    <3>2. \A k \in Keys : NodeAt(k).end \in Nat \cup {Absent}
      BY <1>2 DEF Nodes
    <3>3. \A k \in Keys : NodeAt(k).end >= NodeAt(k).end
      BY <3>2 DEF Absent
    <3> HIDE DEF given
    <3> QED
      BY <3>1, <3>3 DEF NodeAt, Length
  <2> QED
    BY <2>1, <2>2
<1>4. \A i \in 1 .. Length : given[i] \in Nodes
  BY <1>3, ElementOfSeq
<1>5. CASE choice.key \notin Keys
  <2>1. workerNodes' = given
    BY <1>1, <1>5
  <2> HIDE DEF given, Left
  <2>2. \A k \in Keys : /\ NodeAt(k).inFlight \in Nat /\ NodeAt(k).executing \in Nat
                        /\ k # choice.key
    BY <1>2, <1>5 DEF Nodes
  <2> QED
    BY <1>1, <1>3, <2>1, <2>2
<1>6. CASE choice.key \in Keys
  <2>1. PICK i : i = choice.key + 1
    OBVIOUS
  <2>2. i \in 1 .. Length /\ \A k \in Keys : (k + 1 = i <=> k = choice.key)
    <3>1. PICK key : key = choice.key
      OBVIOUS
    <3>2. key \in Keys /\ key \in Nat /\ i = key + 1
      BY <1>2, <1>6, <2>1, <3>1
    <3>3. ASSUME NEW k \in Keys PROVE k + 1 = i <=> k = key
      <4>1. k \in Nat
        BY <1>2
      <4> QED
        BY <3>2, <4>1
    <3> QED
      BY <1>2, <3>1, <3>2, <3>3
  <2>3. PICK n : n = given[i]
    OBVIOUS
  <2>4. n \in Nodes
    BY <1>4, <2>2, <2>3
  <2> DEFINE m == [n EXCEPT !.inFlight = n.inFlight + 1,
                            !.executing = IF strategy = "LEAST_USED"
                                            THEN n.executing + 1 ELSE n.executing]
  <2>5. workerNodes' = [given EXCEPT ![i] = m]
    <3> HIDE DEF given
    <3>1. workerNodes' = [given EXCEPT ![i].inFlight = @ + 1,
                                       ![i].executing =
                                         IF strategy = "LEAST_USED" THEN @ + 1 ELSE @]
      BY <1>1, <1>6, <2>1
    <3>2. i \in DOMAIN given
      BY <1>3, <2>2, LenProperties
    <3> QED
      BY <2>3, <2>4, <3>1, <3>2 DEF Nodes
  <2>6. /\ m \in Nodes /\ m.end = n.end /\ m.executed = n.executed
        /\ m.failed = n.failed
        /\ m.inFlight = n.inFlight + 1
        /\ m.executing = n.executing + (IF strategy = "LEAST_USED" THEN 1 ELSE 0)
    <3> DEFINE a == n.inFlight + 1
               e == IF strategy = "LEAST_USED" THEN n.executing + 1 ELSE n.executing
    <3>1. /\ a \in Nat /\ e \in Nat
          /\ e = n.executing + (IF strategy = "LEAST_USED" THEN 1 ELSE 0)
      BY <2>4 DEF Nodes
    <3>2. m = [n EXCEPT !.inFlight = a, !.executing = e]
      OBVIOUS
    <3> HIDE DEF m, e
    <3>3. /\ m \in Nodes /\ m.end = n.end /\ m.executed = n.executed
          /\ m.failed = n.failed /\ m.inFlight = a /\ m.executing = e
      <4> HIDE DEF a
      <4> QED
        BY <2>4, <3>1, <3>2 DEF Nodes
    <3> QED
      BY <3>1, <3>3
  <2> HIDE DEF given, Left, m
  <2>7. /\ workerNodes' \in Seq(Nodes) /\ Len(workerNodes') = Length
        /\ \A j \in 1 .. Length : workerNodes'[j] = IF j = i THEN m ELSE given[j]
    BY <1>3, <2>2, <2>5, <2>6, ExceptSeq
  <2>8. ASSUME NEW k \in Keys
        PROVE  /\ workerNodes'[k + 1].end >= NodeAt(k).end
               /\ workerNodes'[k + 1].executed = NodeAt(k).executed
               /\ workerNodes'[k + 1].failed = NodeAt(k).failed
               /\ workerNodes'[k + 1].inFlight =
                    NodeAt(k).inFlight + (IF k = choice.key THEN 1 ELSE 0)
               /\ workerNodes'[k + 1].executing = NodeAt(k).executing
                    + (IF strategy = "LEAST_USED" /\ k = choice.key THEN 1 ELSE 0)
    <3>1. /\ k + 1 \in 1 .. Length
          /\ NodeAt(k).inFlight \in Nat /\ NodeAt(k).executing \in Nat
      BY <1>2 DEF Nodes
    <3>2. CASE k = choice.key
      <4>1. k + 1 = i /\ workerNodes'[k + 1] = m /\ given[k + 1] = n
        BY <2>2, <2>3, <2>7, <3>1, <3>2
      <4> QED
        BY <1>3, <2>6, <3>1, <3>2, <4>1
    <3>3. CASE k # choice.key
      <4>1. workerNodes'[k + 1] = given[k + 1]
        BY <2>2, <2>7, <3>1, <3>3
      <4> QED
        BY <1>3, <3>1, <3>3, <4>1
    <3> QED
      BY <3>2, <3>3
  <2> QED
    BY <1>1, <2>7, <2>8
<1> QED
  BY <1>5, <1>6

\* What is counted of a task that is answered.
LEMMA CountedGives ==
  ASSUME NEW node \in Nodes, node.inFlight > 0, NEW failed \in BOOLEAN,
         NEW c, c = Counted(node, failed)
  PROVE  /\ c \in Nodes /\ c.inFlight = node.inFlight - 1 /\ c.end = node.end
         /\ strategy = "LEAST_USED" =>
              /\ c.executed = node.executed + (IF failed THEN 0 ELSE 1)
              /\ c.failed = node.failed + (IF failed THEN 1 ELSE 0)
              /\ node.executing > 0 => c.executing = node.executing - 1
<1> DEFINE a == node.inFlight - 1
           b == IF node.executing > 0 THEN node.executing - 1 ELSE node.executing
           d == IF failed THEN node.executed ELSE node.executed + 1
           e == IF failed THEN node.failed + 1 ELSE node.failed
<1>1. /\ a \in Nat /\ b \in Nat /\ d \in Nat /\ e \in Nat
      /\ d = node.executed + (IF failed THEN 0 ELSE 1)
      /\ e = node.failed + (IF failed THEN 1 ELSE 0)
      /\ node.executing > 0 => b = node.executing - 1
  BY DEF Nodes
<1>2. CASE strategy = "LEAST_USED"
  <2>1. c = [node EXCEPT !.inFlight = a, !.executing = b, !.executed = d, !.failed = e]
    BY <1>2 DEF Counted
  <2> HIDE DEF a, b, d, e
  <2>2. /\ c \in Nodes /\ c.inFlight = a /\ c.end = node.end /\ c.executing = b
        /\ c.executed = d /\ c.failed = e
    BY <1>1, <2>1 DEF Nodes
  <2> QED
    BY <1>1, <2>2 DEF a
<1>3. CASE strategy # "LEAST_USED"
  <2>1. c = [node EXCEPT !.inFlight = a]
    BY <1>3 DEF Counted
  <2> QED
    BY <1>1, <1>3, <2>1 DEF Nodes
<1> QED
  BY <1>2, <1>3

\* Measuring leaves what is counted, and the end.
LEMMA MeasuredGives ==
  ASSUME NEW node \in Nodes, NEW time \in Nat,
         NEW m, m = Measured(node, time) \/ m = Waited(node, time)
  PROVE  /\ m \in Nodes /\ m.end = node.end /\ m.inFlight = node.inFlight
         /\ m.executed = node.executed /\ m.failed = node.failed
         /\ m.executing = node.executing
<1>1. \/ m = node
      \/ m = [node EXCEPT !.busy = @ + time]
      \/ m = [node EXCEPT !.elu = @ + time]
      \/ m = [node EXCEPT !.runTime = time]
  BY DEF Measured, Waited
<1> QED
  BY <1>1 DEF Nodes

\* update() leaves what is counted and never moves the end back.
LEMMA UpdatedGives ==
  ASSUME NEW node \in Nodes, now \in Nat, NEW u, u = Updated(node)
  PROVE  /\ u \in Nodes /\ u.end >= node.end /\ u.inFlight = node.inFlight
         /\ u.executed = node.executed /\ u.failed = node.failed
         /\ u.executing = node.executing
<1> DEFINE g == VirtualEnd(node)
<1>1. g \in Nat /\ g >= node.end
  BY DEF VirtualEnd, MeasuredTime, Nodes, Absent
<1>2. node.end >= node.end
  BY DEF Nodes, Absent
<1>3. u = node \/ u = [node EXCEPT !.end = g]
  BY DEF Updated
<1> HIDE DEF g
<1> QED
  BY <1>1, <1>2, <1>3 DEF Nodes

\* An answer, by whether the task failed.
AnsweredBy(key, failed, time) ==
  IF failed THEN TaskFailed(key, time) ELSE TaskExecuted(key, time)

\* What an answer does to its node.
LEMMA AnswerGives ==
  ASSUME Typed, NEW key \in Keys, NEW failed \in BOOLEAN,
         NEW time \in {0} \cup RunTimes, AnsweredBy(key, failed, time)
  PROVE  /\ UNCHANGED <<strategy, weights, retriesCount, keyVars, chosen, now,
                        changes, strayed, disturbed>>
         /\ workerNodes' \in Seq(Nodes) /\ Len(workerNodes') = Length
         /\ \A k \in Keys : k # key => workerNodes'[k + 1] = NodeAt(k)
         /\ NodeAt(key).inFlight > 0
         /\ workerNodes'[key + 1].end >= NodeAt(key).end
         /\ workerNodes'[key + 1].inFlight = NodeAt(key).inFlight - 1
         /\ strategy = "LEAST_USED" =>
              /\ workerNodes'[key + 1].executed
                   = NodeAt(key).executed + (IF failed THEN 0 ELSE 1)
              /\ workerNodes'[key + 1].failed
                   = NodeAt(key).failed + (IF failed THEN 1 ELSE 0)
              /\ NodeAt(key).executing > 0 =>
                   workerNodes'[key + 1].executing = NodeAt(key).executing - 1
<1> DEFINE c == Counted(NodeAt(key), failed)
<1>1. /\ Length \in Nat \ {0} /\ Keys \subseteq Nat
      /\ \A k \in Keys : k + 1 \in 1 .. Length /\ NodeAt(k) \in Nodes
  BY KeysListed
<1>2. PICK n : n = NodeAt(key)
  OBVIOUS
<1>3. n \in Nodes /\ time \in Nat /\ now \in Nat
  BY <1>1, <1>2, ValueAssumption DEF Typed
<1>4. PICK m : /\ m = Measured(c, time) \/ m = Waited(c, time)
               /\ Answered(key, Updated(m))
  <2>1. CASE failed
    BY <2>1 DEF AnsweredBy, TaskFailed
  <2>2. CASE ~failed
    BY <2>2 DEF AnsweredBy, TaskExecuted
  <2> QED
    BY <2>1, <2>2
<1>5. PICK u : u = Updated(m)
  OBVIOUS
<1>6. /\ n.inFlight > 0
      /\ workerNodes' = [workerNodes EXCEPT ![key + 1] = u]
      /\ UNCHANGED <<strategy, weights, retriesCount, keyVars, chosen, now,
                     changes, strayed, disturbed>>
  BY <1>2, <1>4, <1>5 DEF Answered
<1>7. /\ c \in Nodes /\ c.inFlight = n.inFlight - 1 /\ c.end = n.end
      /\ strategy = "LEAST_USED" =>
           /\ c.executed = n.executed + (IF failed THEN 0 ELSE 1)
           /\ c.failed = n.failed + (IF failed THEN 1 ELSE 0)
           /\ n.executing > 0 => c.executing = n.executing - 1
  BY <1>2, <1>3, <1>6, CountedGives
<1> HIDE DEF c
<1>8. /\ m \in Nodes /\ m.end = c.end /\ m.inFlight = c.inFlight
      /\ m.executed = c.executed /\ m.failed = c.failed /\ m.executing = c.executing
  BY <1>3, <1>4, <1>7, MeasuredGives
<1>9. /\ u \in Nodes /\ u.end >= n.end /\ u.inFlight = c.inFlight
      /\ u.executed = c.executed /\ u.failed = c.failed /\ u.executing = c.executing
  BY <1>3, <1>5, <1>7, <1>8, UpdatedGives
<1>10. PICK i : i = key + 1
  OBVIOUS
<1>11. /\ workerNodes' \in Seq(Nodes) /\ Len(workerNodes') = Length
       /\ \A j \in 1 .. Length : workerNodes'[j] = IF j = i THEN u
                                                           ELSE workerNodes[j]
  <2>1. workerNodes \in Seq(Nodes) /\ i \in 1 .. Len(workerNodes)
    BY <1>1, <1>10 DEF Typed, Length
  <2>2. workerNodes' = [workerNodes EXCEPT ![i] = u]
    BY <1>6, <1>10
  <2> QED
    BY <1>9, <2>1, <2>2, ExceptSeq DEF Length
<1>12. ASSUME NEW k \in Keys, k # key PROVE workerNodes'[k + 1] = NodeAt(k)
  <2>1. k \in Nat /\ key \in Nat
    BY <1>1
  <2>2. k + 1 # i /\ k + 1 \in 1 .. Length
    BY <1>1, <1>10, <1>12, <2>1
  <2> QED
    BY <1>11, <2>2 DEF NodeAt
<1>13. workerNodes'[key + 1] = u
  BY <1>1, <1>10, <1>11
<1> QED
  BY <1>2, <1>6, <1>7, <1>9, <1>11, <1>12, <1>13

\* What a removal leaves of the nodes.
LEMMA RemovalGives ==
  ASSUME Typed, NEW removed \in Keys, RemoveWorkerNode(removed)
  PROVE  workerNodes' \in Seq(Nodes) /\ Len(workerNodes') = Length - 1
         /\ Length - 1 \in Nat \ {0}
<1> DEFINE s == SubSeq(workerNodes, 1, removed)
           t == SubSeq(workerNodes, removed + 2, Length)
<1>1. /\ Length \in Nat \ {0} /\ removed \in Nat /\ removed < Length
      /\ \A i \in 1 .. Length : workerNodes[i] \in Nodes
  BY KeysListed
<1>2. Length - 1 > 0 /\ workerNodes' = s \o t
  BY DEF RemoveWorkerNode
<1>3. s \in Seq(Nodes) /\ Len(s) = removed
  <2>1. /\ 1 \in Int /\ removed \in Int
        /\ \A i \in 1 .. removed : workerNodes[i] \in Nodes
    BY <1>1
  <2>2. s \in Seq(Nodes) /\ Len(s) = IF 1 <= removed THEN removed - 1 + 1 ELSE 0
    BY ONLY <2>1, SubSeqProperties
  <2> QED
    BY <1>1, <2>2
<1>4. t \in Seq(Nodes) /\ Len(t) = Length - removed - 1
  <2> DEFINE m == removed + 2
  <2>1. /\ m \in Int /\ Length \in Int
        /\ \A i \in m .. Length : workerNodes[i] \in Nodes
    BY <1>1
  <2>2. t = SubSeq(workerNodes, m, Length)
    OBVIOUS
  <2> HIDE DEF m, t
  <2>3. t \in Seq(Nodes) /\ Len(t) = IF m <= Length THEN Length - m + 1 ELSE 0
    BY ONLY <2>1, <2>2, SubSeqProperties
  <2> QED
    BY <1>1, <2>3 DEF m
<1> HIDE DEF s, t
<1>5. s \o t \in Seq(Nodes) /\ Len(s \o t) = Len(s) + Len(t)
  BY ONLY <1>3, <1>4, ConcatProperties
<1> QED
  BY <1>1, <1>2, <1>3, <1>4, <1>5

-----------------------------------------------------------------------------
(* The invariant is inductive.                                             *)

LEMMA InitIInv == Init => IInv
<1> SUFFICES ASSUME Init PROVE IInv
  OBVIOUS
<1> USE NodesAssumption, ValueAssumption
<1>1. NewNode \in Nodes
  BY DEF NewNode, Nodes
<1>2. InitialNodes \in Nat \ {0} /\ InitialNodes <= MaxNodes
  OBVIOUS
<1>3. workerNodes \in Seq(Nodes) /\ Len(workerNodes) = InitialNodes
  <2>1. workerNodes = [k \in 1 .. InitialNodes |-> NewNode]
    BY DEF Init
  <2>2. [k \in 1 .. InitialNodes |-> NewNode] \in Seq(Nodes)
    BY <1>1, <1>2, IsASeq
  <2> QED
    BY <1>2, <2>1, <2>2, LenProperties
<1>4. \A k \in Keys : NodeAt(k) = NewNode
  <2>1. ASSUME NEW k \in Keys PROVE NodeAt(k) = NewNode
    <3>1. k + 1 \in 1 .. InitialNodes
      BY <1>2, <1>3 DEF Keys, Length
    <3> QED
      BY <3>1 DEF Init, NodeAt
  <2> QED
    BY <2>1
<1>5. Typed
  BY <1>2, <1>3, EmptySeq DEF Init, Typed, Length
<1>6. TurnsInv
  BY <1>2, <1>3 DEF Init, TurnsInv, Keys, Length
<1>7. BalanceInv
  <2>1. \A k \in Keys : LeastUsed[k] = 0 /\ NodeAt(k).failed = 0
    BY <1>4 DEF LeastUsed, NewNode
  <2>2. \A k \in Keys : NodeAt(k).executing = NodeAt(k).inFlight
    BY <1>4 DEF NewNode
  <2> QED
    BY <2>1, <2>2 DEF BalanceInv, LeastUsedBalances
<1> QED
  BY <1>5, <1>6, <1>7 DEF IInv

\* The parts of an answer, and of a step.
LEMMA AnswerSplit ==
  ASSUME Answer
  PROVE  \E k \in Keys, failed \in BOOLEAN, time \in {0} \cup RunTimes :
           AnsweredBy(k, failed, time)
<1>1. PICK k \in Keys : \/ \E time \in Times : TaskExecuted(k, time)
                        \/ \E time \in {0} \cup RunTimes : TaskFailed(k, time)
  BY DEF Answer
<1>2. CASE \E time \in Times : TaskExecuted(k, time)
  <2>1. PICK time \in {0} \cup RunTimes : TaskExecuted(k, time)
    BY <1>2 DEF Times
  <2>2. AnsweredBy(k, FALSE, time)
    BY <2>1 DEF AnsweredBy
  <2> QED
    BY <2>2
<1>3. CASE \E time \in {0} \cup RunTimes : TaskFailed(k, time)
  <2>1. PICK time \in {0} \cup RunTimes : TaskFailed(k, time)
    BY <1>3
  <2>2. AnsweredBy(k, TRUE, time)
    BY <2>1 DEF AnsweredBy
  <2> QED
    BY <2>2
<1> QED
  BY <1>1, <1>2, <1>3

LEMMA NextSplit ==
  ASSUME [Next]_vars
  PROVE  \/ Execute
         \/ \E k \in Keys, failed \in BOOLEAN, time \in {0} \cup RunTimes :
              AnsweredBy(k, failed, time)
         \/ \E s \in Strategies : SetWorkerChoiceStrategy(s)
         \/ \E w \in WeightOptions : SetWorkerChoiceStrategyOptions(w)
         \/ AddWorkerNode
         \/ \E k \in Keys : RemoveWorkerNode(k)
         \/ Tick
         \/ UNCHANGED vars
BY AnswerSplit DEF Next, Change

\* A change of the strategy leaves of a node its tasks in flight only.
LEMMA ResetGives ==
  ASSUME Typed, NEW s \in Strategies, SetWorkerChoiceStrategy(s)
  PROVE  /\ workerNodes' \in Seq(Nodes) /\ Len(workerNodes') = Length
         /\ \A k \in Keys : /\ workerNodes'[k + 1].inFlight = NodeAt(k).inFlight
                            /\ workerNodes'[k + 1].executing = 0
                            /\ workerNodes'[k + 1].executed = 0
                            /\ workerNodes'[k + 1].failed = 0
<1>1. /\ Length \in Nat \ {0} /\ DOMAIN workerNodes = 1 .. Length
      /\ \A k \in Keys : k + 1 \in 1 .. Length
      /\ \A i \in 1 .. Length : i - 1 \in Keys /\ workerNodes[i] \in Nodes
  BY KeysListed
<1>2. ASSUME NEW n \in Nodes
      PROVE  /\ Reset(n) \in Nodes /\ Reset(n).inFlight = n.inFlight
             /\ Reset(n).executing = 0 /\ Reset(n).executed = 0
             /\ Reset(n).failed = 0
  BY DEF Reset, NewNode, Nodes
<1>3. workerNodes' = [i \in 1 .. Length |-> Reset(workerNodes[i])]
  BY DEF SetWorkerChoiceStrategy
<1>4. \A i \in 1 .. Length : Reset(workerNodes[i]) \in Nodes
  BY <1>1, <1>2
<1>5. workerNodes' \in Seq(Nodes) /\ Len(workerNodes') = Length
  <2> HIDE DEF Length
  <2>1. [i \in 1 .. Length |-> Reset(workerNodes[i])] \in Seq(Nodes)
    BY <1>1, <1>4, IsASeq
  <2>2. DOMAIN workerNodes' = 1 .. Length
    BY <1>3
  <2> QED
    BY <1>1, <1>3, <2>1, <2>2, LenProperties
<1>6. ASSUME NEW k \in Keys
      PROVE  /\ workerNodes'[k + 1].inFlight = NodeAt(k).inFlight
             /\ workerNodes'[k + 1].executing = 0
             /\ workerNodes'[k + 1].executed = 0
             /\ workerNodes'[k + 1].failed = 0
  <2>1. k + 1 \in 1 .. Length
    BY <1>1
  <2>2. workerNodes'[k + 1] = Reset(NodeAt(k)) /\ NodeAt(k) \in Nodes
    BY <1>1, <1>3, <2>1 DEF NodeAt
  <2> QED
    BY <1>2, <2>2
<1> QED
  BY <1>5, <1>6

LEMMA TypedKept ==
  ASSUME Typed, [Next]_vars
  PROVE  Typed'
<1> USE NodesAssumption, ValueAssumption
<1>1. Length \in Nat \ {0} /\ Length <= MaxNodes /\ workerNodes \in Seq(Nodes)
  BY KeysListed DEF Typed
<1>2. ASSUME workerNodes' \in Seq(Nodes), Len(workerNodes') \in Nat \ {0}
      PROVE  workerNodes' # <<>>
  BY <1>2, EmptySeq
<1>3. CASE Execute
  <2>1. PICK choice \in Outcomes :
          /\ nextWorkerNodeKey' = choice.next /\ virtualTaskRunTime' = choice.virtual
          /\ roundId' = choice.round /\ workerNodeId' = choice.id
          /\ retriesCount' = CASE choice.key = Absent -> Retries
                               [] choice.key = Thrown -> retriesCount
                               [] OTHER -> 0
          /\ workerNodes' \in Seq(Nodes) /\ Len(workerNodes') = Length
    BY <1>3, ExecuteGives
  <2>2. choice \in Choices
    BY OutcomesListed
  <2>3. /\ choice.next \in Nat /\ choice.virtual \in Nat /\ choice.round \in Nat
        /\ choice.id \in Nat
    BY <2>2 DEF Choices
  <2>4. retriesCount' \in 0 .. Retries
    BY <2>1 DEF Typed
  <2>5. UNCHANGED <<strategy, weights, now>>
    BY <1>3 DEF Execute
  <2> QED
    BY <1>1, <1>2, <2>1, <2>3, <2>4, <2>5 DEF Typed, Length
<1>4. ASSUME NEW k \in Keys, NEW failed \in BOOLEAN,
             NEW time \in {0} \cup RunTimes, AnsweredBy(k, failed, time)
      PROVE  Typed'
  <2>1. /\ UNCHANGED <<strategy, weights, retriesCount, keyVars, now>>
        /\ workerNodes' \in Seq(Nodes) /\ Len(workerNodes') = Length
    BY <1>4, AnswerGives
  <2> QED
    BY <1>1, <1>2, <2>1 DEF Typed, Length, keyVars
<1>5. ASSUME NEW s \in Strategies, SetWorkerChoiceStrategy(s) PROVE Typed'
  <2>1. workerNodes' \in Seq(Nodes) /\ Len(workerNodes') = Length
    BY <1>5, ResetGives
  <2>2. /\ strategy' = s /\ UNCHANGED <<weights, retriesCount, now>> /\ ResetKeys
    BY <1>5 DEF SetWorkerChoiceStrategy
  <2>3. /\ nextWorkerNodeKey' \in Nat /\ virtualTaskRunTime' \in Nat
        /\ roundId' \in Nat /\ workerNodeId' \in Nat
    BY <2>2 DEF ResetKeys
  <2> QED
    BY <1>1, <1>2, <2>1, <2>2, <2>3 DEF Typed, Length
<1>6. ASSUME NEW w \in WeightOptions, SetWorkerChoiceStrategyOptions(w) PROVE Typed'
  BY <1>6 DEF Typed, Length, SetWorkerChoiceStrategyOptions, keyVars
<1>7. CASE AddWorkerNode
  <2>1. NewNode \in Nodes
    BY DEF NewNode, Nodes
  <2>2. /\ workerNodes' = Append(workerNodes, NewNode) /\ Length < MaxNodes
        /\ UNCHANGED <<strategy, weights, retriesCount, keyVars, now>>
    BY <1>7 DEF AddWorkerNode
  <2>3. workerNodes' \in Seq(Nodes) /\ Len(workerNodes') = Length + 1
    BY <1>1, <2>1, <2>2, AppendProperties DEF Length
  <2>4. Length + 1 <= MaxNodes /\ Length + 1 \in Nat \ {0}
    BY <1>1, <2>2
  <2> QED
    BY <1>2, <2>2, <2>3, <2>4 DEF Typed, Length, keyVars
<1>8. ASSUME NEW k \in Keys, RemoveWorkerNode(k) PROVE Typed'
  <2>1. workerNodes' \in Seq(Nodes) /\ Len(workerNodes') = Length - 1
        /\ Length - 1 \in Nat \ {0}
    BY <1>8, RemovalGives
  <2>2. k \in Nat /\ k < Length
    BY KeysListed
  <2>3. ASSUME NEW n \in Nat PROVE RemovedKey(n, k, Length - 1) \in Nat
    BY <1>1, <2>1 DEF RemovedKey
  <2>4. /\ nextWorkerNodeKey' \in Nat /\ virtualTaskRunTime' \in Nat
        /\ workerNodeId' \in Nat
    BY <1>8, <2>3 DEF RemoveWorkerNode, Typed
  <2>5. UNCHANGED <<strategy, weights, retriesCount, roundId, now>>
    BY <1>8 DEF RemoveWorkerNode
  <2> QED
    BY <1>1, <1>2, <2>1, <2>4, <2>5 DEF Typed, Length
<1>9. CASE Tick
  BY <1>9 DEF Tick, Typed, Length, keyVars
<1>10. CASE UNCHANGED vars
  BY <1>10 DEF vars, keyVars, Typed, Length
<1> QED
  BY <1>3, <1>4, <1>5, <1>6, <1>7, <1>8, <1>9, <1>10, NextSplit

LEMMA TurnsKept ==
  ASSUME Typed, TurnsInv, [Next]_vars
  PROVE  TurnsInv'
<1>1. /\ Length \in Nat \ {0} /\ 0 \in Keys /\ Absent \notin Keys
      /\ Keys = 0 .. Length - 1 /\ \A k \in Nat : k \in Keys <=> k < Length
  BY KeysListed DEF Keys, Absent
<1>2. Length' = Len(workerNodes') /\ Keys' = 0 .. Length' - 1
  BY DEF Length, Keys
<1>3. CASE Execute
  <2>1. PICK choice \in Outcomes :
          /\ nextWorkerNodeKey' = choice.next
          /\ roundId' = choice.round /\ workerNodeId' = choice.id
          /\ retriesCount' = CASE choice.key = Absent -> Retries
                               [] choice.key = Thrown -> retriesCount
                               [] OTHER -> 0
          /\ Len(workerNodes') = Length
    BY <1>3, ExecuteGives
  <2>2. UNCHANGED <<strategy, strayed>> /\ Keys' = Keys
    BY <1>1, <1>2, <1>3, <2>1 DEF Execute
  <2>3. ASSUME ~strayed, strategy \in {"ROUND_ROBIN", "WEIGHTED_ROUND_ROBIN"}
        PROVE  nextWorkerNodeKey' \in Keys
    <3> DEFINE c0 == Choice(Absent, nextWorkerNodeKey, virtualTaskRunTime, roundId,
                            workerNodeId)
    <3>1. c0 \in Choices /\ c0.next = nextWorkerNodeKey
      BY DEF Typed, Choice, Choices
    <3>2. nextWorkerNodeKey \in Keys /\ First = Choose(c0)
      BY <2>3 DEF TurnsInv, First
    <3> HIDE DEF c0
    <3>3. First.key \in Keys /\ First.next \in Keys
      BY <2>3, <3>1, <3>2, ChooseListed
    <3>4. choice = First
      BY <1>1, <3>3, OutcomesListed
    <3> QED
      BY <2>1, <3>3, <3>4
  <2>4. ASSUME ~strayed, strategy = Interleaved
        PROVE  /\ workerNodeId' \in Keys /\ roundId' = 0
               /\ retriesCount' # 0 => workerNodeId' = 0
    <3>1. /\ choice.key \in Keys \cup {Absent} /\ choice.round = 0
          /\ choice.key \in Keys => choice.id = choice.key
          /\ choice.key = Absent => choice.id = 0
      BY <2>4, InterleavedTurns
    <3>2. CASE choice.key \in Keys
      <4>1. choice.key # Absent /\ choice.key # Thrown
        BY <1>1, <3>2, KeysListed DEF Thrown
      <4> QED
        BY <2>1, <3>1, <3>2, <4>1
    <3>3. CASE choice.key = Absent
      BY <1>1, <2>1, <3>1, <3>3
    <3> QED
      BY <3>1, <3>2, <3>3
  <2> QED
    BY <2>2, <2>3, <2>4 DEF TurnsInv
<1>4. ASSUME NEW k \in Keys, NEW failed \in BOOLEAN,
             NEW time \in {0} \cup RunTimes, AnsweredBy(k, failed, time)
      PROVE  TurnsInv'
  <2>1. /\ UNCHANGED <<strategy, retriesCount, keyVars, strayed>>
        /\ Len(workerNodes') = Length
    BY <1>4, AnswerGives
  <2>2. Keys' = Keys
    BY <1>1, <1>2, <2>1
  <2> QED
    BY <2>1, <2>2 DEF TurnsInv, keyVars
<1>5. ASSUME NEW s \in Strategies, SetWorkerChoiceStrategy(s) PROVE TurnsInv'
  <2>1. Len(workerNodes') = Length
    BY <1>5, ResetGives
  <2>2. Keys' = Keys
    BY <1>1, <1>2, <2>1
  <2>3. ResetKeys
    BY <1>5 DEF SetWorkerChoiceStrategy
  <2>4. nextWorkerNodeKey' = 0 /\ roundId' = 0 /\ workerNodeId' = 0
    BY <2>3 DEF ResetKeys
  <2> QED
    BY <1>1, <2>2, <2>4 DEF TurnsInv
<1>6. ASSUME NEW w \in WeightOptions, SetWorkerChoiceStrategyOptions(w) PROVE TurnsInv'
  <2>1. UNCHANGED <<strategy, retriesCount, keyVars, workerNodes, strayed>>
    BY <1>6 DEF SetWorkerChoiceStrategyOptions
  <2> QED
    BY <2>1 DEF TurnsInv, keyVars, Keys, Length
<1>7. CASE AddWorkerNode
  <2>1. /\ workerNodes' = Append(workerNodes, NewNode)
        /\ UNCHANGED <<strategy, retriesCount, keyVars, strayed>>
    BY <1>7 DEF AddWorkerNode
  <2>2. Length' = Length + 1
    <3>1. workerNodes \in Seq(Nodes) /\ NewNode \in Nodes
      BY DEF Typed, NewNode, Nodes
    <3>2. Len(Append(workerNodes, NewNode)) = Len(workerNodes) + 1
      BY <3>1, AppendProperties
    <3> QED
      BY <2>1, <3>2 DEF Length
  <2>3. Keys \subseteq Keys'
    BY <1>1, <1>2, <2>2
  <2> QED
    BY <2>1, <2>3 DEF TurnsInv, keyVars
<1>8. ASSUME NEW removed \in Keys, RemoveWorkerNode(removed) PROVE TurnsInv'
  <2>1. Length' = Length - 1 /\ Length - 1 \in Nat \ {0}
    BY <1>2, <1>8, RemovalGives
  <2>2. ASSUME NEW key \in Keys, ~(removed < key)
        PROVE  /\ RemovedKey(key, removed, Length - 1) \in Keys'
               /\ key = 0 => RemovedKey(key, removed, Length - 1) = 0
    <3>1. key \in Nat /\ removed \in Nat /\ key <= removed /\ removed <= Length - 1
      BY <1>1, <2>2
    <3>2. CASE key = removed /\ key > Length - 1 - 1
      <4>1. RemovedKey(key, removed, Length - 1) = Length - 1 - 1
        BY <2>1, <3>1, <3>2 DEF RemovedKey
      <4>2. PICK n : n = Length - 1
        OBVIOUS
      <4>3. n \in Nat /\ n # 0 /\ key > n - 1 /\ Keys' = 0 .. n - 1
        BY <1>2, <2>1, <3>2, <4>2
      <4>4. n - 1 \in 0 .. n - 1 /\ key # 0
        BY ONLY <3>1, <4>3
      <4> QED
        BY <4>1, <4>2, <4>3, <4>4
    <3>3. CASE ~(key = removed /\ key > Length - 1 - 1)
      <4>1. RemovedKey(key, removed, Length - 1) = key
        BY <2>1, <3>1, <3>3 DEF RemovedKey
      <4>2. key <= Length - 1 - 1
        BY <2>1, <3>1, <3>3
      <4> QED
        BY <1>2, <2>1, <3>1, <4>1, <4>2
    <3> QED
      BY <3>2, <3>3
  <2>3. /\ UNCHANGED <<strategy, retriesCount, roundId>>
        /\ strayed' = (strayed \/ removed < TurnKey)
        /\ nextWorkerNodeKey' =
             IF strategy \in {"ROUND_ROBIN", "WEIGHTED_ROUND_ROBIN"}
               THEN RemovedKey(nextWorkerNodeKey, removed, Length - 1)
               ELSE nextWorkerNodeKey
        /\ workerNodeId' =
             IF strategy = Interleaved
               THEN RemovedKey(workerNodeId, removed, Length - 1) ELSE workerNodeId
    BY <1>8 DEF RemoveWorkerNode, Interleaved
  <2>4. CASE strayed'
    BY <2>4 DEF TurnsInv
  <2>5. CASE ~strayed'
    <3>1. ~strayed /\ ~(removed < TurnKey)
      BY <2>3, <2>5
    <3>2. CASE strategy \in {"ROUND_ROBIN", "WEIGHTED_ROUND_ROBIN"}
      <4>1. TurnKey = nextWorkerNodeKey /\ strategy # Interleaved
        BY <3>2 DEF TurnKey, Interleaved
      <4>2. nextWorkerNodeKey \in Keys
        BY <3>1, <3>2 DEF TurnsInv
      <4>3. nextWorkerNodeKey' \in Keys'
        BY <2>2, <2>3, <3>1, <3>2, <4>1, <4>2
      <4> QED
        BY <2>3, <4>1, <4>3 DEF TurnsInv
    <3>3. CASE strategy = Interleaved
      <4>1. TurnKey = workerNodeId
            /\ strategy \notin {"ROUND_ROBIN", "WEIGHTED_ROUND_ROBIN"}
        BY <3>3 DEF TurnKey, Interleaved
      <4>2. /\ workerNodeId \in Keys /\ roundId = 0
            /\ retriesCount # 0 => workerNodeId = 0
        BY <3>1, <3>3 DEF TurnsInv
      <4>3. workerNodeId' \in Keys' /\ (workerNodeId = 0 => workerNodeId' = 0)
        BY <2>2, <2>3, <3>1, <3>3, <4>1, <4>2
      <4> QED
        BY <2>3, <4>1, <4>2, <4>3 DEF TurnsInv
    <3>4. CASE strategy \notin {"ROUND_ROBIN", "WEIGHTED_ROUND_ROBIN", Interleaved}
      BY <2>3, <3>4 DEF TurnsInv
    <3> QED
      BY <3>2, <3>3, <3>4
  <2> QED
    BY <2>4, <2>5
<1>9. CASE Tick
  BY <1>9 DEF Tick, TurnsInv, keyVars, Keys, Length
<1>10. CASE UNCHANGED vars
  BY <1>10 DEF vars, TurnsInv, keyVars, Keys, Length
<1> QED
  BY <1>3, <1>4, <1>5, <1>6, <1>7, <1>8, <1>9, <1>10, NextSplit

LEMMA BalanceKept ==
  ASSUME Typed, BalanceInv, [Next]_vars
  PROVE  BalanceInv'
<1>1. /\ Length \in Nat \ {0} /\ Keys \subseteq Nat
      /\ \A k \in Keys : NodeAt(k) \in Nodes
  BY KeysListed
<1>2. Length' = Len(workerNodes') /\ Keys' = 0 .. Length' - 1 /\ Keys = 0 .. Length - 1
  BY DEF Length, Keys
<1>3. \A k \in Keys : /\ NodeAt(k).executed \in Nat /\ NodeAt(k).executing \in Nat
                      /\ NodeAt(k).inFlight \in Nat /\ NodeAt(k).failed \in Nat
                      /\ LeastUsed[k] = NodeAt(k).executed + NodeAt(k).executing
  BY <1>1, Compared DEF Nodes
<1>4. ASSUME Keys' = Keys,
             \A k \in Keys : workerNodes'[k + 1].executing = workerNodes'[k + 1].inFlight,
             \A j, k \in Keys :
               workerNodes'[j + 1].executed + workerNodes'[j + 1].executing
                 <= workerNodes'[k + 1].executed + workerNodes'[k + 1].executing + 1
                      + workerNodes'[k + 1].failed
      PROVE  BalanceInv'
  BY <1>4 DEF BalanceInv, LeastUsedBalances, LeastUsed, NodeAt
<1>5. ASSUME strategy = "LEAST_USED", ~disturbed
      PROVE  /\ \A k \in Keys : NodeAt(k).executing = NodeAt(k).inFlight
             /\ \A j, k \in Keys : NodeAt(j).executed + NodeAt(j).executing
                                     <= NodeAt(k).executed + NodeAt(k).executing + 1
                                          + NodeAt(k).failed
  <2>1. /\ \A k \in Keys : NodeAt(k).executing = NodeAt(k).inFlight
        /\ \A j, k \in Keys : LeastUsed[j] <= LeastUsed[k] + 1 + NodeAt(k).failed
    BY <1>5 DEF BalanceInv, LeastUsedBalances
  <2> QED
    BY <1>3, <2>1
<1>6. ASSUME ~(strategy' = "LEAST_USED" /\ ~disturbed') PROVE BalanceInv'
  BY <1>6 DEF BalanceInv
<1>7. CASE Execute
  <2>1. PICK choice \in Outcomes :
          /\ Len(workerNodes') = Length
          /\ \A k \in Keys :
               /\ workerNodes'[k + 1].executed = NodeAt(k).executed
               /\ workerNodes'[k + 1].failed = NodeAt(k).failed
               /\ workerNodes'[k + 1].inFlight =
                    NodeAt(k).inFlight + (IF k = choice.key THEN 1 ELSE 0)
               /\ workerNodes'[k + 1].executing = NodeAt(k).executing
                    + (IF strategy = "LEAST_USED" /\ k = choice.key THEN 1 ELSE 0)
    BY <1>7, ExecuteGives
  <2>2. UNCHANGED <<strategy, disturbed>> /\ Keys' = Keys
    BY <1>2, <1>7, <2>1 DEF Execute
  <2>3. CASE strategy = "LEAST_USED" /\ ~disturbed
    <3> DEFINE c0 == Choice(Absent, nextWorkerNodeKey, virtualTaskRunTime, roundId,
                            workerNodeId)
    <3>1. c0 \in Choices /\ First = Choose(c0)
      BY DEF Typed, Choice, Choices, First
    <3> HIDE DEF c0
    <3>2. First.key # Absent /\ First.key = LeastKey(LeastUsed)
      BY <2>3, <3>1, ChooseListed DEF Interleaved
    <3>3. choice.key = LeastKey(LeastUsed)
      BY <3>2, OutcomesListed
    <3>4. /\ LeastKey(LeastUsed) \in Keys
          /\ \A j \in Keys : LeastUsed[LeastKey(LeastUsed)] <= LeastUsed[j]
      BY Compared, LeastListed
    <3>5. PICK key \in Keys : /\ choice.key = key
                              /\ \A j \in Keys : NodeAt(key).executed + NodeAt(key).executing
                                                   <= NodeAt(j).executed + NodeAt(j).executing
      BY <1>3, <3>3, <3>4
    <3>6. ASSUME NEW k \in Keys
          PROVE  /\ workerNodes'[k + 1].executing = workerNodes'[k + 1].inFlight
                 /\ workerNodes'[k + 1].executed + workerNodes'[k + 1].executing
                      = NodeAt(k).executed + NodeAt(k).executing
                          + (IF k = key THEN 1 ELSE 0)
      <4>1. NodeAt(k).executing = NodeAt(k).inFlight
        BY <1>5, <2>3
      <4> QED
        BY <1>3, <2>1, <2>3, <3>5, <4>1
    <3>7. ASSUME NEW j \in Keys, NEW k \in Keys
          PROVE  workerNodes'[j + 1].executed + workerNodes'[j + 1].executing
                   <= workerNodes'[k + 1].executed + workerNodes'[k + 1].executing + 1
                        + workerNodes'[k + 1].failed
      <4> DEFINE a == NodeAt(j).executed + NodeAt(j).executing
                 b == NodeAt(k).executed + NodeAt(k).executing
                 f == NodeAt(k).failed
      <4>1. /\ a \in Nat /\ b \in Nat /\ f \in Nat
            /\ a <= b + 1 + f /\ (j = key => a <= b)
        BY <1>3, <1>5, <2>3, <3>5
      <4>2. /\ workerNodes'[j + 1].executed + workerNodes'[j + 1].executing
                 = a + (IF j = key THEN 1 ELSE 0)
            /\ workerNodes'[k + 1].executed + workerNodes'[k + 1].executing
                 = b + (IF k = key THEN 1 ELSE 0)
            /\ workerNodes'[k + 1].failed = f
        BY <2>1, <3>6
      <4> HIDE DEF a, b, f
      <4> QED
        BY <4>1, <4>2
    <3> QED
      BY <1>4, <2>2, <3>6, <3>7
  <2> QED
    BY <1>6, <2>2, <2>3
<1>8. ASSUME NEW key \in Keys, NEW failed \in BOOLEAN,
             NEW time \in {0} \cup RunTimes, AnsweredBy(key, failed, time)
      PROVE  BalanceInv'
  <2>1. /\ UNCHANGED <<strategy, disturbed>>
        /\ Len(workerNodes') = Length
        /\ \A k \in Keys : k # key => workerNodes'[k + 1] = NodeAt(k)
        /\ NodeAt(key).inFlight > 0
        /\ workerNodes'[key + 1].inFlight = NodeAt(key).inFlight - 1
        /\ strategy = "LEAST_USED" =>
             /\ workerNodes'[key + 1].executed
                  = NodeAt(key).executed + (IF failed THEN 0 ELSE 1)
             /\ workerNodes'[key + 1].failed
                  = NodeAt(key).failed + (IF failed THEN 1 ELSE 0)
             /\ NodeAt(key).executing > 0 =>
                  workerNodes'[key + 1].executing = NodeAt(key).executing - 1
    BY <1>8, AnswerGives
  <2>2. Keys' = Keys
    BY <1>2, <2>1
  <2>3. CASE strategy = "LEAST_USED" /\ ~disturbed
    <3> DEFINE Lost(k) == IF k = key /\ failed THEN 1 ELSE 0
    <3>1. ASSUME NEW k \in Keys
          PROVE  /\ workerNodes'[k + 1].executing = workerNodes'[k + 1].inFlight
                 /\ workerNodes'[k + 1].executed + workerNodes'[k + 1].executing
                      = (NodeAt(k).executed + NodeAt(k).executing) - Lost(k)
                 /\ workerNodes'[k + 1].failed = NodeAt(k).failed + Lost(k)
                 /\ Lost(k) \in {0, 1}
      <4>1. NodeAt(k).executing = NodeAt(k).inFlight
        BY <1>5, <2>3
      <4>2. CASE k = key
        BY <1>3, <2>1, <2>3, <4>1, <4>2
      <4>3. CASE k # key
        <5>1. workerNodes'[k + 1] = NodeAt(k)
          BY <2>1, <4>3
        <5> QED
          BY <1>3, <4>1, <4>3, <5>1
      <4> QED
        BY <4>2, <4>3
    <3> HIDE DEF Lost
    <3>2. ASSUME NEW j \in Keys, NEW k \in Keys
          PROVE  workerNodes'[j + 1].executed + workerNodes'[j + 1].executing
                   <= workerNodes'[k + 1].executed + workerNodes'[k + 1].executing + 1
                        + workerNodes'[k + 1].failed
      <4> DEFINE a == NodeAt(j).executed + NodeAt(j).executing
                 b == NodeAt(k).executed + NodeAt(k).executing
                 f == NodeAt(k).failed
      <4>1. a \in Nat /\ b \in Nat /\ f \in Nat /\ a <= b + 1 + f
        BY <1>3, <1>5, <2>3
      <4>2. /\ workerNodes'[j + 1].executed + workerNodes'[j + 1].executing
                 = a - Lost(j)
            /\ Lost(j) \in {0, 1}
        BY <3>1
      <4>3. /\ workerNodes'[k + 1].executed + workerNodes'[k + 1].executing
                 = b - Lost(k)
            /\ workerNodes'[k + 1].failed = f + Lost(k)
            /\ Lost(k) \in {0, 1}
        BY <3>1
      <4> HIDE DEF a, b, f
      <4> QED
        BY <4>1, <4>2, <4>3
    <3> QED
      BY <1>4, <2>2, <3>1, <3>2
  <2> QED
    BY <1>6, <2>1, <2>3
<1>9. ASSUME NEW s \in Strategies, SetWorkerChoiceStrategy(s) PROVE BalanceInv'
  <2>1. /\ Len(workerNodes') = Length
        /\ \A k \in Keys : /\ workerNodes'[k + 1].inFlight = NodeAt(k).inFlight
                           /\ workerNodes'[k + 1].executing = 0
                           /\ workerNodes'[k + 1].executed = 0
                           /\ workerNodes'[k + 1].failed = 0
    BY <1>9, ResetGives
  <2>2. /\ Keys' = Keys /\ disturbed' = (\E k \in Keys : NodeAt(k).inFlight > 0)
    BY <1>2, <1>9, <2>1 DEF SetWorkerChoiceStrategy
  <2>3. CASE ~disturbed'
    <3>1. \A k \in Keys : NodeAt(k).inFlight = 0
      BY <1>3, <2>2, <2>3
    <3> QED
      BY <1>4, <2>1, <2>2, <3>1
  <2> QED
    BY <1>6, <2>3
<1>10. ASSUME NEW w \in WeightOptions, SetWorkerChoiceStrategyOptions(w)
       PROVE  BalanceInv'
  <2>1. UNCHANGED <<strategy, workerNodes, disturbed>>
    BY <1>10 DEF SetWorkerChoiceStrategyOptions
  <2> QED
    BY <2>1 DEF BalanceInv, LeastUsedBalances, LeastUsed, NodeAt, Keys, Length
<1>11. CASE AddWorkerNode
  BY <1>6, <1>11 DEF AddWorkerNode
<1>12. ASSUME NEW k \in Keys, RemoveWorkerNode(k) PROVE BalanceInv'
  BY <1>6, <1>12 DEF RemoveWorkerNode
<1>13. CASE Tick
  BY <1>13 DEF Tick, BalanceInv
<1>14. CASE UNCHANGED vars
  BY <1>14 DEF vars, BalanceInv, LeastUsedBalances, LeastUsed, NodeAt, Keys, Length
<1> QED
  BY <1>7, <1>8, <1>9, <1>10, <1>11, <1>12, <1>13, <1>14, NextSplit

-----------------------------------------------------------------------------
(* Theorems.                                                               *)

\* The invariant holds in every state, whatever the nodes, strategies, weights
\* and retries of the pool.
THEOREM IInvAlways == Spec => []IInv
<1>1. Init => IInv
  BY InitIInv
<1>2. IInv /\ [Next]_vars => IInv'
  BY TypedKept, TurnsKept, BalanceKept DEF IInv
<1> QED
  BY <1>1, <1>2, PTL DEF Spec

\* The state has its types, and until a removal leads a strategy astray the
\* interleaved one is in a round that there is, whatever setOptions() makes of
\* the weights under it.
THEOREM TypesKept == Spec => []TypeOK
<1>1. IInv => TypeOK
  <2> SUFFICES ASSUME IInv PROVE TypeOK
    OBVIOUS
  <2>1. strategy \in Strategies /\ weights \in WeightOptions
        /\ retriesCount \in 0 .. Retries
    BY DEF IInv, Typed
  <2>2. workerNodes \in Seq([executed : Nat, failed : Nat, executing : Nat, inFlight : Nat,
                             busy : Nat, elu : Nat, runTime : Nat, end : Int])
    <3> DEFINE N == [executed : Nat, failed : Nat, executing : Nat, inFlight : Nat,
                     busy : Nat, elu : Nat, runTime : Nat, end : Int]
    <3>1. Nodes \subseteq N
      BY DEF Nodes, Absent
    <3>2. workerNodes \in Seq(Nodes)
      BY DEF IInv, Typed
    <3> HIDE DEF N
    <3>3. workerNodes \in Seq(N)
      BY <3>1, <3>2, SeqMonotonic
    <3> QED
      BY <3>3 DEF N
  <2>3. \/ strayed \/ strategy # Interleaved \/ roundId < RoundCount(weights)
    <3>1. RoundCount(weights) \in Nat \ {0}
      BY <2>1, RoundWeights
    <3>2. ~strayed /\ strategy = Interleaved => roundId = 0
      BY DEF IInv, TurnsInv
    <3> QED
      BY <3>1, <3>2
  <2> QED
    BY <2>1, <2>2, <2>3 DEF TypeOK, Interleaved
<1> QED
  BY <1>1, IInvAlways, PTL

\* Until a removal leads it astray, the interleaved strategy gives every task in
\* its first round: contrary to NextRoundStarts, choose() runs through the later
\* rounds at the last node in the same call.
StaysInFirstRound ==
  strayed \/ strategy # Interleaved \/ roundId = 0

\* That is so for any number of nodes, any weights and any changes.
THEOREM AlwaysStaysInFirstRound == Spec => []StaysInFirstRound
<1>1. IInv => StaysInFirstRound
  BY DEF IInv, TurnsInv, StaysInFirstRound
<1> QED
  BY <1>1, IInvAlways, PTL

\* The reduce() of least used keeps any number of nodes level but for failures:
\* none counts more than one task more than another and its failed tasks, in
\* whatever order tasks are answered, as long as the usages count every task.
THEOREM LeastUsedAlwaysBalances == Spec => []LeastUsedBalances
<1>1. IInv => LeastUsedBalances
  BY DEF IInv, BalanceInv, LeastUsedBalances
<1> QED
  BY <1>1, IInvAlways, PTL

\* execute() of the context returns the key of a listed node, until a lower key
\* than that of a strategy that takes turns is removed; the interleaved strategy
\* needs one retry, and a second node.
THEOREM AlwaysChoosesListedNode ==
  ASSUME Retries > 0 \/ Interleaved \notin Strategies
  PROVE  Spec => ChoosesListedNode
<1>1. IInv /\ [Next]_vars =>
        [\/ chosen' \in Keys
         \/ strayed
         \/ strategy = "INTERLEAVED_WEIGHTED_ROUND_ROBIN" /\ Length = 1
         \/ ~Execute]_vars
  <2> SUFFICES ASSUME IInv, Execute, ~strayed,
                      ~(strategy = Interleaved /\ Length = 1)
               PROVE  chosen' \in Keys
    BY DEF Interleaved
  <2>1. Typed /\ TurnsInv
    BY DEF IInv
  <2>2. /\ Length \in Nat \ {0} /\ Keys \subseteq Nat
    BY <2>1, KeysListed
  <2>3. PICK choice \in Outcomes :
          chosen' = IF choice.key = Absent THEN Thrown ELSE choice.key
    BY <2>1, ExecuteGives
  <2>4. choice.key \in Keys
    <3> DEFINE c0 == Choice(Absent, nextWorkerNodeKey, virtualTaskRunTime, roundId,
                            workerNodeId)
    <3>1. c0 \in Choices /\ First = Choose(c0) /\ c0.next = nextWorkerNodeKey
      BY <2>1 DEF Typed, Choice, Choices, First
    <3> HIDE DEF c0
    <3>2. CASE strategy = Interleaved
      <4>1. Retries > 0 /\ Length > 1
        BY <2>1, <2>2, <3>2 DEF Typed
      <4> QED
        BY <2>1, <3>2, <4>1, InterleavedTurns
    <3>3. CASE strategy # Interleaved
      <4>1. /\ First.key # Absent
            /\ strategy \in Comparing => First.key \in Keys
            /\ strategy \in {"ROUND_ROBIN", "WEIGHTED_ROUND_ROBIN"}
                 /\ c0.next \in Keys => First.key \in Keys
        BY <2>1, <3>1, <3>3, ChooseListed
      <4>2. strategy \in {"ROUND_ROBIN", "WEIGHTED_ROUND_ROBIN"} => c0.next \in Keys
        BY <2>1, <3>1 DEF TurnsInv
      <4>3. strategy \in Comparing \cup {"ROUND_ROBIN", "WEIGHTED_ROUND_ROBIN"}
        BY <2>1, <3>3, StrategyAssumption DEF Typed, Comparing, Interleaved
      <4>4. choice = First
        BY <2>1, <4>1, OutcomesListed
      <4> QED
        BY <4>1, <4>2, <4>3, <4>4
    <3> QED
      BY <3>2, <3>3
  <2> QED
    BY <2>2, <2>3, <2>4 DEF Absent
<1> QED
  BY <1>1, IInvAlways, PTL DEF Spec, ChoosesListedNode

\* The virtual end of fair share never goes back between resets, whichever node
\* is chosen and whatever run times are measured.
THEOREM VirtualTimeAlwaysAdvances == Spec => VirtualTimeAdvances
<1>1. IInv /\ [Next]_vars =>
        [\/ Change
         \/ \A k \in Keys : workerNodes'[k + 1].end >= NodeAt(k).end]_vars
  <2> SUFFICES ASSUME IInv, Execute \/ Answer \/ Tick, NEW k \in Keys
               PROVE  workerNodes'[k + 1].end >= NodeAt(k).end
    BY DEF Next
  <2>1. Typed
    BY DEF IInv
  <2>2. NodeAt(k).end >= NodeAt(k).end
    <3>1. NodeAt(k).end \in Nat \cup {Absent}
      BY <2>1, KeysListed DEF Nodes
    <3> QED
      BY <3>1 DEF Absent
  <2>3. CASE Execute
    BY <2>1, <2>3, ExecuteGives
  <2>4. CASE Answer
    <3>1. PICK key \in Keys, failed \in BOOLEAN, time \in {0} \cup RunTimes :
            AnsweredBy(key, failed, time)
      BY <2>4, AnswerSplit
    <3>2. /\ \A j \in Keys : j # key => workerNodes'[j + 1] = NodeAt(j)
          /\ workerNodes'[key + 1].end >= NodeAt(key).end
      BY <2>1, <3>1, AnswerGives
    <3> QED
      BY <2>2, <3>2
  <2>5. CASE Tick
    BY <2>2, <2>5 DEF Tick, NodeAt
  <2> QED
    BY <2>3, <2>4, <2>5
<1> QED
  BY <1>1, IInvAlways, PTL DEF Spec, VirtualTimeAdvances
=============================================================================
