------------------------- MODULE MeasurementsProofs -------------------------
(***************************************************************************)
(* Theorems about Measurements: the types, that statistics describe        *)
(* exactly what was measured, that a worker is told in time what to        *)
(* measure, and that the usages of task functions never add up to more     *)
(* than that of their node.                                                *)
(***************************************************************************)
EXTENDS Measurements, SequenceTheorems, FiniteSetTheorems,
        WellFoundedInduction, TLAPS

-----------------------------------------------------------------------------
(* Sums over sets, as functions of the subsets of a set.                   *)

\* A set of natural numbers that is not empty has a smallest element.
LEMMA SmallestElement ==
  ASSUME NEW S \in SUBSET Nat, S # {}
  PROVE  \E m \in S : \A n \in S : m <= n
<1>1. \E m \in S : \A n \in S : ~ (<<n, m>> \in OpToRel(<, Nat))
  BY NatLessThanWellFounded, WFMin
<1>2. \A m, n \in Nat : <<n, m>> \in OpToRel(<, Nat) <=> n < m
  BY DEF OpToRel
<1>3. PICK m \in S : \A n \in S : ~ (<<n, m>> \in OpToRel(<, Nat))
  BY <1>1
<1>4. ASSUME NEW n \in S PROVE m <= n
  <2>1. m \in Nat /\ n \in Nat /\ ~ (n < m)
    BY <1>2, <1>3
  <2> QED
    BY <2>1
<1> QED
  BY <1>4

\* The sums of f over the subsets of S.
Adds(F, f, S) ==
  /\ F \in [SUBSET S -> Nat]
  /\ F[{}] = 0
  /\ \A T \in SUBSET S : \A x \in T : F[T] = f[x] + F[T \ {x}]

\* One more element in S.
LEMMA SumsExtended ==
  ASSUME NEW S, NEW x, x \notin S, NEW f, \A y \in S \cup {x} : f[y] \in Nat,
         NEW F, Adds(F, f, S)
  PROVE  \E G : Adds(G, f, S \cup {x})
<1> DEFINE more(T) == IF x \in T THEN f[x] ELSE 0
           G == [T \in SUBSET (S \cup {x}) |-> more(T) + F[T \ {x}]]
<1>1. ASSUME NEW T \in SUBSET (S \cup {x})
      PROVE  /\ T \ {x} \in SUBSET S /\ F[T \ {x}] \in Nat /\ more(T) \in Nat
             /\ G[T] = more(T) + F[T \ {x}]
  BY DEF Adds
<1>2. G \in [SUBSET (S \cup {x}) -> Nat]
  <2> SUFFICES ASSUME NEW T \in SUBSET (S \cup {x})
               PROVE  more(T) + F[T \ {x}] \in Nat
    OBVIOUS
  <2>1. more(T) \in Nat /\ F[T \ {x}] \in Nat
    BY <1>1
  <2> HIDE DEF more
  <2> QED
    BY <2>1
<1>3. G[{}] = 0
  BY DEF Adds
<1>4. ASSUME NEW T \in SUBSET (S \cup {x}), NEW y \in T
      PROVE  G[T] = f[y] + G[T \ {y}]
  <2>1. G[T] = more(T) + F[T \ {x}] /\ G[T \ {y}] = more(T \ {y}) + F[(T \ {y}) \ {x}]
    OBVIOUS
  <2>2. CASE y = x
    <3>1. more(T) = f[x] /\ more(T \ {y}) = 0 /\ (T \ {y}) \ {x} = T \ {x}
      BY <2>2
    <3>2. F[T \ {x}] \in Nat /\ f[x] \in Nat
      BY <1>1
    <3>3. G[T] = f[x] + F[T \ {x}] /\ G[T \ {y}] = 0 + F[T \ {x}]
      BY ONLY <2>1, <3>1
    <3> QED
      BY ONLY <2>2, <3>2, <3>3
  <2>3. CASE y # x
    <3>1. more(T \ {y}) = more(T) /\ more(T) \in Nat
      BY <2>3
    <3>2. y \in T \ {x} /\ (T \ {y}) \ {x} = (T \ {x}) \ {y}
      BY <2>3
    <3>3. F[T \ {x}] = f[y] + F[(T \ {x}) \ {y}]
      BY <1>1, <3>2 DEF Adds
    <3>4. F[(T \ {x}) \ {y}] \in Nat
      <4>1. (T \ {x}) \ {y} \in SUBSET S
        BY <1>1
      <4> QED
        BY <4>1 DEF Adds
    <3>5. f[y] \in Nat
      OBVIOUS
    <3>6. PICK d \in Nat : more(T) = d /\ more(T \ {y}) = d
      BY ONLY <3>1
    <3>7. /\ G[T] = d + F[T \ {x}]
          /\ G[T \ {y}] = d + F[(T \ {x}) \ {y}]
      BY ONLY <2>1, <3>2, <3>6
    <3> QED
      BY ONLY <3>3, <3>4, <3>5, <3>7
  <2> QED
    BY <2>2, <2>3
<1> HIDE DEF G
<1> QED
  BY <1>2, <1>3, <1>4 DEF Adds

\* Whatever is to be added up, a finite set has its sums.
LEMMA SumsExist ==
  ASSUME NEW S, IsFiniteSet(S), NEW f, \A x \in S : f[x] \in Nat
  PROVE  \E F : Adds(F, f, S)
<1> DEFINE lacks(T) == ~ \E F : Adds(F, f, T)
           wrong == {T \in SUBSET S : lacks(T)}
           bad == {Cardinality(T) : T \in wrong}
<1> HIDE DEF lacks
<1> SUFFICES ASSUME lacks(S) PROVE FALSE
  BY DEF lacks
<1>1. \A T \in SUBSET S : IsFiniteSet(T) /\ Cardinality(T) \in Nat
  BY FS_Subset, FS_CardinalityType
<1>2. bad \in SUBSET Nat /\ bad # {}
  BY <1>1
<1>3. PICK m \in bad : \A n \in bad : m <= n
  <2> HIDE DEF bad
  <2> QED
    BY <1>2, SmallestElement
<1>4. PICK T \in SUBSET S : lacks(T) /\ m = Cardinality(T)
  OBVIOUS
<1>5. CASE T = {}
  <2> DEFINE F == [U \in SUBSET {} |-> 0]
  <2>1. Adds(F, f, {})
    BY DEF Adds
  <2> QED
    BY <1>4, <1>5, <2>1 DEF lacks
<1>6. CASE T # {}
  <2>1. PICK x \in T : TRUE
    BY <1>6
  <2> DEFINE rest == T \ {x}
  <2>2. rest \in SUBSET S /\ x \notin rest /\ T = rest \cup {x}
    OBVIOUS
  <2>3. Cardinality(rest) = Cardinality(T) - 1
    BY <1>1, FS_RemoveElement
  <2> HIDE DEF rest
  <2>4. ~ lacks(rest)
    <3>1. lacks(rest) => Cardinality(rest) \in bad
      BY <2>2
    <3> HIDE DEF bad
    <3>2. Cardinality(rest) \in bad => m <= Cardinality(rest)
      BY <1>3
    <3>3. m \in Nat /\ Cardinality(rest) = m - 1
      BY <1>1, <1>4, <2>3
    <3> QED
      BY ONLY <3>1, <3>2, <3>3
  <2>5. PICK F : Adds(F, f, rest)
    BY <2>4 DEF lacks
  <2>6. \A y \in rest \cup {x} : f[y] \in Nat
    BY <2>2
  <2>7. \E G : Adds(G, f, rest \cup {x})
    BY ONLY <2>2, <2>5, <2>6, SumsExtended
  <2> QED
    BY <1>4, <2>2, <2>7 DEF lacks
<1> QED
  BY <1>5, <1>6

\* There is one function that adds up, even if it takes the elements in some
\* order of its own.
Unfolds(iter, f, S) ==
  /\ iter[{}] = 0
  /\ \A T \in SUBSET S : T # {} =>
       \E x \in T : \/ iter[T] = f[x] + iter[T \ {x}]
                    \/ iter[T] = iter[T \ {x}] + f[x]

LEMMA SumsUnique ==
  ASSUME NEW S, IsFiniteSet(S), NEW f, \A x \in S : f[x] \in Nat,
         NEW F, Adds(F, f, S), NEW iter, Unfolds(iter, f, S)
  PROVE  \A T \in SUBSET S : iter[T] = F[T]
<1> DEFINE Wrong(T) == iter[T] # F[T]
           wrong == {T \in SUBSET S : Wrong(T)}
           bad == {Cardinality(T) : T \in wrong}
<1> SUFFICES ASSUME NEW T0 \in SUBSET S, Wrong(T0) PROVE FALSE
  OBVIOUS
<1>1. \A T \in SUBSET S : IsFiniteSet(T) /\ Cardinality(T) \in Nat
  BY FS_Subset, FS_CardinalityType
<1>2. bad \in SUBSET Nat /\ bad # {}
  BY <1>1
<1>3. PICK m \in bad : \A n \in bad : m <= n
  <2> HIDE DEF bad
  <2> QED
    BY <1>2, SmallestElement
<1>4. PICK T \in SUBSET S : Wrong(T) /\ m = Cardinality(T)
  OBVIOUS
<1>5. T # {}
  BY <1>4 DEF Adds, Unfolds
<1>6. PICK x \in T : \/ iter[T] = f[x] + iter[T \ {x}]
                    \/ iter[T] = iter[T \ {x}] + f[x]
  BY <1>5 DEF Unfolds
<1>7. F[T] = f[x] + F[T \ {x}] /\ f[x] \in Nat /\ F[T \ {x}] \in Nat
  BY DEF Adds
<1>8. Wrong(T \ {x})
  BY <1>4, <1>6, <1>7
<1> DEFINE rest == T \ {x}
<1>9. rest \in wrong
  BY <1>8
<1>10. Cardinality(rest) \in bad /\ rest \in SUBSET S
  BY <1>9
<1>11. Cardinality(rest) = m - 1
  BY <1>1, <1>4, FS_RemoveElement
<1> HIDE DEF bad, rest
<1>12. m <= Cardinality(rest) /\ m \in Nat
  BY <1>1, <1>3, <1>4, <1>10
<1> QED
  BY ONLY <1>11, <1>12

-----------------------------------------------------------------------------
(* Sums of sequences.                                                      *)

Sum(s) == FoldLeft(+, 0, s)

\* What the sum of a sequence is the last value of.
Folds(iter, s) ==
  iter = [T \in SUBSET DOMAIN s |->
            IF T = {} THEN 0
            ELSE LET x == Max(T) IN iter[T \ {x}] + s[x]]

LEMMA SumFolds ==
  ASSUME NEW s
  PROVE  Sum(s) = (CHOOSE iter : Folds(iter, s))[DOMAIN s]
BY DEF Sum, FoldLeft, MapThenFoldSet, Folds

\* A finite set of numbers has a largest element.
LEMMA LargestElement ==
  ASSUME NEW n \in Nat, NEW T \in SUBSET (1 .. n), T # {}
  PROVE  Max(T) \in T /\ \A y \in T : Max(T) >= y
<1> DEFINE D == {n - t : t \in T}
<1>1. D \in SUBSET Nat /\ D # {}
  <2>1. \A t \in T : n - t \in Nat
    BY DEF D
  <2> QED
    BY <2>1
<1>2. PICK d \in D : \A e \in D : d <= e
  <2> HIDE DEF D
  <2> QED
    BY <1>1, SmallestElement
<1>3. PICK t \in T : d = n - t
  OBVIOUS
<1>4. ASSUME NEW y \in T PROVE t >= y
  <2>1. d <= n - y
    BY <1>2
  <2> QED
    BY <1>3, <2>1
<1> QED
  BY <1>4 DEF Max

LEMMA SumIs ==
  ASSUME NEW n \in Nat, NEW s, DOMAIN s = 1 .. n, \A i \in 1 .. n : s[i] \in Nat,
         NEW F, Adds(F, s, 1 .. n)
  PROVE  Sum(s) = F[1 .. n]
<1> DEFINE D == DOMAIN s
           iter == CHOOSE iter : Folds(iter, s)
<1>1. IsFiniteSet(1 .. n)
  BY FS_Interval
<1>2. F = [T \in SUBSET D |->
             IF T = {} THEN 0 ELSE F[T \ {Max(T)}] + s[Max(T)]]
  <2> DEFINE body(T) == IF T = {} THEN 0 ELSE F[T \ {Max(T)}] + s[Max(T)]
  <2>1. ASSUME NEW T \in SUBSET D PROVE F[T] = body(T)
    <3>1. CASE T = {}
      BY <3>1 DEF Adds
    <3>2. CASE T # {}
      <4>1. Max(T) \in T
        BY <3>2, LargestElement
      <4>2. F[T] = s[Max(T)] + F[T \ {Max(T)}]
        BY <4>1 DEF Adds
      <4>3. s[Max(T)] \in Nat /\ F[T \ {Max(T)}] \in Nat
        BY <4>1 DEF Adds
      <4>4. F[T] = F[T \ {Max(T)}] + s[Max(T)]
        BY ONLY <4>2, <4>3
      <4> QED
        BY <3>2, <4>4
    <3> QED
      BY <3>1, <3>2
  <2>2. F = [T \in SUBSET D |-> F[T]]
    BY DEF Adds
  <2> HIDE DEF body
  <2>3. F = [T \in SUBSET D |-> body(T)]
    BY <2>1, <2>2
  <2> QED
    BY <2>3 DEF body
<1>3. Folds(F, s)
  BY <1>2 DEF Folds
<1>4. Folds(iter, s)
  BY <1>3
<1> HIDE DEF iter
<1>5. Unfolds(iter, s, 1 .. n)
  <2>1. iter[{}] = 0
    BY <1>4 DEF Folds
  <2>2. ASSUME NEW T \in SUBSET (1 .. n), T # {}
        PROVE  \E x \in T : \/ iter[T] = s[x] + iter[T \ {x}]
                           \/ iter[T] = iter[T \ {x}] + s[x]
    <3>1. Max(T) \in T
      BY <2>2, LargestElement
    <3>2. iter[T] = iter[T \ {Max(T)}] + s[Max(T)]
      BY <1>4, <2>2 DEF Folds
    <3> QED
      BY <3>1, <3>2
  <2> QED
    BY <2>1, <2>2 DEF Unfolds
<1>6. iter[1 .. n] = F[1 .. n]
  BY <1>1, <1>5, SumsUnique
<1> QED
  BY <1>6, SumFolds DEF iter

\* Functions with the same values have the same sums.
LEMMA SumsAgree ==
  ASSUME NEW S, IsFiniteSet(S), NEW R, S \subseteq R,
         NEW f, NEW g, \A x \in S : f[x] \in Nat /\ g[x] = f[x],
         NEW F, Adds(F, f, S), NEW G, Adds(G, g, R)
  PROVE  \A T \in SUBSET S : G[T] = F[T]
<1>1. ASSUME NEW T \in SUBSET S, T # {}
      PROVE  \E x \in T : \/ G[T] = f[x] + G[T \ {x}]
                         \/ G[T] = G[T \ {x}] + f[x]
  <2>1. PICK x \in T : TRUE
    BY <1>1
  <2>2. T \in SUBSET R /\ g[x] = f[x]
    OBVIOUS
  <2>3. G[T] = g[x] + G[T \ {x}]
    BY <2>2 DEF Adds
  <2> QED
    BY <2>2, <2>3
<1>2. Unfolds(G, f, S)
  BY <1>1 DEF Adds, Unfolds
<1>3. \A x \in S : f[x] \in Nat
  OBVIOUS
<1> QED
  BY ONLY IsFiniteSet(S), Adds(F, f, S), <1>2, <1>3, SumsUnique

\* One element of the whole set at a time.
LEMMA SumStep ==
  ASSUME NEW S, NEW x \in S, NEW f, NEW F, Adds(F, f, S)
  PROVE  F[S] = f[x] + F[S \ {x}]
BY DEF Adds

\* The sum of a sequence of natural numbers is one, and grows by what is appended.
LEMMA SumGrows ==
  ASSUME NEW s \in Seq(Nat)
  PROVE  /\ Sum(s) \in Nat
         /\ \A v \in Nat : Sum(Append(s, v)) = Sum(s) + v
<1> DEFINE n == Len(s)
<1>1. n \in Nat /\ DOMAIN s = 1 .. n /\ \A i \in 1 .. n : s[i] \in Nat
  OBVIOUS
<1> HIDE DEF n
<1>2. IsFiniteSet(1 .. n)
  BY <1>1, FS_Interval
<1>3. PICK F : Adds(F, s, 1 .. n)
  BY <1>1, <1>2, SumsExist
<1>4. Sum(s) = F[1 .. n] /\ F[1 .. n] \in Nat
  <2>1. Sum(s) = F[1 .. n]
    BY <1>1, <1>3, SumIs
  <2> QED
    BY <1>3, <2>1 DEF Adds
<1>5. ASSUME NEW v \in Nat PROVE Sum(Append(s, v)) = Sum(s) + v
  <2> DEFINE l == Append(s, v)
             N == n + 1
  <2>1. /\ N \in Nat /\ DOMAIN l = 1 .. N /\ l[N] = v
        /\ \A i \in 1 .. n : l[i] = s[i]
    <3>1. Len(l) = n + 1 /\ l \in Seq(Nat) /\ l[n + 1] = v
          /\ \A i \in 1 .. n : l[i] = s[i]
      BY <1>1, AppendProperties DEF n
    <3> QED
      BY <1>1, <3>1
  <2> HIDE DEF l
  <2>2. /\ N \notin 1 .. n /\ 1 .. N = (1 .. n) \cup {N} /\ (1 .. N) \ {N} = 1 .. n
    BY <1>1
  <2> HIDE DEF N
  <2>3. \A i \in 1 .. N : l[i] \in Nat
    BY <1>1, <2>1, <2>2
  <2>4. IsFiniteSet(1 .. N) /\ N \in 1 .. N /\ 1 .. n \subseteq 1 .. N
    <3>1. N \in Int /\ 1 \in Int
      BY <2>1
    <3> QED
      BY <2>2, <3>1, FS_Interval
  <2>5. PICK G : Adds(G, l, 1 .. N)
    BY <2>3, <2>4, SumsExist
  <2>6. Sum(l) = G[1 .. N]
    BY <2>1, <2>3, <2>5, SumIs
  <2>7. G[1 .. N] = v + G[1 .. n]
    <3>1. G[1 .. N] = l[N] + G[(1 .. N) \ {N}]
      <4>1. N \in 1 .. N /\ 1 .. N \in SUBSET (1 .. N)
        BY <2>4
      <4>2. \A T \in SUBSET (1 .. N) : \A x \in T : G[T] = l[x] + G[T \ {x}]
        BY ONLY <2>5 DEF Adds
      <4> QED
        BY ONLY <4>1, <4>2
    <3>2. l[N] = v /\ (1 .. N) \ {N} = 1 .. n
      BY <2>1, <2>2
    <3> QED
      BY ONLY <3>1, <3>2
  <2>8. G[1 .. n] = F[1 .. n]
    <3>1. \A x \in 1 .. n : s[x] \in Nat /\ l[x] = s[x]
      BY <1>1, <2>1
    <3> QED
      <4>1. 1 .. n \in SUBSET (1 .. n)
        OBVIOUS
      <4>2. \A T \in SUBSET (1 .. n) : G[T] = F[T]
        <5>1. PICK S, R : S = 1 .. n /\ R = 1 .. N
          OBVIOUS
        <5>2. /\ IsFiniteSet(S) /\ S \subseteq R /\ Adds(F, s, S) /\ Adds(G, l, R)
              /\ \A x \in S : s[x] \in Nat /\ l[x] = s[x]
          BY ONLY <1>2, <1>3, <2>4, <2>5, <3>1, <5>1
        <5>3. \A T \in SUBSET S : G[T] = F[T]
          BY ONLY <5>2, SumsAgree
        <5> QED
          BY ONLY <5>1, <5>3
      <4> QED
        BY ONLY <4>1, <4>2
  <2> QED
    BY <1>4, <2>6, <2>7, <2>8 DEF l
<1> QED
  BY <1>4, <1>5

LEMMA SumEmpty == Sum(<<>>) = 0
<1>1. DOMAIN <<>> = 1 .. 0 /\ 1 .. 0 = {} /\ \A i \in 1 .. 0 : <<>>[i] \in Nat
  OBVIOUS
<1>2. PICK F : Adds(F, <<>>, 1 .. 0)
  <2>1. IsFiniteSet(1 .. 0)
    BY <1>1, FS_EmptySet
  <2> QED
    BY <1>1, <2>1, SumsExist
<1>3. Sum(<<>>) = F[1 .. 0]
  BY <1>1, <1>2, SumIs
<1> QED
  BY <1>1, <1>2, <1>3 DEF Adds

-----------------------------------------------------------------------------
(* Sorted copies, averages and medians.                                    *)

\* The order of the values of s, those first that come first.
Before(s, i, j) == s[i] < s[j] \/ (s[i] = s[j] /\ i < j)
Rank(s, j) == Cardinality({i \in DOMAIN s : Before(s, i, j)}) + 1

LEMMA BeforeOrders ==
  ASSUME NEW s \in Seq(Nat), NEW i \in DOMAIN s, NEW j \in DOMAIN s,
         NEW k \in DOMAIN s
  PROVE  /\ ~ Before(s, i, i)
         /\ i = j \/ Before(s, i, j) \/ Before(s, j, i)
         /\ Before(s, i, j) /\ Before(s, j, k) => Before(s, i, k)
<1>1. DOMAIN s \subseteq Nat /\ \A l \in DOMAIN s : s[l] \in Nat
  BY ElementOfSeq
<1>2. PICK a \in Nat, b \in Nat, c \in Nat : a = s[i] /\ b = s[j] /\ c = s[k]
  BY <1>1
<1>3. i \in Nat /\ j \in Nat /\ k \in Nat
  BY <1>1
<1> QED
  BY ONLY <1>2, <1>3 DEF Before

LEMMA RankOf ==
  ASSUME NEW s \in Seq(Nat), NEW i \in DOMAIN s, NEW j \in DOMAIN s
  PROVE  Rank(s, j) \in 1 .. Len(s) /\ (Before(s, i, j) => Rank(s, i) < Rank(s, j))
<1> DEFINE n == Len(s)
           before(x) == {u \in DOMAIN s : Before(s, u, x)}
           c(x) == Cardinality(before(x))
<1>1. n \in Nat /\ IsFiniteSet(DOMAIN s) /\ Cardinality(DOMAIN s) = n
  <2>1. n \in Int /\ 1 \in Int /\ DOMAIN s = 1 .. n /\ n >= 0
    OBVIOUS
  <2> HIDE DEF n
  <2>2. Cardinality(1 .. n) = (IF 1 > n THEN 0 ELSE n - 1 + 1) /\ IsFiniteSet(1 .. n)
    BY ONLY <2>1, FS_Interval
  <2> QED
    BY <2>1, <2>2
<1>2. IsFiniteSet(before(i)) /\ IsFiniteSet(before(j))
  BY <1>1, FS_Subset
<1>3. c(i) \in Nat /\ c(j) \in Nat
  BY <1>2, FS_CardinalityType
<1>4. c(j) < n
  <2>1. before(j) \subseteq DOMAIN s /\ before(j) # DOMAIN s
    BY BeforeOrders
  <2> HIDE DEF before
  <2>2. /\ c(j) <= Cardinality(DOMAIN s)
        /\ Cardinality(DOMAIN s) = c(j) => DOMAIN s = before(j)
    BY <1>1, <2>1, FS_Subset
  <2> HIDE DEF c, n
  <2> QED
    BY <1>1, <1>3, <2>1, <2>2
<1>5. ASSUME Before(s, i, j) PROVE c(i) < c(j)
  <2>1. before(i) \subseteq before(j) /\ before(i) # before(j)
    BY <1>5, BeforeOrders
  <2> HIDE DEF before
  <2>2. c(i) <= c(j) /\ (c(j) = c(i) => before(j) = before(i))
    BY <1>2, <2>1, FS_Subset
  <2> HIDE DEF c
  <2> QED
    BY <1>3, <2>1, <2>2
<1>6. Rank(s, i) = c(i) + 1 /\ Rank(s, j) = c(j) + 1
  BY DEF Rank
<1> HIDE DEF c, n
<1>7. c(j) + 1 \in 1 .. n /\ (Before(s, i, j) => c(i) + 1 < c(j) + 1)
  BY <1>1, <1>3, <1>4, <1>5
<1> QED
  BY <1>6, <1>7 DEF n

\* Every rank is taken: otherwise there were more values than ranks.
LEMMA RanksTaken ==
  ASSUME NEW s \in Seq(Nat), NEW r \in DOMAIN s
  PROVE  \E i \in DOMAIN s : Rank(s, i) = r
<1> SUFFICES ASSUME \A i \in DOMAIN s : Rank(s, i) # r PROVE FALSE
  OBVIOUS
<1> DEFINE n == Len(s)
           others == (1 .. n) \ {r}
           rank == [i \in 1 .. n |-> Rank(s, i)]
<1>1. n \in Nat /\ DOMAIN s = 1 .. n /\ r \in 1 .. n
  OBVIOUS
<1>2. IsFiniteSet(1 .. n) /\ Cardinality(1 .. n) = n
  <2>1. n \in Int /\ 1 \in Int /\ n >= 0
    BY <1>1
  <2> HIDE DEF n
  <2>2. Cardinality(1 .. n) = (IF 1 > n THEN 0 ELSE n - 1 + 1) /\ IsFiniteSet(1 .. n)
    BY ONLY <2>1, FS_Interval
  <2> QED
    BY <2>1, <2>2
<1>3. IsFiniteSet(others) /\ Cardinality(others) = n - 1
  <2> HIDE DEF n
  <2>1. r \in 1 .. n
    BY <1>1
  <2> QED
    BY ONLY <1>2, <2>1, FS_RemoveElement
<1>4. rank \in [1 .. n -> others]
  <2>1. \A i \in 1 .. n : Rank(s, i) \in 1 .. n /\ Rank(s, i) # r
    BY <1>1, RankOf
  <2> QED
    BY <2>1
<1>5. ASSUME NEW i \in 1 .. n, NEW j \in 1 .. n, rank[i] = rank[j] PROVE i = j
  <2>1. Rank(s, i) = Rank(s, j) /\ Rank(s, i) \in Nat
    BY <1>1, <1>5, RankOf
  <2>2. /\ Before(s, i, j) => Rank(s, i) < Rank(s, j)
        /\ Before(s, j, i) => Rank(s, j) < Rank(s, i)
    BY <1>1, RankOf
  <2>3. ~ Before(s, i, j) /\ ~ Before(s, j, i)
    BY <2>1, <2>2
  <2> QED
    BY <1>1, <2>3, BeforeOrders
<1>6. rank \in Injection(1 .. n, others)
  BY <1>4, <1>5 DEF Injection, IsInjective
<1>7. Cardinality(1 .. n) <= Cardinality(others)
  BY <1>2, <1>3, <1>6, FS_Injection
<1> HIDE DEF n, others
<1> QED
  BY <1>1, <1>2, <1>3, <1>7

\* An order of the values as Sorted takes one.
Orders(p, s) ==
  /\ p \in [DOMAIN s -> DOMAIN s]
  /\ \A i, j \in DOMAIN s : i < j => p[i] # p[j] /\ s[p[i]] <= s[p[j]]

LEMMA SortedOrders ==
  ASSUME NEW s \in Seq(Nat)
  PROVE  \E p : Orders(p, s) /\ Sorted(s) = [i \in DOMAIN s |-> s[p[i]]]
<1> DEFINE q == [r \in DOMAIN s |-> CHOOSE i \in DOMAIN s : Rank(s, i) = r]
           Ordered(o) == \A i, j \in DOMAIN s :
             i < j => o[i] # o[j] /\ s[o[i]] <= s[o[j]]
           order == CHOOSE o \in [DOMAIN s -> DOMAIN s] : Ordered(o)
<1>1. \A r \in DOMAIN s : q[r] \in DOMAIN s /\ Rank(s, q[r]) = r
  BY RanksTaken
<1>2. q \in [DOMAIN s -> DOMAIN s]
  BY <1>1
<1> HIDE DEF q
<1>3. Ordered(q)
  <2>1. ASSUME NEW i \in DOMAIN s, NEW j \in DOMAIN s, i < j
        PROVE  q[i] # q[j] /\ s[q[i]] <= s[q[j]]
    <3>1. q[i] \in DOMAIN s /\ q[j] \in DOMAIN s /\ Rank(s, q[i]) = i /\ Rank(s, q[j]) = j
      BY <1>1
    <3>2. i \in Nat /\ j \in Nat /\ s[q[i]] \in Nat /\ s[q[j]] \in Nat
      BY <3>1, ElementOfSeq
    <3>3. ~ Before(s, q[j], q[i])
      <4>1. Before(s, q[j], q[i]) => Rank(s, q[j]) < Rank(s, q[i])
        BY <3>1, RankOf
      <4> QED
        BY <2>1, <3>1, <3>2, <4>1
    <3>4. q[i] # q[j]
      BY <2>1, <3>1, <3>2
    <3>5. s[q[i]] <= s[q[j]]
      BY <3>2, <3>3 DEF Before
    <3> QED
      BY <3>4, <3>5
  <2> QED
    BY <2>1
<1>4. Sorted(s) = [i \in DOMAIN s |-> s[order[i]]]
  BY DEF Sorted
<1> HIDE DEF Ordered
<1>5. order \in [DOMAIN s -> DOMAIN s] /\ Ordered(order)
  BY <1>2, <1>3
<1> HIDE DEF order
<1>6. Orders(order, s)
  BY <1>5 DEF Ordered, Orders
<1> QED
  BY <1>4, <1>6

\* An interval of positions in that order is as many values.
LEMMA OrderedSize ==
  ASSUME NEW s \in Seq(Nat), NEW p, Orders(p, s), NEW a \in Nat \ {0}, NEW b \in Nat,
         a <= b + 1, b <= Len(s),
         NEW T \in SUBSET DOMAIN s, \A i \in a .. b : p[i] \in T
  PROVE  b - a + 1 <= Cardinality(T) /\ Cardinality(T) \in Nat
<1> DEFINE f == [i \in a .. b |-> p[i]]
<1>1. IsFiniteSet(DOMAIN s)
  <2>1. DOMAIN s = 1 .. Len(s) /\ 1 \in Int /\ Len(s) \in Int
    OBVIOUS
  <2>2. IsFiniteSet(1 .. Len(s))
    BY ONLY <2>1, FS_Interval
  <2> QED
    BY <2>1, <2>2
<1>2. IsFiniteSet(T) /\ Cardinality(T) \in Nat
  BY <1>1, FS_Subset, FS_CardinalityType
<1>3. IsFiniteSet(a .. b) /\ Cardinality(a .. b) = b - a + 1
  <2>1. a \in Int /\ b \in Int
    OBVIOUS
  <2>2. Cardinality(a .. b) = (IF a > b THEN 0 ELSE b - a + 1) /\ IsFiniteSet(a .. b)
    BY ONLY <2>1, FS_Interval
  <2> QED
    BY <2>1, <2>2
<1>4. \A i, j \in a .. b : p[i] = p[j] => i = j
  <2>1. ASSUME NEW i \in a .. b, NEW j \in a .. b, p[i] = p[j] PROVE i = j
    <3>1. i \in DOMAIN s /\ j \in DOMAIN s /\ i \in Nat /\ j \in Nat
      OBVIOUS
    <3>2. ~ (i < j) /\ ~ (j < i)
      BY <2>1, <3>1 DEF Orders
    <3> QED
      BY <3>1, <3>2
  <2> QED
    BY <2>1
<1>5. f \in Injection(a .. b, T)
  BY <1>4 DEF Injection, IsInjective
<1>6. Cardinality(a .. b) <= Cardinality(T)
  BY <1>2, <1>3, <1>5, FS_Injection
<1> QED
  BY <1>2, <1>3, <1>6

\* Quotients, and products in order.
LEMMA Quotients ==
  ASSUME NEW d \in Nat \ {0}, NEW q \in Int
  PROVE  (d * q) \div d = q
OBVIOUS

LEMMA ProductsOrdered ==
  ASSUME NEW c \in Nat, NEW a \in Nat, NEW b \in Nat, a <= b
  PROVE  c * a <= c * b /\ c * a \in Nat /\ c * b \in Nat
OBVIOUS

LEMMA ProductsReordered ==
  ASSUME NEW a \in Int, NEW b \in Int, NEW c \in Int
  PROVE  /\ (a * b) * c = a * (b * c) /\ a * b = b * a /\ a * b \in Int
         /\ a * (b + c) = a * b + a * c
OBVIOUS

\* An average times the number of values is their sum.
LEMMA AverageIs ==
  ASSUME NEW s \in Seq(Nat), s # <<>>, Len(s) <= HistorySize
  PROVE  Average(s) \in Nat /\ Average(s) * Len(s) = Scale * Sum(s)
<1>1. PICK n \in Nat \ {0}, t \in Nat : n = Len(s) /\ t = Sum(s)
  <2>1. Len(s) \in Nat \ {0} /\ Sum(s) \in Nat
    BY SumGrows
  <2> QED
    BY <2>1
<1>2. PICK q \in Nat : Scale = n * q
  <2>1. HistorySize \in Nat
    BY HistoryAssumption
  <2>2. n \in 1 .. HistorySize
    BY <1>1, <2>1
  <2>3. \E q \in 1 .. Scale : Scale = n * q
    BY <2>2, HistoryAssumption
  <2> QED
    BY <2>3
<1>3. Average(s) = (Scale * t) \div n
  BY <1>1 DEF Average, Sum
<1>4. PICK x \in Nat : x = q * t
  OBVIOUS
<1>5. Scale * t = n * x
  <2>1. (n * q) * t = n * (q * t)
    BY ONLY n \in Nat, q \in Nat, t \in Nat, ProductsReordered
  <2> QED
    BY ONLY <2>1, <1>2, <1>4
<1>6. Average(s) = x
  BY <1>3, <1>5, Quotients
<1>7. x * n = n * x
  BY ONLY n \in Nat, x \in Nat, ProductsReordered
<1> QED
  BY <1>1, <1>5, <1>6, <1>7

\* A median is not below the smaller middle value, nor above the greater one.
LEMMA MedianIs ==
  ASSUME NEW s \in Seq(Nat), s # <<>>, NEW p, Orders(p, s),
         Sorted(s) = [i \in DOMAIN s |-> s[p[i]]],
         NEW a, a = (Len(s) - 1) \div 2 + 1, NEW b, b = Len(s) \div 2 + 1
  PROVE  /\ a \in DOMAIN s /\ b \in DOMAIN s
         /\ Median(s) \in Nat
         /\ Scale * s[p[a]] <= Median(s) /\ Median(s) <= Scale * s[p[b]]
<1>1. Len(s) \in Nat \ {0} /\ DOMAIN s = 1 .. Len(s)
  OBVIOUS
<1>2. a \in 1 .. Len(s) /\ b \in 1 .. Len(s) /\ (a = b \/ a < b)
  BY <1>1
<1>3. p[a] \in DOMAIN s /\ p[b] \in DOMAIN s
  BY <1>1, <1>2 DEF Orders
<1>4. PICK x \in Nat, y \in Nat : x = s[p[a]] /\ y = s[p[b]]
  BY <1>3, ElementOfSeq
<1>5. x <= y
  BY <1>1, <1>2, <1>4 DEF Orders
<1>6. Median(s) = (Scale * (x + y)) \div 2
  <2> DEFINE t == [i \in DOMAIN s |-> s[p[i]]]
  <2>1. \A i \in 1 .. Len(s) : t[i] \in Nat
    BY <1>1, ElementOfSeq DEF Orders
  <2>2. t \in Seq(Nat) /\ Len(t) = Len(s) /\ t[a] = x /\ t[b] = y
    BY <1>1, <1>2, <1>4, <2>1
  <2> HIDE DEF t
  <2>3. Median(s) = (Scale * (t[(Len(t) - 1) \div 2 + 1] + t[Len(t) \div 2 + 1])) \div 2
    BY DEF Median, t
  <2> QED
    BY <2>2, <2>3
<1>7. PICK h \in Nat : Scale = 2 * h
  <2>1. \A n \in {2} \cup 1 .. HistorySize : \E q \in 1 .. Scale : Scale = n * q
    BY HistoryAssumption
  <2>2. \E q \in 1 .. Scale : Scale = 2 * q
    BY ONLY <2>1
  <2> QED
    BY <2>2
<1>8. PICK u \in Nat, v \in Nat : u = h * x /\ v = h * y /\ u <= v
  <2>1. h * x <= h * y /\ h * x \in Nat /\ h * y \in Nat
    BY ONLY <1>5, h \in Nat, x \in Nat, y \in Nat, ProductsOrdered
  <2> QED
    BY <2>1
<1>9. Scale * (x + y) = 2 * (u + v) /\ Scale * x = 2 * u /\ Scale * y = 2 * v
  <2>1. /\ (2 * h) * (x + y) = 2 * (h * (x + y)) /\ h * (x + y) = h * x + h * y
        /\ (2 * h) * x = 2 * (h * x) /\ (2 * h) * y = 2 * (h * y)
    <3>1. 2 \in Int /\ h \in Int /\ x \in Int /\ y \in Int /\ x + y \in Int
      OBVIOUS
    <3> QED
      BY ONLY <3>1, ProductsReordered
  <2> QED
    BY ONLY <2>1, <1>7, <1>8
<1>10. Median(s) = u + v
  <2>1. u + v \in Int /\ 2 \in Nat \ {0}
    OBVIOUS
  <2>2. (2 * (u + v)) \div 2 = u + v
    BY ONLY <2>1, Quotients
  <2> QED
    BY <1>6, <1>9, <2>2
<1>11. 2 * u <= u + v /\ u + v <= 2 * v /\ u + v \in Nat
  BY ONLY <1>8, u \in Nat, v \in Nat
<1> QED
  BY ONLY <1>1, <1>2, <1>4, <1>9, <1>10, <1>11

\* Half the values are not above a median and half are not below it.
LEMMA MedianSplits ==
  ASSUME NEW s \in Seq(Nat), s # <<>>
  PROVE  /\ Median(s) \in Nat
         /\ 2 * AtMost(s, Median(s)) >= Len(s)
         /\ 2 * AtLeast(s, Median(s)) >= Len(s)
         /\ \E i, j \in DOMAIN s : Scale * s[i] <= Median(s) /\ Median(s) <= Scale * s[j]
<1>1. PICK p : Orders(p, s) /\ Sorted(s) = [i \in DOMAIN s |-> s[p[i]]]
  BY SortedOrders
<1>2. PICK n \in Nat \ {0} : n = Len(s) /\ DOMAIN s = 1 .. n
  OBVIOUS
<1>3. PICK a, b : a = (n - 1) \div 2 + 1 /\ b = n \div 2 + 1
  OBVIOUS
<1>4. /\ a \in 1 .. n /\ b \in 1 .. n /\ a \in Nat \ {0} /\ b \in Nat \ {0}
      /\ 2 * (a - 1 + 1) >= n /\ 2 * (n - b + 1) >= n
      /\ 1 <= a + 1 /\ b <= n + 1
  BY <1>3
<1>5. PICK m : m = Median(s)
  OBVIOUS
<1>6. /\ m \in Nat
      /\ Scale * s[p[a]] <= m /\ m <= Scale * s[p[b]]
  BY ONLY s \in Seq(Nat), s # <<>>, <1>1, <1>2, <1>3, <1>5, MedianIs
<1>7. \A i \in 1 .. n : p[i] \in 1 .. n /\ s[p[i]] \in Nat
  BY <1>1, <1>2, ElementOfSeq DEF Orders
<1>8. \A i, j \in 1 .. n : i <= j => Scale * s[p[i]] <= Scale * s[p[j]]
  <2>1. ASSUME NEW i \in 1 .. n, NEW j \in 1 .. n, i <= j
        PROVE  Scale * s[p[i]] <= Scale * s[p[j]]
    <3>1. i = j \/ i < j
      BY <2>1
    <3>2. s[p[i]] <= s[p[j]]
      <4>1. CASE i = j
        BY <1>7, <4>1
      <4>2. CASE i < j
        BY <1>1, <1>2, <4>2 DEF Orders
      <4> QED
        BY <3>1, <4>1, <4>2
    <3>3. Scale \in Nat
      BY HistoryAssumption
    <3>4. s[p[i]] \in Nat /\ s[p[j]] \in Nat
      BY <1>7
    <3>5. PICK x \in Nat, y \in Nat : x = s[p[i]] /\ y = s[p[j]]
      BY <3>4
    <3>6. Scale * x <= Scale * y
      BY ONLY <3>2, <3>3, <3>5, ProductsOrdered
    <3> QED
      BY <3>5, <3>6
  <2> QED
    BY <2>1
<1>9. \A i \in 1 .. n : Scale * s[p[i]] \in Nat
  <2>1. Scale \in Nat
    BY HistoryAssumption
  <2>2. \A x \in Nat : Scale * x \in Nat
    BY ONLY <2>1
  <2> QED
    BY <1>7, <2>2
<1>10. 2 * AtMost(s, m) >= n
  <2> DEFINE T == {i \in 1 .. Len(s) : Scale * s[i] <= m}
  <2>1. \A i \in 1 .. a : p[i] \in T
    <3>1. ASSUME NEW i \in 1 .. a PROVE p[i] \in 1 .. n /\ Scale * s[p[i]] <= m
      <4>1. i \in 1 .. n /\ i <= a
        BY <1>4
      <4>2. PICK x \in Nat, y \in Nat : x = Scale * s[p[i]] /\ y = Scale * s[p[a]]
        BY <1>4, <1>9, <4>1
      <4>3. x <= y /\ y <= m
        BY <1>4, <1>6, <1>8, <4>1, <4>2
      <4>4. x <= m
        BY ONLY <1>6, <4>3, x \in Nat, y \in Nat
      <4> QED
        BY <1>7, <4>1, <4>2, <4>4
    <3> QED
      BY <1>2, <3>1
  <2>2. T \in SUBSET DOMAIN s
    BY <1>2
  <2> HIDE DEF T
  <2>3. a - 1 + 1 <= Cardinality(T) /\ Cardinality(T) \in Nat
    <3>1. 1 \in Nat \ {0} /\ a \in Nat /\ 1 <= a + 1 /\ a <= Len(s)
      BY <1>2, <1>4
    <3> QED
      BY ONLY s \in Seq(Nat), <1>1, <2>1, <2>2, <3>1, OrderedSize
  <2>4. AtMost(s, m) = Cardinality(T)
    BY DEF AtMost, T
  <2> QED
    BY <1>2, <1>4, <2>3, <2>4
<1>11. 2 * AtLeast(s, m) >= n
  <2> DEFINE T == {i \in 1 .. Len(s) : Scale * s[i] >= m}
  <2>1. \A i \in b .. n : p[i] \in T
    <3>1. ASSUME NEW i \in b .. n PROVE p[i] \in 1 .. n /\ Scale * s[p[i]] >= m
      <4>1. i \in 1 .. n /\ b <= i
        BY <1>4
      <4>2. PICK x \in Nat, y \in Nat : x = Scale * s[p[b]] /\ y = Scale * s[p[i]]
        BY <1>4, <1>9, <4>1
      <4>3. x <= y /\ m <= x
        BY <1>4, <1>6, <1>8, <4>1, <4>2
      <4>4. y >= m
        BY ONLY <1>6, <4>3, x \in Nat, y \in Nat
      <4> QED
        BY <1>7, <4>1, <4>2, <4>4
    <3> QED
      BY <1>2, <3>1
  <2>2. T \in SUBSET DOMAIN s
    BY <1>2
  <2> HIDE DEF T
  <2>3. n - b + 1 <= Cardinality(T) /\ Cardinality(T) \in Nat
    <3>1. n \in Nat /\ n <= Len(s)
      BY <1>2
    <3> QED
      BY ONLY s \in Seq(Nat), <1>1, <1>4, <2>1, <2>2, <3>1, OrderedSize
  <2>4. AtLeast(s, m) = Cardinality(T)
    BY DEF AtLeast, T
  <2> QED
    BY <1>2, <1>4, <2>3, <2>4
<1> QED
  BY <1>2, <1>4, <1>5, <1>6, <1>7, <1>10, <1>11

-----------------------------------------------------------------------------
(* Histories.                                                              *)

\* The items g are the last ones of s that there is room for.
Latest(g, s, size) ==
  /\ g \in Seq(Nat)
  /\ Len(g) = IF Len(s) > size THEN size ELSE Len(s)
  /\ \A i \in 1 .. Len(g) : g[i] = s[Len(s) - Len(g) + i]

LEMMA LastItemsLatest ==
  ASSUME NEW s \in Seq(Nat), NEW size \in Nat
  PROVE  Latest(LastItems(s, size), s, size)
<1>1. PICK n \in Nat : n = Len(s)
  OBVIOUS
<1>2. CASE n > size
  <2> DEFINE g == SubSeq(s, n - size + 1, n)
  <2>1. n - size + 1 \in Int
    OBVIOUS
  <2>2. PICK a \in Int : a = n - size + 1 /\ g = SubSeq(s, a, n)
    BY <2>1
  <2> HIDE DEF g
  <2>3. /\ g \in Seq(Nat) /\ Len(g) = IF a <= n THEN n - a + 1 ELSE 0
        /\ \A i \in 1 .. n - a + 1 : g[i] = s[a + i - 1]
    <3>1. \A i \in a .. n : s[i] \in Nat
      <4>1. \A i \in a .. n : i \in 1 .. n
        BY <1>2, <2>2
      <4> QED
        BY <1>1, <4>1, ElementOfSeq
    <3>2. n \in Int
      OBVIOUS
    <3> QED
      BY ONLY a \in Int, <2>2, <3>1, <3>2, SubSeqProperties
  <2>4. /\ (IF a <= n THEN n - a + 1 ELSE 0) = size /\ n - a + 1 = size
        /\ \A i \in 1 .. size : a + i - 1 = n - size + i
    BY ONLY <1>2, <2>2, n \in Nat, size \in Nat
  <2>5. Len(g) = size /\ \A i \in 1 .. size : g[i] = s[n - size + i]
    BY ONLY <2>3, <2>4
  <2>6. LastItems(s, size) = g
    BY <1>1, <1>2 DEF LastItems, g
  <2> QED
    BY <1>1, <1>2, <2>3, <2>5, <2>6 DEF Latest
<1>3. CASE ~ (n > size)
  <2>1. LastItems(s, size) = s
    BY <1>1, <1>3 DEF LastItems
  <2>2. \A i \in 1 .. n : n - n + i = i
    OBVIOUS
  <2> QED
    BY <1>1, <1>3, <2>1, <2>2 DEF Latest
<1> QED
  BY <1>2, <1>3

\* It is the end of the sequence.
LEMMA LatestIsEnd ==
  ASSUME NEW s \in Seq(Nat), NEW size \in Nat, NEW g, Latest(g, s, size)
  PROVE  Len(g) <= size /\ g = SubSeq(s, Len(s) - Len(g) + 1, Len(s))
<1>1. PICK n \in Nat, l \in Nat : n = Len(s) /\ l = Len(g) /\ l <= size /\ l <= n
  BY DEF Latest
<1>2. g \in Seq(Nat) /\ \A i \in 1 .. l : g[i] = s[n - l + i]
  BY <1>1 DEF Latest
<1> DEFINE e == SubSeq(s, n - l + 1, n)
<1>3. PICK a \in Int : a = n - l + 1 /\ e = SubSeq(s, a, n)
  <2>1. n - l + 1 \in Int
    OBVIOUS
  <2> QED
    BY <2>1
<1> HIDE DEF e
<1>4. /\ e \in Seq(Nat) /\ Len(e) = l
      /\ \A i \in 1 .. l : e[i] = s[n - l + i]
  <2>1. \A i \in a .. n : s[i] \in Nat
    <3>1. \A i \in a .. n : i \in 1 .. n
      BY <1>1, <1>3
    <3> QED
      BY <1>1, <3>1, ElementOfSeq
  <2>2. n \in Int
    OBVIOUS
  <2>3. /\ e \in Seq(Nat) /\ Len(e) = IF a <= n THEN n - a + 1 ELSE 0
        /\ \A i \in 1 .. n - a + 1 : e[i] = s[a + i - 1]
    BY ONLY a \in Int, <1>3, <2>1, <2>2, SubSeqProperties
  <2>4. /\ (IF a <= n THEN n - a + 1 ELSE 0) = l /\ n - a + 1 = l
        /\ \A i \in 1 .. l : a + i - 1 = n - l + i
    BY ONLY <1>1, <1>3, n \in Nat, l \in Nat
  <2> QED
    BY ONLY <2>3, <2>4
<1>5. \A i \in 1 .. l : e[i] = g[i]
  BY <1>2, <1>4
<1>6. e = g
  <2>1. e = [i \in 1 .. l |-> e[i]] /\ g = [i \in 1 .. l |-> g[i]]
    BY <1>1, <1>2, <1>4
  <2> QED
    BY <1>5, <2>1
<1> QED
  BY <1>1, <1>6 DEF e

\* What a history holds after one more value.
Pushed(h, v) == PushItems([items |-> h, size |-> HistorySize], <<v>>).items

LEMMA PushedLatest ==
  ASSUME NEW h \in Seq(Nat), NEW v \in Nat
  PROVE  /\ Pushed(h, v) \in Seq(Nat) /\ Pushed(h, v) # <<>>
         /\ Len(Pushed(h, v)) <= HistorySize
         /\ \A m \in Seq(Nat) :
              Latest(h, m, HistorySize) => Latest(Pushed(h, v), Append(m, v), HistorySize)
<1> DEFINE l == h \o <<v>>
<1>1. PICK k \in Nat : k = Len(h)
  OBVIOUS
<1>2. /\ l \in Seq(Nat) /\ Len(l) = k + 1 /\ l[k + 1] = v
      /\ \A i \in 1 .. k : l[i] = h[i]
  BY <1>1
<1>3. Pushed(h, v) = LastItems(l, HistorySize)
  BY DEF Pushed, PushItems
<1> HIDE DEF l
<1>4. PICK g : g = Pushed(h, v) /\ Latest(g, l, HistorySize)
  BY <1>2, <1>3, HistoryAssumption, LastItemsLatest
<1>5. PICK z \in Nat \ {0} : z = HistorySize
  BY HistoryAssumption
<1>6. /\ g \in Seq(Nat) /\ Len(g) = (IF k + 1 > z THEN z ELSE k + 1)
      /\ \A i \in 1 .. Len(g) : g[i] = l[k + 1 - Len(g) + i]
  BY <1>2, <1>4, <1>5 DEF Latest
<1>7. PICK c \in Nat \ {0} : c = Len(g) /\ c <= z
  BY <1>6
<1>8. ASSUME NEW m \in Seq(Nat), Latest(h, m, HistorySize)
      PROVE  Latest(g, Append(m, v), HistorySize)
  <2>1. PICK n \in Nat : n = Len(m)
    OBVIOUS
  <2>2. /\ k = (IF n > z THEN z ELSE n) /\ \A i \in 1 .. k : h[i] = m[n - k + i]
    BY <1>1, <1>5, <1>8, <2>1 DEF Latest
  <2> DEFINE a == Append(m, v)
  <2>3. /\ a \in Seq(Nat) /\ Len(a) = n + 1 /\ a[n + 1] = v
        /\ \A i \in 1 .. n : a[i] = m[i]
    BY <2>1, AppendProperties
  <2> HIDE DEF a
  <2>4. c = IF n + 1 > z THEN z ELSE n + 1
    BY <1>6, <1>7, <2>2
  <2>5. ASSUME NEW i \in 1 .. c PROVE g[i] = a[n + 1 - c + i]
    <3>1. g[i] = l[k + 1 - c + i]
      BY <1>6, <1>7
    <3>2. CASE i = c
      <4>1. k + 1 - c + i = k + 1 /\ n + 1 - c + i = n + 1
        BY <3>2
      <4> QED
        BY <1>2, <2>3, <3>1, <4>1
    <3>3. CASE i # c
      <4>0. /\ c <= k + 1 /\ c <= n + 1 /\ i \in Nat \ {0} /\ i + 1 <= c
            /\ k \in Nat /\ n \in Nat /\ c \in Nat
        <5>1. z \in Nat \ {0} /\ k \in Nat /\ n \in Nat /\ c \in Nat /\ i \in 1 .. c
          OBVIOUS
        <5> QED
          BY ONLY <2>2, <2>4, <3>3, <5>1
      <4>1. PICK j \in 1 .. k : j = k + 1 - c + i
        <5>1. k + 1 - c + i \in 1 .. k
          BY ONLY <4>0
        <5> QED
          BY <5>1
      <4>2. PICK d \in 1 .. n : d = n + 1 - c + i
        <5>1. n + 1 - c + i \in 1 .. n
          BY ONLY <4>0
        <5> QED
          BY <5>1
      <4>3. d = n - k + j
        BY ONLY <4>1, <4>2, k \in Nat, n \in Nat, c \in Nat, i \in 1 .. c
      <4>4. g[i] = m[d]
        BY <1>2, <2>2, <3>1, <4>1, <4>3
      <4> QED
        BY <2>3, <4>2, <4>4
    <3> QED
      BY <3>2, <3>3
  <2>6. Latest(g, a, HistorySize)
    BY <1>5, <1>6, <1>7, <2>3, <2>4, <2>5 DEF Latest
  <2> QED
    BY <2>6 DEF a
<1> QED
  BY <1>4, <1>5, <1>6, <1>7, <1>8

-----------------------------------------------------------------------------
(* Statistics of one kind of measurement.                                  *)

\* The statistics s are those of the measurements m; keeps: with a history.
Describes(s, m, keeps) ==
  /\ s \in MeasurementStatistics /\ m \in Seq(Nat)
  /\ m = <<>> => s = NoStatistics
  /\ m # <<>> => /\ s.aggregate = Sum(m)
                 /\ s.minimum \in Range(m) /\ s.maximum \in Range(m)
                 /\ \A i \in 1 .. Len(m) : m[i] \in s.minimum .. s.maximum
  /\ IF keeps THEN Latest(s.history, m, HistorySize)
     ELSE s.history = <<>> /\ s.average = Absent /\ s.median = Absent
  /\ s.average # Absent => s.average * Len(s.history) = Scale * Sum(s.history)
  /\ s.median # Absent =>
       /\ 2 * AtMost(s.history, s.median) >= Len(s.history)
       /\ 2 * AtLeast(s.history, s.median) >= Len(s.history)
       /\ s.median \in Scale * s.minimum .. Scale * s.maximum

Needs == [aggregate : BOOLEAN, average : BOOLEAN, median : BOOLEAN]

\* The fields of updated statistics.
LEMMA UpdateFields ==
  ASSUME NEW s \in MeasurementStatistics, NEW r \in Needs, r.aggregate, NEW v \in Nat,
         NEW u, u = UpdateMeasurementStatistics(s, r, v)
  PROVE  /\ u.aggregate = (IF s.aggregate = Absent THEN 0 ELSE s.aggregate) + v
         /\ u.minimum = IF s.minimum = Absent \/ v < s.minimum THEN v ELSE s.minimum
         /\ u.maximum = IF v > s.maximum THEN v ELSE s.maximum
         /\ u.history = IF r.average \/ r.median THEN Pushed(s.history, v) ELSE s.history
         /\ u.average = IF r.average THEN Average(u.history)
                        ELSE IF r.median THEN Absent ELSE s.average
         /\ u.median = IF r.median THEN Median(u.history)
                       ELSE IF r.average THEN Absent ELSE s.median
         /\ u \in MeasurementStatistics
<1>1. PICK h : h = IF r.average \/ r.median THEN Pushed(s.history, v) ELSE s.history
  OBVIOUS
<1>2. PICK a : a = (IF s.aggregate = Absent THEN 0 ELSE s.aggregate) + v
  OBVIOUS
<1>3. PICK n : n = IF s.minimum = Absent \/ v < s.minimum THEN v ELSE s.minimum
  OBVIOUS
<1>4. PICK x : x = IF v > s.maximum THEN v ELSE s.maximum
  OBVIOUS
<1>5. PICK d : d = IF r.average THEN Average(h) ELSE IF r.median THEN Absent ELSE s.average
  OBVIOUS
<1>6. PICK e : e = IF r.median THEN Median(h) ELSE IF r.average THEN Absent ELSE s.median
  OBVIOUS
<1>7. /\ s.aggregate \in Int /\ s.minimum \in Int /\ s.maximum \in Int
      /\ s.average \in Int /\ s.median \in Int /\ s.history \in Seq(Nat)
  BY DEF MeasurementStatistics
<1>8. h \in Seq(Nat)
  BY <1>1, <1>7, PushedLatest
<1>9. d \in Int
  <2>1. CASE r.average
    <3>1. h # <<>> /\ Len(h) <= HistorySize
      BY <1>1, <1>7, <2>1, PushedLatest
    <3>2. d = Average(h)
      BY <1>5, <2>1
    <3> QED
      BY <1>8, <3>1, <3>2, AverageIs
  <2>2. CASE ~ r.average
    BY <1>5, <1>7, <2>2 DEF Absent
  <2> QED
    BY <2>1, <2>2
<1>10. e \in Int
  <2>1. CASE r.median
    <3>1. h # <<>>
      BY <1>1, <1>7, <2>1, PushedLatest
    <3>2. e = Median(h)
      BY <1>6, <2>1
    <3> QED
      BY <1>8, <3>1, <3>2, MedianSplits
  <2>2. CASE ~ r.median
    BY <1>6, <1>7, <2>2 DEF Absent
  <2> QED
    BY <2>1, <2>2
<1>11. a \in Int /\ n \in Int /\ x \in Int
  BY <1>2, <1>3, <1>4, <1>7
<1>12. u = [aggregate |-> a, minimum |-> n, maximum |-> x, history |-> h,
            average |-> d, median |-> e]
  <2>1. r.average \in BOOLEAN /\ r.median \in BOOLEAN
    BY DEF Needs
  <2> QED
    BY <1>1, <1>2, <1>3, <1>4, <1>5, <1>6, <2>1
    DEF UpdateMeasurementStatistics, Pushed
<1>13. /\ u.aggregate = a /\ u.minimum = n /\ u.maximum = x /\ u.history = h
       /\ u.average = d /\ u.median = e
  BY ONLY <1>12
<1>14. u \in MeasurementStatistics
  BY ONLY <1>8, <1>9, <1>10, <1>11, <1>12 DEF MeasurementStatistics
<1> QED
  BY ONLY <1>1, <1>2, <1>3, <1>4, <1>5, <1>6, <1>13, <1>14

\* One more measurement is described with those before it.
LEMMA UpdateDescribes ==
  ASSUME NEW s, NEW m, NEW keeps \in BOOLEAN, Describes(s, m, keeps),
         NEW r \in Needs, r.aggregate, keeps = (r.average \/ r.median),
         NEW v \in Nat, NEW u, u = UpdateMeasurementStatistics(s, r, v)
  PROVE  Describes(u, Append(m, v), keeps)
<1> DEFINE a == Append(m, v)
<1>1. s \in MeasurementStatistics /\ m \in Seq(Nat)
  BY DEF Describes
<1>2. PICK n \in Nat : n = Len(m)
  BY <1>1
<1>3. /\ a \in Seq(Nat) /\ a # <<>> /\ Len(a) = n + 1 /\ a[n + 1] = v
      /\ \A i \in 1 .. n : a[i] = m[i]
  <2>1. /\ a \in Seq(Nat) /\ a # <<>> /\ Len(a) = Len(m) + 1 /\ a[Len(m) + 1] = v
        /\ \A i \in 1 .. Len(m) : a[i] = m[i]
    BY ONLY <1>1, v \in Nat, AppendProperties
  <2> HIDE DEF a
  <2> QED
    BY ONLY <1>2, <2>1
<1>4. /\ u.aggregate = (IF s.aggregate = Absent THEN 0 ELSE s.aggregate) + v
      /\ u.minimum = IF s.minimum = Absent \/ v < s.minimum THEN v ELSE s.minimum
      /\ u.maximum = IF v > s.maximum THEN v ELSE s.maximum
      /\ u.history = IF keeps THEN Pushed(s.history, v) ELSE s.history
      /\ u.average = IF r.average THEN Average(u.history)
                     ELSE IF r.median THEN Absent ELSE s.average
      /\ u.median = IF r.median THEN Median(u.history)
                    ELSE IF r.average THEN Absent ELSE s.median
      /\ u \in MeasurementStatistics
  <2>1. /\ u.aggregate = (IF s.aggregate = Absent THEN 0 ELSE s.aggregate) + v
        /\ u.minimum = IF s.minimum = Absent \/ v < s.minimum THEN v ELSE s.minimum
        /\ u.maximum = IF v > s.maximum THEN v ELSE s.maximum
        /\ u.history = IF r.average \/ r.median THEN Pushed(s.history, v) ELSE s.history
        /\ u.average = IF r.average THEN Average(u.history)
                       ELSE IF r.median THEN Absent ELSE s.average
        /\ u.median = IF r.median THEN Median(u.history)
                      ELSE IF r.average THEN Absent ELSE s.median
        /\ u \in MeasurementStatistics
    BY ONLY <1>1, r \in Needs, r.aggregate, v \in Nat,
       u = UpdateMeasurementStatistics(s, r, v), UpdateFields
  <2> QED
    BY <2>1
<1>5. Sum(a) = Sum(m) + v /\ Sum(m) \in Nat
  BY <1>1, SumGrows
<1>6. PICK h : h = u.history
  OBVIOUS
<1>7. s.history \in Seq(Nat)
  BY <1>1 DEF MeasurementStatistics
<1> HIDE DEF a
<1>8. u.aggregate = Sum(a)
  <2>1. CASE m = <<>>
    BY <1>4, <1>5, <2>1, SumEmpty DEF Describes, NoStatistics
  <2>2. CASE m # <<>>
    BY <1>4, <1>5, <2>2 DEF Describes, Absent
  <2> QED
    BY <2>1, <2>2
<1>9. /\ u.minimum \in Range(a) /\ u.maximum \in Range(a)
      /\ \A i \in 1 .. n + 1 : a[i] \in u.minimum .. u.maximum
      /\ u.minimum \in Nat /\ u.maximum \in Nat
      /\ m # <<>> => u.minimum <= s.minimum /\ s.maximum <= u.maximum
  <2>1. v \in Range(a) /\ \A i \in 1 .. n : m[i] \in Range(a)
    <3>1. DOMAIN a = 1 .. n + 1
      BY <1>3
    <3> QED
      BY <1>3, <3>1 DEF Range
  <2>2. CASE m = <<>>
    <3>1. n = 0 /\ s.minimum = Absent /\ s.maximum = Absent
      BY <1>2, <2>2 DEF Describes, NoStatistics
    <3>2. u.minimum = v /\ u.maximum = v
      BY <1>4, <3>1 DEF Absent
    <3>3. \A i \in 1 .. n + 1 : i = n + 1
      BY <3>1
    <3> QED
      BY <1>3, <2>1, <2>2, <3>2, <3>3
  <2>3. CASE m # <<>>
    <3>1. /\ s.minimum \in Range(m) /\ s.maximum \in Range(m)
          /\ \A i \in 1 .. n : m[i] \in s.minimum .. s.maximum
      BY <1>2, <2>3 DEF Describes
    <3>2. Range(m) \subseteq Nat /\ Range(m) \subseteq Range(a)
      BY <1>1, <1>2, <2>1 DEF Range
    <3>3. PICK x \in Nat, y \in Nat : x = s.minimum /\ y = s.maximum
      BY <3>1, <3>2
    <3>4. /\ u.minimum = IF v < x THEN v ELSE x
          /\ u.maximum = IF v > y THEN v ELSE y
      BY <1>4, <3>3 DEF Absent
    <3>5. u.minimum \in Range(a) /\ u.maximum \in Range(a)
      BY <2>1, <3>1, <3>2, <3>3, <3>4
    <3>6. /\ u.minimum \in Nat /\ u.maximum \in Nat
          /\ u.minimum <= x /\ y <= u.maximum /\ u.minimum <= v /\ v <= u.maximum
      BY ONLY <3>4, x \in Nat, y \in Nat, v \in Nat
    <3>7. ASSUME NEW i \in 1 .. n + 1 PROVE a[i] \in u.minimum .. u.maximum
      <4>1. CASE i = n + 1
        BY <1>3, <3>6, <4>1
      <4>2. CASE i # n + 1
        <5>1. i \in 1 .. n
          BY <4>2
        <5>2. a[i] \in x .. y
          BY <1>3, <3>1, <3>3, <5>1
        <5> QED
          BY ONLY <3>6, <5>2, x \in Nat, y \in Nat
      <4> QED
        BY <4>1, <4>2
    <3> QED
      BY <3>3, <3>5, <3>6, <3>7
  <2> QED
    BY <2>2, <2>3
<1>10. CASE ~ keeps
  <2>1. s.history = <<>> /\ s.average = Absent /\ s.median = Absent
    BY <1>10 DEF Describes
  <2>2. ~ r.average /\ ~ r.median
    BY <1>10
  <2>3. u.history = <<>> /\ u.average = Absent /\ u.median = Absent
    BY <1>4, <1>10, <2>1, <2>2
  <2> QED
    BY <1>3, <1>4, <1>8, <1>9, <1>10, <2>3 DEF Describes, a
<1>11. CASE keeps
  <2>1. Latest(s.history, m, HistorySize)
    BY <1>11 DEF Describes
  <2>2. /\ h = Pushed(s.history, v) /\ h \in Seq(Nat) /\ h # <<>>
        /\ Len(h) <= HistorySize /\ Latest(h, a, HistorySize)
    BY <1>1, <1>4, <1>6, <1>7, <1>11, <2>1, PushedLatest DEF a
  <2>3. u.average # Absent => u.average * Len(h) = Scale * Sum(h)
    <3>1. u.average # Absent => u.average = Average(h)
      BY <1>4, <1>6, <1>11
    <3> QED
      BY <2>2, <3>1, AverageIs
  <2>4. ASSUME u.median # Absent
        PROVE  /\ 2 * AtMost(h, u.median) >= Len(h)
               /\ 2 * AtLeast(h, u.median) >= Len(h)
               /\ u.median \in Scale * u.minimum .. Scale * u.maximum
    <3>1. PICK x \in Nat : x = u.median /\ x = Median(h)
      <4>1. u.median = Median(h)
        BY <1>4, <1>6, <1>11, <2>4
      <4> QED
        BY <2>2, <4>1, MedianSplits
    <3>2. /\ 2 * AtMost(h, x) >= Len(h) /\ 2 * AtLeast(h, x) >= Len(h)
          /\ \E i, j \in DOMAIN h : Scale * h[i] <= x /\ x <= Scale * h[j]
      BY <2>2, <3>1, MedianSplits
    <3>3. \A i \in DOMAIN h : h[i] \in u.minimum .. u.maximum
      <4>1. PICK k \in Nat : k = Len(h) /\ k <= n + 1 /\ DOMAIN h = 1 .. k
        BY <1>3, <2>2 DEF Latest
      <4>2. \A i \in 1 .. k : h[i] = a[n + 1 - k + i]
        <5>1. \A i \in 1 .. Len(h) : h[i] = a[Len(a) - Len(h) + i]
          BY <2>2 DEF Latest
        <5> QED
          BY <1>3, <4>1, <5>1
      <4>3. \A i \in 1 .. k : n + 1 - k + i \in 1 .. n + 1
        BY <4>1
      <4> QED
        BY <1>9, <4>1, <4>2, <4>3
    <3>4. PICK i \in DOMAIN h, j \in DOMAIN h : Scale * h[i] <= x /\ x <= Scale * h[j]
      BY <3>2
    <3>5. PICK p \in Nat, q \in Nat, y \in Nat, z \in Nat :
            p = h[i] /\ q = h[j] /\ y = u.minimum /\ z = u.maximum
      BY <1>9, <2>2, ElementOfSeq
    <3>6. y <= p /\ q <= z
      BY <3>3, <3>5
    <3>7. PICK c \in Nat : c = Scale
      BY HistoryAssumption
    <3>8. c * y <= c * p /\ c * p \in Nat /\ c * y \in Nat
      BY ONLY <3>6, c \in Nat, p \in Nat, y \in Nat, ProductsOrdered
    <3>9. c * q <= c * z /\ c * q \in Nat /\ c * z \in Nat
      BY ONLY <3>6, c \in Nat, q \in Nat, z \in Nat, ProductsOrdered
    <3>10. c * p <= x /\ x <= c * q
      BY <3>4, <3>5, <3>7
    <3>11. x \in c * y .. c * z
      BY ONLY <3>8, <3>9, <3>10, x \in Nat
    <3> QED
      BY <3>1, <3>2, <3>5, <3>7, <3>11
  <2> QED
    BY <1>3, <1>4, <1>6, <1>8, <1>9, <1>11, <2>2, <2>3, <2>4 DEF Describes, a
<1> QED
  BY <1>10, <1>11

-----------------------------------------------------------------------------
(* What a strategy requires.                                               *)

Statistics == [runTime : BOOLEAN, elu : BOOLEAN]
Messages == [type : {"task"}, id : Nat, name : Names]
              \cup [type : {"statistics"}, statistics : Statistics]
Tasks == [id : Nat, name : Names, elu : BOOLEAN, begun : Nat]
Measurement == Nat \cup {Absent}
Performances == [name : Names, runTime : Measurement, active : Measurement,
                 idle : Measurement]
Answers == [id : Nat, ok : {TRUE}, begun : Nat, taskPerformance : Performances]
             \cup [id : Nat, ok : {FALSE}]

FunctionsTyped ==
  /\ taskFunctionsUsage \in [DOMAIN taskFunctionsUsage -> WorkerUsage]
  /\ DOMAIN taskFunctionsUsage \subseteq FunctionNames \cup {UndefinedName}
  /\ IsFiniteSet(DOMAIN taskFunctionsUsage)

Typed ==
  /\ strategy \in Strategies
  /\ median \in [{"runTime", "elu"} -> BOOLEAN]
  /\ taskFunctionNames \in Seq(FunctionNames) /\ taskFunctionNames # <<>>
  /\ usage \in WorkerUsage
  /\ FunctionsTyped
  /\ statistics \in Statistics
  /\ toWorker \in Seq(Messages) /\ toPool \in Seq(Answers)
  /\ running \in SUBSET Tasks
  /\ sent \in Nat /\ epoch \in Nat /\ told \in Nat

\* Whether a strategy has a kind measured, and a history kept of it.
Measures(kind) == TaskStatisticsRequirements(strategy)[RequirementOf(kind)].aggregate
Keeps(kind) == TaskStatisticsRequirements(strategy)[RequirementOf(kind)].average

LEMMA StrategyRequirements ==
  ASSUME NEW s \in Strategies, NEW x \in {"runTime", "waitTime", "elu"},
         NEW r, r = TaskStatisticsRequirements(s)[x]
  PROVE  /\ r.aggregate \in BOOLEAN /\ r.average \in BOOLEAN
         /\ r.average => r.aggregate
         /\ x = "waitTime" => ~ r.average
<1>1. s \in {"ROUND_ROBIN", "LEAST_USED", "LEAST_BUSY", "LEAST_ELU", "FAIR_SHARE",
             "WEIGHTED_ROUND_ROBIN", "INTERLEAVED_WEIGHTED_ROUND_ROBIN"}
  BY StrategyAssumption
<1>2. DefaultRequirements = [runTime |-> NotRequired, waitTime |-> NotRequired,
                             elu |-> NotRequired]
  BY DEF DefaultRequirements
<1> DEFINE Fits(q) ==
             /\ q["runTime"] \in {NotRequired, SumRequired, AverageRequired}
             /\ q["elu"] \in {NotRequired, SumRequired, AverageRequired}
             /\ q["waitTime"] \in {NotRequired, SumRequired}
<1>3. Fits(TaskStatisticsRequirements(s))
  <2>1. CASE s \in {"ROUND_ROBIN", "LEAST_USED"}
    <3>1. TaskStatisticsRequirements(s) = DefaultRequirements
      BY ONLY <2>1 DEF TaskStatisticsRequirements
    <3>2. Fits(DefaultRequirements)
      BY ONLY <1>2
    <3> QED
      BY ONLY <3>1, <3>2
  <2>2. CASE s = "LEAST_BUSY"
    <3>1. TaskStatisticsRequirements(s) = LeastBusyRequirements
      BY ONLY <2>2 DEF TaskStatisticsRequirements
    <3>2. Fits(LeastBusyRequirements)
      BY ONLY <1>2 DEF LeastBusyRequirements
    <3> QED
      BY ONLY <3>1, <3>2
  <2>3. CASE s = "LEAST_ELU"
    <3>1. TaskStatisticsRequirements(s) = LeastEluRequirements
      BY ONLY <2>3 DEF TaskStatisticsRequirements
    <3>2. Fits(LeastEluRequirements)
      BY ONLY <1>2 DEF LeastEluRequirements
    <3> QED
      BY ONLY <3>1, <3>2
  <2>4. CASE s = "FAIR_SHARE"
    <3>1. TaskStatisticsRequirements(s) = FairShareRequirements
      BY ONLY <2>4 DEF TaskStatisticsRequirements
    <3>2. Fits(FairShareRequirements)
      BY ONLY <1>2 DEF FairShareRequirements
    <3> QED
      BY ONLY <3>1, <3>2
  <2>5. CASE s = "WEIGHTED_ROUND_ROBIN"
    <3>1. TaskStatisticsRequirements(s) = WeightedRoundRobinRequirements
      BY ONLY <2>5 DEF TaskStatisticsRequirements
    <3>2. Fits(WeightedRoundRobinRequirements)
      BY ONLY <1>2 DEF WeightedRoundRobinRequirements
    <3> QED
      BY ONLY <3>1, <3>2
  <2>6. CASE s = "INTERLEAVED_WEIGHTED_ROUND_ROBIN"
    <3>1. TaskStatisticsRequirements(s) = InterleavedWeightedRoundRobinRequirements
      BY ONLY <2>6 DEF TaskStatisticsRequirements
    <3>2. Fits(InterleavedWeightedRoundRobinRequirements)
      BY ONLY <1>2 DEF InterleavedWeightedRoundRobinRequirements
    <3> QED
      BY ONLY <3>1, <3>2
  <2> QED
    BY <1>1, <2>1, <2>2, <2>3, <2>4, <2>5, <2>6
<1>4. /\ r \in {NotRequired, SumRequired, AverageRequired}
      /\ x = "waitTime" => r \in {NotRequired, SumRequired}
  BY <1>3
<1>5. /\ ~ NotRequired.aggregate /\ ~ NotRequired.average
      /\ SumRequired.aggregate /\ ~ SumRequired.average
      /\ AverageRequired.aggregate /\ AverageRequired.average
      /\ \A q \in {NotRequired, SumRequired, AverageRequired} :
           q.aggregate \in BOOLEAN /\ q.average \in BOOLEAN
  <2>1. /\ NotRequired.aggregate = FALSE /\ NotRequired.average = FALSE
        /\ SumRequired.aggregate = TRUE /\ SumRequired.average = FALSE
        /\ AverageRequired.aggregate = TRUE /\ AverageRequired.average = TRUE
    BY DEF NotRequired, SumRequired, AverageRequired
  <2> QED
    BY ONLY <2>1
<1> QED
  BY ONLY <1>4, <1>5

\* The options choose between average and median; whether there is a history
\* depends on the strategy alone.
LEMMA RequirementsAre ==
  ASSUME Typed, NEW k \in Kinds, NEW r, r = Requirements(k)
  PROVE  /\ r \in Needs /\ r.aggregate = Measures(k)
         /\ (r.average \/ r.median) = Keeps(k) /\ ~ (r.average /\ r.median)
         /\ Keeps(k) => Measures(k)
         /\ Keeps(k) \in BOOLEAN /\ Measures(k) \in BOOLEAN
<1> DEFINE x == RequirementOf(k)
           q == TaskStatisticsRequirements(strategy)[x]
<1>1. x \in {"runTime", "waitTime", "elu"}
  BY DEF RequirementOf, Kinds
<1>2. /\ q.aggregate \in BOOLEAN /\ q.average \in BOOLEAN
      /\ q.average => q.aggregate
      /\ x = "waitTime" => ~ q.average
  <2>1. strategy \in Strategies
    BY DEF Typed
  <2> HIDE DEF x
  <2> QED
    BY <1>1, <2>1, StrategyRequirements
<1>3. x # "waitTime" => median[x] \in BOOLEAN
  BY <1>1 DEF Typed
<1>4. r = [aggregate |-> q.aggregate,
           average |-> q.average /\ ~ (q.average /\ median[x]),
           median |-> q.average /\ median[x]]
  BY DEF Requirements
<1>5. Measures(k) = q.aggregate /\ Keeps(k) = q.average
  BY DEF Measures, Keeps
<1> HIDE DEF x, q
<1>6. CASE q.average
  <2>1. median[x] \in BOOLEAN
    BY <1>2, <1>3, <1>6
  <2>2. r.aggregate = q.aggregate /\ r.average = ~ median[x] /\ r.median = median[x]
    BY <1>4, <1>6, <2>1
  <2> QED
    BY <1>2, <1>4, <1>5, <1>6, <2>1, <2>2 DEF Needs
<1>7. CASE ~ q.average
  <2>1. r = [aggregate |-> q.aggregate, average |-> FALSE, median |-> FALSE]
    BY <1>2, <1>4, <1>7
  <2> QED
    BY <1>2, <1>5, <1>7, <2>1 DEF Needs
<1> QED
  BY <1>6, <1>7

-----------------------------------------------------------------------------
(* What the hooks around a task do.                                        *)

\* Values measured of a task, one for some of the kinds.
Measured(values) ==
  DOMAIN values \subseteq Kinds /\ \A k \in DOMAIN values : values[k] \in Nat

\* The usage v is u after a task has been counted, so many times as executed and
\* as failed, and its values.
Steps(u, v, values, executed, failed) ==
  /\ v \in WorkerUsage
  /\ v.tasks.executed = u.tasks.executed + executed
  /\ v.tasks.failed = u.tasks.failed + failed
  /\ \A k \in Kinds : v.statistics[k] =
       IF k \in DOMAIN values
         THEN UpdateMeasurementStatistics(u.statistics[k], Requirements(k), values[k])
         ELSE u.statistics[k]

LEMMA UpdateTyped ==
  ASSUME Typed, NEW k \in Kinds, NEW s \in MeasurementStatistics, NEW v \in Nat
  PROVE  UpdateMeasurementStatistics(s, Requirements(k), v) \in MeasurementStatistics
<1>1. PICK r : r = Requirements(k) /\ r \in Needs
  BY RequirementsAre
<1>2. PICK u : u = UpdateMeasurementStatistics(s, r, v)
  OBVIOUS
<1>3. CASE r.aggregate
  <2>1. u \in MeasurementStatistics
    BY ONLY <1>1, <1>2, <1>3, s \in MeasurementStatistics, v \in Nat, UpdateFields
  <2> QED
    BY <1>1, <1>2, <2>1
<1>4. CASE ~ r.aggregate
  BY <1>1, <1>2, <1>4 DEF UpdateMeasurementStatistics
<1> QED
  BY <1>3, <1>4

LEMMA UpdatedSteps ==
  ASSUME Typed, NEW u \in WorkerUsage, NEW values, Measured(values)
  PROVE  Updated(u, values).tasks = u.tasks /\ Steps(u, Updated(u, values), values, 0, 0)
<1> DEFINE new == [k \in Kinds |->
             IF k \in DOMAIN values
               THEN UpdateMeasurementStatistics(u.statistics[k], Requirements(k), values[k])
               ELSE u.statistics[k]]
           v == Updated(u, values)
<1>1. /\ u.tasks \in TaskStatistics /\ u.statistics \in [Kinds -> MeasurementStatistics]
      /\ u = [tasks |-> u.tasks, statistics |-> u.statistics]
  BY DEF WorkerUsage
<1>2. v = [tasks |-> u.tasks, statistics |-> new]
  BY <1>1 DEF Updated
<1>3. new \in [Kinds -> MeasurementStatistics]
  <2>1. ASSUME NEW k \in Kinds
        PROVE  /\ u.statistics[k] \in MeasurementStatistics
               /\ k \in DOMAIN values =>
                    UpdateMeasurementStatistics(u.statistics[k], Requirements(k), values[k])
                      \in MeasurementStatistics
    <3>1. u.statistics[k] \in MeasurementStatistics
      BY <1>1
    <3>2. k \in DOMAIN values => values[k] \in Nat
      BY DEF Measured
    <3> QED
      BY <3>1, <3>2, UpdateTyped
  <2> QED
    BY <2>1
<1>4. \A k \in Kinds : new[k] =
        IF k \in DOMAIN values
          THEN UpdateMeasurementStatistics(u.statistics[k], Requirements(k), values[k])
          ELSE u.statistics[k]
  OBVIOUS
<1> HIDE DEF new, v
<1>5. v.tasks = u.tasks /\ v.statistics = new
  BY ONLY <1>2
<1>6. v \in WorkerUsage
  BY ONLY <1>1, <1>2, <1>3 DEF WorkerUsage
<1>7. u.tasks.executed \in Nat /\ u.tasks.failed \in Nat
  BY <1>1 DEF TaskStatistics
<1>8. v.tasks.executed = u.tasks.executed + 0 /\ v.tasks.failed = u.tasks.failed + 0
  BY ONLY <1>5, <1>7
<1> QED
  BY <1>4, <1>5, <1>6, <1>8 DEF Steps, v

\* The counts of a usage changed, its statistics not.
LEMMA CountsChange ==
  ASSUME NEW u \in WorkerUsage, NEW t \in TaskStatistics
  PROVE  /\ [u EXCEPT !.tasks = t] \in WorkerUsage
         /\ [u EXCEPT !.tasks = t].tasks = t
         /\ [u EXCEPT !.tasks = t].statistics = u.statistics
BY DEF WorkerUsage

LEMMA BegunSteps ==
  ASSUME Typed, NEW u \in WorkerUsage, NEW values, Measured(values)
  PROVE  Steps(u, [Updated(u, values) EXCEPT !.tasks.executing = @ + 1], values, 0, 0)
<1> DEFINE w == Updated(u, values)
           t == [w.tasks EXCEPT !.executing = @ + 1]
           v == [w EXCEPT !.tasks = t]
<1>1. Steps(u, w, values, 0, 0)
  BY UpdatedSteps
<1> HIDE DEF w
<1>2. w \in WorkerUsage /\ w.tasks \in TaskStatistics
  BY <1>1 DEF Steps, WorkerUsage
<1>3. /\ t \in TaskStatistics
      /\ t.executed = w.tasks.executed /\ t.failed = w.tasks.failed
  BY <1>2 DEF TaskStatistics
<1>4. [w EXCEPT !.tasks.executing = @ + 1] = v
  OBVIOUS
<1> HIDE DEF t
<1>5. v \in WorkerUsage /\ v.tasks = t /\ v.statistics = w.statistics
  BY <1>2, <1>3, CountsChange
<1> HIDE DEF v
<1>6. Steps(u, v, values, 0, 0)
  BY <1>1, <1>3, <1>5 DEF Steps
<1> QED
  BY <1>4, <1>6 DEF w

LEMMA EndedSteps ==
  ASSUME Typed, NEW u \in WorkerUsage, NEW values, Measured(values), NEW ok \in BOOLEAN
  PROVE  Steps(u, Updated(Counted(u, ok), values), values,
               IF ok THEN 1 ELSE 0, IF ok THEN 0 ELSE 1)
<1> DEFINE t == [executed |-> u.tasks.executed + (IF ok THEN 1 ELSE 0),
                 executing |-> IF u.tasks.executing > 0 THEN u.tasks.executing - 1
                                                        ELSE u.tasks.executing,
                 failed |-> u.tasks.failed + (IF ok THEN 0 ELSE 1)]
           w == [u EXCEPT !.tasks = t]
           v == Updated(w, values)
<1>1. /\ u.tasks \in TaskStatistics
      /\ u.tasks.executed \in Nat /\ u.tasks.executing \in Nat /\ u.tasks.failed \in Nat
  BY DEF WorkerUsage, TaskStatistics
<1>2. Counted(u, ok) = w
  <2>1. u.tasks = [executed |-> u.tasks.executed, executing |-> u.tasks.executing,
                   failed |-> u.tasks.failed]
    BY <1>1 DEF TaskStatistics
  <2>2. u = [tasks |-> u.tasks, statistics |-> u.statistics]
    BY DEF WorkerUsage
  <2>3. Counted(u, ok) =
          [u EXCEPT !.tasks = [[[u.tasks EXCEPT
             !.executing = IF @ > 0 THEN @ - 1 ELSE @] EXCEPT
             !.executed = IF ok THEN @ + 1 ELSE @] EXCEPT
             !.failed = IF ok THEN @ ELSE @ + 1]]
    BY <2>1, <2>2 DEF Counted
  <2>4. [[[u.tasks EXCEPT
             !.executing = IF @ > 0 THEN @ - 1 ELSE @] EXCEPT
             !.executed = IF ok THEN @ + 1 ELSE @] EXCEPT
             !.failed = IF ok THEN @ ELSE @ + 1] = t
    <3>1. PICK a \in Nat, b \in Nat, c \in Nat :
            /\ a = u.tasks.executed /\ b = u.tasks.executing /\ c = u.tasks.failed
            /\ u.tasks = [executed |-> a, executing |-> b, failed |-> c]
      BY <1>1, <2>1
    <3>2. PICK d, e, g : /\ d = (IF b > 0 THEN b - 1 ELSE b)
                         /\ e = (IF ok THEN a + 1 ELSE a)
                         /\ g = (IF ok THEN c ELSE c + 1)
      OBVIOUS
    <3>3. [u.tasks EXCEPT !.executing = IF @ > 0 THEN @ - 1 ELSE @] =
            [executed |-> a, executing |-> d, failed |-> c]
      BY ONLY <3>1, <3>2
    <3>4. [[executed |-> a, executing |-> d, failed |-> c] EXCEPT
             !.executed = IF ok THEN @ + 1 ELSE @] =
            [executed |-> e, executing |-> d, failed |-> c]
      BY ONLY <3>2
    <3>5. [[executed |-> e, executing |-> d, failed |-> c] EXCEPT
             !.failed = IF ok THEN @ ELSE @ + 1] =
            [executed |-> e, executing |-> d, failed |-> g]
      BY ONLY <3>2
    <3>6. t = [executed |-> e, executing |-> d, failed |-> g]
      <4>1. e = a + (IF ok THEN 1 ELSE 0) /\ g = c + (IF ok THEN 0 ELSE 1)
        BY ONLY <3>2, a \in Nat, c \in Nat, ok \in BOOLEAN
      <4> QED
        BY ONLY <3>1, <3>2, <4>1
    <3> HIDE DEF t
    <3> QED
      BY ONLY <3>3, <3>4, <3>5, <3>6
  <2> QED
    BY <2>3, <2>4
<1>3. t \in TaskStatistics
  <2>1. PICK a \in Nat, b \in Nat, c \in Nat :
          a = u.tasks.executed /\ b = u.tasks.executing /\ c = u.tasks.failed
    BY <1>1
  <2>2. /\ a + (IF ok THEN 1 ELSE 0) \in Nat /\ c + (IF ok THEN 0 ELSE 1) \in Nat
        /\ (IF b > 0 THEN b - 1 ELSE b) \in Nat
    OBVIOUS
  <2> QED
    BY <2>1, <2>2 DEF TaskStatistics
<1>4. /\ t.executed = u.tasks.executed + (IF ok THEN 1 ELSE 0)
      /\ t.failed = u.tasks.failed + (IF ok THEN 0 ELSE 1)
  OBVIOUS
<1> HIDE DEF t
<1>5. w \in WorkerUsage /\ w.tasks = t /\ w.statistics = u.statistics
  BY <1>3, CountsChange
<1> HIDE DEF w
<1>6. v.tasks = w.tasks /\ Steps(w, v, values, 0, 0)
  BY <1>5, UpdatedSteps
<1> HIDE DEF v
<1>7. Steps(u, v, values, IF ok THEN 1 ELSE 0, IF ok THEN 0 ELSE 1)
  BY <1>4, <1>5, <1>6 DEF Steps
<1> QED
  BY <1>2, <1>7 DEF v

-----------------------------------------------------------------------------
(* What the usages of task functions add up to.                            *)

\* The values of f add up to n at most.
TotalAtMost(f, n) ==
  \E F : Adds(F, f, DOMAIN f) /\ F[DOMAIN f] <= n

Executed == [n \in DOMAIN taskFunctionsUsage |-> taskFunctionsUsage[n].tasks.executed]
Failed == [n \in DOMAIN taskFunctionsUsage |-> taskFunctionsUsage[n].tasks.failed]

\* The sum without an element.
LEMMA SumWithout ==
  ASSUME NEW S, IsFiniteSet(S), NEW key \in S, NEW f, \A x \in S : f[x] \in Nat,
         NEW F, Adds(F, f, S), NEW g, \A x \in S \ {key} : g[x] = f[x],
         NEW G, Adds(G, g, S \ {key})
  PROVE  F[S] = f[key] + G[S \ {key}]
<1> DEFINE R == S \ {key}
<1>1. IsFiniteSet(R) /\ R \subseteq S /\ R \in SUBSET R
  BY FS_Subset
<1>2. \A x \in R : g[x] \in Nat /\ f[x] = g[x]
  OBVIOUS
<1>3. F[S] = f[key] + F[R]
  <2>1. \A T \in SUBSET S : \A x \in T : F[T] = f[x] + F[T \ {x}]
    BY ONLY Adds(F, f, S) DEF Adds
  <2>2. S \in SUBSET S
    OBVIOUS
  <2>3. F[S] = f[key] + F[S \ {key}]
    BY ONLY key \in S, <2>1, <2>2, Zenon
  <2> QED
    BY <2>3
<1>4. Adds(G, g, R)
  OBVIOUS
<1> HIDE DEF R
<1>5. \A T \in SUBSET R : F[T] = G[T]
  BY ONLY <1>1, <1>2, <1>4, Adds(F, f, S), SumsAgree
<1>6. F[R] = G[R]
  BY ONLY <1>1, <1>5
<1> QED
  BY <1>3, <1>6 DEF R

\* One more value, or one that is greater by d.
LEMMA TotalGrows ==
  ASSUME NEW S, IsFiniteSet(S), NEW f \in [S -> Nat], NEW n \in Nat, TotalAtMost(f, n),
         NEW key, NEW d \in Nat, NEW g \in [S \cup {key} -> Nat],
         \A x \in S \ {key} : g[x] = f[x],
         g[key] = (IF key \in S THEN f[key] ELSE 0) + d
  PROVE  TotalAtMost(g, n + d)
<1> DEFINE R == S \ {key}
           U == S \cup {key}
<1>1. PICK F : Adds(F, f, S) /\ F[S] <= n
  BY DEF TotalAtMost
<1>2. IsFiniteSet(R) /\ IsFiniteSet(U) /\ key \in U /\ U \ {key} = R /\ key \notin R
  BY FS_Subset, FS_AddElement
<1>3. /\ \A x \in S : f[x] \in Nat
      /\ \A x \in U : g[x] \in Nat
      /\ \A x \in R : g[x] = f[x] /\ f[x] \in Nat /\ f[x] = g[x]
  OBVIOUS
<1>4. DOMAIN g = U
  OBVIOUS
<1> HIDE DEF U
<1>5. PICK G : Adds(G, g, U)
  BY <1>2, <1>3, SumsExist
<1>6. PICK H : Adds(H, g, R)
  BY <1>2, <1>3, SumsExist
<1>7. F[S] \in Nat /\ G[U] \in Nat /\ H[R] \in Nat
  <2>1. S \in SUBSET S /\ U \in SUBSET U /\ R \in SUBSET R
    OBVIOUS
  <2> HIDE DEF R
  <2> QED
    BY <1>1, <1>5, <1>6, <2>1 DEF Adds
<1>8. G[U] = g[key] + H[R]
  <2>1. /\ \A x \in U \ {key} : g[x] = g[x]
        /\ Adds(H, g, U \ {key})
    BY <1>2, <1>6
  <2>2. G[U] = g[key] + H[U \ {key}]
    BY ONLY <1>2, <1>3, <1>5, <2>1, SumWithout
  <2> QED
    BY <1>2, <2>2
<1>9. CASE key \in S
  <2>1. F[S] = f[key] + H[R]
    <3>1. Adds(H, g, S \ {key}) /\ \A x \in S \ {key} : g[x] = f[x]
      BY <1>6
    <3>2. F[S] = f[key] + H[S \ {key}]
      BY ONLY IsFiniteSet(S), <1>1, <1>3, <1>9, <3>1, SumWithout
    <3> QED
      BY <3>2
  <2>2. PICK a \in Nat, b \in Nat : a = f[key] /\ b = H[R]
    BY <1>3, <1>7, <1>9
  <2>3. G[U] = (a + d) + b /\ F[S] = a + b
    BY <1>8, <1>9, <2>1, <2>2
  <2>4. (a + d) + b <= n + d
    BY ONLY <1>1, <2>3, a \in Nat, b \in Nat, d \in Nat, n \in Nat
  <2> QED
    BY <1>4, <1>5, <2>3, <2>4 DEF TotalAtMost
<1>10. CASE key \notin S
  <2>1. R = S
    BY <1>10
  <2>2. H[R] = F[S]
    <3>1. \A x \in S : f[x] \in Nat /\ g[x] = f[x]
      BY <1>3, <2>1
    <3>2. \A T \in SUBSET S : H[T] = F[T]
      <4>1. Adds(H, g, S) /\ S \subseteq S
        BY <1>6, <2>1
      <4> QED
        BY ONLY IsFiniteSet(S), <1>1, <3>1, <4>1, SumsAgree
    <3> QED
      BY <2>1, <3>2
  <2>3. PICK b \in Nat : b = F[S]
    BY <1>7
  <2>4. G[U] = (0 + d) + b /\ b <= n
    BY <1>1, <1>8, <1>10, <2>2, <2>3
  <2>5. (0 + d) + b <= n + d
    BY ONLY <2>4, b \in Nat, d \in Nat, n \in Nat
  <2> QED
    BY <1>4, <1>5, <2>4, <2>5 DEF TotalAtMost
<1> QED
  BY <1>9, <1>10

\* One value less.
LEMMA TotalShrinks ==
  ASSUME NEW S, IsFiniteSet(S), NEW f \in [S -> Nat], NEW n \in Nat, TotalAtMost(f, n),
         NEW key \in S, NEW g \in [S \ {key} -> Nat], \A x \in S \ {key} : g[x] = f[x]
  PROVE  TotalAtMost(g, n)
<1> DEFINE R == S \ {key}
<1>1. PICK F : Adds(F, f, S) /\ F[S] <= n
  BY DEF TotalAtMost
<1>2. IsFiniteSet(R) /\ DOMAIN g = R /\ (\A x \in R : g[x] \in Nat)
      /\ (\A x \in S : f[x] \in Nat)
  BY FS_Subset
<1>3. PICK G : Adds(G, g, R)
  BY <1>2, SumsExist
<1>4. F[S] = f[key] + G[R]
  <2>1. F[S] = f[key] + G[S \ {key}]
    BY ONLY IsFiniteSet(S), key \in S, <1>1, <1>2, <1>3,
       \A x \in S \ {key} : g[x] = f[x], SumWithout
  <2> QED
    BY <2>1
<1>5. F[S] \in Nat /\ G[R] \in Nat /\ f[key] \in Nat
  <2>1. S \in SUBSET S /\ R \in SUBSET R
    OBVIOUS
  <2> HIDE DEF R
  <2> QED
    BY <1>1, <1>2, <1>3, <2>1 DEF Adds
<1>6. G[R] <= n
  <2>1. PICK a \in Nat, b \in Nat : a = f[key] /\ b = G[R]
    BY <1>5
  <2>2. a + b <= n
    BY <1>1, <1>4, <2>1
  <2>3. b <= n
    BY ONLY <2>2, a \in Nat, b \in Nat, n \in Nat
  <2> QED
    BY <2>1, <2>3
<1> QED
  BY <1>2, <1>3, <1>6 DEF TotalAtMost

\* The counts of the usages of task functions.
LEMMA CountsTyped ==
  ASSUME Typed
  PROVE  /\ Executed \in [DOMAIN taskFunctionsUsage -> Nat]
         /\ Failed \in [DOMAIN taskFunctionsUsage -> Nat]
BY DEF Typed, FunctionsTyped, WorkerUsage, TaskStatistics, Executed, Failed

\* What the pool adds up is a sum as above.
LEMMA TotalExecutedIs ==
  ASSUME Typed, NEW F, Adds(F, Executed, DOMAIN Executed)
  PROVE  MapThenSumSet(LAMBDA n : taskFunctionsUsage[n].tasks.executed, DOMAIN taskFunctionsUsage)
           = F[DOMAIN Executed]
<1> DEFINE D == DOMAIN taskFunctionsUsage
           Chosen(T) == CHOOSE x \in T : TRUE
           body(e, T) == IF T = {} THEN 0
                         ELSE taskFunctionsUsage[Chosen(T)].tasks.executed + e[T \ {Chosen(T)}]
           Total(e) == e = [T \in SUBSET D |-> body(e, T)]
           iter == CHOOSE e : Total(e)
<1>1. MapThenSumSet(LAMBDA n : taskFunctionsUsage[n].tasks.executed, D) = iter[D]
  BY DEF MapThenSumSet, MapThenFoldSet
<1>2. /\ DOMAIN Executed = D /\ IsFiniteSet(D)
      /\ \A x \in D : Executed[x] = taskFunctionsUsage[x].tasks.executed /\ Executed[x] \in Nat
  BY CountsTyped DEF Executed, Typed, FunctionsTyped
<1>3. \A T \in SUBSET D : T # {} => Chosen(T) \in T
  OBVIOUS
<1> HIDE DEF D, Chosen
<1>4. ASSUME NEW T \in SUBSET D PROVE F[T] = body(F, T)
  <2>1. CASE T = {}
    BY <2>1 DEF Adds
  <2>2. CASE T # {}
    <3>1. Chosen(T) \in T
      BY <1>3, <2>2
    <3>2. F[T] = Executed[Chosen(T)] + F[T \ {Chosen(T)}]
      BY <1>2, <3>1 DEF Adds
    <3>3. Executed[Chosen(T)] = taskFunctionsUsage[Chosen(T)].tasks.executed
      BY <1>2, <3>1
    <3> QED
      BY <2>2, <3>2, <3>3
  <2> QED
    BY <2>1, <2>2
<1>5. Total(F)
  <2>1. F = [T \in SUBSET D |-> F[T]]
    BY <1>2 DEF Adds
  <2> HIDE DEF body
  <2> QED
    BY <1>4, <2>1
<1>6. Total(iter)
  <2> HIDE DEF Total
  <2> QED
    BY <1>5
<1> HIDE DEF iter
<1>7. Unfolds(iter, Executed, D)
  <2>1. \A T \in SUBSET D : iter[T] = body(iter, T)
    <3> HIDE DEF body
    <3> QED
      BY <1>6
  <2>2. iter[{}] = 0
    BY <2>1
  <2>3. ASSUME NEW T \in SUBSET D, T # {}
        PROVE  \E x \in T : iter[T] = Executed[x] + iter[T \ {x}]
    <3>1. Chosen(T) \in T
      BY <1>3, <2>3
    <3>2. iter[T] = taskFunctionsUsage[Chosen(T)].tasks.executed + iter[T \ {Chosen(T)}]
      BY <2>1, <2>3
    <3>3. Executed[Chosen(T)] = taskFunctionsUsage[Chosen(T)].tasks.executed
      BY <1>2, <3>1
    <3> QED
      BY <3>1, <3>2, <3>3
  <2> QED
    BY <2>2, <2>3 DEF Unfolds
<1>8. \A T \in SUBSET D : iter[T] = F[T]
  <2>1. \A x \in D : Executed[x] \in Nat
    BY <1>2
  <2>2. Adds(F, Executed, D)
    BY <1>2
  <2> QED
    BY ONLY <1>2, <1>7, <2>1, <2>2, SumsUnique
<1> QED
  BY <1>1, <1>2, <1>8 DEF D

LEMMA TotalFailedIs ==
  ASSUME Typed, NEW F, Adds(F, Failed, DOMAIN Failed)
  PROVE  MapThenSumSet(LAMBDA n : taskFunctionsUsage[n].tasks.failed, DOMAIN taskFunctionsUsage)
           = F[DOMAIN Failed]
<1> DEFINE D == DOMAIN taskFunctionsUsage
           Chosen(T) == CHOOSE x \in T : TRUE
           body(e, T) == IF T = {} THEN 0
                         ELSE taskFunctionsUsage[Chosen(T)].tasks.failed + e[T \ {Chosen(T)}]
           Total(e) == e = [T \in SUBSET D |-> body(e, T)]
           iter == CHOOSE e : Total(e)
<1>1. MapThenSumSet(LAMBDA n : taskFunctionsUsage[n].tasks.failed, D) = iter[D]
  BY DEF MapThenSumSet, MapThenFoldSet
<1>2. /\ DOMAIN Failed = D /\ IsFiniteSet(D)
      /\ \A x \in D : Failed[x] = taskFunctionsUsage[x].tasks.failed /\ Failed[x] \in Nat
  BY CountsTyped DEF Failed, Typed, FunctionsTyped
<1>3. \A T \in SUBSET D : T # {} => Chosen(T) \in T
  OBVIOUS
<1> HIDE DEF D, Chosen
<1>4. ASSUME NEW T \in SUBSET D PROVE F[T] = body(F, T)
  <2>1. CASE T = {}
    BY <2>1 DEF Adds
  <2>2. CASE T # {}
    <3>1. Chosen(T) \in T
      BY <1>3, <2>2
    <3>2. F[T] = Failed[Chosen(T)] + F[T \ {Chosen(T)}]
      BY <1>2, <3>1 DEF Adds
    <3>3. Failed[Chosen(T)] = taskFunctionsUsage[Chosen(T)].tasks.failed
      BY <1>2, <3>1
    <3> QED
      BY <2>2, <3>2, <3>3
  <2> QED
    BY <2>1, <2>2
<1>5. Total(F)
  <2>1. F = [T \in SUBSET D |-> F[T]]
    BY <1>2 DEF Adds
  <2> HIDE DEF body
  <2> QED
    BY <1>4, <2>1
<1>6. Total(iter)
  <2> HIDE DEF Total
  <2> QED
    BY <1>5
<1> HIDE DEF iter
<1>7. Unfolds(iter, Failed, D)
  <2>1. \A T \in SUBSET D : iter[T] = body(iter, T)
    <3> HIDE DEF body
    <3> QED
      BY <1>6
  <2>2. iter[{}] = 0
    BY <2>1
  <2>3. ASSUME NEW T \in SUBSET D, T # {}
        PROVE  \E x \in T : iter[T] = Failed[x] + iter[T \ {x}]
    <3>1. Chosen(T) \in T
      BY <1>3, <2>3
    <3>2. iter[T] = taskFunctionsUsage[Chosen(T)].tasks.failed + iter[T \ {Chosen(T)}]
      BY <2>1, <2>3
    <3>3. Failed[Chosen(T)] = taskFunctionsUsage[Chosen(T)].tasks.failed
      BY <1>2, <3>1
    <3> QED
      BY <3>1, <3>2, <3>3
  <2> QED
    BY <2>2, <2>3 DEF Unfolds
<1>8. \A T \in SUBSET D : iter[T] = F[T]
  <2>1. \A x \in D : Failed[x] \in Nat
    BY <1>2
  <2>2. Adds(F, Failed, D)
    BY <1>2
  <2> QED
    BY ONLY <1>2, <1>7, <2>1, <2>2, SumsUnique
<1> QED
  BY <1>1, <1>2, <1>8 DEF D

-----------------------------------------------------------------------------
(* The hooks around a task, on the usages of the node and of functions.    *)

\* A hook counts a task of the named function, and its values.
Hooked(name, values, executed, failed) ==
  /\ Measured(values)
  /\ Steps(usage, usage', values, executed, failed)
  /\ \E u : /\ Steps(FunctionUsage(name), u, values, executed, failed)
            /\ FunctionsUpdated(name, u)
  /\ Recorded(values)

LEMMA InitUsageTyped ==
  /\ InitUsage \in WorkerUsage
  /\ InitUsage.tasks.executed = 0 /\ InitUsage.tasks.failed = 0
  /\ \A k \in Kinds : InitUsage.statistics[k] = NoStatistics
<1>1. NoStatistics \in MeasurementStatistics
  <2>1. <<>> \in Seq(Nat) /\ -1 \in Int
    OBVIOUS
  <2> QED
    BY <2>1 DEF NoStatistics, MeasurementStatistics, Absent
<1>2. [executed |-> 0, executing |-> 0, failed |-> 0] \in TaskStatistics
  BY DEF TaskStatistics
<1> QED
  BY <1>1, <1>2 DEF InitUsage, WorkerUsage

LEMMA FunctionUsageTyped ==
  ASSUME Typed, NEW name \in Names \cup {UndefinedName}
  PROVE  /\ FunctionKey(name) \in FunctionNames \cup {UndefinedName}
         /\ FunctionUsage(name) \in WorkerUsage
<1>1. taskFunctionNames[1] \in FunctionNames
  BY DEF Typed
<1>2. FunctionKey(name) \in FunctionNames \cup {UndefinedName}
  BY <1>1 DEF FunctionKey, Names
<1> QED
  BY <1>2, InitUsageTyped DEF FunctionUsage, Typed, FunctionsTyped

LEMMA BeforeHook ==
  ASSUME Typed, NEW name \in Names, NEW w \in WaitTimes, BeforeTaskExecutionHook(name, w)
  PROVE  \E values : Hooked(name, values, 0, 0)
<1> DEFINE values == [waitTime |-> w]
           Begun(u) == [Updated(u, values) EXCEPT !.tasks.executing = @ + 1]
<1>1. Measured(values)
  BY DurationAssumption DEF Measured, Kinds
<1>2. /\ usage' = Begun(usage) /\ FunctionsUpdated(name, Begun(FunctionUsage(name)))
      /\ Recorded(values)
  BY DEF BeforeTaskExecutionHook
<1> HIDE DEF values
<1>3. usage \in WorkerUsage /\ FunctionUsage(name) \in WorkerUsage
  BY FunctionUsageTyped DEF Typed
<1>4. Steps(usage, Begun(usage), values, 0, 0)
  BY <1>1, <1>3, BegunSteps
<1>5. Steps(FunctionUsage(name), Begun(FunctionUsage(name)), values, 0, 0)
  BY <1>1, <1>3, BegunSteps
<1> QED
  BY <1>1, <1>2, <1>4, <1>5 DEF Hooked

\* An answer with measurements has a value for each kind a strategy may choose by.
LEMMA AfterHook ==
  ASSUME Typed, NEW answer \in Answers, AfterTaskExecutionHook(answer)
  PROVE  /\ answer.ok \in BOOLEAN
         /\ \E name, values :
              /\ name \in Names \cup {UndefinedName}
              /\ Hooked(name, values, IF answer.ok THEN 1 ELSE 0, IF answer.ok THEN 0 ELSE 1)
              /\ answer.ok => DOMAIN values = {"runTime", "active", "idle"}
<1> DEFINE OrZero(n) == IF n = Absent THEN 0 ELSE n
           Ended(u, values) == Updated(Counted(u, answer.ok), values)
<1>1. CASE answer \in [id : Nat, ok : {TRUE}, begun : Nat, taskPerformance : Performances]
  <2>1. answer.ok = TRUE /\ answer.taskPerformance \in Performances
    BY <1>1
  <2>2. PICK p \in Performances : p = answer.taskPerformance
    BY <2>1
  <2>3. /\ p.name \in Names /\ p.runTime \in Measurement /\ p.active \in Measurement
        /\ p.idle \in Measurement
    BY DEF Performances
  <2>4. PICK values : values = [runTime |-> OrZero(p.runTime), active |-> OrZero(p.active),
                                idle |-> OrZero(p.idle)]
    OBVIOUS
  <2>5. Measured(values) /\ DOMAIN values = {"runTime", "active", "idle"}
    <3>1. OrZero(p.runTime) \in Nat /\ OrZero(p.active) \in Nat /\ OrZero(p.idle) \in Nat
      BY <2>3 DEF Measurement
    <3> HIDE DEF OrZero
    <3> QED
      BY <2>4, <3>1 DEF Measured, Kinds
  <2>6. /\ usage' = Ended(usage, values)
        /\ FunctionsUpdated(p.name, Ended(FunctionUsage(p.name), values))
        /\ Recorded(values)
    BY <2>1, <2>2, <2>4 DEF AfterTaskExecutionHook
  <2>7. usage \in WorkerUsage /\ FunctionUsage(p.name) \in WorkerUsage
    BY <2>3, FunctionUsageTyped DEF Typed
  <2>8. /\ Steps(usage, Ended(usage, values), values, IF answer.ok THEN 1 ELSE 0,
                 IF answer.ok THEN 0 ELSE 1)
        /\ Steps(FunctionUsage(p.name), Ended(FunctionUsage(p.name), values), values,
                 IF answer.ok THEN 1 ELSE 0, IF answer.ok THEN 0 ELSE 1)
    <3>1. answer.ok \in BOOLEAN
      BY <2>1
    <3> QED
      BY <2>5, <2>7, <3>1, EndedSteps
  <2>9. Hooked(p.name, values, IF answer.ok THEN 1 ELSE 0, IF answer.ok THEN 0 ELSE 1)
    <3> HIDE DEF Ended
    <3> QED
      BY ONLY <2>5, <2>6, <2>8 DEF Hooked
  <2> QED
    BY <2>1, <2>3, <2>5, <2>9
<1>2. CASE answer \in [id : Nat, ok : {FALSE}]
  <2>1. answer.ok = FALSE
    BY <1>2
  <2>2. PICK values : values = <<>>
    OBVIOUS
  <2>3. Measured(values)
    <3>1. DOMAIN values = {}
      BY <2>2
    <3> QED
      BY <3>1 DEF Measured
  <2>4. /\ usage' = Ended(usage, values)
        /\ FunctionsUpdated(UndefinedName, Ended(FunctionUsage(UndefinedName), values))
        /\ Recorded(values)
    BY <2>1, <2>2 DEF AfterTaskExecutionHook
  <2>5. usage \in WorkerUsage /\ FunctionUsage(UndefinedName) \in WorkerUsage
    BY FunctionUsageTyped DEF Typed
  <2>6. /\ Steps(usage, Ended(usage, values), values, IF answer.ok THEN 1 ELSE 0,
                 IF answer.ok THEN 0 ELSE 1)
        /\ Steps(FunctionUsage(UndefinedName), Ended(FunctionUsage(UndefinedName), values),
                 values, IF answer.ok THEN 1 ELSE 0, IF answer.ok THEN 0 ELSE 1)
    <3>1. answer.ok \in BOOLEAN
      BY <2>1
    <3> QED
      BY <2>3, <2>5, <3>1, EndedSteps
  <2>7. Hooked(UndefinedName, values, IF answer.ok THEN 1 ELSE 0, IF answer.ok THEN 0 ELSE 1)
    <3> HIDE DEF Ended
    <3> QED
      BY ONLY <2>3, <2>4, <2>6 DEF Hooked
  <2> QED
    BY <2>1, <2>7
<1> QED
  BY <1>1, <1>2 DEF Answers

\* The usages of the task functions add up to that of the node at most.
FunctionsInv ==
  /\ TotalAtMost(Executed, usage.tasks.executed)
  /\ TotalAtMost(Failed, usage.tasks.failed)

\* The statistics of the node describe what has been measured.
MeasuresInv ==
  /\ measured = [k \in Kinds |-> measured[k]]
  /\ \A k \in Kinds : Describes(usage.statistics[k], measured[k], Keeps(k))

LEMMA TotalGrowsNot ==
  ASSUME NEW S, NEW f \in [S -> Nat], NEW n \in Nat, TotalAtMost(f, n), NEW d \in Nat,
         IsFiniteSet(S)
  PROVE  TotalAtMost(f, n + d)
<1>1. PICK F : Adds(F, f, S) /\ F[S] <= n /\ F[S] \in Nat
  <2>1. PICK F : Adds(F, f, S) /\ F[S] <= n
    BY DEF TotalAtMost
  <2>2. S \in SUBSET S
    OBVIOUS
  <2> QED
    BY <2>1, <2>2 DEF Adds
<1>2. F[S] <= n + d
  <2>1. PICK b \in Nat : b = F[S]
    BY <1>1
  <2> QED
    BY <1>1, <2>1
<1> QED
  BY <1>1, <1>2 DEF TotalAtMost

\* The usage of a function grows with that of the node, or not at all.
LEMMA FunctionsHooked ==
  ASSUME Typed, FunctionsInv, NEW name \in Names \cup {UndefinedName}, NEW values,
         NEW a \in Nat, NEW b \in Nat, Hooked(name, values, a, b)
  PROVE  FunctionsTyped' /\ FunctionsInv'
<1> DEFINE D == DOMAIN taskFunctionsUsage
           key == FunctionKey(name)
<1>1. PICK u : /\ Steps(FunctionUsage(name), u, values, a, b)
               /\ FunctionsUpdated(name, u)
  BY DEF Hooked
<1>2. /\ key \in FunctionNames \cup {UndefinedName} /\ FunctionUsage(name) \in WorkerUsage
      /\ u \in WorkerUsage
      /\ u.tasks.executed = FunctionUsage(name).tasks.executed + a
      /\ u.tasks.failed = FunctionUsage(name).tasks.failed + b
  BY <1>1, FunctionUsageTyped DEF Steps
<1>3. PICK m \in Nat, n \in Nat : m = usage.tasks.executed /\ n = usage.tasks.failed
  BY DEF Typed, WorkerUsage, TaskStatistics
<1>4. usage'.tasks.executed = m + a /\ usage'.tasks.failed = n + b
  BY <1>3 DEF Hooked, Steps
<1>5. /\ IsFiniteSet(D) /\ D \subseteq FunctionNames \cup {UndefinedName}
      /\ taskFunctionsUsage \in [D -> WorkerUsage]
  BY DEF Typed, FunctionsTyped
<1>6. /\ Executed \in [D -> Nat] /\ Failed \in [D -> Nat]
      /\ TotalAtMost(Executed, m) /\ TotalAtMost(Failed, n)
  BY <1>3, CountsTyped DEF FunctionsInv
<1>7. CASE taskFunctionsUsage' = taskFunctionsUsage
  <2>1. Executed' = Executed /\ Failed' = Failed
    BY <1>7 DEF Executed, Failed
  <2>2. TotalAtMost(Executed, m + a) /\ TotalAtMost(Failed, n + b)
    <3> HIDE DEF D
    <3> QED
      BY <1>5, <1>6, TotalGrowsNot
  <2> QED
    BY <1>4, <1>5, <1>7, <2>1, <2>2 DEF FunctionsInv, FunctionsTyped
<1>8. CASE taskFunctionsUsage' # taskFunctionsUsage
  <2>1. taskFunctionsUsage' = [x \in D \cup {key} |->
          IF x = key THEN u ELSE taskFunctionsUsage[x]]
    BY <1>1, <1>8 DEF FunctionsUpdated
  <2>2. /\ DOMAIN taskFunctionsUsage' = D \cup {key}
        /\ taskFunctionsUsage'[key] = u
        /\ \A x \in D \ {key} : taskFunctionsUsage'[x] = taskFunctionsUsage[x]
        /\ taskFunctionsUsage' \in [D \cup {key} -> WorkerUsage]
    BY <1>2, <1>5, <2>1
  <2>3. IsFiniteSet(D \cup {key}) /\ D \cup {key} \subseteq FunctionNames \cup {UndefinedName}
    BY <1>2, <1>5, FS_AddElement
  <2>4. FunctionsTyped'
    BY <2>2, <2>3 DEF FunctionsTyped
  <2>5. /\ Executed' \in [D \cup {key} -> Nat] /\ Failed' \in [D \cup {key} -> Nat]
        /\ Executed'[key] = u.tasks.executed /\ Failed'[key] = u.tasks.failed
        /\ \A x \in D \ {key} : /\ Executed'[x] = taskFunctionsUsage[x].tasks.executed
                                /\ Failed'[x] = taskFunctionsUsage[x].tasks.failed
    <3>1. \A w \in WorkerUsage : w.tasks.executed \in Nat /\ w.tasks.failed \in Nat
      BY DEF WorkerUsage, TaskStatistics
    <3> HIDE DEF D, key
    <3> QED
      BY <2>2, <3>1 DEF Executed, Failed
  <2>6. \A x \in D : /\ Executed[x] = taskFunctionsUsage[x].tasks.executed
                     /\ Failed[x] = taskFunctionsUsage[x].tasks.failed
    BY DEF Executed, Failed
  <2>7. /\ FunctionUsage(name).tasks.executed = IF key \in D THEN Executed[key] ELSE 0
        /\ FunctionUsage(name).tasks.failed = IF key \in D THEN Failed[key] ELSE 0
    BY <2>6, InitUsageTyped DEF FunctionUsage
  <2> HIDE DEF D, key
  <2>8. PICK f \in [D -> Nat], g \in [D \cup {key} -> Nat], e \in [D -> Nat],
             h \in [D \cup {key} -> Nat] :
          f = Executed /\ g = Executed' /\ e = Failed /\ h = Failed'
    BY <1>6, <2>5
  <2>9. /\ \A x \in D \ {key} : g[x] = f[x] /\ h[x] = e[x]
        /\ g[key] = (IF key \in D THEN f[key] ELSE 0) + a
        /\ h[key] = (IF key \in D THEN e[key] ELSE 0) + b
    BY <1>2, <2>5, <2>6, <2>7, <2>8
  <2>10. TotalAtMost(f, m) /\ TotalAtMost(e, n)
    BY <1>6, <2>8
  <2>11. TotalAtMost(g, m + a)
    BY ONLY <1>5, <2>9, <2>10, f \in [D -> Nat], g \in [D \cup {key} -> Nat], m \in Nat,
       a \in Nat, TotalGrows
  <2>12. TotalAtMost(h, n + b)
    BY ONLY <1>5, <2>9, <2>10, e \in [D -> Nat], h \in [D \cup {key} -> Nat], n \in Nat,
       b \in Nat, TotalGrows
  <2> QED
    BY <1>4, <2>4, <2>8, <2>11, <2>12 DEF FunctionsInv
<1> QED
  BY <1>7, <1>8

\* The node's statistics follow what is recorded.
LEMMA MeasuresHooked ==
  ASSUME Typed, MeasuresInv, NEW name, NEW values, NEW a, NEW b,
         Hooked(name, values, a, b), UNCHANGED <<strategy, median>>
  PROVE  MeasuresInv'
<1>1. measured' = [k \in Kinds |->
        IF k \in DOMAIN values /\ Requirements(k).aggregate
          THEN Append(measured[k], values[k]) ELSE measured[k]]
  BY DEF Hooked, Recorded
<1>2. \A k \in Kinds : usage'.statistics[k] =
        IF k \in DOMAIN values
          THEN UpdateMeasurementStatistics(usage.statistics[k], Requirements(k), values[k])
          ELSE usage.statistics[k]
  BY DEF Hooked, Steps
<1>3. ASSUME NEW k \in Kinds
      PROVE  Keeps(k)' = Keeps(k) /\ Describes(usage'.statistics[k], measured'[k], Keeps(k))
  <2>1. Keeps(k)' = Keeps(k)
    BY DEF Keeps
  <2>2. PICK r : r = Requirements(k)
    OBVIOUS
  <2>3. /\ r \in Needs /\ r.aggregate \in BOOLEAN /\ Keeps(k) \in BOOLEAN
        /\ Keeps(k) = (r.average \/ r.median)
    BY <2>2, RequirementsAre DEF Needs
  <2>4. Describes(usage.statistics[k], measured[k], Keeps(k))
    BY DEF MeasuresInv
  <2>5. CASE k \in DOMAIN values /\ r.aggregate
    <3>1. values[k] \in Nat
      BY <2>5 DEF Hooked, Measured
    <3>2. measured'[k] = Append(measured[k], values[k])
      BY <1>1, <2>2, <2>5
    <3>3. usage'.statistics[k] =
            UpdateMeasurementStatistics(usage.statistics[k], r, values[k])
      BY <1>2, <2>2, <2>5
    <3>4. Describes(usage'.statistics[k], Append(measured[k], values[k]), Keeps(k))
      BY ONLY <2>3, <2>4, <2>5, <3>1, <3>3, UpdateDescribes
    <3> QED
      BY <2>1, <3>2, <3>4
  <2>6. CASE ~ (k \in DOMAIN values /\ r.aggregate)
    <3>1. measured'[k] = measured[k]
      BY <1>1, <2>2, <2>6
    <3>2. usage'.statistics[k] = usage.statistics[k]
      BY <1>2, <2>2, <2>6 DEF UpdateMeasurementStatistics
    <3> QED
      BY <2>1, <2>4, <3>1, <3>2
  <2> QED
    BY <2>5, <2>6
<1>4. measured' = [k \in Kinds |-> measured'[k]]
  BY <1>1
<1> QED
  BY <1>3, <1>4 DEF MeasuresInv

-----------------------------------------------------------------------------
(* When the worker is told what to measure.                                *)

\* F numbers the places of the queue to the worker by the statistics messages
\* before them; the last of these messages has what the strategy requires.
Numbered(F) ==
  /\ F \in [1 .. Len(toWorker) + 1 -> Nat]
  /\ F[1] = told /\ F[Len(toWorker) + 1] = epoch
  /\ \A i \in 1 .. Len(toWorker) :
       /\ F[i + 1] = IF toWorker[i].type = "statistics" THEN F[i] + 1 ELSE F[i]
       /\ toWorker[i].type = "statistics" /\ F[i + 1] = epoch =>
            toWorker[i].statistics = WorkerStatistics(strategy)
  /\ \A i, j \in 1 .. Len(toWorker) + 1 : i <= j => F[i] <= F[j]

\* An answer with exactly the measurements of the task that are required.
Complete(performance) ==
  /\ performance.runTime # Absent <=> Measures("runTime")
  /\ performance.active # Absent <=> Measures("active")
  /\ performance.runTime # Absent /\ performance.active # Absent =>
       performance.active + performance.idle = performance.runTime

\* The worker is told before it gets a task.
QueueInv ==
  /\ \E F : Numbered(F)
  /\ told = 0 => toWorker # <<>> /\ toWorker[1].type = "statistics"

\* What is begun after the last of these messages is measured as the strategy
\* requires.
WorkerInv ==
  /\ told <= epoch
  /\ told = epoch => statistics = WorkerStatistics(strategy)
  /\ \A task \in running :
       /\ task.begun \in 1 .. told
       /\ task.begun = epoch => task.elu = WorkerStatistics(strategy).elu
  /\ \A i \in 1 .. Len(toPool) : toPool[i].ok =>
       /\ toPool[i].begun <= told
       /\ toPool[i].begun = epoch => Complete(toPool[i].taskPerformance)

LEMMA QueueSame ==
  ASSUME QueueInv, UNCHANGED <<strategy, told, epoch, toWorker>>
  PROVE  QueueInv'
<1>1. PICK F : Numbered(F)
  BY DEF QueueInv
<1>2. Numbered(F)'
  BY <1>1 DEF Numbered, WorkerStatistics
<1> QED
  BY <1>2 DEF QueueInv

LEMMA WorkerSame ==
  ASSUME WorkerInv, UNCHANGED <<strategy, told, epoch, statistics, running, toPool>>
  PROVE  WorkerInv'
<1>1. \A p : Complete(p)' = Complete(p)
  BY DEF Complete, Measures
<1>2. WorkerStatistics(strategy)' = WorkerStatistics(strategy)
  BY DEF WorkerStatistics
<1> QED
  BY <1>1, <1>2 DEF WorkerInv

\* The queue grows by a task, or by the message of a change.
LEMMA QueueAppended ==
  ASSUME Typed, NEW F, Numbered(F), NEW m \in Messages, toWorker' = Append(toWorker, m),
         told' = told,
         \/ m.type = "task" /\ epoch' = epoch /\ strategy' = strategy
         \/ /\ m.type = "statistics" /\ m.statistics = WorkerStatistics(strategy')
            /\ epoch' = epoch + 1
  PROVE  \E G : Numbered(G)'
<1>0. toWorker \in Seq(Messages)
  BY DEF Typed
<1>1. PICK n \in Nat : n = Len(toWorker)
  BY ONLY <1>0
<1>2. /\ toWorker' \in Seq(Messages) /\ Len(toWorker') = n + 1 /\ toWorker'[n + 1] = m
      /\ \A i \in 1 .. n : toWorker'[i] = toWorker[i]
  BY <1>0, <1>1, AppendProperties
<1>3. /\ F \in [1 .. n + 1 -> Nat] /\ F[1] = told /\ F[n + 1] = epoch
      /\ \A i, j \in 1 .. n + 1 : i <= j => F[i] <= F[j]
      /\ \A i \in 1 .. n : F[i + 1] = IF toWorker[i].type = "statistics"
                                        THEN F[i] + 1 ELSE F[i]
      /\ \A i \in 1 .. n : toWorker[i].type = "statistics" /\ F[i + 1] = epoch =>
                             toWorker[i].statistics = WorkerStatistics(strategy)
  <2>1. /\ F \in [1 .. Len(toWorker) + 1 -> Nat]
        /\ F[1] = told /\ F[Len(toWorker) + 1] = epoch
    BY DEF Numbered
  <2>2. \A i, j \in 1 .. Len(toWorker) + 1 : i <= j => F[i] <= F[j]
    BY DEF Numbered
  <2>3. \A i \in 1 .. Len(toWorker) : F[i + 1] = IF toWorker[i].type = "statistics"
                                                  THEN F[i] + 1 ELSE F[i]
    BY DEF Numbered
  <2>4. \A i \in 1 .. Len(toWorker) :
          toWorker[i].type = "statistics" /\ F[i + 1] = epoch =>
            toWorker[i].statistics = WorkerStatistics(strategy)
    BY DEF Numbered
  <2> QED
    BY ONLY <1>1, <2>1, <2>2, <2>3, <2>4
<1>4. PICK e \in Nat : e = epoch
  BY DEF Typed
<1>5. PICK d \in Nat : d = epoch' /\ e <= d /\ (d = e \/ d = e + 1)
  BY <1>4
<1>6. PICK G : G = [i \in 1 .. n + 2 |-> IF i = n + 2 THEN d ELSE F[i]]
  OBVIOUS
<1>7. /\ G \in [1 .. n + 2 -> Nat] /\ G[n + 2] = d
      /\ \A i \in 1 .. n + 1 : G[i] = F[i] /\ F[i] \in Nat /\ F[i] <= e
  BY <1>3, <1>4, <1>6
<1>8. ASSUME NEW i \in 1 .. n + 2, NEW j \in 1 .. n + 2, i <= j PROVE G[i] <= G[j]
  <2>1. CASE j = n + 2
    <3>1. CASE i = n + 2
      BY <1>7, <2>1, <3>1
    <3>2. CASE i # n + 2
      <4>1. i \in 1 .. n + 1
        BY <3>2
      <4> QED
        BY <1>5, <1>7, <2>1, <4>1
    <3> QED
      BY <3>1, <3>2
  <2>2. CASE j # n + 2
    <3>1. i \in 1 .. n + 1 /\ j \in 1 .. n + 1
      BY <1>8, <2>2
    <3> QED
      BY <1>3, <1>7, <1>8, <3>1
  <2> QED
    BY <2>1, <2>2
<1>9. ASSUME NEW i \in 1 .. n + 1
      PROVE  /\ G[i + 1] = IF toWorker'[i].type = "statistics" THEN G[i] + 1 ELSE G[i]
             /\ toWorker'[i].type = "statistics" /\ G[i + 1] = epoch' =>
                  toWorker'[i].statistics = WorkerStatistics(strategy')
  <2>1. CASE i = n + 1
    <3>1. G[i + 1] = d /\ G[i] = e /\ toWorker'[i] = m
      BY <1>2, <1>3, <1>4, <1>7, <2>1
    <3> QED
      BY <1>4, <1>5, <3>1
  <2>2. CASE i # n + 1
    <3>1. i \in 1 .. n /\ i + 1 \in 1 .. n + 1 /\ i \in 1 .. n + 1
      BY <2>2
    <3>2. G[i + 1] = F[i + 1] /\ G[i] = F[i] /\ toWorker'[i] = toWorker[i]
          /\ F[i + 1] <= e /\ F[i + 1] \in Nat
      BY <1>2, <1>7, <3>1
    <3>3. G[i + 1] = IF toWorker'[i].type = "statistics" THEN G[i] + 1 ELSE G[i]
      BY <1>3, <3>1, <3>2
    <3>4. CASE d = e
      <4>1. strategy' = strategy /\ epoch' = epoch
        BY <1>4, <1>5, <3>4
      <4> QED
        BY <1>3, <3>1, <3>2, <3>3, <4>1
    <3>5. CASE d = e + 1
      <4>1. G[i + 1] # d
        BY <3>2, <3>5
      <4> QED
        BY <1>5, <3>3, <4>1
    <3> QED
      BY <1>5, <3>4, <3>5
  <2> QED
    BY <2>1, <2>2
<1>10. G[1] = told' /\ G[(n + 1) + 1] = epoch' /\ (n + 1) + 1 = n + 2
  BY <1>3, <1>5, <1>7
<1>11. Numbered(G)'
  <2>1. PICK k \in Nat : k = Len(toWorker)' /\ k = n + 1 /\ k + 1 = n + 2
    BY <1>2
  <2> HIDE DEF Numbered
  <2>2. /\ G \in [1 .. k + 1 -> Nat]
        /\ G[1] = told' /\ G[k + 1] = epoch'
        /\ \A i \in 1 .. k :
             /\ G[i + 1] = IF toWorker'[i].type = "statistics" THEN G[i] + 1 ELSE G[i]
             /\ toWorker'[i].type = "statistics" /\ G[i + 1] = epoch' =>
                  toWorker'[i].statistics = WorkerStatistics(strategy')
        /\ \A i, j \in 1 .. k + 1 : i <= j => G[i] <= G[j]
    BY <1>7, <1>8, <1>9, <1>10, <2>1
  <2> QED
    BY ONLY <2>1, <2>2 DEF Numbered, WorkerStatistics
<1> QED
  BY <1>11

\* The first message is taken from the queue.
LEMMA QueueTaken ==
  ASSUME Typed, NEW F, Numbered(F), toWorker # <<>>, toWorker' = Tail(toWorker),
         told' = IF toWorker[1].type = "statistics" THEN told + 1 ELSE told,
         UNCHANGED <<epoch, strategy>>
  PROVE  (\E G : Numbered(G)') /\ told' <= epoch
<1>0. toWorker \in Seq(Messages)
  BY DEF Typed
<1>1. PICK n \in Nat : n + 1 = Len(toWorker)
  <2>1. Len(toWorker) \in Nat /\ Len(toWorker) # 0
    BY <1>0
  <2>2. Len(toWorker) - 1 \in Nat /\ (Len(toWorker) - 1) + 1 = Len(toWorker)
    BY <2>1
  <2> QED
    BY <2>2
<1>2. /\ toWorker' \in Seq(Messages) /\ Len(toWorker') = n
      /\ \A i \in 1 .. n : toWorker'[i] = toWorker[i + 1]
  BY <1>0, <1>1, HeadTailProperties
<1>3. /\ F \in [1 .. (n + 1) + 1 -> Nat] /\ F[1] = told /\ F[(n + 1) + 1] = epoch
      /\ \A i, j \in 1 .. (n + 1) + 1 : i <= j => F[i] <= F[j]
      /\ \A i \in 1 .. n + 1 : F[i + 1] = IF toWorker[i].type = "statistics"
                                        THEN F[i] + 1 ELSE F[i]
      /\ \A i \in 1 .. n + 1 : toWorker[i].type = "statistics" /\ F[i + 1] = epoch =>
                             toWorker[i].statistics = WorkerStatistics(strategy)
  <2>1. /\ F \in [1 .. Len(toWorker) + 1 -> Nat]
        /\ F[1] = told /\ F[Len(toWorker) + 1] = epoch
    BY DEF Numbered
  <2>2. \A i, j \in 1 .. Len(toWorker) + 1 : i <= j => F[i] <= F[j]
    BY DEF Numbered
  <2>3. \A i \in 1 .. Len(toWorker) : F[i + 1] = IF toWorker[i].type = "statistics"
                                                  THEN F[i] + 1 ELSE F[i]
    BY DEF Numbered
  <2>4. \A i \in 1 .. Len(toWorker) :
          toWorker[i].type = "statistics" /\ F[i + 1] = epoch =>
            toWorker[i].statistics = WorkerStatistics(strategy)
    BY DEF Numbered
  <2> QED
    BY ONLY <1>1, <2>1, <2>2, <2>3, <2>4
<1>4. PICK G : G = [i \in 1 .. n + 1 |-> F[i + 1]]
  OBVIOUS
<1>5. /\ G \in [1 .. n + 1 -> Nat]
      /\ \A i \in 1 .. n + 1 : G[i] = F[i + 1] /\ i + 1 \in 1 .. (n + 1) + 1
  BY <1>3, <1>4
<1>6. G[1] = told' /\ G[n + 1] = epoch'
  <2>1. 1 \in 1 .. n + 1 /\ n + 1 \in 1 .. n + 1 /\ 1 + 1 = 2
    OBVIOUS
  <2>2. F[1 + 1] = told'
    BY <1>3, <2>1
  <2>3. G[1] = F[1 + 1] /\ G[n + 1] = F[(n + 1) + 1]
    <3>1. \A i \in 1 .. n + 1 : G[i] = F[i + 1]
      BY <1>5
    <3>2. G[1] = F[1 + 1]
      BY ONLY <2>1, <3>1
    <3>3. G[n + 1] = F[(n + 1) + 1]
      BY ONLY <2>1, <3>1
    <3> QED
      BY ONLY <3>2, <3>3
  <2>4. epoch' = epoch /\ F[(n + 1) + 1] = epoch
    BY <1>3
  <2> QED
    BY ONLY <2>2, <2>3, <2>4
<1>7. ASSUME NEW i \in 1 .. n
      PROVE  /\ G[i + 1] = IF toWorker'[i].type = "statistics" THEN G[i] + 1 ELSE G[i]
             /\ toWorker'[i].type = "statistics" /\ G[i + 1] = epoch' =>
                  toWorker'[i].statistics = WorkerStatistics(strategy')
  <2>1. PICK j \in 1 .. n + 1 : j = i + 1
    OBVIOUS
  <2>2. i \in 1 .. n + 1 /\ G[j] = F[j + 1] /\ G[i] = F[j] /\ toWorker'[i] = toWorker[j]
    BY <1>2, <1>5, <2>1
  <2>3. WorkerStatistics(strategy') = WorkerStatistics(strategy) /\ epoch' = epoch
    OBVIOUS
  <2> QED
    BY <1>3, <2>1, <2>2, <2>3
<1>8. \A i, j \in 1 .. n + 1 : i <= j => G[i] <= G[j]
  <2>1. ASSUME NEW i \in 1 .. n + 1, NEW j \in 1 .. n + 1, i <= j PROVE G[i] <= G[j]
    <3>1. i + 1 \in 1 .. (n + 1) + 1 /\ j + 1 \in 1 .. (n + 1) + 1 /\ i + 1 <= j + 1
      BY <2>1
    <3> QED
      BY <1>3, <1>5, <3>1
  <2> QED
    BY <2>1
<1>9. Numbered(G)'
  <2>1. n = Len(toWorker)'
    BY <1>2
  <2>2. \A i \in 1 .. n :
             /\ G[i + 1] = IF toWorker'[i].type = "statistics" THEN G[i] + 1 ELSE G[i]
             /\ toWorker'[i].type = "statistics" /\ G[i + 1] = epoch' =>
                  toWorker'[i].statistics = WorkerStatistics(strategy')
    BY <1>7
  <2> QED
    BY ONLY <1>5, <1>6, <1>8, <2>1, <2>2 DEF Numbered, WorkerStatistics
<1>10. told' <= epoch
  <2>1. 1 \in 1 .. n + 1 /\ n + 1 \in 1 .. n + 1 /\ 1 <= n + 1
    OBVIOUS
  <2> QED
    BY <1>6, <1>8, <2>1
<1> QED
  BY <1>9, <1>10

-----------------------------------------------------------------------------
(* The inductive invariant.                                                *)

IInv == Typed /\ FunctionsInv /\ MeasuresInv /\ QueueInv /\ WorkerInv

LEMMA MessageTypes ==
  /\ \A s : WorkerStatistics(s) = [runTime |-> TaskStatisticsRequirements(s).runTime.aggregate,
                                   elu |-> TaskStatisticsRequirements(s).elu.aggregate]
  /\ \A s \in Strategies : /\ WorkerStatistics(s) \in Statistics
                           /\ StatisticsMessage(s) \in Messages
                           /\ StatisticsMessage(s).type = "statistics"
                           /\ StatisticsMessage(s).statistics = WorkerStatistics(s)
  /\ \A m \in Messages : \/ m.type = "task" /\ m.id \in Nat /\ m.name \in Names
                         \/ m.type = "statistics" /\ m.statistics \in Statistics
<1>1. ASSUME NEW s \in Strategies
      PROVE  WorkerStatistics(s) \in Statistics
  <2>1. /\ TaskStatisticsRequirements(s)["runTime"].aggregate \in BOOLEAN
        /\ TaskStatisticsRequirements(s)["elu"].aggregate \in BOOLEAN
    BY StrategyRequirements
  <2> QED
    BY <2>1 DEF WorkerStatistics, Statistics
<1>2. ASSUME NEW s \in Strategies
      PROVE  /\ StatisticsMessage(s) \in Messages
             /\ StatisticsMessage(s).type = "statistics"
             /\ StatisticsMessage(s).statistics = WorkerStatistics(s)
  <2>1. PICK w \in Statistics : w = WorkerStatistics(s)
    BY <1>1
  <2>2. StatisticsMessage(s) = [type |-> "statistics", statistics |-> w]
    BY <2>1 DEF StatisticsMessage
  <2> QED
    BY ONLY <2>1, <2>2 DEF Messages
<1>3. \A m \in Messages : \/ m.type = "task" /\ m.id \in Nat /\ m.name \in Names
                          \/ m.type = "statistics" /\ m.statistics \in Statistics
  BY DEF Messages
<1> QED
  BY <1>1, <1>2, <1>3 DEF WorkerStatistics

LEMMA InitTyped ==
  ASSUME Init
  PROVE  Typed
<1>1. strategy \in Strategies /\ median \in [{"runTime", "elu"} -> BOOLEAN]
  BY DEF Init
<1>2. taskFunctionNames \in Seq(FunctionNames) /\ taskFunctionNames # <<>>
  <2>1. \E f \in FunctionNames : taskFunctionNames \in
          {<<f>>} \cup {<<f, g>> : g \in FunctionNames \ {f}}
    BY DEF Init
  <2>2. \A f, g \in FunctionNames : /\ <<f>> \in Seq(FunctionNames) /\ <<f>> # <<>>
                                    /\ <<f, g>> \in Seq(FunctionNames) /\ <<f, g>> # <<>>
    OBVIOUS
  <2> QED
    BY ONLY <2>1, <2>2
<1>3. usage \in WorkerUsage
  BY InitUsageTyped DEF Init
<1>4. DOMAIN taskFunctionsUsage = {} /\ taskFunctionsUsage = [n \in {} |-> InitUsage]
  <2>1. taskFunctionsUsage = <<>>
    BY DEF Init
  <2>2. DOMAIN taskFunctionsUsage = {}
    BY ONLY <2>1
  <2>3. taskFunctionsUsage = [i \in DOMAIN taskFunctionsUsage |-> taskFunctionsUsage[i]]
    BY ONLY <2>1
  <2> QED
    BY ONLY <2>2, <2>3
<1>5. FunctionsTyped
  BY ONLY <1>4, FS_EmptySet DEF FunctionsTyped
<1>6. statistics \in Statistics
  BY DEF Init, Statistics
<1>7. toWorker \in Seq(Messages)
  BY MessageTypes DEF Init
<1>8. toPool \in Seq(Answers) /\ running \in SUBSET Tasks
      /\ sent \in Nat /\ epoch \in Nat /\ told \in Nat
  BY DEF Init
<1> QED
  BY <1>1, <1>2, <1>3, <1>5, <1>6, <1>7, <1>8 DEF Typed, FunctionsTyped

\* Without functions there is nothing to add up.
LEMMA EmptyTotal ==
  ASSUME NEW f, DOMAIN f = {}, NEW n \in Nat
  PROVE  TotalAtMost(f, n)
<1>1. PICK F : Adds(F, f, {})
  BY FS_EmptySet, SumsExist
<1>2. F[{}] = 0
  BY <1>1 DEF Adds
<1> QED
  BY <1>1, <1>2 DEF TotalAtMost

LEMMA NothingDescribed ==
  ASSUME NEW keeps
  PROVE  Describes(NoStatistics, <<>>, keeps)
<1>1. /\ NoStatistics.average = Absent /\ NoStatistics.median = Absent
      /\ NoStatistics.history = <<>>
  BY DEF NoStatistics
<1>2. NoStatistics \in MeasurementStatistics
  BY InitUsageTyped DEF WorkerUsage, Kinds
<1>3. Latest(<<>>, <<>>, HistorySize)
  BY HistoryAssumption DEF Latest
<1> QED
  BY <1>1, <1>2, <1>3 DEF Describes

\* The usage as it is made new.
LEMMA ResetDescribes ==
  ASSUME UNCHANGED median, usage' = InitUsage, measured' = [k \in Kinds |-> <<>>],
         taskFunctionsUsage' = <<>>
  PROVE  FunctionsInv' /\ MeasuresInv' /\ FunctionsTyped'
<1>0. /\ DOMAIN taskFunctionsUsage' = {}
      /\ taskFunctionsUsage' = [n \in {} |-> taskFunctionsUsage'[n]]
  <2>1. DOMAIN taskFunctionsUsage' = {}
    BY ONLY taskFunctionsUsage' = <<>>
  <2>2. taskFunctionsUsage' =
          [i \in DOMAIN taskFunctionsUsage' |-> taskFunctionsUsage'[i]]
    BY ONLY taskFunctionsUsage' = <<>>
  <2> QED
    BY ONLY <2>1, <2>2
<1>1. /\ usage'.tasks.executed \in Nat /\ usage'.tasks.failed \in Nat
      /\ \A k \in Kinds : usage'.statistics[k] = NoStatistics /\ measured'[k] = <<>>
      /\ measured' = [k \in Kinds |-> measured'[k]]
  BY InitUsageTyped
<1>2. DOMAIN Executed' = {} /\ DOMAIN Failed' = {}
  BY ONLY <1>0 DEF Executed, Failed
<1>3. FunctionsInv'
  BY <1>1, <1>2, EmptyTotal DEF FunctionsInv
<1>5. MeasuresInv'
  <2>1. \A k \in Kinds : Describes(usage'.statistics[k], measured'[k], Keeps(k)')
    BY <1>1, NothingDescribed
  <2> QED
    BY <1>1, <2>1 DEF MeasuresInv
<1>6. FunctionsTyped'
  BY ONLY <1>0, FS_EmptySet DEF FunctionsTyped
<1> QED
  BY <1>3, <1>5, <1>6

LEMMA InitIInv ==
  ASSUME Init
  PROVE  IInv
<1>1. Typed
  BY InitTyped
<1>2. /\ usage = InitUsage /\ taskFunctionsUsage = <<>> /\ toPool = <<>> /\ running = {}
      /\ measured = [k \in Kinds |-> <<>>] /\ told = 0 /\ epoch = 1
      /\ toWorker = <<StatisticsMessage(strategy)>> /\ strategy \in Strategies
  BY DEF Init
<1>3. FunctionsInv
  <2>1. DOMAIN taskFunctionsUsage = {}
    BY ONLY <1>2
  <2>2. DOMAIN Executed = {} /\ DOMAIN Failed = {}
    BY ONLY <2>1 DEF Executed, Failed
  <2>3. usage.tasks.executed \in Nat /\ usage.tasks.failed \in Nat
    BY <1>2, InitUsageTyped
  <2> QED
    BY <2>2, <2>3, EmptyTotal DEF FunctionsInv
<1>4. MeasuresInv
  <2>1. \A k \in Kinds : usage.statistics[k] = NoStatistics /\ measured[k] = <<>>
    BY <1>2, InitUsageTyped
  <2>2. \A k \in Kinds : Describes(usage.statistics[k], measured[k], Keeps(k))
    BY <2>1, NothingDescribed
  <2> QED
    BY <1>2, <2>2 DEF MeasuresInv
<1>5. PICK m : m = StatisticsMessage(strategy)
  OBVIOUS
<1>6. m.type = "statistics" /\ m.statistics = WorkerStatistics(strategy)
  BY <1>2, <1>5, MessageTypes
<1>7. Len(toWorker) = 1 /\ toWorker[1] = m /\ toWorker # <<>>
  BY ONLY <1>2, <1>5
<1>8. QueueInv
  <2>1. PICK F : F = [i \in 1 .. 2 |-> i - 1]
    OBVIOUS
  <2>2. F \in [1 .. 1 + 1 -> Nat] /\ F[1] = 0 /\ F[2] = 1
    BY <2>1
  <2>3. \A i, j \in 1 .. 1 + 1 : i <= j => F[i] <= F[j]
    BY <2>1
  <2>4. Numbered(F)
    BY ONLY <1>2, <1>6, <1>7, <2>2, <2>3 DEF Numbered
  <2> QED
    BY <1>6, <1>7, <2>4 DEF QueueInv
<1>9. WorkerInv
  BY ONLY <1>2 DEF WorkerInv
<1> QED
  BY <1>1, <1>3, <1>4, <1>8, <1>9 DEF IInv

\* A task is sent.
LEMMA ExecuteTaskKeeps ==
  ASSUME IInv, NEW name \in Names, NEW w \in WaitTimes, ExecuteTask(name, w)
  PROVE  IInv'
<1>1. Typed /\ FunctionsInv /\ MeasuresInv /\ QueueInv /\ WorkerInv
  BY DEF IInv
<1>2. /\ BeforeTaskExecutionHook(name, w) /\ sent' = sent + 1
      /\ toWorker' = Append(toWorker, [type |-> "task", id |-> sent + 1, name |-> name])
      /\ UNCHANGED <<strategy, median, taskFunctionNames, statistics, running, told, toPool,
                     changes, epoch>>
  BY DEF ExecuteTask, workerVars, countVars
<1>3. PICK values : Hooked(name, values, 0, 0)
  BY <1>1, <1>2, BeforeHook
<1>4. usage' \in WorkerUsage
  BY <1>3 DEF Hooked, Steps
<1>5. FunctionsTyped' /\ FunctionsInv'
  <2>1. name \in Names \cup {UndefinedName}
    OBVIOUS
  <2> QED
    BY <1>1, <1>3, <2>1, FunctionsHooked
<1>6. MeasuresInv'
  BY <1>1, <1>2, <1>3, MeasuresHooked
<1>7. sent \in Nat /\ toWorker \in Seq(Messages)
  BY <1>1 DEF Typed
<1>8. PICK m \in Messages : /\ m = [type |-> "task", id |-> sent + 1, name |-> name]
                            /\ m.type = "task"
  <2>1. PICK n \in Nat : n = sent + 1
    BY <1>7
  <2>2. [type |-> "task", id |-> n, name |-> name] \in Messages
    BY DEF Messages
  <2> QED
    BY <2>1, <2>2
<1>9. toWorker' = Append(toWorker, m) /\ toWorker' \in Seq(Messages) /\ sent' \in Nat
  BY <1>2, <1>7, <1>8, AppendProperties
<1>10. Typed'
  <2>1. /\ strategy \in Strategies /\ median \in [{"runTime", "elu"} -> BOOLEAN]
        /\ taskFunctionNames \in Seq(FunctionNames) /\ taskFunctionNames # <<>>
        /\ statistics \in Statistics /\ toPool \in Seq(Answers)
        /\ running \in SUBSET Tasks /\ epoch \in Nat /\ told \in Nat
    BY <1>1 DEF Typed
  <2> QED
    BY ONLY <1>2, <1>4, <1>5, <1>9, <2>1 DEF Typed, FunctionsTyped
<1>11. QueueInv'
  <2>1. PICK F : Numbered(F)
    BY <1>1 DEF QueueInv
  <2>2. \E G : Numbered(G)'
    <3>1. told' = told /\ m.type = "task" /\ epoch' = epoch /\ strategy' = strategy
      BY <1>2, <1>8
    <3>2. toWorker' = Append(toWorker, m) /\ Typed
      BY <1>1, <1>9
    <3> QED
      BY ONLY <2>1, <3>1, <3>2, m \in Messages, QueueAppended
  <2>3. toWorker # <<>> => toWorker' # <<>> /\ toWorker'[1] = toWorker[1]
    BY <1>7, <1>9, AppendProperties, EmptySeq
  <2> QED
    BY <1>1, <1>2, <2>2, <2>3 DEF QueueInv
<1>12. WorkerInv'
  BY <1>1, <1>2, WorkerSame
<1> QED
  BY <1>5, <1>6, <1>10, <1>11, <1>12 DEF IInv

\* An answer is received.
LEMMA HandleTaskExecutionResponseKeeps ==
  ASSUME IInv, HandleTaskExecutionResponse
  PROVE  IInv'
<1>1. Typed /\ FunctionsInv /\ MeasuresInv /\ QueueInv /\ WorkerInv
  BY DEF IInv
<1>2. /\ toPool # <<>> /\ AfterTaskExecutionHook(Head(toPool)) /\ toPool' = Tail(toPool)
      /\ UNCHANGED <<strategy, median, taskFunctionNames, statistics, running, told,
                     toWorker, sent, changes, epoch>>
  BY DEF HandleTaskExecutionResponse, workerVars, countVars
<1>3. toPool \in Seq(Answers)
  BY <1>1 DEF Typed
<1>4. PICK answer \in Answers : answer = Head(toPool)
  BY <1>2, <1>3, HeadTailProperties
<1>5. /\ answer.ok \in BOOLEAN
      /\ \E name, values :
           /\ name \in Names \cup {UndefinedName}
           /\ Hooked(name, values, IF answer.ok THEN 1 ELSE 0, IF answer.ok THEN 0 ELSE 1)
  BY <1>1, <1>2, <1>4, AfterHook
<1>6. PICK name, values :
        /\ name \in Names \cup {UndefinedName}
        /\ Hooked(name, values, IF answer.ok THEN 1 ELSE 0, IF answer.ok THEN 0 ELSE 1)
  BY <1>5
<1>7. usage' \in WorkerUsage
  BY <1>6 DEF Hooked, Steps
<1>8. FunctionsTyped' /\ FunctionsInv'
  <2>1. CASE answer.ok
    <3>1. Hooked(name, values, 1, 0)
      BY <1>6, <2>1
    <3> QED
      BY <1>1, <1>6, <3>1, FunctionsHooked
  <2>2. CASE ~ answer.ok
    <3>1. Hooked(name, values, 0, 1)
      BY <1>6, <2>2
    <3> QED
      BY <1>1, <1>6, <3>1, FunctionsHooked
  <2> QED
    BY <2>1, <2>2
<1>9. MeasuresInv'
  BY <1>1, <1>2, <1>6, MeasuresHooked
<1>10. PICK n \in Nat : Len(toPool) = n + 1
  <2>1. Len(toPool) \in Nat /\ Len(toPool) # 0
    BY <1>2, <1>3
  <2>2. Len(toPool) - 1 \in Nat /\ Len(toPool) = (Len(toPool) - 1) + 1
    BY <2>1
  <2> QED
    BY <2>2
<1>11. /\ toPool' \in Seq(Answers) /\ Len(toPool') = n
       /\ \A i \in 1 .. n : toPool'[i] = toPool[i + 1]
  BY <1>2, <1>3, <1>10, HeadTailProperties
<1>12. Typed'
  <2>1. /\ strategy \in Strategies /\ median \in [{"runTime", "elu"} -> BOOLEAN]
        /\ taskFunctionNames \in Seq(FunctionNames) /\ taskFunctionNames # <<>>
        /\ statistics \in Statistics /\ toWorker \in Seq(Messages)
        /\ running \in SUBSET Tasks /\ sent \in Nat /\ epoch \in Nat /\ told \in Nat
    BY <1>1 DEF Typed
  <2> QED
    BY ONLY <1>2, <1>7, <1>8, <1>11, <2>1 DEF Typed, FunctionsTyped
<1>13. QueueInv'
  BY <1>1, <1>2, QueueSame
<1>14. WorkerInv'
  <2>1. ASSUME NEW i \in 1 .. n, toPool'[i].ok
        PROVE  /\ toPool'[i].begun <= told
               /\ toPool'[i].begun = epoch => Complete(toPool[i].taskPerformance)'
    <3>1. i + 1 \in 1 .. Len(toPool) /\ toPool'[i] = toPool[i + 1]
      BY <1>10, <1>11
    <3>2. PICK p : p = toPool'[i].taskPerformance
      OBVIOUS
    <3>3. toPool'[i].begun <= told /\ (toPool'[i].begun = epoch => Complete(p))
      BY <1>1, <2>1, <3>1, <3>2 DEF WorkerInv
    <3>4. Complete(p) => Complete(toPool[i].taskPerformance)'
      BY ONLY <1>2, <3>2 DEF Complete, Measures
    <3> QED
      BY <3>3, <3>4
  <2>2. Len(toPool)' = n
    BY <1>11
  <2>3. /\ told <= epoch /\ (told = epoch => statistics = WorkerStatistics(strategy))
        /\ \A task \in running :
             /\ task.begun \in 1 .. told
             /\ task.begun = epoch => task.elu = WorkerStatistics(strategy).elu
    BY ONLY <1>1 DEF WorkerInv
  <2> QED
    BY ONLY <1>2, <2>1, <2>2, <2>3 DEF WorkerInv, WorkerStatistics
<1> QED
  BY <1>8, <1>9, <1>12, <1>13, <1>14 DEF IInv

\* The strategy changes; what runs or is under way was begun before.
LEMMA SetWorkerChoiceStrategyKeeps ==
  ASSUME IInv, NEW s \in Strategies, SetWorkerChoiceStrategy(s)
  PROVE  IInv'
<1>1. Typed /\ FunctionsInv /\ MeasuresInv /\ QueueInv /\ WorkerInv
  BY DEF IInv
<1>2. /\ strategy' = s /\ usage' = InitUsage /\ taskFunctionsUsage' = <<>>
      /\ measured' = [k \in Kinds |-> <<>>]
      /\ toWorker' = Append(toWorker, StatisticsMessage(s)) /\ epoch' = epoch + 1
      /\ UNCHANGED <<median, taskFunctionNames, statistics, running, told, toPool, sent>>
  BY DEF SetWorkerChoiceStrategy, ResetUsage, ToldOnChange, workerVars
<1>3. FunctionsInv' /\ MeasuresInv' /\ FunctionsTyped'
  BY ONLY <1>2, ResetDescribes
<1>4. usage' \in WorkerUsage
  BY <1>2, InitUsageTyped
<1>5. toWorker \in Seq(Messages) /\ epoch \in Nat /\ told \in Nat
  BY <1>1 DEF Typed
<1>6. PICK m \in Messages : /\ m = StatisticsMessage(s) /\ m.type = "statistics"
                            /\ m.statistics = WorkerStatistics(s)
  BY MessageTypes
<1>7. /\ toWorker' = Append(toWorker, m) /\ toWorker' \in Seq(Messages)
      /\ epoch' \in Nat /\ epoch < epoch'
  BY <1>2, <1>5, <1>6, AppendProperties
<1>8. Typed'
  <2>1. /\ median \in [{"runTime", "elu"} -> BOOLEAN]
        /\ taskFunctionNames \in Seq(FunctionNames) /\ taskFunctionNames # <<>>
        /\ statistics \in Statistics /\ toPool \in Seq(Answers)
        /\ running \in SUBSET Tasks /\ sent \in Nat /\ told \in Nat
    BY <1>1 DEF Typed
  <2> QED
    BY ONLY s \in Strategies, <1>2, <1>3, <1>4, <1>7, <2>1 DEF Typed, FunctionsTyped
<1>9. QueueInv'
  <2>1. PICK F : Numbered(F)
    BY <1>1 DEF QueueInv
  <2>2. \E G : Numbered(G)'
    <3>1. /\ told' = told /\ m.type = "statistics"
          /\ m.statistics = WorkerStatistics(strategy') /\ epoch' = epoch + 1
      BY <1>2, <1>6
    <3>2. toWorker' = Append(toWorker, m) /\ Typed
      BY <1>1, <1>7
    <3> QED
      BY ONLY <2>1, <3>1, <3>2, m \in Messages, QueueAppended
  <2>3. toWorker # <<>> => toWorker' # <<>> /\ toWorker'[1] = toWorker[1]
    BY <1>5, <1>7, AppendProperties, EmptySeq
  <2> QED
    BY <1>1, <1>2, <2>2, <2>3 DEF QueueInv
<1>10. WorkerInv'
  <2>1. /\ told <= epoch /\ \A task \in running : task.begun \in 1 .. told
        /\ \A i \in 1 .. Len(toPool) : toPool[i].ok => toPool[i].begun <= told
    BY <1>1 DEF WorkerInv
  <2>2. told < epoch'
    BY ONLY <1>5, <1>7, <2>1
  <2>3. \A task \in running : task.begun # epoch'
    BY ONLY <1>5, <1>7, <2>1, <2>2
  <2>4. \A i \in 1 .. Len(toPool) : toPool[i].ok => toPool[i].begun # epoch'
    BY ONLY <1>5, <1>7, <2>1, <2>2
  <2> QED
    BY ONLY <1>2, <1>5, <1>7, <2>1, <2>2, <2>3, <2>4 DEF WorkerInv
<1> QED
  BY <1>3, <1>8, <1>9, <1>10 DEF IInv

\* Options are set; which of average and median they choose is not part of it.
LEMMA SetWorkerChoiceStrategyOptionsKeeps ==
  ASSUME IInv, NEW medians \in [{"runTime", "elu"} -> BOOLEAN],
         SetWorkerChoiceStrategyOptions(medians)
  PROVE  IInv'
<1>1. Typed /\ FunctionsInv /\ MeasuresInv /\ QueueInv /\ WorkerInv
  BY DEF IInv
<1>2. /\ median' = medians
      /\ UNCHANGED <<strategy, taskFunctionNames, usage, taskFunctionsUsage, statistics,
                     running, told, toWorker, toPool, sent, epoch, measured>>
  BY DEF SetWorkerChoiceStrategyOptions, workerVars
<1>3. Typed'
  BY ONLY <1>1, <1>2, medians \in [{"runTime", "elu"} -> BOOLEAN] DEF Typed, FunctionsTyped
<1>4. FunctionsInv' /\ MeasuresInv'
  <2>1. Executed' = Executed /\ Failed' = Failed
    BY ONLY <1>2 DEF Executed, Failed
  <2>2. \A k \in Kinds : Keeps(k)' = Keeps(k)
    BY ONLY <1>2 DEF Keeps
  <2> QED
    BY ONLY <1>1, <1>2, <2>1, <2>2 DEF FunctionsInv, MeasuresInv
<1>5. QueueInv' /\ WorkerInv'
  BY <1>1, <1>2, QueueSame, WorkerSame
<1> QED
  BY <1>3, <1>4, <1>5 DEF IInv

\* The names of the functions arrive.
LEMMA ReceiveTaskFunctionNamesKeeps ==
  ASSUME IInv, NEW names \in NameLists, ReceiveTaskFunctionNames(names)
  PROVE  IInv'
<1>1. Typed /\ FunctionsInv /\ MeasuresInv /\ QueueInv /\ WorkerInv
  BY DEF IInv
<1>2. /\ taskFunctionNames' = names
      /\ UNCHANGED <<strategy, median, usage, taskFunctionsUsage, statistics,
                     running, told, toWorker, toPool, sent, epoch, measured>>
  BY DEF ReceiveTaskFunctionNames, workerVars
<1>3. names \in Seq(FunctionNames) /\ names # <<>>
  <2>1. taskFunctionNames[1] \in FunctionNames
    BY <1>1 DEF Typed
  <2>2. \/ \E f, g \in FunctionNames : names = <<f, g>>
        \/ names = <<taskFunctionNames[1]>>
    BY DEF NameLists
  <2>3. \A f, g \in FunctionNames : /\ <<f>> \in Seq(FunctionNames) /\ <<f>> # <<>>
                                    /\ <<f, g>> \in Seq(FunctionNames) /\ <<f, g>> # <<>>
    OBVIOUS
  <2> QED
    BY ONLY <2>1, <2>2, <2>3
<1>4. Typed'
  BY ONLY <1>1, <1>2, <1>3 DEF Typed, FunctionsTyped
<1>5. FunctionsInv' /\ MeasuresInv'
  <2>1. Executed' = Executed /\ Failed' = Failed
    BY ONLY <1>2 DEF Executed, Failed
  <2>2. \A k \in Kinds : Keeps(k)' = Keeps(k)
    BY ONLY <1>2 DEF Keeps
  <2> QED
    BY ONLY <1>1, <1>2, <2>1, <2>2 DEF FunctionsInv, MeasuresInv
<1>6. QueueInv' /\ WorkerInv'
  BY <1>1, <1>2, QueueSame, WorkerSame
<1> QED
  BY <1>4, <1>5, <1>6 DEF IInv

\* The usage of a removed function is deleted.
LEMMA DeleteTaskFunctionWorkerUsageKeeps ==
  ASSUME IInv, NEW name, DeleteTaskFunctionWorkerUsage(name)
  PROVE  IInv'
<1> DEFINE D == DOMAIN taskFunctionsUsage
<1>1. Typed /\ FunctionsInv /\ MeasuresInv /\ QueueInv /\ WorkerInv
  BY DEF IInv
<1>2. /\ name \in D
      /\ taskFunctionsUsage' = [n \in D \ {name} |-> taskFunctionsUsage[n]]
      /\ UNCHANGED <<strategy, median, taskFunctionNames, usage, statistics,
                     running, told, toWorker, toPool, sent, epoch, measured>>
  BY DEF DeleteTaskFunctionWorkerUsage, workerVars, countVars
<1>3. /\ IsFiniteSet(D) /\ D \subseteq FunctionNames \cup {UndefinedName}
      /\ taskFunctionsUsage \in [D -> WorkerUsage]
  BY <1>1 DEF Typed, FunctionsTyped
<1>4. FunctionsTyped'
  <2>1. IsFiniteSet(D \ {name})
    BY <1>3, FS_Subset
  <2>2. /\ DOMAIN taskFunctionsUsage' = D \ {name}
        /\ taskFunctionsUsage' \in [D \ {name} -> WorkerUsage]
    BY <1>2, <1>3
  <2> QED
    BY <1>3, <2>1, <2>2 DEF FunctionsTyped
<1>5. Typed'
  <2>1. /\ strategy \in Strategies /\ median \in [{"runTime", "elu"} -> BOOLEAN]
        /\ taskFunctionNames \in Seq(FunctionNames) /\ taskFunctionNames # <<>>
        /\ usage \in WorkerUsage /\ statistics \in Statistics
        /\ toWorker \in Seq(Messages) /\ toPool \in Seq(Answers)
        /\ running \in SUBSET Tasks /\ sent \in Nat /\ epoch \in Nat /\ told \in Nat
    BY <1>1 DEF Typed
  <2> QED
    BY ONLY <1>2, <1>4, <2>1 DEF Typed, FunctionsTyped
<1>6. FunctionsInv'
  <2>1. /\ Executed \in [D -> Nat] /\ Failed \in [D -> Nat]
        /\ Executed' \in [D \ {name} -> Nat] /\ Failed' \in [D \ {name} -> Nat]
        /\ \A x \in D \ {name} : Executed'[x] = Executed[x] /\ Failed'[x] = Failed[x]
    <3>1. /\ Executed \in [D -> Nat] /\ Failed \in [D -> Nat]
          /\ \A x \in D : /\ Executed[x] = taskFunctionsUsage[x].tasks.executed
                          /\ Failed[x] = taskFunctionsUsage[x].tasks.failed
      BY <1>1, CountsTyped DEF Executed, Failed
    <3>2. /\ DOMAIN taskFunctionsUsage' = D \ {name}
          /\ \A x \in D \ {name} : taskFunctionsUsage'[x] = taskFunctionsUsage[x]
      BY <1>2
    <3>3. \A x \in D \ {name} : Executed[x] \in Nat /\ Failed[x] \in Nat
      BY <3>1
    <3>4. /\ Executed' = [n \in D \ {name} |-> taskFunctionsUsage'[n].tasks.executed]
          /\ Failed' = [n \in D \ {name} |-> taskFunctionsUsage'[n].tasks.failed]
      BY <3>2 DEF Executed, Failed
    <3> HIDE DEF D
    <3> QED
      BY ONLY <3>1, <3>2, <3>3, <3>4
  <2>2. PICK m \in Nat, n \in Nat : m = usage.tasks.executed /\ n = usage.tasks.failed
    BY <1>1 DEF Typed, WorkerUsage, TaskStatistics
  <2> HIDE DEF D
  <2>3. PICK f \in [D -> Nat], g \in [D \ {name} -> Nat], e \in [D -> Nat],
             h \in [D \ {name} -> Nat] :
          f = Executed /\ g = Executed' /\ e = Failed /\ h = Failed'
    BY <2>1
  <2>4. /\ \A x \in D \ {name} : g[x] = f[x] /\ h[x] = e[x]
        /\ TotalAtMost(f, m) /\ TotalAtMost(e, n)
    BY <1>1, <2>1, <2>2, <2>3 DEF FunctionsInv
  <2>5. TotalAtMost(g, m)
    BY ONLY <1>2, <1>3, <2>4, f \in [D -> Nat], g \in [D \ {name} -> Nat], m \in Nat,
       TotalShrinks
  <2>6. TotalAtMost(h, n)
    BY ONLY <1>2, <1>3, <2>4, e \in [D -> Nat], h \in [D \ {name} -> Nat], n \in Nat,
       TotalShrinks
  <2> QED
    BY <1>2, <2>2, <2>3, <2>5, <2>6 DEF FunctionsInv
<1>7. MeasuresInv'
  <2>1. \A k \in Kinds : Keeps(k)' = Keeps(k)
    BY ONLY <1>2 DEF Keeps
  <2> QED
    BY ONLY <1>1, <1>2, <2>1 DEF MeasuresInv
<1>8. QueueInv' /\ WorkerInv'
  BY <1>1, <1>2, QueueSame, WorkerSame
<1> QED
  BY <1>5, <1>6, <1>7, <1>8 DEF IInv

\* What the steps of the worker leave alone.
LEMMA PoolSame ==
  ASSUME FunctionsInv, MeasuresInv, UNCHANGED <<strategy, usage, taskFunctionsUsage, measured>>
  PROVE  FunctionsInv' /\ MeasuresInv'
<1>1. Executed' = Executed /\ Failed' = Failed
  BY DEF Executed, Failed
<1>2. \A k \in Kinds : Keeps(k)' = Keeps(k)
  BY DEF Keeps
<1> QED
  BY <1>1, <1>2 DEF FunctionsInv, MeasuresInv

\* The worker learns what to measure.
LEMMA ReceiveStatisticsKeeps ==
  ASSUME IInv, ReceiveStatistics
  PROVE  IInv'
<1>1. Typed /\ FunctionsInv /\ MeasuresInv /\ QueueInv /\ WorkerInv
  BY DEF IInv
<1>2. /\ toWorker # <<>> /\ Head(toWorker).type = "statistics"
      /\ statistics' = Head(toWorker).statistics /\ told' = told + 1
      /\ toWorker' = Tail(toWorker)
      /\ UNCHANGED <<strategy, median, taskFunctionNames, usage, taskFunctionsUsage,
                     running, toPool, sent, epoch, measured>>
  BY DEF ReceiveStatistics, poolVars, countVars
<1>3. toWorker \in Seq(Messages) /\ told \in Nat /\ epoch \in Nat
  BY <1>1 DEF Typed
<1>4. PICK m \in Messages : /\ m = toWorker[1] /\ m = Head(toWorker)
                            /\ m.type = "statistics" /\ m.statistics \in Statistics
  <2>1. Head(toWorker) \in Messages /\ Head(toWorker) = toWorker[1]
    BY <1>2, <1>3, HeadTailProperties
  <2>2. Head(toWorker).statistics \in Statistics
    BY <1>2, <2>1, MessageTypes
  <2> QED
    BY <1>2, <2>1, <2>2
<1>5. toWorker' \in Seq(Messages)
  BY <1>2, <1>3, HeadTailProperties
<1>6. Typed'
  <2>1. statistics' \in Statistics /\ told' \in Nat
    BY <1>2, <1>3, <1>4
  <2> QED
    BY ONLY <1>1, <1>2, <1>5, <2>1 DEF Typed, FunctionsTyped
<1>7. PICK F : Numbered(F)
  BY <1>1 DEF QueueInv
<1>8. (\E G : Numbered(G)') /\ told' <= epoch
  <2>1. /\ told' = IF toWorker[1].type = "statistics" THEN told + 1 ELSE told
        /\ UNCHANGED <<epoch, strategy>> /\ toWorker # <<>> /\ toWorker' = Tail(toWorker)
    BY <1>2, <1>4
  <2> QED
    BY ONLY <1>1, <1>7, <2>1, QueueTaken
<1>9. QueueInv'
  <2>1. told' # 0
    BY <1>2, <1>3
  <2> QED
    BY <1>8, <2>1 DEF QueueInv
<1>10. told' = epoch => statistics' = WorkerStatistics(strategy)
  <2>1. 1 \in 1 .. Len(toWorker)
    BY <1>2, <1>3
  <2>2. /\ F[1] = told /\ F[1 + 1] = IF toWorker[1].type = "statistics" THEN F[1] + 1 ELSE F[1]
        /\ toWorker[1].type = "statistics" /\ F[1 + 1] = epoch =>
             toWorker[1].statistics = WorkerStatistics(strategy)
    BY ONLY <1>7, <2>1 DEF Numbered
  <2> QED
    BY ONLY <1>2, <1>4, <2>2
<1>11. WorkerInv'
  <2>1. /\ \A task \in running : task.begun \in 1 .. told
        /\ \A task \in running : task.begun = epoch =>
             task.elu = WorkerStatistics(strategy).elu
        /\ \A i \in 1 .. Len(toPool) : toPool[i].ok => toPool[i].begun <= told
        /\ \A i \in 1 .. Len(toPool) : toPool[i].ok /\ toPool[i].begun = epoch =>
             Complete(toPool[i].taskPerformance)
    BY <1>1 DEF WorkerInv
  <2>2. told < told'
    BY <1>2, <1>3
  <2>3. \A task \in running : task.begun \in 1 .. told'
    BY ONLY <1>2, <1>3, <2>1
  <2>4. ASSUME NEW i \in 1 .. Len(toPool), toPool[i].ok PROVE toPool[i].begun <= told'
    <3>1. PICK answer \in Answers : answer = toPool[i]
      BY <1>1, ElementOfSeq DEF Typed
    <3>2. answer.begun \in Nat
      BY <2>4, <3>1 DEF Answers
    <3>3. PICK begun \in Nat : begun = toPool[i].begun
      BY <3>1, <3>2
    <3> QED
      BY <1>2, <1>3, <2>1, <2>4, <3>3
  <2>5. \A p : Complete(p)' = Complete(p)
    BY <1>2 DEF Complete, Measures
  <2> QED
    BY ONLY <1>2, <1>8, <1>10, <2>1, <2>3, <2>4, <2>5 DEF WorkerInv, WorkerStatistics
<1>12. FunctionsInv' /\ MeasuresInv'
  BY <1>1, <1>2, PoolSame
<1> QED
  BY <1>6, <1>9, <1>11, <1>12 DEF IInv

\* A task begins, with what the worker has been told.
LEMMA BeginTaskKeeps ==
  ASSUME IInv, BeginTask
  PROVE  IInv'
<1>1. Typed /\ FunctionsInv /\ MeasuresInv /\ QueueInv /\ WorkerInv
  BY DEF IInv
<1>2. /\ toWorker # <<>> /\ Head(toWorker).type = "task"
      /\ running' = running \cup {[id |-> Head(toWorker).id, name |-> Head(toWorker).name,
                                   elu |-> statistics.elu, begun |-> told]}
      /\ toWorker' = Tail(toWorker)
      /\ UNCHANGED <<strategy, median, taskFunctionNames, usage, taskFunctionsUsage,
                     statistics, told, toPool, sent, epoch, measured>>
  BY DEF BeginTask, poolVars, countVars
<1>3. toWorker \in Seq(Messages) /\ told \in Nat /\ epoch \in Nat
  BY <1>1 DEF Typed
<1>4. PICK m \in Messages : /\ m = toWorker[1] /\ m = Head(toWorker)
                            /\ m.type = "task" /\ m.id \in Nat /\ m.name \in Names
  <2>1. Head(toWorker) \in Messages /\ Head(toWorker) = toWorker[1]
    BY <1>2, <1>3, HeadTailProperties
  <2>2. Head(toWorker).id \in Nat /\ Head(toWorker).name \in Names
    BY <1>2, <2>1, MessageTypes
  <2> QED
    BY <1>2, <2>1, <2>2
<1>5. toWorker' \in Seq(Messages)
  BY <1>2, <1>3, HeadTailProperties
<1>6. PICK e \in BOOLEAN : e = statistics.elu
  BY <1>1 DEF Typed, Statistics
<1>7. PICK task \in Tasks : /\ running' = running \cup {task}
                            /\ task.elu = e /\ task.begun = told
  <2>1. PICK task : task = [id |-> m.id, name |-> m.name, elu |-> e, begun |-> told]
    OBVIOUS
  <2>2. task \in Tasks /\ task.elu = e /\ task.begun = told
    BY ONLY <1>3, <1>4, <2>1, e \in BOOLEAN DEF Tasks
  <2>3. running' = running \cup {task}
    BY ONLY <1>2, <1>4, <1>6, <2>1
  <2> QED
    BY <2>2, <2>3
<1>8. Typed'
  <2>1. running' \in SUBSET Tasks
    BY <1>1, <1>7 DEF Typed
  <2> QED
    BY ONLY <1>1, <1>2, <1>5, <2>1 DEF Typed, FunctionsTyped
<1>9. told # 0
  BY <1>1, <1>4 DEF QueueInv
<1>10. QueueInv'
  <2>1. PICK F : Numbered(F)
    BY <1>1 DEF QueueInv
  <2>2. \E G : Numbered(G)'
    <3>1. /\ told' = IF toWorker[1].type = "statistics" THEN told + 1 ELSE told
          /\ UNCHANGED <<epoch, strategy>> /\ toWorker # <<>> /\ toWorker' = Tail(toWorker)
      BY <1>2, <1>4
    <3> QED
      BY ONLY <1>1, <2>1, <3>1, QueueTaken
  <2> QED
    BY <1>2, <1>9, <2>2 DEF QueueInv
<1>11. WorkerInv'
  <2>1. \A p : Complete(p)' = Complete(p)
    BY <1>2 DEF Complete, Measures
  <2>2. task.begun = epoch => task.elu = WorkerStatistics(strategy).elu
    BY <1>1, <1>6, <1>7 DEF WorkerInv
  <2>3. task.begun \in 1 .. told
    BY <1>3, <1>7, <1>9
  <2>4. \A t \in running' : /\ t.begun \in 1 .. told
                            /\ t.begun = epoch => t.elu = WorkerStatistics(strategy).elu
    <3>1. \A t \in running : /\ t.begun \in 1 .. told
                             /\ t.begun = epoch => t.elu = WorkerStatistics(strategy).elu
      BY <1>1 DEF WorkerInv
    <3> QED
      BY ONLY <1>7, <2>2, <2>3, <3>1
  <2> QED
    BY ONLY <1>1, <1>2, <2>1, <2>4 DEF WorkerInv, WorkerStatistics
<1>12. FunctionsInv' /\ MeasuresInv'
  BY <1>1, <1>2, PoolSame
<1> QED
  BY <1>8, <1>10, <1>11, <1>12 DEF IInv

\* An answer is sent, of a task that is no longer running.
LEMMA AnswerSent ==
  ASSUME IInv, NEW task \in running, NEW answer \in Answers,
         answer.ok => /\ answer.begun <= told
                      /\ answer.begun = epoch => Complete(answer.taskPerformance),
         running' = running \ {task}, toPool' = Append(toPool, answer),
         UNCHANGED <<strategy, median, taskFunctionNames, usage, taskFunctionsUsage,
                     statistics, told, toWorker, sent, epoch, measured>>
  PROVE  IInv'
<1>1. Typed /\ FunctionsInv /\ MeasuresInv /\ QueueInv /\ WorkerInv
  BY DEF IInv
<1>2. toPool \in Seq(Answers) /\ running \in SUBSET Tasks
  BY <1>1 DEF Typed
<1>3. PICK n \in Nat : n = Len(toPool)
  BY <1>2
<1>4. /\ toPool' \in Seq(Answers) /\ Len(toPool') = n + 1 /\ toPool'[n + 1] = answer
      /\ \A i \in 1 .. n : toPool'[i] = toPool[i]
  BY <1>2, <1>3, AppendProperties
<1>5. Typed'
  <2>1. running' \in SUBSET Tasks
    BY <1>2
  <2> QED
    BY ONLY <1>1, <1>4, <2>1,
       UNCHANGED <<strategy, median, taskFunctionNames, usage, taskFunctionsUsage,
                   statistics, told, toWorker, sent, epoch, measured>> DEF Typed, FunctionsTyped
<1>6. WorkerInv'
  <2>1. ASSUME NEW i \in 1 .. n + 1, toPool'[i].ok
        PROVE  /\ toPool'[i].begun <= told
               /\ toPool'[i].begun = epoch => Complete(toPool[i].taskPerformance)'
    <3>1. PICK p : p = toPool'[i].taskPerformance
      OBVIOUS
    <3>2. toPool'[i].begun <= told /\ (toPool'[i].begun = epoch => Complete(p))
      <4>1. CASE i = n + 1
        BY <1>4, <2>1, <3>1, <4>1
      <4>2. CASE i # n + 1
        <5>1. i \in 1 .. n /\ toPool'[i] = toPool[i]
          BY <1>4, <4>2
        <5> QED
          BY <1>1, <1>3, <2>1, <3>1, <5>1 DEF WorkerInv
      <4> QED
        BY <4>1, <4>2
    <3>3. Complete(p) => Complete(toPool[i].taskPerformance)'
      BY ONLY <3>1, strategy' = strategy DEF Complete, Measures
    <3> QED
      BY <3>2, <3>3
  <2>2. Len(toPool)' = n + 1
    BY <1>4
  <2>3. /\ told <= epoch /\ (told = epoch => statistics = WorkerStatistics(strategy))
        /\ \A t \in running' :
             /\ t.begun \in 1 .. told
             /\ t.begun = epoch => t.elu = WorkerStatistics(strategy).elu
    BY <1>1 DEF WorkerInv
  <2>4. UNCHANGED <<strategy, told, epoch, statistics>>
    OBVIOUS
  <2> QED
    BY ONLY <2>1, <2>2, <2>3, <2>4 DEF WorkerInv, WorkerStatistics
<1>7. FunctionsInv' /\ MeasuresInv' /\ QueueInv'
  BY <1>1, PoolSame, QueueSame
<1> QED
  BY <1>5, <1>6, <1>7 DEF IInv

\* What the worker answers is typed, and complete if it knows the strategy.
LEMMA PerformanceIs ==
  ASSUME IInv, NEW task \in running, NEW r \in Durations, NEW a \in Durations, a <= r
  PROVE  /\ TaskPerformance(task, r, a) \in Performances
         /\ task.begun = epoch => Complete(TaskPerformance(task, r, a))
<1>1. Typed /\ WorkerInv
  BY DEF IInv
<1>2. /\ task \in Tasks /\ task.name \in Names /\ task.elu \in BOOLEAN
      /\ task.begun \in Nat
  BY <1>1 DEF Typed, Tasks
<1>3. /\ statistics.runTime \in BOOLEAN /\ statistics.elu \in BOOLEAN
      /\ told \in Nat /\ epoch \in Nat
  BY <1>1 DEF Typed, Statistics
<1>4. r \in Nat /\ a \in Nat /\ Lifetime \in Nat /\ r - a \in Nat /\ a + (r - a) = r
  BY DurationAssumption
<1>5. PICK x : x = IF statistics.runTime THEN r ELSE Absent
  OBVIOUS
<1>6. PICK y : y = IF ~ (task.elu \/ statistics.elu) THEN Absent
                   ELSE IF task.elu /\ statistics.elu THEN a ELSE Lifetime
  OBVIOUS
<1>7. PICK z : z = IF ~ (task.elu \/ statistics.elu) THEN Absent
                   ELSE IF task.elu /\ statistics.elu THEN r - a ELSE Lifetime
  OBVIOUS
<1>8. PICK p : p = TaskPerformance(task, r, a)
  OBVIOUS
<1>9. p = [name |-> task.name, runTime |-> x, active |-> y, idle |-> z]
  BY ONLY <1>5, <1>6, <1>7, <1>8 DEF TaskPerformance
<1>10. x \in Measurement /\ y \in Measurement /\ z \in Measurement
  BY ONLY <1>4, <1>5, <1>6, <1>7 DEF Measurement
<1>11. p \in Performances /\ p.runTime = x /\ p.active = y /\ p.idle = z
  BY ONLY <1>2, <1>9, <1>10 DEF Performances
<1>12. ASSUME task.begun = epoch PROVE Complete(p)
  <2>1. told = epoch
    BY <1>1, <1>2, <1>3, <1>12 DEF WorkerInv
  <2>2. /\ statistics = WorkerStatistics(strategy)
        /\ task.elu = WorkerStatistics(strategy).elu
    BY <1>1, <1>12, <2>1 DEF WorkerInv
  <2>3. /\ WorkerStatistics(strategy).runTime = Measures("runTime")
        /\ WorkerStatistics(strategy).elu = Measures("active")
    BY DEF WorkerStatistics, Measures, RequirementOf
  <2>4. statistics.runTime = Measures("runTime") /\ statistics.elu = Measures("active")
        /\ task.elu = Measures("active")
    BY ONLY <2>2, <2>3
  <2>5. Absent \notin Nat
    BY DEF Absent
  <2>6. p.runTime # Absent <=> Measures("runTime")
    BY ONLY <1>3, <1>4, <1>5, <1>11, <2>4, <2>5
  <2>7. p.active # Absent <=> Measures("active")
    BY ONLY <1>3, <1>4, <1>6, <1>11, <2>4, <2>5
  <2>8. p.runTime # Absent /\ p.active # Absent => p.active + p.idle = p.runTime
    BY ONLY <1>2, <1>3, <1>4, <1>5, <1>6, <1>7, <1>11, <2>4, <2>5
  <2> QED
    BY ONLY <2>6, <2>7, <2>8 DEF Complete
<1> QED
  BY <1>8, <1>11, <1>12

LEMMA EndTaskKeeps ==
  ASSUME IInv, NEW task \in running, NEW r \in Durations, NEW a \in Durations, a <= r,
         EndTask(task, r, a)
  PROVE  IInv'
<1>1. PICK p : p = TaskPerformance(task, r, a)
  OBVIOUS
<1>2. p \in Performances /\ (task.begun = epoch => Complete(p))
  BY <1>1, PerformanceIs
<1>3. /\ running' = running \ {task}
      /\ toPool' = Append(toPool, [id |-> task.id, ok |-> TRUE, begun |-> task.begun,
                                   taskPerformance |-> p])
      /\ UNCHANGED <<strategy, median, taskFunctionNames, usage, taskFunctionsUsage,
                     statistics, told, toWorker, sent, epoch, measured>>
  BY <1>1 DEF EndTask, poolVars, countVars
<1>4. task.id \in Nat /\ task.begun \in Nat /\ task.begun <= told
  <2>1. Typed /\ WorkerInv
    BY DEF IInv
  <2> QED
    BY <2>1 DEF Typed, Tasks, WorkerInv
<1>5. PICK answer : answer = [id |-> task.id, ok |-> TRUE, begun |-> task.begun,
                              taskPerformance |-> p]
  OBVIOUS
<1>6. answer \in Answers /\ answer.begun = task.begun /\ answer.taskPerformance = p
  BY ONLY <1>2, <1>4, <1>5 DEF Answers
<1>7. /\ answer.begun <= told
      /\ answer.begun = epoch => Complete(answer.taskPerformance)
  BY <1>2, <1>4, <1>6
<1>8. toPool' = Append(toPool, answer)
  BY <1>3, <1>5
<1> QED
  BY ONLY IInv, task \in running, <1>3, <1>6, <1>7, <1>8, AnswerSent

LEMMA FailTaskKeeps ==
  ASSUME IInv, NEW task \in running, FailTask(task)
  PROVE  IInv'
<1>1. /\ running' = running \ {task}
      /\ toPool' = Append(toPool, [id |-> task.id, ok |-> FALSE])
      /\ UNCHANGED <<strategy, median, taskFunctionNames, usage, taskFunctionsUsage,
                     statistics, told, toWorker, sent, epoch, measured>>
  BY DEF FailTask, poolVars, countVars
<1>2. task.id \in Nat
  BY DEF IInv, Typed, Tasks
<1>3. PICK answer \in Answers : /\ answer = [id |-> task.id, ok |-> FALSE]
                                /\ ~ answer.ok
  <2>1. [id |-> task.id, ok |-> FALSE] \in Answers
    BY <1>2 DEF Answers
  <2> QED
    BY <2>1
<1>4. toPool' = Append(toPool, answer)
  BY <1>1, <1>3
<1> QED
  BY ONLY IInv, task \in running, answer \in Answers, <1>1, <1>3, <1>4, AnswerSent

LEMMA NextKeeps ==
  ASSUME IInv, [Next]_vars
  PROVE  IInv'
<1>1. CASE UNCHANGED vars
  <2>1. UNCHANGED <<strategy, median, taskFunctionNames, usage, taskFunctionsUsage,
                    statistics, running, told, toWorker, toPool, sent, changes, epoch,
                    measured>>
    BY <1>1 DEF vars, poolVars, workerVars, countVars
  <2>2. Typed /\ FunctionsInv /\ MeasuresInv /\ QueueInv /\ WorkerInv
    BY DEF IInv
  <2>3. Typed'
    BY ONLY <2>1, <2>2 DEF Typed, FunctionsTyped
  <2> QED
    BY <2>1, <2>2, <2>3, PoolSame, QueueSame, WorkerSame DEF IInv
<1>2. CASE \E name \in Names, w \in WaitTimes : ExecuteTask(name, w)
  BY <1>2, ExecuteTaskKeeps
<1>3. CASE HandleTaskExecutionResponse
  BY <1>3, HandleTaskExecutionResponseKeeps
<1>4. CASE \E s \in Strategies : SetWorkerChoiceStrategy(s)
  BY <1>4, SetWorkerChoiceStrategyKeeps
<1>5. CASE \E medians \in [{"runTime", "elu"} -> BOOLEAN] :
             SetWorkerChoiceStrategyOptions(medians)
  BY <1>5, SetWorkerChoiceStrategyOptionsKeeps
<1>6. CASE \E names \in NameLists : ReceiveTaskFunctionNames(names)
  BY <1>6, ReceiveTaskFunctionNamesKeeps
<1>7. CASE \E name \in FunctionNames : DeleteTaskFunctionWorkerUsage(name)
  BY <1>7, DeleteTaskFunctionWorkerUsageKeeps
<1>8. CASE ReceiveStatistics
  BY <1>8, ReceiveStatisticsKeeps
<1>9. CASE BeginTask
  BY <1>9, BeginTaskKeeps
<1>10. CASE \E task \in running, r, a \in Durations : a <= r /\ EndTask(task, r, a)
  BY <1>10, EndTaskKeeps
<1>11. CASE \E task \in running : FailTask(task)
  BY <1>11, FailTaskKeeps
<1> QED
  BY <1>1, <1>2, <1>3, <1>4, <1>5, <1>6, <1>7, <1>8, <1>9, <1>10, <1>11 DEF Next

-----------------------------------------------------------------------------
(* The theorems.                                                           *)

\* The invariant is one.
LEMMA InvariantAlways == Spec => []IInv
<1>1. Init => IInv
  BY InitIInv
<1>2. IInv /\ [Next]_vars => IInv'
  BY NextKeeps
<1> QED
  BY <1>1, <1>2, PTL DEF Spec

\* No count goes below zero, function usages are only kept for functions and
\* for answers without a name, and no task is begun by a worker that does not
\* know what to measure, for any functions, strategies and numbers of tasks.
THEOREM MeasurementsTyped == Spec => []TypeOK
<1>1. ASSUME IInv PROVE TypeOK
  <2>1. Typed /\ WorkerInv
    BY <1>1 DEF IInv
  <2>2. /\ usage \in WorkerUsage
        /\ taskFunctionsUsage \in [DOMAIN taskFunctionsUsage -> WorkerUsage]
        /\ DOMAIN taskFunctionsUsage \subseteq FunctionNames \cup {UndefinedName}
    BY <2>1 DEF Typed, FunctionsTyped
  <2>3. Range(taskFunctionsUsage) \subseteq WorkerUsage
    BY ONLY <2>2 DEF Range
  <2>4. told <= epoch /\ \A task \in running : task.begun \in 1 .. told
    BY ONLY <2>1 DEF WorkerInv
  <2> QED
    BY ONLY <2>2, <2>3, <2>4 DEF TypeOK
<1> QED
  BY <1>1, InvariantAlways, PTL

\* The statistics of a node are those of exactly the measurements that were
\* required since its usage was reset, whatever the size of the histories.
THEOREM StatisticsAlwaysDescribe == Spec => []StatisticsDescribeMeasurements
<1>1. ASSUME IInv PROVE StatisticsDescribeMeasurements
  <2>1. ASSUME NEW k \in Kinds, NEW s, s = usage.statistics[k], NEW m, m = measured[k],
               NEW h, h = s.history
        PROVE  /\ m = <<>> <=> s.aggregate = Absent
               /\ m # <<>> => /\ s.aggregate = FoldLeft(+, 0, m)
                              /\ s.minimum \in Range(m) /\ s.maximum \in Range(m)
                              /\ \A i \in 1 .. Len(m) : m[i] \in s.minimum .. s.maximum
               /\ Len(h) <= HistorySize
               /\ h = SubSeq(m, Len(m) - Len(h) + 1, Len(m))
               /\ s.average # Absent => s.average * Len(h) = Scale * FoldLeft(+, 0, h)
               /\ s.median # Absent =>
                    /\ 2 * AtMost(h, s.median) >= Len(h)
                    /\ 2 * AtLeast(h, s.median) >= Len(h)
                    /\ s.median \in Scale * s.minimum .. Scale * s.maximum
    <3>1. Describes(s, m, Keeps(k))
      BY <1>1, <2>1 DEF IInv, MeasuresInv
    <3>2. m \in Seq(Nat) /\ HistorySize \in Nat
      BY <3>1, HistoryAssumption DEF Describes
    <3>3. m = <<>> <=> s.aggregate = Absent
      <4>1. CASE m = <<>>
        BY <3>1, <4>1 DEF Describes, NoStatistics
      <4>2. CASE m # <<>>
        <5>1. s.aggregate \in Nat
          BY <3>1, <3>2, <4>2, SumGrows DEF Describes
        <5> QED
          BY <4>2, <5>1 DEF Absent
      <4> QED
        BY <4>1, <4>2
    <3>4. m # <<>> => /\ s.aggregate = FoldLeft(+, 0, m)
                      /\ s.minimum \in Range(m) /\ s.maximum \in Range(m)
                      /\ \A i \in 1 .. Len(m) : m[i] \in s.minimum .. s.maximum
      BY <3>1 DEF Describes, Sum
    <3>5. Len(h) <= HistorySize /\ h = SubSeq(m, Len(m) - Len(h) + 1, Len(m))
      <4>1. CASE Keeps(k)
        <5>1. Latest(h, m, HistorySize)
          BY <2>1, <3>1, <4>1 DEF Describes
        <5> QED
          BY ONLY <3>2, <5>1, LatestIsEnd
      <4>2. CASE ~ Keeps(k)
        <5>1. h = <<>>
          BY <2>1, <3>1, <4>2 DEF Describes
        <5>2. PICK n \in Nat : n = Len(m)
          BY <3>2
        <5>3. n - 0 + 1 = n + 1 /\ SubSeq(m, n + 1, n) = <<>>
          BY <3>2
        <5> QED
          BY <3>2, <5>1, <5>2, <5>3
      <4> QED
        BY <4>1, <4>2
    <3>6. s.average # Absent => s.average * Len(h) = Scale * FoldLeft(+, 0, h)
      BY <2>1, <3>1 DEF Describes, Sum
    <3>7. s.median # Absent => /\ 2 * AtMost(h, s.median) >= Len(h)
                               /\ 2 * AtLeast(h, s.median) >= Len(h)
                               /\ s.median \in Scale * s.minimum .. Scale * s.maximum
      BY <2>1, <3>1 DEF Describes
    <3> QED
      BY ONLY <3>3, <3>4, <3>5, <3>6, <3>7
  <2> QED
    BY ONLY <2>1 DEF StatisticsDescribeMeasurements
<1> QED
  BY <1>1, InvariantAlways, PTL

\* What the usages of task functions count has been counted for their node,
\* with any number of functions.
THEOREM FunctionsAlwaysAddUp == Spec => []FunctionsAddUp
<1>1. ASSUME IInv PROVE FunctionsAddUp
  <2>1. Typed /\ FunctionsInv
    BY <1>1 DEF IInv
  <2>2. PICK F : Adds(F, Executed, DOMAIN Executed)
                 /\ F[DOMAIN Executed] <= usage.tasks.executed
    BY <2>1 DEF FunctionsInv, TotalAtMost
  <2>3. PICK G : Adds(G, Failed, DOMAIN Failed)
                 /\ G[DOMAIN Failed] <= usage.tasks.failed
    BY <2>1 DEF FunctionsInv, TotalAtMost
  <2>4. MapThenSumSet(LAMBDA n : taskFunctionsUsage[n].tasks.executed,
                      DOMAIN taskFunctionsUsage) <= usage.tasks.executed
    BY <2>1, <2>2, TotalExecutedIs
  <2>5. MapThenSumSet(LAMBDA n : taskFunctionsUsage[n].tasks.failed,
                      DOMAIN taskFunctionsUsage) <= usage.tasks.failed
    BY <2>1, <2>3, TotalFailedIs
  <2> QED
    BY <2>4, <2>5 DEF FunctionsAddUp
<1> QED
  BY <1>1, InvariantAlways, PTL

\* A task that was begun after the last change of strategy was handled by the
\* worker is answered with what this strategy requires, however often the
\* strategy has been changed and whatever overlaps with that.
THEOREM CurrentAnswersAlwaysMeasured == Spec => []CurrentAnswersMeasured
<1>1. ASSUME IInv PROVE CurrentAnswersMeasured
  <2>1. Typed /\ WorkerInv
    BY <1>1 DEF IInv
  <2>2. /\ Requirements("runTime").aggregate = Measures("runTime")
        /\ Requirements("active").aggregate = Measures("active")
    BY <2>1, RequirementsAre DEF Kinds
  <2>3. \A i \in 1 .. Len(toPool) : toPool[i].ok /\ toPool[i].begun = epoch =>
          Complete(toPool[i].taskPerformance)
    BY ONLY <2>1 DEF WorkerInv
  <2> QED
    BY ONLY <2>2, <2>3 DEF CurrentAnswersMeasured, Complete
<1> QED
  BY <1>1, InvariantAlways, PTL

\* After an answer the required one of average and median is there and the
\* other one is not, whichever the options chose before.
THEOREM RequiredStatisticAlwaysKept == Spec => RequiredStatisticIsKept
<1> DEFINE Kept(k) ==
      LET r == Requirements(k)
          s == usage'.statistics[k]
      IN  r.average \/ r.median => /\ s.average # Absent <=> r.average
                                   /\ s.median # Absent <=> r.median
<1>1. ASSUME IInv, HandleTaskExecutionResponse, Head(toPool).ok,
             NEW k \in {"runTime", "active", "idle"}
      PROVE  Kept(k)
  <2>1. Typed /\ MeasuresInv
    BY <1>1 DEF IInv
  <2>2. toPool \in Seq(Answers) /\ toPool # <<>> /\ AfterTaskExecutionHook(Head(toPool))
    BY <1>1, <2>1 DEF Typed, HandleTaskExecutionResponse
  <2>3. PICK answer \in Answers : answer = Head(toPool)
    BY <2>2, HeadTailProperties
  <2>4. PICK name, values :
          /\ Hooked(name, values, IF answer.ok THEN 1 ELSE 0, IF answer.ok THEN 0 ELSE 1)
          /\ DOMAIN values = {"runTime", "active", "idle"}
    BY <1>1, <2>1, <2>2, <2>3, AfterHook
  <2>5. k \in Kinds
    BY DEF Kinds
  <2>6. PICK r, s, u, v : r = Requirements(k) /\ s = usage.statistics[k]
                          /\ u = usage'.statistics[k] /\ v = values[k]
    OBVIOUS
  <2>7. /\ v \in Nat /\ u = UpdateMeasurementStatistics(s, r, v)
    BY <2>4, <2>5, <2>6 DEF Hooked, Measured, Steps
  <2>8. s \in MeasurementStatistics /\ s.history \in Seq(Nat)
    BY <2>1, <2>5, <2>6 DEF MeasuresInv, Describes, MeasurementStatistics
  <2>9. /\ r \in Needs /\ ~ (r.average /\ r.median)
        /\ r.average \/ r.median => r.aggregate
    BY <2>1, <2>5, <2>6, RequirementsAre
  <2>10. ASSUME r.average \/ r.median
         PROVE  /\ u.average # Absent <=> r.average
                /\ u.median # Absent <=> r.median
    <3>1. PICK h : h = Pushed(s.history, v)
      OBVIOUS
    <3>2. h \in Seq(Nat) /\ h # <<>> /\ Len(h) <= HistorySize
      BY <2>7, <2>8, <3>1, PushedLatest
    <3>3. /\ u.average = IF r.average THEN Average(h)
                         ELSE IF r.median THEN Absent ELSE s.average
          /\ u.median = IF r.median THEN Median(h)
                        ELSE IF r.average THEN Absent ELSE s.median
      <4>1. r.aggregate
        BY <2>9, <2>10
      <4>2. /\ u.history = IF r.average \/ r.median THEN Pushed(s.history, v) ELSE s.history
            /\ u.average = IF r.average THEN Average(u.history)
                           ELSE IF r.median THEN Absent ELSE s.average
            /\ u.median = IF r.median THEN Median(u.history)
                          ELSE IF r.average THEN Absent ELSE s.median
        BY ONLY <2>7, <2>8, <2>9, <4>1, UpdateFields
      <4>3. u.history = h
        BY ONLY <2>10, <3>1, <4>2
      <4> QED
        BY ONLY <4>2, <4>3
    <3>4. Average(h) # Absent /\ Median(h) # Absent
      <4>1. Average(h) \in Nat /\ Median(h) \in Nat
        BY <3>2, AverageIs, MedianSplits
      <4> QED
        BY <4>1 DEF Absent
    <3> QED
      BY ONLY <2>9, <2>10, <3>3, <3>4
  <2> QED
    BY <2>6, <2>10
<1>2. ASSUME IInv, [Next]_vars
      PROVE  [HandleTaskExecutionResponse /\ Head(toPool).ok =>
                \A k \in {"runTime", "active", "idle"} : Kept(k)]_vars
  <2> HIDE DEF Kept
  <2> QED
    BY <1>1, <1>2
<1> QED
  BY <1>2, InvariantAlways, PTL DEF RequiredStatisticIsKept, Spec

-----------------------------------------------------------------------------
(* The lengths of circular arrays.                                         *)

Least(a, b) == IF a < b THEN a ELSE b
Beyond(a, b) == IF a > b THEN a - b ELSE 0

LEMMA LastItemsLength ==
  ASSUME NEW items \in Seq(Nat), NEW size \in Nat
  PROVE  /\ LastItems(items, size) \in Seq(Nat)
         /\ Len(LastItems(items, size)) = Least(Len(items), size)
<1>1. Latest(LastItems(items, size), items, size)
  BY LastItemsLatest
<1>2. PICK n \in Nat : n = Len(items)
  OBVIOUS
<1> QED
  BY <1>1, <1>2 DEF Latest, Least

\* A part of a sequence that may begin after its end.
LEMMA PartLength ==
  ASSUME NEW items \in Seq(Nat), NEW a \in Nat, NEW b \in Nat, b <= Len(items)
  PROVE  SubSeq(items, a + 1, b) \in Seq(Nat) /\ Len(SubSeq(items, a + 1, b)) = Beyond(b, a)
<1>1. \A i \in a + 1 .. b : items[i] \in Nat
  <2>1. PICK n \in Nat : n = Len(items)
    OBVIOUS
  <2>2. \A i \in a + 1 .. b : i \in 1 .. n
    BY <2>1
  <2> QED
    BY <2>1, <2>2, ElementOfSeq
<1> DEFINE part == SubSeq(items, a + 1, b)
<1>2. a + 1 \in Int /\ b \in Int
  OBVIOUS
<1>3. part \in Seq(Nat) /\ Len(part) = IF a + 1 <= b THEN b - (a + 1) + 1 ELSE 0
  BY <1>1, <1>2, SubSeqProperties
<1> HIDE DEF part
<1>4. Len(part) = Beyond(b, a)
  BY ONLY <1>3, a \in Nat, b \in Nat DEF Beyond
<1> QED
  BY <1>3, <1>4 DEF part

\* How long what splice leaves is, and what it takes out.
SpliceLengths(items, start, deleted, inserted) ==
  LET from == Least(start, Len(items)) IN
  /\ Spliced(items, start, deleted, inserted) \in Seq(Nat)
  /\ Len(Spliced(items, start, deleted, inserted)) =
       from + Len(inserted) + Beyond(Len(items), from + deleted)
  /\ Len(SplicedOut(items, start, deleted)) =
       Beyond(Least(start + deleted, Len(items)), start)

LEMMA SplicedLength ==
  ASSUME NEW items \in Seq(Nat), NEW start \in Nat, NEW deleted \in Nat,
         NEW inserted \in Seq(Nat)
  PROVE  SpliceLengths(items, start, deleted, inserted)
<1>0. PICK n \in Nat : n = Len(items)
  OBVIOUS
<1>1. PICK from \in Nat : from = Least(start, n) /\ from <= n
  BY DEF Least
<1>2. PICK head : head = SubSeq(items, 0 + 1, from)
  OBVIOUS
<1>3. head \in Seq(Nat) /\ Len(head) = from
  <2>1. head \in Seq(Nat) /\ Len(head) = Beyond(from, 0)
    BY <1>0, <1>1, <1>2, PartLength
  <2> QED
    BY <1>1, <2>1 DEF Beyond
<1>4. PICK tail : tail = SubSeq(items, (from + deleted) + 1, n)
  OBVIOUS
<1>5. tail \in Seq(Nat) /\ Len(tail) = Beyond(n, from + deleted)
  <2>1. from + deleted \in Nat /\ n <= Len(items)
    BY <1>0
  <2> QED
    BY <1>4, <2>1, PartLength
<1>6. Spliced(items, start, deleted, inserted) = head \o inserted \o tail
  <2>1. from = (IF start < Len(items) THEN start ELSE Len(items)) /\ 0 + 1 = 1
    BY <1>0, <1>1 DEF Least
  <2> QED
    BY ONLY <1>0, <1>2, <1>4, <2>1 DEF Spliced
<1>7. head \o inserted \in Seq(Nat) /\ Len(head \o inserted) = from + Len(inserted)
  BY <1>3, ConcatProperties
<1>8. /\ head \o inserted \o tail \in Seq(Nat)
      /\ Len(head \o inserted \o tail) = (from + Len(inserted)) + Len(tail)
  BY <1>5, <1>7, ConcatProperties
<1>9. Len(SplicedOut(items, start, deleted)) = Beyond(Least(start + deleted, n), start)
  <2>1. PICK last \in Nat : last = Least(start + deleted, n) /\ last <= n
    BY DEF Least
  <2>2. SplicedOut(items, start, deleted) = SubSeq(items, start + 1, last)
    BY <1>0, <2>1 DEF SplicedOut, Least
  <2> QED
    BY <1>0, <2>1, <2>2, PartLength
<1> QED
  BY <1>0, <1>1, <1>5, <1>6, <1>8, <1>9 DEF SpliceLengths

\* No method leaves more items than there is room for, and splice loses none,
\* for every array and all arguments.
LEMMA MethodsKeepBound ==
  ASSUME NEW items \in Seq(Nat), NEW size \in Nat, Len(items) <= size,
         NEW array, array = [items |-> items, size |-> size],
         NEW more \in Seq(Nat), NEW other \in Nat
  PROVE  /\ Len(NewArray(other, items).items) <= NewArray(other, items).size
         /\ Len(Resize(array, other).items) <= Resize(array, other).size
         /\ Len(PushItems(array, more).items) <= PushItems(array, more).size
         /\ Len(UnshiftItems(array, more).items) <= UnshiftItems(array, more).size
         /\ Len(Concat(array, more).items) <= Concat(array, more).size
<1>1. PICK n \in Nat, m \in Nat : n = Len(items) /\ m = Len(more)
  OBVIOUS
<1>2. /\ items \o more \in Seq(Nat) /\ Len(items \o more) = n + m
      /\ more \o items \in Seq(Nat) /\ Len(more \o items) = m + n
      /\ <<>> \o items = items
  BY <1>1, ConcatProperties, ConcatEmptySeq
<1>3. \A s \in Seq(Nat), z \in Nat : Len(LastItems(s, z)) <= z
  <2>1. ASSUME NEW s \in Seq(Nat), NEW z \in Nat PROVE Len(LastItems(s, z)) <= z
    <3>1. PICK k \in Nat : k = Len(s)
      OBVIOUS
    <3>2. Len(LastItems(s, z)) = Least(k, z)
      BY <3>1, LastItemsLength
    <3> QED
      BY <3>2 DEF Least
  <2> QED
    BY <2>1
<1>4. Len(NewArray(other, items).items) <= NewArray(other, items).size
  <2>1. NewArray(other, items) = [items |-> LastItems(items, other), size |-> other]
    BY <1>2 DEF NewArray, PushItems
  <2> QED
    BY <1>3, <2>1
<1>5. /\ Len(PushItems(array, more).items) <= PushItems(array, more).size
      /\ Len(Concat(array, more).items) <= Concat(array, more).size
  <2>1. PICK kept : kept = LastItems(items \o more, size) /\ Len(kept) <= size
    BY <1>2, <1>3
  <2>2. /\ PushItems(array, more) = [items |-> kept, size |-> size]
        /\ Concat(array, more) = [items |-> kept, size |-> size]
    BY <2>1 DEF PushItems, Concat
  <2> QED
    BY ONLY <2>1, <2>2
<1>6. Len(UnshiftItems(array, more).items) <= UnshiftItems(array, more).size
  <2>1. PICK longer \in Seq(Nat) : longer = more \o items /\ Len(longer) = m + n
    BY <1>2
  <2>2. UnshiftItems(array, more) =
          [items |-> IF Len(longer) > size THEN Spliced(longer, size, m, <<>>) ELSE longer,
           size |-> size]
    <3>1. array.items = items /\ array.size = size
      OBVIOUS
    <3>2. PICK kept : kept = IF Len(longer) > size THEN Spliced(longer, size, m, <<>>)
                             ELSE longer
      OBVIOUS
    <3>3. UnshiftItems(array, more) = [array EXCEPT !.items = kept]
      BY ONLY <1>1, <2>1, <3>1, <3>2 DEF UnshiftItems
    <3>4. [array EXCEPT !.items = kept] = [items |-> kept, size |-> size]
      BY ONLY array = [items |-> items, size |-> size]
    <3> QED
      BY ONLY <3>2, <3>3, <3>4
  <2>3. CASE m + n > size
    <3>1. Len(Spliced(longer, size, m, <<>>)) =
            Least(size, m + n) + Len(<<>>) + Beyond(m + n, Least(size, m + n) + m)
      <4>1. PICK none \in Seq(Nat), k \in Nat : none = <<>> /\ k = m + n /\ k = Len(longer)
        <5>1. <<>> \in Seq(Nat) /\ m + n \in Nat
          OBVIOUS
        <5> QED
          BY <2>1, <5>1
      <4>2. Len(Spliced(longer, size, m, none)) =
              Least(size, k) + Len(none) + Beyond(k, Least(size, k) + m)
        <5>1. SpliceLengths(longer, size, m, none)
          BY SplicedLength
        <5> QED
          BY <4>1, <5>1 DEF SpliceLengths
      <4> QED
        BY ONLY <4>1, <4>2
    <3>2. Least(size, m + n) = size
      BY <2>3 DEF Least
    <3>3. Beyond(m + n, size + m) = 0 /\ Len(<<>>) = 0
      BY <1>1 DEF Beyond
    <3>4. Len(Spliced(longer, size, m, <<>>)) = size
      BY <3>1, <3>2, <3>3
    <3> QED
      BY <2>1, <2>2, <2>3, <3>4
  <2>4. CASE ~ (m + n > size)
    BY <2>1, <2>2, <2>4
  <2> QED
    BY <2>3, <2>4
<1>7. Len(Resize(array, other).items) <= Resize(array, other).size
  <2>1. PICK popped \in Nat, length \in Nat :
          /\ popped = Beyond(size, other) /\ length = Beyond(n, popped)
          /\ length <= n /\ length <= other
    <3>0. \A a, b \in Nat : Beyond(a, b) \in Nat /\ Beyond(a, b) <= a
      BY DEF Beyond
    <3>1. PICK popped \in Nat : popped = Beyond(size, other)
      BY <3>0
    <3>2. PICK length \in Nat : length = Beyond(n, popped) /\ length <= n
      BY <3>0
    <3>3. length <= other
      BY <1>1, <3>1, <3>2 DEF Beyond
    <3> QED
      BY <3>1, <3>2, <3>3
  <2>2. Resize(array, other) =
          [items |-> IF other = 0 THEN <<>> ELSE SubSeq(items, 1, length), size |-> other]
    <3>1. popped = IF other < size THEN size - other ELSE 0
      BY <2>1 DEF Beyond
    <3>2. length = IF Len(items) > popped THEN Len(items) - popped ELSE 0
      BY <1>1, <2>1 DEF Beyond
    <3> QED
      BY <3>1, <3>2 DEF Resize
  <2>3. Len(SubSeq(items, 1, length)) = length
    <3>1. Len(SubSeq(items, 0 + 1, length)) = Beyond(length, 0)
      BY <1>1, <2>1, PartLength
    <3> QED
      BY <3>1 DEF Beyond
  <2> QED
    BY <2>1, <2>2, <2>3
<1> QED
  BY <1>4, <1>5, <1>6, <1>7

LEMMA SpliceKeepsBound ==
  ASSUME NEW items \in Seq(Nat), NEW size \in Nat, Len(items) <= size,
         NEW array, array = [items |-> items, size |-> size],
         NEW more \in Seq(Nat), NEW start \in Nat, NEW deleted \in Nat
  PROVE  /\ Len(Splice(array, start, deleted, more).items)
              <= Splice(array, start, deleted, more).size
         /\ Len(SpliceResult(array, start, deleted, more))
              + Len(Splice(array, start, deleted, more).items) = Len(items) + Len(more)
<1>1. PICK n \in Nat, m \in Nat : n = Len(items) /\ m = Len(more)
  OBVIOUS
<1>2. PICK spliced : spliced = Spliced(items, start, deleted, more)
  OBVIOUS
<1>3. PICK out : out = SplicedOut(items, start, deleted)
  OBVIOUS
<1>4. PICK from \in Nat : from = Least(start, n)
  BY DEF Least
<1>5. PICK l \in Nat, o \in Nat :
        /\ l = from + m + Beyond(n, from + deleted)
        /\ o = Beyond(Least(start + deleted, n), start)
  <2>1. \A a, b \in Nat : Beyond(a, b) \in Nat /\ Least(a, b) \in Nat
    BY DEF Beyond, Least
  <2>2. from + deleted \in Nat /\ start + deleted \in Nat
    OBVIOUS
  <2>3. Beyond(n, from + deleted) \in Nat
    BY <2>1, <2>2
  <2>4. Beyond(Least(start + deleted, n), start) \in Nat
    BY <2>1, <2>2
  <2> QED
    BY <2>3, <2>4
<1>6. spliced \in Seq(Nat) /\ Len(spliced) = l /\ Len(out) = o
  <2>1. SpliceLengths(items, start, deleted, more)
    BY SplicedLength
  <2> QED
    BY <1>1, <1>2, <1>3, <1>4, <1>5, <2>1 DEF SpliceLengths
<1>7. o + l = n + m
  BY ONLY <1>4, <1>5, n \in Nat, m \in Nat, start \in Nat, deleted \in Nat
  DEF Beyond, Least
<1>8. out \in Seq(Nat)
  <2>1. PICK last \in Nat : last = Least(start + deleted, n) /\ last <= n
    BY DEF Least
  <2>2. out = SubSeq(items, start + 1, last)
    BY <1>1, <1>3, <2>1 DEF SplicedOut, Least
  <2> QED
    BY <1>1, <2>1, <2>2, PartLength
<1>9. PICK kept : kept = IF more = <<>> THEN spliced ELSE LastItems(spliced, size)
  OBVIOUS
<1>10. array.items = items /\ array.size = size
  OBVIOUS
<1>11. Splice(array, start, deleted, more) = [items |-> kept, size |-> size]
  <2>1. Splice(array, start, deleted, more) = [array EXCEPT !.items = kept]
    BY ONLY <1>2, <1>9, <1>10 DEF Splice
  <2> QED
    BY ONLY <2>1, array = [items |-> items, size |-> size]
<1>12. PICK lost : lost = IF more = <<>> \/ Len(spliced) - size <= 0 THEN <<>>
                          ELSE SubSeq(spliced, 1, Len(spliced) - size)
  OBVIOUS
<1>13. SpliceResult(array, start, deleted, more) = out \o lost
  BY ONLY <1>2, <1>3, <1>10, <1>12 DEF SpliceResult
<1>14. kept \in Seq(Nat) /\ lost \in Seq(Nat) /\ Len(kept) <= size /\ Len(lost) + Len(kept) = l
  <2>1. CASE more = <<>>
    <3>1. kept = spliced /\ lost = <<>>
      BY <1>9, <1>12, <2>1
    <3>2. m = 0 /\ l <= n
      <4>1. m = 0
        BY <1>1, <2>1
      <4>2. l <= n
        BY ONLY <1>5, <1>7, <4>1, n \in Nat, l \in Nat, o \in Nat
      <4> QED
        BY <4>1, <4>2
    <3>3. lost \in Seq(Nat) /\ Len(lost) = 0
      BY <3>1
    <3> QED
      BY <1>1, <1>6, <3>1, <3>2, <3>3
  <2>2. CASE more # <<>>
    <3>1. kept = LastItems(spliced, size)
      BY <1>9, <2>2
    <3>2. kept \in Seq(Nat) /\ Len(kept) = Least(l, size)
      BY <1>6, <3>1, LastItemsLength
    <3>3. CASE l <= size
      <4>1. lost = <<>> /\ Len(kept) = l
        BY <1>6, <1>12, <3>2, <3>3 DEF Least
      <4>2. lost \in Seq(Nat) /\ Len(lost) = 0
        BY <4>1
      <4> QED
        BY <3>2, <3>3, <4>1, <4>2
    <3>4. CASE ~ (l <= size)
      <4>1. PICK d \in Nat : d = l - size /\ d <= l
        BY <3>4
      <4>2. lost = SubSeq(spliced, 0 + 1, d) /\ Len(kept) = size
        BY <1>6, <1>12, <2>2, <3>2, <3>4, <4>1 DEF Least
      <4>3. lost \in Seq(Nat) /\ Len(lost) = Beyond(d, 0)
        BY <1>6, <4>1, <4>2, PartLength
      <4>4. Len(lost) = d
        BY <4>1, <4>3 DEF Beyond
      <4> QED
        BY <3>2, <4>1, <4>2, <4>3, <4>4
    <3> QED
      BY <3>3, <3>4
  <2> QED
    BY <2>1, <2>2
<1>15. Len(out \o lost) = o + Len(lost)
  BY <1>6, <1>8, <1>14, ConcatProperties
<1>16. PICK x \in Nat, y \in Nat : x = Len(lost) /\ y = Len(kept)
  BY <1>14
<1> QED
  BY <1>1, <1>7, <1>11, <1>13, <1>14, <1>15, <1>16

\* The histories fit, and so they do after any method of their class, for every
\* size; splice returns all that it does not leave.
THEOREM ArraysAlwaysKeepBound == Spec => []ArraysKeepBound
<1>1. ASSUME IInv PROVE ArraysKeepBound
  <2>1. PICK h : h = usage.statistics["runTime"].history
    OBVIOUS
  <2>2. PICK z \in Nat : z = HistorySize
    BY HistoryAssumption
  <2>3. h \in Seq(Nat) /\ Len(h) <= z
    <3>1. "runTime" \in Kinds
      BY DEF Kinds
    <3>2. PICK s, m : s = usage.statistics["runTime"] /\ Describes(s, m, Keeps("runTime"))
      BY <1>1, <3>1 DEF IInv, MeasuresInv
    <3>3. s \in MeasurementStatistics /\ m \in Seq(Nat) /\ h = s.history
      BY <2>1, <3>2 DEF Describes
    <3>4. CASE Keeps("runTime")
      <4>1. Latest(h, m, HistorySize)
        BY <3>2, <3>3, <3>4 DEF Describes
      <4>2. Len(h) <= HistorySize
        BY ONLY <2>2, <3>3, <4>1, z \in Nat, LatestIsEnd
      <4> QED
        BY <2>2, <4>1, <4>2 DEF Latest
    <3>5. CASE ~ Keeps("runTime")
      <4>1. h = <<>>
        BY <3>2, <3>3, <3>5 DEF Describes
      <4> QED
        BY <4>1
    <3> QED
      BY <3>4, <3>5
  <2>4. PICK n \in Nat : n = Len(h) /\ n <= z
    BY <2>3
  <2>5. PICK array : array = [items |-> h, size |-> z]
    OBVIOUS
  <2>6. array.items = h /\ array.size = z
    BY <2>5
  <2>7. Full(array) \/ Empty(array) \/ n \in 1 .. z - 1
    <3>1. n = 0 => h = <<>>
      BY ONLY <2>3, <2>4, EmptySeq
    <3>2. n = 0 \/ n = z \/ n \in 1 .. z - 1
      BY ONLY <2>4, n \in Nat, z \in Nat
    <3> QED
      BY ONLY <2>4, <2>6, <3>1, <3>2 DEF Full, Empty
  <2>8. \A more \in Seq(Nat), k \in Nat :
          /\ Len(NewArray(k, h).items) <= NewArray(k, h).size
          /\ Len(Resize(array, k).items) <= Resize(array, k).size
          /\ Len(PushItems(array, more).items) <= PushItems(array, more).size
          /\ Len(UnshiftItems(array, more).items) <= UnshiftItems(array, more).size
          /\ Len(Concat(array, more).items) <= Concat(array, more).size
    BY ONLY <2>3, <2>5, z \in Nat, MethodsKeepBound
  <2>9. \A more \in Seq(Nat), start, deleted \in Nat :
          /\ Len(Splice(array, start, deleted, more).items)
               <= Splice(array, start, deleted, more).size
          /\ Len(SpliceResult(array, start, deleted, more))
               + Len(Splice(array, start, deleted, more).items) = Len(h) + Len(more)
    BY ONLY <2>3, <2>5, z \in Nat, SpliceKeepsBound
  <2>10. /\ {<<>>, <<0>>, <<0, 1>>, <<0, 1, 2>>} \subseteq Seq(Nat) /\ <<>> \in Seq(Nat)
         /\ 0 .. z \subseteq Nat /\ 0 .. z + 1 \subseteq Nat
    OBVIOUS
  <2>11. /\ \A k \in 0 .. z : Len(NewArray(k, h).items) <= NewArray(k, h).size
         /\ \A k \in 0 .. z + 1 : Len(Resize(array, k).items) <= Resize(array, k).size
    BY ONLY <2>8, <2>10
  <2>12. \A more \in {<<>>, <<0>>, <<0, 1>>, <<0, 1, 2>>} :
           /\ Len(PushItems(array, more).items) <= PushItems(array, more).size
           /\ Len(UnshiftItems(array, more).items) <= UnshiftItems(array, more).size
           /\ Len(Concat(array, more).items) <= Concat(array, more).size
    BY ONLY <2>8, <2>10, z \in Nat
  <2>13. \A more \in {<<>>, <<0>>, <<0, 1>>, <<0, 1, 2>>} :
           \A start, deleted \in 0 .. z + 1 :
             /\ Len(Splice(array, start, deleted, more).items)
                  <= Splice(array, start, deleted, more).size
             /\ Len(SpliceResult(array, start, deleted, more))
                  + Len(Splice(array, start, deleted, more).items) = Len(h) + Len(more)
    BY ONLY <2>9, <2>10
  <2> DEFINE A == [items |-> usage.statistics["runTime"].history, size |-> HistorySize]
  <2>14. array = A /\ h = A.items /\ z = HistorySize /\ n = Len(A.items)
    BY ONLY <2>1, <2>2, <2>4, <2>5
  <2>15. Full(A) \/ Empty(A) \/ Len(A.items) \in 1 .. HistorySize - 1
    BY ONLY <2>7, <2>14
  <2>16. /\ \A k \in 0 .. HistorySize :
              Len(NewArray(k, A.items).items) <= NewArray(k, A.items).size
         /\ \A k \in 0 .. HistorySize + 1 :
              Len(Resize(A, k).items) <= Resize(A, k).size
    BY ONLY <2>11, <2>14
  <2>17. \A more \in {<<>>, <<0>>, <<0, 1>>, <<0, 1, 2>>} :
           /\ Len(PushItems(A, more).items) <= PushItems(A, more).size
           /\ Len(UnshiftItems(A, more).items) <= UnshiftItems(A, more).size
           /\ Len(Concat(A, more).items) <= Concat(A, more).size
    BY ONLY <2>12, <2>14
  <2>18. \A more \in {<<>>, <<0>>, <<0, 1>>, <<0, 1, 2>>} :
           \A start, deleted \in 0 .. HistorySize + 1 :
             /\ Len(Splice(A, start, deleted, more).items)
                  <= Splice(A, start, deleted, more).size
             /\ Len(SpliceResult(A, start, deleted, more))
                  + Len(Splice(A, start, deleted, more).items) = Len(A.items) + Len(more)
    BY ONLY <2>13, <2>14
  <2> QED
    BY ONLY <2>15, <2>16, <2>17, <2>18 DEF ArraysKeepBound
<1> QED
  BY <1>1, InvariantAlways, PTL
=============================================================================
