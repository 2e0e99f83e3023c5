---------------------------- MODULE DequeProofs ----------------------------
(***************************************************************************)
(* The linked list of Deque implements SequenceDeque, and its iterators    *)
(* visit all of it, whatever is queued and in whatever order its methods   *)
(* are called.                                                             *)
(*                                                                         *)
(* The inductive invariant is Linked, with the types it needs and the fact *)
(* that no node is linked twice.  Each method is first described by what   *)
(* it does to the fields of each node and to each place of the order; that *)
(* description preserves the invariant and is a step of the sequence.      *)
(***************************************************************************)
EXTENDS Deque, SequenceTheorems, WellFoundedInduction, TLAPS

NodeRecords == [data : Data, next : Nat, prev : Nat]

Typed ==
  /\ node \in Seq(NodeRecords)
  /\ order \in Seq(Nat)
  /\ maxSize \in Nat

\* Only created nodes are linked, each once.
LinkedOnce ==
  /\ \A i \in 1 .. Len(order) : order[i] \in 1 .. Len(node)
  /\ \A i, j \in 1 .. Len(order) : i # j => order[i] # order[j]

DequeInv == Typed /\ LinkedOnce /\ Linked

-----------------------------------------------------------------------------
(* Updates of one field of one node.                                       *)

\* The nodes t after the assignment of v to the next pointer of node k of s.
AssignsNext(t, s, k, v) ==
  /\ s \in Seq(NodeRecords) /\ k \in 1 .. Len(s) /\ v \in Nat
  /\ t = [s EXCEPT ![k].next = v]

\* What that does to every node.
LEMMA NextAssigned ==
  ASSUME NEW s, NEW k, NEW v, NEW t, AssignsNext(t, s, k, v)
  PROVE  /\ t \in Seq(NodeRecords) /\ Len(t) = Len(s)
         /\ \A j \in 1 .. Len(s) :
              /\ t[j].data = s[j].data /\ t[j].prev = s[j].prev
              /\ t[j].next = IF j = k THEN v ELSE s[j].next
<1> USE DEF AssignsNext
<1> DEFINE r == [s[k] EXCEPT !.next = v]
<1>1. s[k] \in NodeRecords
  BY ElementOfSeq
<1>2. /\ r \in NodeRecords /\ r.data = s[k].data /\ r.prev = s[k].prev
      /\ r.next = v
  BY <1>1 DEF NodeRecords
<1> HIDE DEF r
<1>3. /\ [s EXCEPT ![k] = r] \in Seq(NodeRecords)
      /\ Len([s EXCEPT ![k] = r]) = Len(s)
      /\ \A j \in 1 .. Len(s) :
           [s EXCEPT ![k] = r][j] = IF j = k THEN r ELSE s[j]
  BY <1>2, ExceptSeq
<1>4. t = [s EXCEPT ![k] = r]
  BY DEF r
<1> QED
  BY <1>2, <1>3, <1>4

\* The same for the assignment of a prev pointer.
AssignsPrev(t, s, k, v) ==
  /\ s \in Seq(NodeRecords) /\ k \in 1 .. Len(s) /\ v \in Nat
  /\ t = [s EXCEPT ![k].prev = v]

LEMMA PrevAssigned ==
  ASSUME NEW s, NEW k, NEW v, NEW t, AssignsPrev(t, s, k, v)
  PROVE  /\ t \in Seq(NodeRecords) /\ Len(t) = Len(s)
         /\ \A j \in 1 .. Len(s) :
              /\ t[j].data = s[j].data /\ t[j].next = s[j].next
              /\ t[j].prev = IF j = k THEN v ELSE s[j].prev
<1> USE DEF AssignsPrev
<1> DEFINE r == [s[k] EXCEPT !.prev = v]
<1>1. s[k] \in NodeRecords
  BY ElementOfSeq
<1>2. /\ r \in NodeRecords /\ r.data = s[k].data /\ r.next = s[k].next
      /\ r.prev = v
  BY <1>1 DEF NodeRecords
<1> HIDE DEF r
<1>3. /\ [s EXCEPT ![k] = r] \in Seq(NodeRecords)
      /\ Len([s EXCEPT ![k] = r]) = Len(s)
      /\ \A j \in 1 .. Len(s) :
           [s EXCEPT ![k] = r][j] = IF j = k THEN r ELSE s[j]
  BY <1>2, ExceptSeq
<1>4. t = [s EXCEPT ![k] = r]
  BY DEF r
<1> QED
  BY <1>2, <1>3, <1>4

-----------------------------------------------------------------------------
(* The contents of the list.                                               *)

\* The contents are a sequence of data, one for each linked node.
ContentsOfOrder ==
  /\ Contents \in Seq(Data) /\ Len(Contents) = Len(order)
  /\ \A i \in 1 .. Len(order) : Contents[i] = node[order[i]].data
  /\ Contents = <<>> <=> order = <<>>

LEMMA ContentsElements == DequeInv => ContentsOfOrder
<1> SUFFICES ASSUME DequeInv PROVE ContentsOfOrder
  OBVIOUS
<1>1. Len(order) \in Nat
  BY LenProperties DEF DequeInv, Typed
<1>2. \A i \in 1 .. Len(order) : node[order[i]].data \in Data
  <2> SUFFICES ASSUME NEW i \in 1 .. Len(order)
               PROVE  node[order[i]].data \in Data
    OBVIOUS
  <2>1. node[order[i]] \in NodeRecords
    BY ElementOfSeq DEF DequeInv, Typed, LinkedOnce
  <2> QED
    BY <2>1 DEF NodeRecords
<1>3. Contents \in [1 .. Len(order) -> Data]
  BY <1>2 DEF Contents
<1>4. Contents \in Seq(Data)
  BY <1>1, <1>3, SeqDef
<1>5. Len(Contents) = Len(order)
  BY <1>1, <1>3, <1>4, LenProperties
<1>6. Contents = <<>> <=> order = <<>>
  BY <1>1, <1>4, <1>5, EmptySeq DEF DequeInv, Typed
<1> QED
  BY <1>4, <1>5, <1>6 DEF Contents, ContentsOfOrder

\* A step that appends or prepends a value, or drops the first or the last
\* one, is recognised by the values it leaves at each place.
LEMMA Recognise ==
  ASSUME NEW s \in Seq(Data), NEW t \in Seq(Data), NEW d \in Data
  PROVE  /\ (Len(t) = Len(s) + 1 /\ t[Len(s) + 1] = d
               /\ \A i \in 1 .. Len(s) : t[i] = s[i]) => t = Append(s, d)
         /\ (Len(t) = Len(s) + 1 /\ t[1] = d
               /\ \A i \in 1 .. Len(s) : t[i + 1] = s[i]) => t = <<d>> \o s
         /\ (s # <<>> /\ Len(t) = Len(s) - 1
               /\ \A i \in 1 .. Len(t) : t[i] = s[i])
               => t = SubSeq(s, 1, Len(s) - 1)
         /\ (s # <<>> /\ Len(t) = Len(s) - 1
               /\ \A i \in 1 .. Len(t) : t[i] = s[i + 1]) => t = Tail(s)
<1>1. Len(s) \in Nat /\ Len(t) \in Nat
  BY LenProperties
<1>2. ASSUME Len(t) = Len(s) + 1, t[Len(s) + 1] = d,
             \A i \in 1 .. Len(s) : t[i] = s[i]
      PROVE  t = Append(s, d)
  <2>1. /\ Append(s, d) \in Seq(Data) /\ Len(Append(s, d)) = Len(s) + 1
        /\ \A i \in 1 .. Len(s) : Append(s, d)[i] = s[i]
        /\ Append(s, d)[Len(s) + 1] = d
    BY AppendProperties
  <2>2. \A i \in 1 .. Len(t) : t[i] = Append(s, d)[i]
    BY <1>1, <1>2, <2>1
  <2> QED
    BY <1>2, <2>1, <2>2, SeqEqual
<1>3. ASSUME Len(t) = Len(s) + 1, t[1] = d,
             \A i \in 1 .. Len(s) : t[i + 1] = s[i]
      PROVE  t = <<d>> \o s
  <2>1. <<d>> \in Seq(Data) /\ Len(<<d>>) = 1 /\ <<d>>[1] = d
    OBVIOUS
  <2>2. /\ <<d>> \o s \in Seq(Data) /\ Len(<<d>> \o s) = Len(s) + 1
        /\ \A i \in 1 .. 1 + Len(s) :
             (<<d>> \o s)[i] = IF i <= 1 THEN <<d>>[i] ELSE s[i - 1]
    BY <1>1, <2>1, ConcatProperties
  <2>3. \A i \in 1 .. Len(t) : t[i] = (<<d>> \o s)[i]
    <3> SUFFICES ASSUME NEW i \in 1 .. Len(t)
                 PROVE  t[i] = (<<d>> \o s)[i]
      OBVIOUS
    <3>1. CASE i = 1
      BY <1>1, <1>3, <2>1, <2>2, <3>1
    <3>2. CASE i # 1
      <4>1. i - 1 \in 1 .. Len(s) /\ (i - 1) + 1 = i
        BY <1>1, <1>3, <3>2
      <4> QED
        BY <1>1, <1>3, <2>2, <4>1
    <3> QED
      BY <3>1, <3>2
  <2> QED
    BY <1>3, <2>2, <2>3, SeqEqual
<1>4. ASSUME s # <<>>, Len(t) = Len(s) - 1, \A i \in 1 .. Len(t) : t[i] = s[i]
      PROVE  t = SubSeq(s, 1, Len(s) - 1)
  <2> DEFINE u == SubSeq(s, 1, Len(s) - 1)
  <2>1. \A i \in 1 .. Len(s) - 1 : s[i] \in Data
    BY <1>1, ElementOfSeq
  <2>2. /\ u \in Seq(Data)
        /\ Len(u) = IF 1 <= Len(s) - 1 THEN (Len(s) - 1) - 1 + 1 ELSE 0
        /\ \A i \in 1 .. (Len(s) - 1) - 1 + 1 : u[i] = s[1 + i - 1]
    BY <1>1, <2>1, SubSeqProperties
  <2>3. Len(u) = Len(t)
    BY <1>1, <1>4, <2>2
  <2>4. \A i \in 1 .. Len(t) : t[i] = u[i]
    BY <1>1, <1>4, <2>2
  <2> QED
    BY <2>2, <2>3, <2>4, SeqEqual
<1>5. ASSUME s # <<>>, Len(t) = Len(s) - 1,
             \A i \in 1 .. Len(t) : t[i] = s[i + 1]
      PROVE  t = Tail(s)
  <2>1. /\ Tail(s) \in Seq(Data) /\ Len(Tail(s)) = Len(s) - 1
        /\ \A i \in 1 .. Len(Tail(s)) : Tail(s)[i] = s[i + 1]
    BY <1>5, HeadTailProperties
  <2> QED
    BY <1>5, <2>1, SeqEqual
<1> QED
  BY <1>2, <1>3, <1>4, <1>5

-----------------------------------------------------------------------------
(* What each method does, field by field and place by place.               *)

\* Numbers and references of a state that satisfies the invariant.
LEMMA Bounds ==
  ASSUME DequeInv
  PROVE  /\ Len(order) \in Nat /\ Len(node) \in Nat
         /\ head \in 0 .. Len(node) /\ tail \in 0 .. Len(node)
         /\ head = None <=> order = <<>>
         /\ tail = None <=> order = <<>>
         /\ order = <<>> <=> Len(order) = 0
         /\ size \in Nat
<1>1. Len(order) \in Nat /\ Len(node) \in Nat
  BY LenProperties DEF DequeInv, Typed
<1>2. order = <<>> <=> Len(order) = 0
  BY EmptySeq, <1>1 DEF DequeInv, Typed
<1>3. size \in Nat
  BY <1>1 DEF DequeInv, Linked
<1>4. CASE order = <<>>
  BY <1>1, <1>2, <1>3, <1>4 DEF DequeInv, Linked, None
<1>5. CASE order # <<>>
  <2>1. 1 \in 1 .. Len(order) /\ Len(order) \in 1 .. Len(order)
    BY <1>1, <1>2, <1>5
  <2>2. head \in 1 .. Len(node) /\ tail \in 1 .. Len(node)
    BY <1>5, <2>1 DEF DequeInv, LinkedOnce, Linked
  <2> QED
    BY <1>1, <1>2, <1>3, <1>5, <2>2 DEF None
<1> QED
  BY <1>4, <1>5

\* The fields of the nodes after each method: one node gets a new pointer,
\* if there is one to change, and push and unshift create a node.
LEMMA PushNodes ==
  ASSUME DequeInv, NEW d \in Data, Push(d)
  PROVE  /\ node' \in Seq(NodeRecords) /\ Len(node') = Len(node) + 1
         /\ \A k \in 1 .. Len(node) :
              /\ node'[k].data = node[k].data /\ node'[k].prev = node[k].prev
              /\ node'[k].next = IF k = tail THEN Len(node) + 1 ELSE node[k].next
         /\ node'[Len(node) + 1] = NewNode(d, None, tail)
<1> DEFINE n == Len(node) + 1
           new == NewNode(d, None, tail)
<1>1. node \in Seq(NodeRecords) /\ Len(node) \in Nat /\ tail \in 0 .. Len(node)
  BY Bounds DEF DequeInv, Typed
<1>2. new \in NodeRecords
  BY <1>1 DEF NodeRecords, NewNode, None
<1> HIDE DEF new
<1>3. CASE tail = None
  <2>1. node' = Append(node, new)
    BY <1>3 DEF Push, new
  <2> QED
    BY <1>1, <1>2, <1>3, <2>1, AppendProperties DEF None, new
<1>4. CASE tail # None
  <2> DEFINE linked == [node EXCEPT ![tail].next = n]
  <2>1. tail \in 1 .. Len(node) /\ n \in Nat
    BY <1>1, <1>4 DEF None
  <2>2. /\ linked \in Seq(NodeRecords) /\ Len(linked) = Len(node)
        /\ \A j \in 1 .. Len(node) :
             /\ linked[j].data = node[j].data /\ linked[j].prev = node[j].prev
             /\ linked[j].next = IF j = tail THEN n ELSE node[j].next
    <3>1. PICK s, k, v, t : s = node /\ k = tail /\ v = n /\ t = linked
      OBVIOUS
    <3>2. t = [s EXCEPT ![k].next = v]
      BY <3>1
    <3> HIDE DEF linked, n
    <3>3. s \in Seq(NodeRecords) /\ k \in 1 .. Len(s) /\ v \in Nat
      BY ONLY <1>1, <2>1, <3>1
    <3>4. /\ t \in Seq(NodeRecords) /\ Len(t) = Len(s)
          /\ \A j \in 1 .. Len(s) :
               /\ t[j].data = s[j].data /\ t[j].prev = s[j].prev
               /\ t[j].next = IF j = k THEN v ELSE s[j].next
      <4>1. AssignsNext(t, s, k, v)
        BY ONLY <3>2, <3>3 DEF AssignsNext
      <4> QED
        BY ONLY <4>1, NextAssigned
    <3> QED
      BY ONLY <3>1, <3>4
  <2>3. node' = Append(linked, new)
    BY <1>4 DEF Push, new
  <2> HIDE DEF linked
  <2>4. /\ Append(linked, new) \in Seq(NodeRecords)
        /\ Len(Append(linked, new)) = Len(linked) + 1
        /\ \A j \in 1 .. Len(linked) : Append(linked, new)[j] = linked[j]
        /\ Append(linked, new)[Len(linked) + 1] = new
    BY <1>2, <2>2, AppendProperties
  <2>5. node' \in Seq(NodeRecords) /\ Len(node') = Len(node) + 1
    BY <2>2, <2>3, <2>4
  <2>6. \A j \in 1 .. Len(node) : node'[j] = linked[j]
    BY <2>2, <2>3, <2>4
  <2>7. node'[Len(node) + 1] = new
    BY <2>2, <2>3, <2>4
  <2> QED
    BY <2>2, <2>5, <2>6, <2>7 DEF new
<1> QED
  BY <1>3, <1>4

LEMMA UnshiftNodes ==
  ASSUME DequeInv, NEW d \in Data, Unshift(d)
  PROVE  /\ node' \in Seq(NodeRecords) /\ Len(node') = Len(node) + 1
         /\ \A k \in 1 .. Len(node) :
              /\ node'[k].data = node[k].data /\ node'[k].next = node[k].next
              /\ node'[k].prev = IF k = head THEN Len(node) + 1 ELSE node[k].prev
         /\ node'[Len(node) + 1] = NewNode(d, head, None)
<1> DEFINE n == Len(node) + 1
           new == NewNode(d, head, None)
<1>1. node \in Seq(NodeRecords) /\ Len(node) \in Nat /\ head \in 0 .. Len(node)
  BY Bounds DEF DequeInv, Typed
<1>2. new \in NodeRecords
  BY <1>1 DEF NodeRecords, NewNode, None
<1> HIDE DEF new
<1>3. CASE head = None
  <2>1. node' = Append(node, new)
    BY <1>3 DEF Unshift, new
  <2> QED
    BY <1>1, <1>2, <1>3, <2>1, AppendProperties DEF None, new
<1>4. CASE head # None
  <2> DEFINE linked == [node EXCEPT ![head].prev = n]
  <2>1. head \in 1 .. Len(node) /\ n \in Nat
    BY <1>1, <1>4 DEF None
  <2>2. /\ linked \in Seq(NodeRecords) /\ Len(linked) = Len(node)
        /\ \A j \in 1 .. Len(node) :
             /\ linked[j].data = node[j].data /\ linked[j].next = node[j].next
             /\ linked[j].prev = IF j = head THEN n ELSE node[j].prev
    <3>1. PICK s, k, v, t : s = node /\ k = head /\ v = n /\ t = linked
      OBVIOUS
    <3>2. t = [s EXCEPT ![k].prev = v]
      BY <3>1
    <3> HIDE DEF linked, n
    <3>3. s \in Seq(NodeRecords) /\ k \in 1 .. Len(s) /\ v \in Nat
      BY ONLY <1>1, <2>1, <3>1
    <3>4. /\ t \in Seq(NodeRecords) /\ Len(t) = Len(s)
          /\ \A j \in 1 .. Len(s) :
               /\ t[j].data = s[j].data /\ t[j].next = s[j].next
               /\ t[j].prev = IF j = k THEN v ELSE s[j].prev
      <4>1. AssignsPrev(t, s, k, v)
        BY ONLY <3>2, <3>3 DEF AssignsPrev
      <4> QED
        BY ONLY <4>1, PrevAssigned
    <3> QED
      BY ONLY <3>1, <3>4
  <2>3. node' = Append(linked, new)
    BY <1>4 DEF Unshift, new
  <2> HIDE DEF linked
  <2>4. /\ Append(linked, new) \in Seq(NodeRecords)
        /\ Len(Append(linked, new)) = Len(linked) + 1
        /\ \A j \in 1 .. Len(linked) : Append(linked, new)[j] = linked[j]
        /\ Append(linked, new)[Len(linked) + 1] = new
    BY <1>2, <2>2, AppendProperties
  <2>5. node' \in Seq(NodeRecords) /\ Len(node') = Len(node) + 1
    BY <2>2, <2>3, <2>4
  <2>6. \A j \in 1 .. Len(node) : node'[j] = linked[j]
    BY <2>2, <2>3, <2>4
  <2>7. node'[Len(node) + 1] = new
    BY <2>2, <2>3, <2>4
  <2> QED
    BY <2>2, <2>5, <2>6, <2>7 DEF new
<1> QED
  BY <1>3, <1>4

LEMMA PopNodes ==
  ASSUME DequeInv, Pop
  PROVE  /\ node' \in Seq(NodeRecords) /\ Len(node') = Len(node)
         /\ node[tail].prev \in 0 .. Len(node)
         /\ \A k \in 1 .. Len(node) :
              /\ node'[k].data = node[k].data /\ node'[k].prev = node[k].prev
              /\ node'[k].next = IF k = node[tail].prev THEN None
                                                         ELSE node[k].next
<1>1. /\ node \in Seq(NodeRecords) /\ Len(node) \in Nat
      /\ Len(order) \in Nat \ {0} /\ tail = order[Len(order)]
  BY Bounds DEF DequeInv, Typed, Linked, Pop
<1>2. node[tail].prev \in 0 .. Len(node)
  BY <1>1 DEF DequeInv, LinkedOnce, Linked, None
<1>3. CASE node[tail].prev = None
  BY <1>1, <1>2, <1>3 DEF Pop, None
<1>4. CASE node[tail].prev # None
  <2>1. node[tail].prev \in 1 .. Len(node) /\ None \in Nat
    BY <1>2, <1>4 DEF None
  <2>2. node' = [node EXCEPT ![node[tail].prev].next = None]
    BY <1>4 DEF Pop
  <2>3. AssignsNext(node', node, node[tail].prev, None)
    BY <1>1, <2>1, <2>2 DEF AssignsNext
  <2>4. /\ node' \in Seq(NodeRecords) /\ Len(node') = Len(node)
        /\ \A j \in 1 .. Len(node) :
             /\ node'[j].data = node[j].data /\ node'[j].prev = node[j].prev
             /\ node'[j].next = IF j = node[tail].prev THEN None ELSE node[j].next
    BY ONLY <2>3, NextAssigned
  <2> QED
    BY <1>2, <2>4
<1> QED
  BY <1>3, <1>4

LEMMA ShiftNodes ==
  ASSUME DequeInv, Shift
  PROVE  /\ node' \in Seq(NodeRecords) /\ Len(node') = Len(node)
         /\ node[head].next \in 0 .. Len(node)
         /\ \A k \in 1 .. Len(node) :
              /\ node'[k].data = node[k].data /\ node'[k].next = node[k].next
              /\ node'[k].prev = IF k = node[head].next THEN None
                                                         ELSE node[k].prev
<1>1. /\ node \in Seq(NodeRecords) /\ Len(node) \in Nat
      /\ Len(order) \in Nat \ {0} /\ head = order[1]
  BY Bounds DEF DequeInv, Typed, Linked, Shift
<1>2. node[head].next \in 0 .. Len(node)
  BY <1>1 DEF DequeInv, LinkedOnce, Linked, None
<1>3. CASE node[head].next = None
  BY <1>1, <1>2, <1>3 DEF Shift, None
<1>4. CASE node[head].next # None
  <2>1. node[head].next \in 1 .. Len(node) /\ None \in Nat
    BY <1>2, <1>4 DEF None
  <2>2. node' = [node EXCEPT ![node[head].next].prev = None]
    BY <1>4 DEF Shift
  <2>3. AssignsPrev(node', node, node[head].next, None)
    BY <1>1, <2>1, <2>2 DEF AssignsPrev
  <2>4. /\ node' \in Seq(NodeRecords) /\ Len(node') = Len(node)
        /\ \A j \in 1 .. Len(node) :
             /\ node'[j].data = node[j].data /\ node'[j].next = node[j].next
             /\ node'[j].prev = IF j = node[head].next THEN None ELSE node[j].prev
    BY ONLY <2>3, PrevAssigned
  <2> QED
    BY <1>2, <2>4
<1> QED
  BY <1>3, <1>4

\* The order of the nodes after each method, place by place.
LEMMA Orders ==
  ASSUME DequeInv, NEW n \in Nat
  PROVE  /\ /\ Append(order, n) \in Seq(Nat)
            /\ Len(Append(order, n)) = Len(order) + 1
            /\ \A i \in 1 .. Len(order) : Append(order, n)[i] = order[i]
            /\ Append(order, n)[Len(order) + 1] = n
         /\ /\ <<n>> \o order \in Seq(Nat)
            /\ Len(<<n>> \o order) = Len(order) + 1
            /\ \A i \in 2 .. Len(order) + 1 : (<<n>> \o order)[i] = order[i - 1]
            /\ (<<n>> \o order)[1] = n
         /\ order # <<>> =>
              /\ SubSeq(order, 1, Len(order) - 1) \in Seq(Nat)
              /\ Len(SubSeq(order, 1, Len(order) - 1)) = Len(order) - 1
              /\ \A i \in 1 .. Len(order) - 1 :
                   SubSeq(order, 1, Len(order) - 1)[i] = order[i]
         /\ order # <<>> =>
              /\ Tail(order) \in Seq(Nat)
              /\ Len(Tail(order)) = Len(order) - 1
              /\ \A i \in 1 .. Len(order) - 1 : Tail(order)[i] = order[i + 1]
<1>1. order \in Seq(Nat) /\ Len(order) \in Nat
  BY Bounds DEF DequeInv, Typed
<1>2. /\ Append(order, n) \in Seq(Nat)
      /\ Len(Append(order, n)) = Len(order) + 1
      /\ \A i \in 1 .. Len(order) : Append(order, n)[i] = order[i]
      /\ Append(order, n)[Len(order) + 1] = n
  BY <1>1, AppendProperties
<1>3. /\ <<n>> \o order \in Seq(Nat)
      /\ Len(<<n>> \o order) = Len(order) + 1
      /\ \A i \in 1 .. 1 + Len(order) :
           (<<n>> \o order)[i] = IF i <= 1 THEN <<n>>[i] ELSE order[i - 1]
  <2>1. <<n>> \in Seq(Nat) /\ Len(<<n>>) = 1
    OBVIOUS
  <2> QED
    BY <1>1, <2>1, ConcatProperties
<1>4. ASSUME order # <<>>
      PROVE  /\ SubSeq(order, 1, Len(order) - 1) \in Seq(Nat)
             /\ Len(SubSeq(order, 1, Len(order) - 1)) = Len(order) - 1
             /\ \A i \in 1 .. Len(order) - 1 :
                  SubSeq(order, 1, Len(order) - 1)[i] = order[i]
  <2> DEFINE u == SubSeq(order, 1, Len(order) - 1)
  <2>1. Len(order) \in Nat /\ Len(order) >= 1 /\ Len(order) - 1 \in Nat
    <3>1. Len(order) \in Nat /\ Len(order) # 0
      BY <1>4, Bounds
    <3> QED
      BY <3>1
  <2>2. \A i \in 1 .. Len(order) - 1 : order[i] \in Nat
    BY <1>1, ElementOfSeq
  <2>3. /\ u \in Seq(Nat)
        /\ Len(u) = IF 1 <= Len(order) - 1 THEN (Len(order) - 1) - 1 + 1 ELSE 0
        /\ \A i \in 1 .. (Len(order) - 1) - 1 + 1 : u[i] = order[1 + i - 1]
    BY <2>1, <2>2, SubSeqProperties
  <2>4. Len(u) = Len(order) - 1
    BY <2>1, <2>3
  <2>5. \A i \in 1 .. Len(order) - 1 : u[i] = order[i]
    BY <2>1, <2>3
  <2> HIDE DEF u
  <2>6. u \in Seq(Nat) /\ Len(u) = Len(order) - 1
          /\ \A i \in 1 .. Len(order) - 1 : u[i] = order[i]
    BY <2>3, <2>4, <2>5
  <2> QED
    BY <2>6 DEF u
<1>5. ASSUME order # <<>>
      PROVE  /\ Tail(order) \in Seq(Nat)
             /\ Len(Tail(order)) = Len(order) - 1
             /\ \A i \in 1 .. Len(order) - 1 : Tail(order)[i] = order[i + 1]
  BY <1>1, <1>5, HeadTailProperties
<1>6. (<<n>> \o order)[1] = n
  BY <1>1, <1>3
<1> QED
  BY <1>1, <1>2, <1>3, <1>4, <1>5, <1>6

\* What a linked place looks like, in the form the preservation steps need.
LEMMA Places ==
  ASSUME DequeInv, NEW i \in 1 .. Len(order)
  PROVE  /\ order[i] \in 1 .. Len(node)
         /\ node[order[i]].next = IF i = Len(order) THEN None ELSE order[i + 1]
         /\ node[order[i]].prev = IF i = 1 THEN None ELSE order[i - 1]
         /\ order[i] = head <=> i = 1
         /\ order[i] = tail <=> i = Len(order)
<1>1. Len(order) \in Nat /\ 1 \in 1 .. Len(order) /\ Len(order) \in 1 .. Len(order)
  BY Bounds
<1>2. head = order[1] /\ tail = order[Len(order)]
  BY <1>1, Bounds DEF DequeInv, Linked
<1>3. order[i] = head <=> i = 1
  BY <1>1, <1>2 DEF DequeInv, LinkedOnce
<1>4. order[i] = tail <=> i = Len(order)
  BY <1>1, <1>2 DEF DequeInv, LinkedOnce
<1>5. order[i] \in 1 .. Len(node)
  BY DEF DequeInv, LinkedOnce
<1>6. /\ node[order[i]].next = IF i = Len(order) THEN None ELSE order[i + 1]
      /\ node[order[i]].prev = IF i = 1 THEN None ELSE order[i - 1]
  BY DEF DequeInv, Linked
<1> QED
  BY <1>3, <1>4, <1>5, <1>6

-----------------------------------------------------------------------------
(* The invariant is inductive.                                             *)

\* What has to be shown of a state, with its order described place by place.
LEMMA Relinked ==
  ASSUME NEW L \in Nat, order' \in Seq(Nat), Len(order') = L, size' = L,
         node' \in Seq(NodeRecords), maxSize' \in Nat,
         L = 0 => head' = None /\ tail' = None,
         L # 0 => head' = order'[1] /\ tail' = order'[L],
         \A i \in 1 .. L : order'[i] \in 1 .. Len(node'),
         \A i, j \in 1 .. L : i # j => order'[i] # order'[j],
         \A i \in 1 .. L :
           node'[order'[i]].next = IF i = L THEN None ELSE order'[i + 1],
         \A i \in 1 .. L :
           node'[order'[i]].prev = IF i = 1 THEN None ELSE order'[i - 1]
  PROVE  DequeInv'
<1>1. order' = <<>> <=> L = 0
  BY EmptySeq
<1>2. Typed'
  BY DEF Typed
<1>3. LinkedOnce'
  BY DEF LinkedOnce
<1>4. Linked'
  BY <1>1 DEF Linked
<1> QED
  BY <1>2, <1>3, <1>4 DEF DequeInv

LEMMA PushKeepsInv ==
  ASSUME DequeInv, NEW d \in Data, Push(d)
  PROVE  DequeInv'
<1> DEFINE N == Len(node)
           L == Len(order)
           n == N + 1
<1>1. /\ N \in Nat /\ L \in Nat /\ size = L /\ maxSize \in Nat
      /\ order = <<>> <=> L = 0
      /\ head = None <=> L = 0
      /\ tail = None <=> L = 0
  BY Bounds DEF DequeInv, Typed, Linked
<1>2. /\ order' \in Seq(Nat) /\ Len(order') = L + 1
      /\ \A i \in 1 .. L : order'[i] = order[i]
      /\ order'[L + 1] = n
  <2>1. n \in Nat /\ order' = Append(order, n)
    BY <1>1 DEF Push
  <2> QED
    BY <2>1, Orders, Zenon
<1>3. /\ node' \in Seq(NodeRecords) /\ Len(node') = n
      /\ \A k \in 1 .. N :
           /\ node'[k].prev = node[k].prev
           /\ node'[k].next = IF k = tail THEN n ELSE node[k].next
      /\ node'[n].next = None /\ node'[n].prev = tail
  <2>1. NewNode(d, None, tail).next = None /\ NewNode(d, None, tail).prev = tail
    BY DEF NewNode
  <2> QED
    BY <2>1, PushNodes, Zenon
<1>4. \A i \in 1 .. L :
        /\ order[i] \in 1 .. N
        /\ node[order[i]].next = IF i = L THEN None ELSE order[i + 1]
        /\ node[order[i]].prev = IF i = 1 THEN None ELSE order[i - 1]
        /\ order[i] = tail <=> i = L
  BY Places
<1>5. size' = L + 1 /\ maxSize' \in Nat /\ tail' = n
  BY <1>1 DEF Push, IncrementSize
<1>6. head' = order'[1]
  <2>1. CASE L = 0
    BY <1>1, <1>2, <2>1 DEF Push
  <2>2. CASE L # 0
    BY <1>1, <1>2, <2>2 DEF Push, DequeInv, Linked
  <2> QED
    BY <2>1, <2>2
<1>7. L # 0 => tail = order[L]
  BY <1>1 DEF DequeInv, Linked
<1>8. L = 0 => tail = None
  BY <1>1
<1>9. \A i, j \in 1 .. L : i # j => order[i] # order[j]
  BY DEF DequeInv, LinkedOnce
<1> HIDE DEF N, L
<1>10. \A i \in 1 .. L + 1 : order'[i] \in 1 .. n
  BY <1>1, <1>2, <1>4
<1>11. \A i, j \in 1 .. L + 1 : i # j => order'[i] # order'[j]
  <2> SUFFICES ASSUME NEW i \in 1 .. L + 1, NEW j \in 1 .. L + 1, i < j
               PROVE  order'[i] # order'[j]
    BY <1>1
  <2>1. i \in 1 .. L /\ order'[i] = order[i] /\ order[i] \in 1 .. N
    BY <1>1, <1>2, <1>4
  <2>2. CASE j = L + 1
    BY <1>1, <1>2, <2>1, <2>2
  <2>3. CASE j # L + 1
    <3>1. j \in 1 .. L
      BY <1>1, <2>3
    <3> QED
      BY <1>2, <1>9, <2>1, <3>1
  <2> QED
    BY <2>2, <2>3
<1>12. \A i \in 1 .. L + 1 :
         /\ node'[order'[i]].next = IF i = L + 1 THEN None ELSE order'[i + 1]
         /\ node'[order'[i]].prev = IF i = 1 THEN None ELSE order'[i - 1]
  <2> SUFFICES ASSUME NEW i \in 1 .. L + 1
               PROVE  /\ node'[order'[i]].next = IF i = L + 1 THEN None ELSE order'[i + 1]
                      /\ node'[order'[i]].prev = IF i = 1 THEN None ELSE order'[i - 1]
    OBVIOUS
  <2>1. CASE i = L + 1
    <3>1. order'[i] = n
      BY <1>2, <2>1
    <3>2. i # 1 => i - 1 = L /\ L \in 1 .. L /\ order'[i - 1] = order[L]
      BY <1>1, <1>2, <2>1
    <3>3. i = 1 => L = 0
      BY <1>1, <2>1
    <3> QED
      BY <1>1, <1>3, <1>7, <1>8, <2>1, <3>1, <3>2, <3>3
  <2>2. CASE i # L + 1
    <3>1. i \in 1 .. L /\ order'[i] = order[i] /\ order[i] \in 1 .. N
      BY <1>1, <1>2, <1>4, <2>2
    <3>2. node'[order[i]].prev = node[order[i]].prev
      BY <1>3, <3>1
    <3>3. i # 1 => i - 1 \in 1 .. L /\ order'[i - 1] = order[i - 1]
      BY <1>1, <1>2, <3>1
    <3>4. node'[order[i]].next = IF i = L THEN n ELSE node[order[i]].next
      BY <1>3, <1>4, <3>1
    <3>5. i # L => i + 1 \in 1 .. L /\ order'[i + 1] = order[i + 1]
      BY <1>1, <1>2, <3>1
    <3>6. i = L => order'[i + 1] = n
      BY <1>2
    <3> QED
      BY <1>4, <2>2, <3>1, <3>2, <3>3, <3>4, <3>5, <3>6
  <2> QED
    BY <2>1, <2>2
<1>13. L + 1 \in Nat /\ L + 1 # 0
  BY <1>1
<1> QED
  BY <1>2, <1>3, <1>5, <1>6, <1>10, <1>11, <1>12, <1>13, Relinked

LEMMA UnshiftKeepsInv ==
  ASSUME DequeInv, NEW d \in Data, Unshift(d)
  PROVE  DequeInv'
<1> DEFINE N == Len(node)
           L == Len(order)
           n == N + 1
<1>1. /\ N \in Nat /\ L \in Nat /\ size = L /\ maxSize \in Nat
      /\ order = <<>> <=> L = 0
      /\ head = None <=> L = 0
      /\ tail = None <=> L = 0
  BY Bounds DEF DequeInv, Typed, Linked
<1>2. /\ order' \in Seq(Nat) /\ Len(order') = L + 1
      /\ \A i \in 2 .. L + 1 : order'[i] = order[i - 1]
      /\ order'[1] = n
  <2>1. n \in Nat /\ order' = <<n>> \o order
    BY <1>1 DEF Unshift
  <2> QED
    BY <2>1, Orders, Zenon
<1>3. /\ node' \in Seq(NodeRecords) /\ Len(node') = n
      /\ \A k \in 1 .. N :
           /\ node'[k].next = node[k].next
           /\ node'[k].prev = IF k = head THEN n ELSE node[k].prev
      /\ node'[n].prev = None /\ node'[n].next = head
  <2>1. NewNode(d, head, None).next = head /\ NewNode(d, head, None).prev = None
    BY DEF NewNode
  <2> QED
    BY <2>1, UnshiftNodes, Zenon
<1>4. \A i \in 1 .. L :
        /\ order[i] \in 1 .. N
        /\ node[order[i]].next = IF i = L THEN None ELSE order[i + 1]
        /\ node[order[i]].prev = IF i = 1 THEN None ELSE order[i - 1]
        /\ order[i] = head <=> i = 1
  BY Places
<1>5. size' = L + 1 /\ maxSize' \in Nat /\ head' = n
  BY <1>1 DEF Unshift, IncrementSize
<1>6. tail' = order'[L + 1]
  <2>1. CASE L = 0
    BY <1>1, <1>2, <2>1 DEF Unshift
  <2>2. CASE L # 0
    <3>1. tail' = order[L]
      BY <1>1, <2>2 DEF Unshift, DequeInv, Linked
    <3>2. L + 1 \in 2 .. L + 1 /\ (L + 1) - 1 = L
      BY <1>1, <2>2
    <3> QED
      BY <1>2, <3>1, <3>2
  <2> QED
    BY <2>1, <2>2
<1>7. L # 0 => head = order[1]
  BY <1>1 DEF DequeInv, Linked
<1>8. L = 0 => head = None
  BY <1>1
<1>9. \A i, j \in 1 .. L : i # j => order[i] # order[j]
  BY DEF DequeInv, LinkedOnce
<1> HIDE DEF N, L
<1>10. \A i \in 2 .. L + 1 : i - 1 \in 1 .. L /\ order'[i] \in 1 .. N
  <2> SUFFICES ASSUME NEW i \in 2 .. L + 1
               PROVE  i - 1 \in 1 .. L /\ order'[i] \in 1 .. N
    OBVIOUS
  <2>1. i - 1 \in 1 .. L
    BY <1>1
  <2> QED
    BY <1>2, <1>4, <2>1
<1>11. \A i \in 1 .. L + 1 : order'[i] \in 1 .. n
  BY <1>1, <1>2, <1>10
<1>12. \A i, j \in 1 .. L + 1 : i # j => order'[i] # order'[j]
  <2> SUFFICES ASSUME NEW i \in 1 .. L + 1, NEW j \in 1 .. L + 1, i < j
               PROVE  order'[i] # order'[j]
    BY <1>1
  <2>1. j \in 2 .. L + 1 /\ order'[j] = order[j - 1] /\ order'[j] \in 1 .. N
    BY <1>1, <1>2, <1>10
  <2>2. CASE i = 1
    BY <1>1, <1>2, <2>1, <2>2
  <2>3. CASE i # 1
    <3>1. i \in 2 .. L + 1 /\ order'[i] = order[i - 1]
      BY <1>1, <1>2, <2>3
    <3>2. i - 1 \in 1 .. L /\ j - 1 \in 1 .. L /\ i - 1 # j - 1
      BY <1>1, <2>1, <3>1
    <3> QED
      BY <1>9, <2>1, <3>1, <3>2
  <2> QED
    BY <2>2, <2>3
<1>13. \A i \in 1 .. L + 1 :
         /\ node'[order'[i]].next = IF i = L + 1 THEN None ELSE order'[i + 1]
         /\ node'[order'[i]].prev = IF i = 1 THEN None ELSE order'[i - 1]
  <2> SUFFICES ASSUME NEW i \in 1 .. L + 1
               PROVE  /\ node'[order'[i]].next = IF i = L + 1 THEN None ELSE order'[i + 1]
                      /\ node'[order'[i]].prev = IF i = 1 THEN None ELSE order'[i - 1]
    OBVIOUS
  <2>1. CASE i = 1
    <3>1. order'[i] = n
      BY <1>2, <2>1
    <3>2. i # L + 1 => i + 1 \in 2 .. L + 1 /\ order'[i + 1] = order[1]
      BY <1>1, <1>2, <2>1
    <3>3. i = L + 1 <=> L = 0
      BY <1>1, <2>1
    <3> QED
      BY <1>3, <1>7, <1>8, <2>1, <3>1, <3>2, <3>3
  <2>2. CASE i # 1
    <3> DEFINE p == i - 1
    <3>1. i \in 2 .. L + 1 /\ p \in 1 .. L /\ p + 1 = i
      BY <1>1, <2>2
    <3>2. order'[i] = order[p] /\ order[p] \in 1 .. N
      BY <1>2, <1>4, <3>1
    <3>3. i # L + 1 => p # L /\ i + 1 \in 2 .. L + 1 /\ order'[i + 1] = order[p + 1]
      BY <1>1, <1>2, <3>1
    <3>4. i = L + 1 => p = L
      BY <1>1, <3>1
    <3>5. node'[order[p]].next = node[order[p]].next
      BY <1>3, <3>2
    <3>6. node'[order[p]].prev = IF p = 1 THEN n ELSE node[order[p]].prev
      BY <1>3, <1>4, <3>1, <3>2
    <3>7. p = 1 => order'[i - 1] = n
      BY <1>2
    <3>8. p # 1 => order'[i - 1] = order[p - 1]
      <4>1. p # 1 => p \in 2 .. L + 1
        BY <1>1, <3>1
      <4> QED
        BY <1>2, <4>1
    <3>9. /\ node[order[p]].next = IF p = L THEN None ELSE order[p + 1]
          /\ node[order[p]].prev = IF p = 1 THEN None ELSE order[p - 1]
      BY <1>4, <3>1
    <3> HIDE DEF p
    <3> QED
      BY <2>2, <3>2, <3>3, <3>4, <3>5, <3>6, <3>7, <3>8, <3>9
  <2> QED
    BY <2>1, <2>2
<1>14. L + 1 \in Nat /\ L + 1 # 0
  BY <1>1
<1> QED
  BY <1>2, <1>3, <1>5, <1>6, <1>11, <1>12, <1>13, <1>14, Relinked

LEMMA PopKeepsInv ==
  ASSUME DequeInv, Pop
  PROVE  DequeInv'
<1> DEFINE N == Len(node)
           L == Len(order)
           M == L - 1
<1>1. /\ N \in Nat /\ L \in Nat /\ L # 0 /\ size = L /\ maxSize \in Nat
      /\ head = order[1] /\ tail = order[L]
  <2>1. order # <<>> /\ N \in Nat /\ L \in Nat /\ L # 0
    BY Bounds DEF Pop
  <2> QED
    BY <2>1 DEF DequeInv, Typed, Linked
<1>2. M \in Nat /\ L = M + 1 /\ L \in 1 .. L
  BY <1>1
<1>3. /\ order' \in Seq(Nat) /\ Len(order') = M
      /\ \A i \in 1 .. M : order'[i] = order[i]
  <2>1. order # <<>> /\ 0 \in Nat /\ order' = SubSeq(order, 1, Len(order) - 1)
    BY <1>1, Bounds DEF Pop
  <2> QED
    BY <2>1, Orders, Zenon
<1>4. \A i \in 1 .. L :
        /\ order[i] \in 1 .. N
        /\ node[order[i]].next = IF i = L THEN None ELSE order[i + 1]
        /\ node[order[i]].prev = IF i = 1 THEN None ELSE order[i - 1]
  BY Places
<1>5. /\ node' \in Seq(NodeRecords) /\ Len(node') = N
      /\ \A k \in 1 .. N :
           /\ node'[k].prev = node[k].prev
           /\ node'[k].next = IF k = node[tail].prev THEN None ELSE node[k].next
  BY PopNodes, Zenon
<1>6. size' = M /\ maxSize' \in Nat /\ tail' = node[tail].prev
  BY <1>1 DEF Pop
<1>7. \A i, j \in 1 .. L : i # j => order[i] # order[j]
  BY DEF DequeInv, LinkedOnce
<1>8. head' = IF node[tail].prev = None THEN None ELSE head
  BY DEF Pop
<1> HIDE DEF N, L, M
<1>9. 1 .. M \subseteq 1 .. L
  BY <1>2
<1>10. M = 0 => node[tail].prev = None
  BY <1>1, <1>2, <1>4
<1>11. M # 0 => node[tail].prev = order[M] /\ M \in 1 .. L /\ order[M] # None
  BY <1>1, <1>2, <1>4 DEF None
<1>12. M = 0 => head' = None /\ tail' = None
  BY <1>6, <1>8, <1>10
<1>13. M # 0 => head' = order'[1] /\ tail' = order'[M]
  BY <1>1, <1>2, <1>3, <1>6, <1>8, <1>11
<1>14. \A i \in 1 .. M : order'[i] \in 1 .. N
  BY <1>3, <1>4, <1>9
<1>15. \A i, j \in 1 .. M : i # j => order'[i] # order'[j]
  BY <1>3, <1>7, <1>9
<1>16. \A i \in 1 .. M :
         /\ node'[order'[i]].next = IF i = M THEN None ELSE order'[i + 1]
         /\ node'[order'[i]].prev = IF i = 1 THEN None ELSE order'[i - 1]
  <2> SUFFICES ASSUME NEW i \in 1 .. M
               PROVE  /\ node'[order'[i]].next = IF i = M THEN None ELSE order'[i + 1]
                      /\ node'[order'[i]].prev = IF i = 1 THEN None ELSE order'[i - 1]
    OBVIOUS
  <2>1. i \in 1 .. L /\ i # L /\ order'[i] = order[i] /\ order[i] \in 1 .. N
    BY <1>2, <1>3, <1>4
  <2>2. order[i] = order[M] <=> i = M
    BY <1>2, <1>7, <1>9, <2>1
  <2>3. node[tail].prev = order[M]
    BY <1>2, <1>11
  <2>4. i # M => i + 1 \in 1 .. M /\ order'[i + 1] = order[i + 1]
    BY <1>2, <1>3
  <2>5. i # 1 => i - 1 \in 1 .. M /\ order'[i - 1] = order[i - 1]
    BY <1>2, <1>3
  <2>6. /\ node[order[i]].next = order[i + 1]
        /\ node[order[i]].prev = IF i = 1 THEN None ELSE order[i - 1]
    BY <1>4, <2>1
  <2>7. /\ node'[order[i]].prev = node[order[i]].prev
        /\ node'[order[i]].next = IF i = M THEN None ELSE node[order[i]].next
    BY <1>5, <2>1, <2>2, <2>3
  <2> QED
    BY <2>1, <2>4, <2>5, <2>6, <2>7
<1>17. M \in Nat /\ order' \in Seq(Nat) /\ Len(order') = M /\ size' = M
       /\ node' \in Seq(NodeRecords) /\ maxSize' \in Nat
  BY ONLY <1>2, <1>3, <1>5, <1>6
<1>18. \A i \in 1 .. M : order'[i] \in 1 .. Len(node')
  BY ONLY <1>5, <1>14
<1>19. \A i \in 1 .. M :
         node'[order'[i]].next = IF i = M THEN None ELSE order'[i + 1]
  BY ONLY <1>16
<1>20. \A i \in 1 .. M :
         node'[order'[i]].prev = IF i = 1 THEN None ELSE order'[i - 1]
  BY ONLY <1>16
<1> QED
  BY ONLY <1>12, <1>13, <1>15, <1>17, <1>18, <1>19, <1>20, Relinked

LEMMA ShiftKeepsInv ==
  ASSUME DequeInv, Shift
  PROVE  DequeInv'
<1> DEFINE N == Len(node)
           L == Len(order)
           M == L - 1
<1>1. /\ N \in Nat /\ L \in Nat /\ L # 0 /\ size = L /\ maxSize \in Nat
      /\ head = order[1] /\ tail = order[L]
  <2>1. order # <<>> /\ N \in Nat /\ L \in Nat /\ L # 0
    BY Bounds DEF Shift
  <2> QED
    BY <2>1 DEF DequeInv, Typed, Linked
<1>2. M \in Nat /\ L = M + 1 /\ L \in 1 .. L /\ 1 \in 1 .. L
  BY <1>1
<1>3. /\ order' \in Seq(Nat) /\ Len(order') = M
      /\ \A i \in 1 .. M : order'[i] = order[i + 1]
  <2>1. order # <<>> /\ 0 \in Nat /\ order' = Tail(order)
    BY <1>1, Bounds DEF Shift
  <2> QED
    BY <2>1, Orders, Zenon
<1>4. \A i \in 1 .. L :
        /\ order[i] \in 1 .. N
        /\ node[order[i]].next = IF i = L THEN None ELSE order[i + 1]
        /\ node[order[i]].prev = IF i = 1 THEN None ELSE order[i - 1]
  BY Places
<1>5. /\ node' \in Seq(NodeRecords) /\ Len(node') = N
      /\ \A k \in 1 .. N :
           /\ node'[k].next = node[k].next
           /\ node'[k].prev = IF k = node[head].next THEN None ELSE node[k].prev
  BY ShiftNodes, Zenon
<1>6. size' = M /\ maxSize' \in Nat /\ head' = node[head].next
  BY <1>1 DEF Shift
<1>7. \A i, j \in 1 .. L : i # j => order[i] # order[j]
  BY DEF DequeInv, LinkedOnce
<1>8. tail' = IF node[head].next = None THEN None ELSE tail
  BY DEF Shift
<1> HIDE DEF N, L, M
<1>9. \A i \in 1 .. M : i + 1 \in 1 .. L
  BY <1>2
<1>10. M = 0 => node[head].next = None
  BY <1>1, <1>2, <1>4
<1>11. M # 0 => node[head].next = order[2] /\ 2 \in 1 .. L /\ order[2] # None
  <2> SUFFICES ASSUME M # 0
               PROVE  node[head].next = order[2] /\ 2 \in 1 .. L /\ order[2] # None
    OBVIOUS
  <2>1. 2 \in 1 .. L /\ L # 1
    BY <1>2
  <2>2. node[head].next = order[1 + 1]
    BY <1>1, <1>2, <1>4, <2>1
  <2> QED
    BY <1>1, <1>4, <2>1, <2>2 DEF None
<1>12. M = 0 => head' = None /\ tail' = None
  BY <1>6, <1>8, <1>10
<1>13. M # 0 => head' = order'[1] /\ tail' = order'[M]
  <2> SUFFICES ASSUME M # 0
               PROVE  head' = order'[1] /\ tail' = order'[M]
    OBVIOUS
  <2>1. 1 \in 1 .. M /\ M \in 1 .. M
    BY <1>2
  <2>2. order'[1] = order[2] /\ order'[M] = order[L]
    BY <1>2, <1>3, <2>1
  <2> QED
    BY <1>1, <1>6, <1>8, <1>11, <2>2
<1>14. \A i \in 1 .. M : order'[i] \in 1 .. N
  BY <1>3, <1>4, <1>9
<1>15. \A i, j \in 1 .. M : i # j => order'[i] # order'[j]
  <2> SUFFICES ASSUME NEW i \in 1 .. M, NEW j \in 1 .. M, i # j
               PROVE  order'[i] # order'[j]
    OBVIOUS
  <2>1. i + 1 \in 1 .. L /\ j + 1 \in 1 .. L /\ i + 1 # j + 1
    BY <1>9
  <2> QED
    BY <1>3, <1>7, <2>1
<1>16. \A i \in 1 .. M :
         /\ node'[order'[i]].next = IF i = M THEN None ELSE order'[i + 1]
         /\ node'[order'[i]].prev = IF i = 1 THEN None ELSE order'[i - 1]
  <2> SUFFICES ASSUME NEW i \in 1 .. M
               PROVE  /\ node'[order'[i]].next = IF i = M THEN None ELSE order'[i + 1]
                      /\ node'[order'[i]].prev = IF i = 1 THEN None ELSE order'[i - 1]
    OBVIOUS
  <2> DEFINE q == i + 1
  <2>1. q \in 1 .. L /\ q # 1 /\ q - 1 = i /\ (q = L <=> i = M)
    BY <1>2
  <2>2. order'[i] = order[q] /\ order[q] \in 1 .. N
    BY <1>3, <1>4, <2>1
  <2>3. order[q] = order[2] <=> i = 1
    <3>1. M # 0
      BY <1>2
    <3>2. q = 2 <=> i = 1
      OBVIOUS
    <3> QED
      BY <1>7, <1>11, <2>1, <3>1, <3>2
  <2>4. node[head].next = order[2]
    BY <1>2, <1>11
  <2>5. i # M => i + 1 \in 1 .. M /\ order'[i + 1] = order[q + 1]
    BY <1>2, <1>3
  <2>6. i # 1 => i - 1 \in 1 .. M /\ order'[i - 1] = order[q - 1]
    BY <1>2, <1>3
  <2>7. /\ node[order[q]].next = IF q = L THEN None ELSE order[q + 1]
        /\ node[order[q]].prev = order[q - 1]
    BY <1>4, <2>1
  <2>8. /\ node'[order[q]].next = node[order[q]].next
        /\ node'[order[q]].prev = IF i = 1 THEN None ELSE node[order[q]].prev
    BY <1>5, <2>2, <2>3, <2>4
  <2> HIDE DEF q
  <2> QED
    BY <2>1, <2>2, <2>5, <2>6, <2>7, <2>8
<1>17. M \in Nat /\ order' \in Seq(Nat) /\ Len(order') = M /\ size' = M
       /\ node' \in Seq(NodeRecords) /\ maxSize' \in Nat
  BY ONLY <1>2, <1>3, <1>5, <1>6
<1>18. \A i \in 1 .. M : order'[i] \in 1 .. Len(node')
  BY ONLY <1>5, <1>14
<1>19. \A i \in 1 .. M :
         node'[order'[i]].next = IF i = M THEN None ELSE order'[i + 1]
  BY ONLY <1>16
<1>20. \A i \in 1 .. M :
         node'[order'[i]].prev = IF i = 1 THEN None ELSE order'[i - 1]
  BY ONLY <1>16
<1> QED
  BY ONLY <1>12, <1>13, <1>15, <1>17, <1>18, <1>19, <1>20, Relinked

LEMMA InitInv == Init => DequeInv
<1> SUFFICES ASSUME Init PROVE DequeInv
  OBVIOUS
<1>1. node = <<>> /\ order = <<>> /\ maxSize = 0 /\ size = 0
  BY DEF Init
<1>2. Len(order) = 0 /\ 1 .. Len(order) = {}
  BY <1>1
<1>3. node \in Seq(NodeRecords) /\ order \in Seq(Nat) /\ maxSize \in Nat
  BY <1>1
<1>4. Linked
  BY <1>1, <1>2 DEF Init, Linked
<1> QED
  BY <1>2, <1>3, <1>4 DEF DequeInv, Typed, LinkedOnce

LEMMA ClearKeepsInv == DequeInv /\ Clear => DequeInv'
<1> SUFFICES ASSUME DequeInv, Clear PROVE DequeInv'
  OBVIOUS
<1>1. node' = node /\ order' = <<>> /\ maxSize' = 0 /\ size' = 0
  BY DEF Clear
<1>2. Len(order') = 0 /\ 1 .. Len(order') = {}
  BY <1>1
<1>3. Typed'
  BY <1>1 DEF Typed, DequeInv
<1>4. Linked'
  BY <1>1, <1>2 DEF Clear, Linked
<1> QED
  BY <1>2, <1>3, <1>4 DEF DequeInv, LinkedOnce

\* The list stays as it is when a call only looks at it.
LEMMA LookingKeepsInv ==
  ASSUME DequeInv, UNCHANGED <<node, head, tail, size, maxSize, order>>
  PROVE  DequeInv'
BY DEF DequeInv, Typed, LinkedOnce, Linked

LEMMA NextKeepsInv ==
  ASSUME DequeInv, [Next]_vars
  PROVE  DequeInv'
<1>1. ASSUME NEW d \in Data, Push(d) PROVE DequeInv'
  BY <1>1, PushKeepsInv
<1>2. ASSUME NEW d \in Data, Unshift(d) PROVE DequeInv'
  BY <1>2, UnshiftKeepsInv
<1>3. CASE Pop
  BY <1>3, PopKeepsInv
<1>4. CASE Shift
  BY <1>4, ShiftKeepsInv
<1>5. CASE PeekFirst \/ PeekLast \/ ReturnUndefined \/ UNCHANGED vars
  BY <1>5, LookingKeepsInv DEF PeekFirst, PeekLast, ReturnUndefined, vars
<1>6. CASE Clear
  BY <1>6, ClearKeepsInv
<1> QED
  BY <1>1, <1>2, <1>3, <1>4, <1>5, <1>6 DEF Next

\* Whatever calls were made, the list is linked both ways, in the order of the
\* calls, between its head and its tail, and has size nodes.
THEOREM LinkedAlways == Spec => []Linked
<1>1. DequeInv => Linked
  BY DEF DequeInv
<1>2. DequeInv /\ [Next]_vars => DequeInv'
  BY NextKeepsInv
<1> QED
  BY <1>1, <1>2, InitInv, PTL DEF Spec

-----------------------------------------------------------------------------
(* Every step of the list is a step of the sequence it stands for.         *)

\* What happens to the nodes that stay linked leaves their data alone.
LEMMA PushContents ==
  ASSUME DequeInv, NEW d \in Data, Push(d)
  PROVE  Contents' = Append(Contents, d)
<1> DEFINE L == Len(order)
           N == Len(node)
<1>1. DequeInv'
  BY PushKeepsInv
<1>2. ContentsOfOrder /\ ContentsOfOrder'
  BY <1>1, ContentsElements, PTL
<1>3. /\ N \in Nat /\ L \in Nat
      /\ Len(order') = L + 1 /\ order'[L + 1] = N + 1
      /\ \A i \in 1 .. L : order'[i] = order[i]
  <2>1. N \in Nat /\ L \in Nat
    BY Bounds
  <2>2. N + 1 \in Nat /\ order' = Append(order, N + 1)
    BY <2>1 DEF Push
  <2> QED
    BY <2>1, <2>2, Orders, Zenon
<1>4. \A i \in 1 .. L : order[i] \in 1 .. N
  BY DEF DequeInv, LinkedOnce
<1>5. /\ \A k \in 1 .. N : node'[k].data = node[k].data
      /\ node'[N + 1].data = d
  <2>1. NewNode(d, None, tail).data = d
    BY DEF NewNode
  <2> QED
    BY <2>1, PushNodes, Zenon
<1> HIDE DEF N, L
<1>6. /\ Contents \in Seq(Data) /\ Len(Contents) = L
      /\ \A i \in 1 .. L : Contents[i] = node[order[i]].data
  BY <1>2 DEF ContentsOfOrder, L
<1>7. /\ Contents' \in Seq(Data) /\ Len(Contents') = L + 1
      /\ \A i \in 1 .. L + 1 : Contents'[i] = node'[order'[i]].data
  BY <1>2, <1>3 DEF ContentsOfOrder
<1>8. Contents'[L + 1] = d
  BY <1>3, <1>5, <1>7
<1>9. \A i \in 1 .. L : Contents'[i] = Contents[i]
  BY <1>3, <1>4, <1>5, <1>6, <1>7
<1> QED
  BY <1>6, <1>7, <1>8, <1>9, Recognise

LEMMA UnshiftContents ==
  ASSUME DequeInv, NEW d \in Data, Unshift(d)
  PROVE  Contents' = <<d>> \o Contents
<1> DEFINE L == Len(order)
           N == Len(node)
<1>1. DequeInv'
  BY UnshiftKeepsInv
<1>2. ContentsOfOrder /\ ContentsOfOrder'
  BY <1>1, ContentsElements, PTL
<1>3. /\ N \in Nat /\ L \in Nat
      /\ Len(order') = L + 1 /\ order'[1] = N + 1
      /\ \A i \in 2 .. L + 1 : order'[i] = order[i - 1]
  <2>1. N \in Nat /\ L \in Nat
    BY Bounds
  <2>2. N + 1 \in Nat /\ order' = <<N + 1>> \o order
    BY <2>1 DEF Unshift
  <2> QED
    BY <2>1, <2>2, Orders, Zenon
<1>4. \A i \in 1 .. L : order[i] \in 1 .. N
  BY DEF DequeInv, LinkedOnce
<1>5. /\ \A k \in 1 .. N : node'[k].data = node[k].data
      /\ node'[N + 1].data = d
  <2>1. NewNode(d, head, None).data = d
    BY DEF NewNode
  <2> QED
    BY <2>1, UnshiftNodes, Zenon
<1> HIDE DEF N, L
<1>6. /\ Contents \in Seq(Data) /\ Len(Contents) = L
      /\ \A i \in 1 .. L : Contents[i] = node[order[i]].data
  BY <1>2 DEF ContentsOfOrder, L
<1>7. /\ Contents' \in Seq(Data) /\ Len(Contents') = L + 1
      /\ \A i \in 1 .. L + 1 : Contents'[i] = node'[order'[i]].data
  BY <1>2, <1>3 DEF ContentsOfOrder
<1>8. Contents'[1] = d
  BY <1>3, <1>5, <1>7
<1>9. \A i \in 1 .. L : Contents'[i + 1] = Contents[i]
  <2> SUFFICES ASSUME NEW i \in 1 .. L PROVE Contents'[i + 1] = Contents[i]
    OBVIOUS
  <2>1. i + 1 \in 2 .. L + 1 /\ i + 1 \in 1 .. L + 1 /\ (i + 1) - 1 = i
    BY <1>3
  <2>2. order'[i + 1] = order[i]
    BY <1>3, <2>1
  <2> QED
    BY <1>4, <1>5, <1>6, <1>7, <2>1, <2>2
<1> QED
  BY <1>6, <1>7, <1>8, <1>9, Recognise

LEMMA PopContents ==
  ASSUME DequeInv, Pop
  PROVE  /\ Contents # <<>>
         /\ Contents' = SubSeq(Contents, 1, Len(Contents) - 1)
         /\ node[tail].data = Contents[Len(Contents)]
<1> DEFINE L == Len(order)
           N == Len(node)
<1>1. DequeInv'
  BY PopKeepsInv
<1>2. ContentsOfOrder /\ ContentsOfOrder'
  BY <1>1, ContentsElements, PTL
<1>3. /\ L \in Nat /\ L # 0 /\ tail = order[L]
      /\ Len(order') = L - 1
      /\ \A i \in 1 .. L - 1 : order'[i] = order[i]
  <2>1. order # <<>> /\ L \in Nat /\ L # 0
    BY Bounds DEF Pop
  <2>2. tail = order[L]
    BY <2>1 DEF DequeInv, Linked
  <2>3. 0 \in Nat /\ order' = SubSeq(order, 1, Len(order) - 1)
    BY DEF Pop
  <2> QED
    BY <2>1, <2>2, <2>3, Orders, Zenon
<1>4. \A i \in 1 .. L : order[i] \in 1 .. N
  BY DEF DequeInv, LinkedOnce
<1>5. \A k \in 1 .. N : node'[k].data = node[k].data
  BY PopNodes, Zenon
<1> HIDE DEF N, L
<1>6. /\ Contents \in Seq(Data) /\ Len(Contents) = L
      /\ \A i \in 1 .. L : Contents[i] = node[order[i]].data
  BY <1>2 DEF ContentsOfOrder, L
<1>7. Contents # <<>>
  BY <1>3, <1>6, EmptySeq
<1>8. /\ Contents' \in Seq(Data) /\ Len(Contents') = L - 1
      /\ \A i \in 1 .. L - 1 : Contents'[i] = node'[order'[i]].data
  BY <1>2, <1>3 DEF ContentsOfOrder
<1>9. \A i \in 1 .. L - 1 : Contents'[i] = Contents[i]
  BY <1>3, <1>4, <1>5, <1>6, <1>8
<1>10. Data # {}
  <2>1. L \in 1 .. L
    BY <1>3
  <2> QED
    BY <1>6, <2>1, ElementOfSeq
<1>11. Contents' = SubSeq(Contents, 1, Len(Contents) - 1)
  BY <1>6, <1>7, <1>8, <1>9, <1>10, Recognise
<1>12. node[tail].data = Contents[Len(Contents)]
  BY <1>3, <1>6
<1> QED
  BY <1>7, <1>11, <1>12

LEMMA ShiftContents ==
  ASSUME DequeInv, Shift
  PROVE  /\ Contents # <<>>
         /\ Contents' = Tail(Contents)
         /\ node[head].data = Head(Contents)
<1> DEFINE L == Len(order)
           N == Len(node)
<1>1. DequeInv'
  BY ShiftKeepsInv
<1>2. ContentsOfOrder /\ ContentsOfOrder'
  BY <1>1, ContentsElements, PTL
<1>3. /\ L \in Nat /\ L # 0 /\ head = order[1]
      /\ Len(order') = L - 1
      /\ \A i \in 1 .. L - 1 : order'[i] = order[i + 1]
  <2>1. order # <<>> /\ L \in Nat /\ L # 0
    BY Bounds DEF Shift
  <2>2. head = order[1]
    BY <2>1 DEF DequeInv, Linked
  <2>3. 0 \in Nat /\ order' = Tail(order)
    BY DEF Shift
  <2> QED
    BY <2>1, <2>2, <2>3, Orders, Zenon
<1>4. \A i \in 1 .. L : order[i] \in 1 .. N
  BY DEF DequeInv, LinkedOnce
<1>5. \A k \in 1 .. N : node'[k].data = node[k].data
  BY ShiftNodes, Zenon
<1> HIDE DEF N, L
<1>6. /\ Contents \in Seq(Data) /\ Len(Contents) = L
      /\ \A i \in 1 .. L : Contents[i] = node[order[i]].data
  BY <1>2 DEF ContentsOfOrder, L
<1>7. Contents # <<>>
  BY <1>3, <1>6, EmptySeq
<1>8. /\ Contents' \in Seq(Data) /\ Len(Contents') = L - 1
      /\ \A i \in 1 .. L - 1 : Contents'[i] = node'[order'[i]].data
  BY <1>2, <1>3 DEF ContentsOfOrder
<1>9. \A i \in 1 .. L - 1 : Contents'[i] = Contents[i + 1]
  <2> SUFFICES ASSUME NEW i \in 1 .. L - 1 PROVE Contents'[i] = Contents[i + 1]
    OBVIOUS
  <2>1. i + 1 \in 1 .. L
    BY <1>3
  <2>2. Contents[i + 1] = node[order[i + 1]].data /\ order[i + 1] \in 1 .. N
    BY ONLY <1>4, <1>6, <2>1
  <2>3. Contents'[i] = node'[order'[i]].data /\ order'[i] = order[i + 1]
    BY ONLY <1>3, <1>8, i \in 1 .. L - 1
  <2> QED
    BY ONLY <1>5, <2>2, <2>3
<1>10. Data # {}
  <2>1. L \in 1 .. L
    BY <1>3
  <2> QED
    BY <1>6, <2>1, ElementOfSeq
<1>11. Contents' = Tail(Contents)
  BY <1>6, <1>7, <1>8, <1>9, <1>10, Recognise
<1>12. node[head].data = Head(Contents)
  <2>1. Head(Contents) = Contents[1]
    BY <1>6, <1>7
  <2> QED
    BY <1>3, <1>6, <2>1
<1> QED
  BY <1>7, <1>11, <1>12

LEMMA InitRefines == Init => Sequence!Init
<1> SUFFICES ASSUME Init PROVE Sequence!Init
  OBVIOUS
<1>1. DequeInv
  BY InitInv
<1>2. Contents = <<>>
  BY <1>1, ContentsElements DEF ContentsOfOrder, Init
<1> QED
  BY <1>2 DEF Init, Sequence!Init, Undefined, Sequence!NoResult

\* A call that only looks at the list.
LEMMA LookingRefines ==
  ASSUME DequeInv, UNCHANGED <<node, head, tail, size, maxSize, order>>
  PROVE  UNCHANGED <<Contents, maxSize>>
BY DEF Contents

LEMMA NextRefines ==
  ASSUME DequeInv, [Next]_vars
  PROVE  [Sequence!Next]_(Sequence!dequeVars)
<1>1. /\ Len(Contents) = Len(order) /\ size = Len(order) /\ Contents \in Seq(Data)
      /\ Contents = <<>> <=> order = <<>>
      /\ head = None <=> order = <<>>
      /\ tail = None <=> order = <<>>
      /\ \A i \in 1 .. Len(order) : Contents[i] = node[order[i]].data
  BY ContentsElements, Bounds DEF ContentsOfOrder, DequeInv, Linked
<1>2. order # <<>> => /\ node[head].data = Head(Contents)
                       /\ node[tail].data = Contents[Len(Contents)]
  <2> SUFFICES ASSUME order # <<>>
               PROVE  /\ node[head].data = Head(Contents)
                      /\ node[tail].data = Contents[Len(Contents)]
    OBVIOUS
  <2>1. Len(order) \in Nat /\ Len(order) # 0
    BY Bounds
  <2>2. head = order[1] /\ tail = order[Len(order)]
    BY DEF DequeInv, Linked
  <2>3. 1 \in 1 .. Len(order) /\ Len(order) \in 1 .. Len(order)
    BY <2>1
  <2>4. Head(Contents) = Contents[1]
    BY <1>1
  <2> QED
    BY <1>1, <2>2, <2>3, <2>4
<1>3. ASSUME NEW d \in Data, Push(d) PROVE Sequence!Next
  <2>1. Contents' = Append(Contents, d)
    BY <1>3, PushContents
  <2>2. IncrementSize
    BY <1>3 DEF Push
  <2>3. Sequence!Push(d)
    BY <1>1, <2>1, <2>2
       DEF Sequence!Push, Sequence!Grow, IncrementSize, SizeResult, Sequence!SizeResult
  <2> QED
    BY <2>3 DEF Sequence!Next
<1>4. ASSUME NEW d \in Data, Unshift(d) PROVE Sequence!Next
  <2>1. Contents' = <<d>> \o Contents
    BY <1>4, UnshiftContents
  <2>2. IncrementSize
    BY <1>4 DEF Unshift
  <2>3. Sequence!Unshift(d)
    BY <1>1, <2>1, <2>2
       DEF Sequence!Unshift, Sequence!Grow, IncrementSize, SizeResult, Sequence!SizeResult
  <2> QED
    BY <2>3 DEF Sequence!Next
<1>5. ASSUME Pop PROVE Sequence!Next
  <2>1. /\ Contents # <<>> /\ Contents' = SubSeq(Contents, 1, Len(Contents) - 1)
        /\ node[tail].data = Contents[Len(Contents)]
    BY <1>5, PopContents
  <2>2. maxSize' = maxSize /\ returned' = DataResult(node[tail].data)
    BY <1>5 DEF Pop
  <2>3. Sequence!Pop
    BY <2>1, <2>2 DEF Sequence!Pop, Sequence!Shrink, DataResult, Sequence!DataResult
  <2> QED
    BY <2>3 DEF Sequence!Next
<1>6. ASSUME Shift PROVE Sequence!Next
  <2>1. /\ Contents # <<>> /\ Contents' = Tail(Contents)
        /\ node[head].data = Head(Contents)
    BY <1>6, ShiftContents
  <2>2. maxSize' = maxSize /\ returned' = DataResult(node[head].data)
    BY <1>6 DEF Shift
  <2>3. Sequence!Shift
    BY <2>1, <2>2 DEF Sequence!Shift, Sequence!Shrink, DataResult, Sequence!DataResult
  <2> QED
    BY <2>3 DEF Sequence!Next
<1>7. ASSUME PeekFirst PROVE Sequence!Next
  <2>1. UNCHANGED <<Contents, maxSize>>
    BY <1>7, LookingRefines DEF PeekFirst
  <2>2. Contents # <<>> /\ returned' = DataResult(Head(Contents))
    BY <1>1, <1>2, <1>7 DEF PeekFirst
  <2>3. Sequence!Peek(Head(Contents))
    BY <2>1, <2>2 DEF Sequence!Peek, DataResult, Sequence!DataResult
  <2> QED
    BY <2>3 DEF Sequence!Next
<1>8. ASSUME PeekLast PROVE Sequence!Next
  <2>1. UNCHANGED <<Contents, maxSize>>
    BY <1>8, LookingRefines DEF PeekLast
  <2>2. Contents # <<>> /\ returned' = DataResult(Contents[Len(Contents)])
    BY <1>1, <1>2, <1>8 DEF PeekLast
  <2>3. Sequence!Peek(Contents[Len(Contents)])
    BY <2>1, <2>2 DEF Sequence!Peek, DataResult, Sequence!DataResult
  <2> QED
    BY <2>3 DEF Sequence!Next
<1>9. ASSUME ReturnUndefined PROVE Sequence!Next
  <2>1. UNCHANGED <<Contents, maxSize>>
    BY <1>9, LookingRefines DEF ReturnUndefined
  <2>2. Contents = <<>> /\ returned' = Undefined
    BY <1>1, <1>9 DEF ReturnUndefined
  <2>3. Sequence!FindNothing
    BY <2>1, <2>2 DEF Sequence!FindNothing, Undefined, Sequence!NoResult
  <2> QED
    BY <2>3 DEF Sequence!Next
<1>10. ASSUME Clear PROVE Sequence!Next
  <2>1. DequeInv'
    BY <1>10, ClearKeepsInv
  <2>2. ContentsOfOrder'
    BY <2>1, ContentsElements, PTL
  <2>3. Contents' = <<>>
    BY <1>10, <2>2 DEF ContentsOfOrder, Clear
  <2>4. Sequence!Clear
    BY <1>10, <2>3 DEF Clear, Sequence!Clear, Undefined, Sequence!NoResult
  <2> QED
    BY <2>4 DEF Sequence!Next
<1>11. ASSUME UNCHANGED vars PROVE UNCHANGED Sequence!dequeVars
  BY <1>11, LookingRefines DEF vars, Sequence!dequeVars
<1> QED
  BY <1>3, <1>4, <1>5, <1>6, <1>7, <1>8, <1>9, <1>10, <1>11 DEF Next

\* Whatever is queued, and however many nodes are created, every call of the
\* linked list does and returns what a sequence would.
THEOREM DequeImplementsSequence == Spec => ImplementsSequence
<1>1. DequeInv /\ [Next]_vars => [Sequence!Next]_(Sequence!dequeVars)
  BY NextRefines
<1>2. DequeInv /\ [Next]_vars => DequeInv'
  BY NextKeepsInv
<1> QED
  BY <1>1, <1>2, InitInv, InitRefines, PTL
     DEF Spec, ImplementsSequence, Sequence!Spec

-----------------------------------------------------------------------------
(* What the iterators visit.                                               *)

\* Two functions agree that start with the same value and go on from the same
\* value in the same way.
LEMMA WalksAgree ==
  ASSUME NEW f, NEW g, f[0] = g[0],
         \A s \in Nat \ {0} : f[s - 1] = g[s - 1] => f[s] = g[s]
  PROVE  \A s \in Nat : f[s] = g[s]
<1> DEFINE apart == {s \in Nat : f[s] # g[s]}
<1>1. ASSUME apart # {} PROVE FALSE
  <2>1. \E m \in apart : \A n \in apart : ~ (<<n, m>> \in OpToRel(<, Nat))
    <3>1. apart \in SUBSET Nat
      OBVIOUS
    <3> HIDE DEF apart
    <3> QED
      BY <1>1, <3>1, NatLessThanWellFounded, WFMin
  <2>2. \A m, n \in Nat : <<n, m>> \in OpToRel(<, Nat) <=> n < m
    BY DEF OpToRel
  <2>3. PICK m \in apart : \A n \in apart : ~ (<<n, m>> \in OpToRel(<, Nat))
    BY <2>1
  <2>4. m \in Nat \ {0} /\ m - 1 \in Nat /\ m - 1 < m
    OBVIOUS
  <2>5. m - 1 \notin apart
    BY <2>2, <2>3, <2>4
  <2>6. f[m - 1] = g[m - 1]
    BY <2>4, <2>5
  <2> QED
    BY <2>4, <2>6
<1> QED
  BY <1>1

\* The first iterator visits the linked nodes in their order, and is then done.
LEMMA ForwardVisits ==
  ASSUME DequeInv
  PROVE  \A s \in Nat :
           IteratorNode[s] = IF s < Len(order) THEN order[s + 1] ELSE None
<1> DEFINE n == Len(order)
           seen == [s \in Nat |-> IF s < n THEN order[s + 1] ELSE None]
           Equation(f) == [steps \in Nat |->
             IF steps = 0 THEN head
             ELSE IF f[steps - 1] = None THEN None
             ELSE node[f[steps - 1]].next]
<1>1. /\ n \in Nat /\ size = n
      /\ head = IF n = 0 THEN None ELSE order[1]
      /\ \A i \in 1 .. n :
           /\ order[i] # None
           /\ node[order[i]].next = IF i = n THEN None ELSE order[i + 1]
  BY Bounds DEF DequeInv, Linked, LinkedOnce, None
<1> HIDE DEF n
<1>2. \A s \in Nat : seen[s] = IF s < n THEN order[s + 1] ELSE None
  OBVIOUS
<1>3. ASSUME NEW s \in Nat PROVE seen[s] = Equation(seen)[s]
  <2>1. CASE s = 0
    BY <1>1, <2>1
  <2>2. CASE s # 0
    <3>1. s - 1 \in Nat /\ (s - 1) + 1 = s
      BY <2>2
    <3>2. seen[s - 1] = IF s - 1 < n THEN order[s] ELSE None
      BY <1>2, <3>1
    <3>3. Equation(seen)[s] = IF seen[s - 1] = None THEN None
                              ELSE node[seen[s - 1]].next
      BY <2>2
    <3>4. seen[s] = IF s < n THEN order[s + 1] ELSE None
      BY <1>2
    <3> HIDE DEF seen, Equation
    <3>5. CASE s - 1 < n
      <4>1. s \in 1 .. n /\ (s < n <=> s # n)
        BY <1>1, <2>2, <3>5
      <4> QED
        BY <1>1, <3>2, <3>3, <3>4, <3>5, <4>1
    <3>6. CASE ~ (s - 1 < n)
      <4>1. ~ (s < n)
        BY <1>1, <3>6
      <4> QED
        BY <3>2, <3>3, <3>4, <3>6, <4>1
    <3> QED
      BY <3>5, <3>6
  <2> QED
    BY <2>1, <2>2
<1>4. seen = Equation(seen)
  <2>1. DOMAIN seen = Nat /\ DOMAIN Equation(seen) = Nat
    OBVIOUS
  <2> QED
    BY <1>3
<1>5. IteratorNode = Equation(IteratorNode)
  <2>1. \E f : f = Equation(f)
    BY <1>4
  <2>2. IteratorNode = CHOOSE f : f = Equation(f)
    BY DEF IteratorNode
  <2> HIDE DEF Equation
  <2> QED
    BY ONLY <2>1, <2>2
<1>6. \A s \in Nat : IteratorNode[s] = seen[s]
  <2>1. \A s \in Nat : IteratorNode[s] = Equation(IteratorNode)[s]
    BY <1>5
  <2>2. IteratorNode[0] = seen[0]
    BY <1>3, <2>1
  <2>3. \A s \in Nat \ {0} :
          IteratorNode[s - 1] = seen[s - 1] => IteratorNode[s] = seen[s]
    BY <1>3, <2>1
  <2> HIDE DEF seen
  <2> QED
    BY <2>2, <2>3, WalksAgree
<1> QED
  BY <1>2, <1>6 DEF n

\* The second one visits them from the last to the first, and is then done.
LEMMA BackwardVisits ==
  ASSUME DequeInv
  PROVE  \A s \in Nat : BackwardNode[s] =
           IF s < Len(order) THEN order[Len(order) - s] ELSE None
<1> DEFINE n == Len(order)
           seen == [s \in Nat |-> IF s < n THEN order[n - s] ELSE None]
           Equation(f) == [steps \in Nat |->
             IF steps = 0 THEN tail
             ELSE IF f[steps - 1] = None THEN None
             ELSE node[f[steps - 1]].prev]
<1>1. /\ n \in Nat /\ size = n
      /\ tail = IF n = 0 THEN None ELSE order[n]
      /\ \A i \in 1 .. n :
           /\ order[i] # None
           /\ node[order[i]].prev = IF i = 1 THEN None ELSE order[i - 1]
  BY Bounds DEF DequeInv, Linked, LinkedOnce, None
<1> HIDE DEF n
<1>2. \A s \in Nat : seen[s] = IF s < n THEN order[n - s] ELSE None
  OBVIOUS
<1>3. ASSUME NEW s \in Nat PROVE seen[s] = Equation(seen)[s]
  <2>1. CASE s = 0
    <3>1. n - 0 = n /\ (0 < n <=> n # 0)
      BY <1>1
    <3> QED
      BY <1>1, <2>1, <3>1
  <2>2. CASE s # 0
    <3>1. s - 1 \in Nat /\ n - (s - 1) = (n - s) + 1
      BY <1>1, <2>2
    <3>2. seen[s - 1] = IF s - 1 < n THEN order[(n - s) + 1] ELSE None
      BY <1>2, <3>1
    <3>3. Equation(seen)[s] = IF seen[s - 1] = None THEN None
                              ELSE node[seen[s - 1]].prev
      BY <2>2
    <3>4. seen[s] = IF s < n THEN order[n - s] ELSE None
      BY <1>2
    <3> HIDE DEF seen, Equation
    <3>5. CASE s - 1 < n
      <4>1. PICK i \in 1 .. n : i = (n - s) + 1
        BY <1>1, <2>2, <3>5
      <4>2. (s < n <=> i # 1) /\ i - 1 = n - s
        BY <1>1, <4>1
      <4> QED
        BY <1>1, <3>2, <3>3, <3>4, <3>5, <4>1, <4>2
    <3>6. CASE ~ (s - 1 < n)
      <4>1. ~ (s < n)
        BY <1>1, <3>6
      <4> QED
        BY <3>2, <3>3, <3>4, <3>6, <4>1
    <3> QED
      BY <3>5, <3>6
  <2> QED
    BY <2>1, <2>2
<1>4. seen = Equation(seen)
  <2>1. DOMAIN seen = Nat /\ DOMAIN Equation(seen) = Nat
    OBVIOUS
  <2> QED
    BY <1>3
<1>5. BackwardNode = Equation(BackwardNode)
  <2>1. \E f : f = Equation(f)
    BY <1>4
  <2>2. BackwardNode = CHOOSE f : f = Equation(f)
    BY DEF BackwardNode
  <2> HIDE DEF Equation
  <2> QED
    BY ONLY <2>1, <2>2
<1>6. \A s \in Nat : BackwardNode[s] = seen[s]
  <2>1. \A s \in Nat : BackwardNode[s] = Equation(BackwardNode)[s]
    BY <1>5
  <2>2. BackwardNode[0] = seen[0]
    BY <1>3, <2>1
  <2>3. \A s \in Nat \ {0} :
          BackwardNode[s - 1] = seen[s - 1] => BackwardNode[s] = seen[s]
    BY <1>3, <2>1
  <2> HIDE DEF seen
  <2> QED
    BY <2>2, <2>3, WalksAgree
<1> QED
  BY <1>2, <1>6 DEF n

\* However long the list is, each iterator ends after exactly size items, and
\* they visit the same nodes in opposite orders.
THEOREM IteratorsAlwaysVisitAll == Spec => []IteratorsVisitAll
<1>1. ASSUME DequeInv PROVE IteratorsVisitAll
  <2>1. /\ size \in Nat /\ size = Len(order)
        /\ \A i \in 1 .. size : order[i] # None
    BY <1>1, Bounds DEF DequeInv, Linked, LinkedOnce, None
  <2>2. \A s \in Nat :
          /\ IteratorNode[s] = IF s < size THEN order[s + 1] ELSE None
          /\ BackwardNode[s] = IF s < size THEN order[size - s] ELSE None
    BY <1>1, <2>1, ForwardVisits, BackwardVisits
  <2>3. IteratorNode[size] = None /\ BackwardNode[size] = None
    BY <2>1, <2>2
  <2>4. ASSUME NEW i \in 0 .. size - 1
        PROVE  /\ IteratorNode[i] # None
               /\ IteratorNode[i] = BackwardNode[size - 1 - i]
    <3>1. /\ i \in Nat /\ i < size /\ i + 1 \in 1 .. size
          /\ size - 1 - i \in Nat /\ size - 1 - i < size
          /\ size - (size - 1 - i) = i + 1
      BY <2>1
    <3>2. IteratorNode[i] = order[i + 1]
      BY <2>2, <3>1
    <3>3. BackwardNode[size - 1 - i] = order[size - (size - 1 - i)]
      BY <2>2, <3>1
    <3> QED
      BY <2>1, <3>1, <3>2, <3>3
  <2> QED
    BY <2>3, <2>4 DEF IteratorsVisitAll
<1>2. DequeInv /\ [Next]_vars => DequeInv'
  BY NextKeepsInv
<1> QED
  BY <1>1, <1>2, InitInv, PTL DEF Spec
=============================================================================
