------------------------------- MODULE Deque -------------------------------
(***************************************************************************)
(* The Deque of deque.ts, a doubly linked list: the tasks queue of every   *)
(* worker node.  Node objects live on a heap and are never used twice; a   *)
(* removed node keeps whatever pointers the code does not delete.          *)
(***************************************************************************)
EXTENDS Integers, Sequences

CONSTANTS
  Data,       \* what is queued
  MaxNodes    \* bound: Node objects ever created

ASSUME MaxNodesAssumption == MaxNodes \in Nat

VARIABLES
  node,       \* the heap: node[n] is the n-th Node object
  head, tail, \* the ends of the list, or None
  size, maxSize,
  returned,   \* what the last call returned
  order       \* history: the linked nodes, as the calls order them

vars == <<node, head, tail, size, maxSize, returned, order>>

\* `undefined' as a reference to a Node.
None == 0

\* What a call returns: a size, one of the data, or undefined.
SizeResult(n) == [size |-> n]
DataResult(d) == [data |-> d]
Undefined == [nothing |-> TRUE]

Init ==
  /\ node = <<>>
  /\ head = None /\ tail = None
  /\ size = 0 /\ maxSize = 0
  /\ returned = Undefined
  /\ order = <<>>

-----------------------------------------------------------------------------

NewNode(d, next, prev) == [data |-> d, next |-> next, prev |-> prev]

\* A slip to be noticed: the peak only follows the first item.
PeakOfFirst ==
  /\ size' = size + 1
  /\ maxSize' = IF maxSize = 0 THEN 1 ELSE maxSize
  /\ returned' = SizeResult(size + 1)

IncrementSize ==
  /\ size' = size + 1
  /\ maxSize' = IF size + 1 > maxSize THEN size + 1 ELSE maxSize
  /\ returned' = SizeResult(size + 1)

Push(d) ==
  LET n == Len(node) + 1 IN
  /\ n <= MaxNodes
  /\ tail' = n
  /\ IF tail = None
       THEN /\ head' = n
            /\ node' = Append(node, NewNode(d, None, None))
       ELSE /\ head' = head
            /\ node' = Append([node EXCEPT ![tail].next = n],
                              NewNode(d, None, tail))
  /\ IncrementSize
  /\ order' = Append(order, n)

Unshift(d) ==
  LET n == Len(node) + 1 IN
  /\ n <= MaxNodes
  /\ head' = n
  /\ IF head = None
       THEN /\ tail' = n
            /\ node' = Append(node, NewNode(d, None, None))
       ELSE /\ tail' = tail
            /\ node' = Append([node EXCEPT ![head].prev = n],
                              NewNode(d, head, None))
  /\ IncrementSize
  /\ order' = <<n>> \o order

\* Every method that finds no first node returns undefined.
ReturnUndefined ==
  /\ head = None
  /\ returned' = Undefined
  /\ UNCHANGED <<node, head, tail, size, maxSize, order>>

\* A slip to be noticed: the new last node still points to the popped one.
PopKeepingNext ==
  /\ head # None
  /\ tail' = node[tail].prev
  /\ head' = IF node[tail].prev = None THEN None ELSE head
  /\ size' = size - 1
  /\ returned' = DataResult(node[tail].data)
  /\ order' = SubSeq(order, 1, Len(order) - 1)
  /\ UNCHANGED <<node, maxSize>>

\* A slip to be noticed: the head survives the last item.
PopKeepingHead ==
  /\ head # None
  /\ tail' = node[tail].prev
  /\ head' = head
  /\ node' = IF node[tail].prev = None THEN node
                                       ELSE [node EXCEPT ![tail'].next = None]
  /\ size' = size - 1
  /\ returned' = DataResult(node[tail].data)
  /\ order' = SubSeq(order, 1, Len(order) - 1)
  /\ UNCHANGED maxSize

Pop ==
  /\ head # None
  /\ tail' = node[tail].prev
  /\ IF node[tail].prev = None
       THEN head' = None /\ node' = node
       ELSE head' = head /\ node' = [node EXCEPT ![node[tail].prev].next = None]
  /\ size' = size - 1
  /\ returned' = DataResult(node[tail].data)
  /\ order' = SubSeq(order, 1, Len(order) - 1)
  /\ UNCHANGED maxSize

Shift ==
  /\ head # None
  /\ head' = node[head].next
  /\ IF node[head].next = None
       THEN tail' = None /\ node' = node
       ELSE tail' = tail /\ node' = [node EXCEPT ![node[head].next].prev = None]
  /\ size' = size - 1
  /\ returned' = DataResult(node[head].data)
  /\ order' = Tail(order)
  /\ UNCHANGED maxSize

PeekFirst ==
  /\ head # None
  /\ returned' = DataResult(node[head].data)
  /\ UNCHANGED <<node, head, tail, size, maxSize, order>>

PeekLast ==
  /\ tail # None
  /\ returned' = DataResult(node[tail].data)
  /\ UNCHANGED <<node, head, tail, size, maxSize, order>>

Clear ==
  /\ head' = None /\ tail' = None
  /\ size' = 0 /\ maxSize' = 0
  /\ returned' = Undefined
  /\ order' = <<>>
  /\ UNCHANGED node

Next ==
  \/ \E d \in Data : Push(d) \/ Unshift(d)
  \/ Pop \/ Shift \/ PeekFirst \/ PeekLast \/ ReturnUndefined
  \/ Clear

Spec == Init /\ [][Next]_vars

-----------------------------------------------------------------------------
(* The iterators.  Each is the node its closure holds, `steps' calls of    *)
(* next() after its creation.                                              *)

IteratorNode[steps \in Nat] ==
  IF steps = 0 THEN head
  ELSE IF IteratorNode[steps - 1] = None THEN None
  ELSE node[IteratorNode[steps - 1]].next

BackwardNode[steps \in Nat] ==
  IF steps = 0 THEN tail
  ELSE IF BackwardNode[steps - 1] = None THEN None
  ELSE node[BackwardNode[steps - 1]].prev

-----------------------------------------------------------------------------
(* Properties                                                              *)

\* The list is linked both ways in the order of the calls, its ends are head
\* and tail, and it has size nodes: what push, unshift, pop and shift rely on
\* whichever end is used next.
Linked ==
  /\ size = Len(order)
  /\ head = IF order = <<>> THEN None ELSE order[1]
  /\ tail = IF order = <<>> THEN None ELSE order[Len(order)]
  /\ \A i \in 1 .. Len(order) :
       /\ node[order[i]].next = IF i = Len(order) THEN None ELSE order[i + 1]
       /\ node[order[i]].prev = IF i = 1 THEN None ELSE order[i - 1]

\* The iterators end after exactly size items and visit the same nodes in
\* opposite orders; a worker node counts the queued tasks of a function this
\* way, and takes the number of all its tasks from size.
IteratorsVisitAll ==
  /\ IteratorNode[size] = None /\ BackwardNode[size] = None
  /\ \A i \in 0 .. size - 1 :
       /\ IteratorNode[i] # None
       /\ IteratorNode[i] = BackwardNode[size - 1 - i]

\* The linked list implements the deque it stands for.
Contents == [i \in 1 .. Len(order) |-> node[order[i]].data]
Sequence == INSTANCE SequenceDeque WITH items <- Contents, peak <- maxSize,
                                        returned <- returned, Data <- Data
ImplementsSequence == Sequence!Spec
=============================================================================
