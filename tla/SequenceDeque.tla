---------------------------- MODULE SequenceDeque ----------------------------
(***************************************************************************)
(* What the users of a deque rely on: a sequence that grows and shrinks at *)
(* both ends, and the largest length it has had since it was last cleared. *)
(* Module Deque shows that the linked list of deque.ts does no more.       *)
(***************************************************************************)
EXTENDS Integers, Sequences

CONSTANT Data

VARIABLES
  items,      \* the data, first to last
  peak,       \* the largest length since the last clear
  returned    \* what the last call returned

dequeVars == <<items, peak, returned>>

\* What a call returns: a size, one of the data, or nothing.
SizeResult(n) == [size |-> n]
DataResult(d) == [data |-> d]
NoResult == [nothing |-> TRUE]

Init ==
  /\ items = <<>>
  /\ peak = 0
  /\ returned = NoResult

\* One more item, at either end: the peak follows.
Grow(longer) ==
  /\ items' = longer
  /\ peak' = IF Len(items) + 1 > peak THEN Len(items) + 1 ELSE peak
  /\ returned' = SizeResult(Len(items) + 1)

\* One item less, the one that is returned.
Shrink(shorter, d) ==
  /\ items # <<>>
  /\ items' = shorter
  /\ returned' = DataResult(d)
  /\ UNCHANGED peak

Push(d) == Grow(Append(items, d))
Unshift(d) == Grow(<<d>> \o items)
Pop == Shrink(SubSeq(items, 1, Len(items) - 1), items[Len(items)])
Shift == Shrink(Tail(items), Head(items))

Peek(d) ==
  /\ items # <<>>
  /\ returned' = DataResult(d)
  /\ UNCHANGED <<items, peak>>

\* Every call that looks for an item of an empty deque.
FindNothing ==
  /\ items = <<>>
  /\ returned' = NoResult
  /\ UNCHANGED <<items, peak>>

Clear ==
  /\ items' = <<>>
  /\ peak' = 0
  /\ returned' = NoResult

Next ==
  \/ \E d \in Data : Push(d) \/ Unshift(d)
  \/ Pop \/ Shift
  \/ Peek(Head(items)) \/ Peek(items[Len(items)])
  \/ FindNothing
  \/ Clear

Spec == Init /\ [][Next]_dequeVars
=============================================================================
