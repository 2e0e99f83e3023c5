---------------------------- MODULE CircularArray ----------------------------
(***************************************************************************)
(* The CircularArray of circular-array.ts: an array with a maximum length, *)
(* the history of the latest measurements of a worker node.  An array is a *)
(* record of its items and of its size; each method is an operator that    *)
(* gives the array it leaves.                                              *)
(***************************************************************************)
EXTENDS Integers, Sequences

\* A slip to be noticed: the latest items make room.
FirstItems(items, size) ==
  IF Len(items) > size THEN SubSeq(items, 1, size) ELSE items

\* What is left of the items when the first ones have to make room.
LastItems(items, size) ==
  IF Len(items) > size THEN SubSeq(items, Len(items) - size + 1, Len(items))
                       ELSE items

\* Array.prototype.splice: `deleted' items out, others in, from index start.
Spliced(items, start, deleted, inserted) ==
  LET from == IF start < Len(items) THEN start ELSE Len(items)
  IN  SubSeq(items, 1, from) \o inserted
        \o SubSeq(items, from + deleted + 1, Len(items))

\* The items Array.prototype.splice returns.
SplicedOut(items, start, deleted) ==
  LET last == IF start + deleted < Len(items) THEN start + deleted
                                              ELSE Len(items)
  IN  SubSeq(items, start + 1, last)

Empty(array) == array.items = <<>>
Full(array) == Len(array.items) = array.size

PushItems(array, items) ==
  [array EXCEPT !.items = LastItems(array.items \o items, array.size)]

\* The constructor: the items are appended to an empty array.
NewArray(size, items) == PushItems([items |-> <<>>, size |-> size], items)

\* A slip to be noticed: what overflows is left in place.
UnshiftOverflowing(array, items) == [array EXCEPT !.items = items \o @]

UnshiftItems(array, items) ==
  LET longer == items \o array.items
  IN  [array EXCEPT !.items =
         IF Len(longer) > array.size
           THEN Spliced(longer, array.size, Len(items), <<>>)
           ELSE longer]

\* A new array of the same size; the arguments are appended one by one.
Concat(array, items) ==
  [items |-> LastItems(array.items \o items, array.size), size |-> array.size]

\* What is inserted too many pushes the first items out.
Splice(array, start, deleted, inserted) ==
  LET spliced == Spliced(array.items, start, deleted, inserted)
  IN  [array EXCEPT !.items = IF inserted = <<>> THEN spliced
                              ELSE LastItems(spliced, array.size)]

\* What Splice returns: the items taken out, then those pushed out.
SpliceResult(array, start, deleted, inserted) ==
  LET spliced == Spliced(array.items, start, deleted, inserted)
      overflow == Len(spliced) - array.size
  IN  SplicedOut(array.items, start, deleted)
        \o IF inserted = <<>> \/ overflow <= 0 THEN <<>>
                                               ELSE SubSeq(spliced, 1, overflow)

\* As many items are popped as the size shrinks by, even from a short array.
Resize(array, size) ==
  LET popped == IF size < array.size THEN array.size - size ELSE 0
      length == IF Len(array.items) > popped THEN Len(array.items) - popped ELSE 0
  IN  [items |-> IF size = 0 THEN <<>> ELSE SubSeq(array.items, 1, length),
       size |-> size]
=============================================================================
