------------------------------ MODULE MCDeque ------------------------------
(* An instance of Deque for TLC: the data are model values.                *)
EXTENDS Deque

CONSTANTS d1, d2

TwoData == {d1, d2}
=============================================================================
