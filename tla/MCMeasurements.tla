--------------------------- MODULE MCMeasurements ---------------------------
(* An instance of Measurements for TLC: the names are model values.        *)
EXTENDS Measurements

CONSTANTS f, g

TwoNames == {f, g}

\* Names are only compared, so they are interchangeable.
NameSymmetry == Permutations(TwoNames)
=============================================================================
