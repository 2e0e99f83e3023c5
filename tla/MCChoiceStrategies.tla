------------------------- MODULE MCChoiceStrategies -------------------------
(* Instances of ChoiceStrategies for TLC.                                  *)
EXTENDS ChoiceStrategies, TLC

AllStrategies == {"ROUND_ROBIN", "LEAST_USED", "LEAST_BUSY", "LEAST_ELU",
                  "FAIR_SHARE", "WEIGHTED_ROUND_ROBIN",
                  "INTERLEAVED_WEIGHTED_ROUND_ROBIN"}
=============================================================================
