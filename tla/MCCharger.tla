-------------------------------- MODULE MCCharger --------------------------------
(* The charger for TLC: of the six frames the first, one that only stands   *)
(* for a level and the last are kept.                                       *)
EXTENDS ChargerProps

ThreeFrames ==
  [f \in 0..2 |-> [min |-> <<0, 80, 95>>[f + 1], levelOnly |-> f = 1]]

SomeLevels == {-1, 50}

MidLevel == {50}
===============================================================================
