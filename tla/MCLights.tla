-------------------------------- MODULE MCLights --------------------------------
(* Instances of the lights for TLC. *)
EXTENDS LightsProps

(* The greys of an Android backlight at the limits of the buttons' levels,  *)
(* and a blue that is lit although its brightness is 0.                     *)
SomeColors ==
  {<<b, b, b>> : b \in {0, 84, 85, 169, 170, 255}} \union {<<0, 0, 8>>}
===============================================================================
