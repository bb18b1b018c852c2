-------------------------------- MODULE MCAudio --------------------------------
(* Instances of the audio HAL for TLC: which calls the clients make. *)
EXTENDS AudioProps

CallsMedia == {"write", "read", "mode"}
CallsFault == CallsMedia \union {"standby"}
CallsMode  == CallsFault \union {"routing", "mute"}
CallsEchoCall  == CallsMedia \union {"aec"}
CallsAll   == CallsMode \union {"aec", "close"}
===============================================================================
