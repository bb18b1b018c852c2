-------------------------------- MODULE MCCamera --------------------------------
(* Instances of the camera HAL for TLC: which calls the client makes. *)
EXTENDS CameraProps

CallsPicture == {"start", "stop", "window", "take", "cancel", "params"}
CallsRelease == {"start", "stop", "window", "take", "record", "focus", "release"}
CallsErrors  == {"start", "stop", "window", "defer", "record", "release"}

(* The failures after which the flags still say what the nodes do, and      *)
(* those that leave a flag, a lock or a stream behind.                      *)
MildFaults ==
  {"init", "slow", "focus", "start", "data", "name", "buffer", "snapshot"}
HardFaults ==
  {"spurious", "window", "start", "record", "endrecord", "address"}
===============================================================================
