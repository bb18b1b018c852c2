------------------------------- MODULE MCControls -------------------------------
(* Instances of the camera's settings for TLC. *)
EXTENDS ControlsProps

SomeChanges ==
  {<<"scene", "auto">>, <<"scene", "night">>, <<"scene", "party">>,
   <<"flash", "torch">>, <<"focus", "macro">>, <<"iso", "ISO100">>,
   <<"area", "centre">>, <<"quality", 0>>}

(* The preview or a recording does not start, a control is refused. *)
SomeFailures == {{}, {"format"}, {"record"}, {"flash"}}
===============================================================================
