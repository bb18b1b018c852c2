------------------------------- MODULE LightsSpec -------------------------------
(***************************************************************************)
(* What the lights module promises its callers: every set_light() takes    *)
(* effect at one moment between its call and its return, on all the files  *)
(* of its light that the kernel has, and its result is that of the last,   *)
(* the button light.                                                       *)
(***************************************************************************)
EXTENDS LightState

VARIABLES
  shown,     \* what each file has
  absent,    \* the files that this kernel does not have
  level,     \* how bright the buttons are to be lit
  call       \* what a caller has asked, whether it is done, and its result

Init ==
  /\ shown = [f \in Files |-> 0]
  /\ absent \in SUBSET Files
  /\ level = 1
  /\ call = [l \in Lights |-> [pc |-> "closed", color |-> Black, err |-> FALSE]]

Open(l) ==
  /\ call[l].pc = "closed"
  /\ call' = [call EXCEPT ![l].pc = "idle"]
  /\ UNCHANGED <<shown, absent, level>>

Call(l, c) ==
  /\ call[l].pc = "idle"
  /\ call' = [call EXCEPT ![l].pc = "called", ![l].color = c]
  /\ UNCHANGED <<shown, absent, level>>

Serve(l) ==
  LET c == call[l].color
  IN  /\ call[l].pc = "called"
      /\ level' = IF l = "backlight" THEN LedBrightness(rgb_to_brightness(c)) ELSE level
      /\ shown' = [f \in Files |-> IF f \in Written(l) \ absent
                                   THEN Value(l, c, level', f) ELSE shown[f]]
      /\ call' = [call EXCEPT ![l] = [pc |-> "served", color |-> c, err |-> "buttons" \in absent]]
      /\ UNCHANGED absent

Return(l) ==
  /\ call[l].pc = "served"
  /\ call' = [call EXCEPT ![l].pc = "idle"]
  /\ UNCHANGED <<shown, absent, level>>

Close(l) ==
  /\ call[l].pc = "idle"
  /\ call' = [call EXCEPT ![l].pc = "closed"]
  /\ UNCHANGED <<shown, absent, level>>

Next ==
  \E l \in Lights :
    Open(l) \/ (\E c \in Colors : Call(l, c)) \/ Serve(l) \/ Return(l) \/ Close(l)

Spec == Init /\ [][Next]_<<shown, absent, level, call>>
===============================================================================
