------------------------------- MODULE LightsProps -------------------------------
(* What the lights promise: one call of set_light() is one step to the rest. *)
EXTENDS Lights

(* Type correctness: every value written to a file is a byte, the buttons'  *)
(* brightness is one of the three the driver knows.                         *)
TypeOK ==
  /\ file \in [Files -> Byte] /\ absent \subseteq Files
  /\ button_led_brightness \in 1..3
  /\ g_init \in BOOLEAN /\ g_lock \in Lights \union {NoLight}
  /\ th \in [Lights -> [pc : {"closed", "idle", "lock", "lcd", "level", "buttons", "unlock"},
                        color : Byte \X Byte \X Byte, err : BOOLEAN]]

(***************************************************************************)
(* The refinement: a call takes effect when it takes the lock.  From then  *)
(* on the files show what is left to be written to them.                   *)
(***************************************************************************)
Left(l) ==
  CASE th[l].pc = "lcd"     -> {"lcd", "level", "buttons"}
    [] th[l].pc = "level"   -> {"level", "buttons"}
    [] th[l].pc = "buttons" -> {"buttons"}
    [] OTHER                -> {}

LevelShown ==
  IF th["backlight"].pc = "lcd"
  THEN LedBrightness(rgb_to_brightness(th["backlight"].color))
  ELSE button_led_brightness

FileShown ==
  [f \in Files |->
     IF f \in Left("backlight") \ absent
     THEN Value("backlight", th["backlight"].color, LevelShown, f)
     ELSE IF f \in Left("notifications") \ absent
     THEN Value("notifications", th["notifications"].color, LevelShown, f)
     ELSE file[f]]

CallShown ==
  [l \in Lights |->
     [pc    |-> CASE th[l].pc = "lock" -> "called"
                  [] th[l].pc \in {"closed", "idle"} -> th[l].pc
                  [] OTHER -> "served",
      color |-> th[l].color,
      err   |-> IF Left(l) # {} THEN "buttons" \in absent ELSE th[l].err]]

Promised == INSTANCE LightsSpec
              WITH shown <- FileShown, level <- LevelShown, call <- CallShown

(* The calls of the two threads are atomic: what the files show at last is  *)
(* what the calls would leave if they were made one after another, each     *)
(* between its call and its return, and whatever files are missing.         *)
Atomic == Promised!Spec

(* While nobody sets a light, the buttons are as bright as goes with the    *)
(* screen, however the calls of the two lights overlapped before.           *)
LevelFollowsScreen ==
  g_lock = NoLight /\ absent = {} => file["level"] \in {0, LedBrightness(file["lcd"])}
===============================================================================
