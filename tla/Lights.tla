---------------------------------- MODULE Lights ----------------------------------
(***************************************************************************)
(* liblights/lights.c: set_light() of the backlight and of the             *)
(* notification light, called by two threads of the framework (one call of *)
(* a light at a time).  Both write the buttons' files, one after another   *)
(* under g_lock; the notification light uses the brightness that the       *)
(* backlight left in button_led_brightness.                                *)
(***************************************************************************)
EXTENDS LightState

VARIABLES
  file,                    \* what the files under /sys have
  absent,                  \* those that cannot be opened
  button_led_brightness,
  g_init,                  \* init_globals() was called
  g_lock,                  \* the light whose call holds it
  th                       \* the call of each light: where it is, color, err
vars == <<file, absent, button_led_brightness, g_init, g_lock, th>>

Init ==
  /\ file = [f \in Files |-> 0]
  /\ absent \in SUBSET Files
  /\ button_led_brightness = 1
  /\ g_init = FALSE /\ g_lock = NoLight
  /\ th = [l \in Lights |-> [pc |-> "closed", color |-> Black, err |-> FALSE]]

Go(l, pc) == th' = [th EXCEPT ![l].pc = pc]

open_lights_Bug(l) ==    \* initializes the lock for every light
  /\ th[l].pc = "closed" /\ Go(l, "idle")
  /\ g_init' = TRUE /\ g_lock' = NoLight
  /\ UNCHANGED <<file, absent, button_led_brightness>>

(* The first light that is opened initializes the lock. *)
open_lights(l) ==
  /\ th[l].pc = "closed" /\ Go(l, "idle")
  /\ g_init' = TRUE /\ g_lock' = IF g_init THEN g_lock ELSE NoLight
  /\ UNCHANGED <<file, absent, button_led_brightness>>

close_lights(l) ==
  /\ th[l].pc = "idle" /\ Go(l, "closed")
  /\ UNCHANGED <<file, absent, button_led_brightness, g_init, g_lock>>

set_light(l, c) ==
  /\ th[l].pc = "idle"
  /\ th' = [th EXCEPT ![l].pc = "lock", ![l].color = c]
  /\ UNCHANGED <<file, absent, button_led_brightness, g_init, g_lock>>

Lock(l) ==
  /\ th[l].pc = "lock" /\ g_lock = NoLight
  /\ g_lock' = l
  /\ Go(l, IF l = "backlight" THEN "lcd" ELSE "level")
  /\ UNCHANGED <<file, absent, button_led_brightness, g_init>>

(* err is overwritten by the next write. *)
write_int(l, f, next) ==
  /\ file' = IF f \in absent THEN file
             ELSE [file EXCEPT ![f] = Value(l, th[l].color, button_led_brightness, f)]
  /\ th' = [th EXCEPT ![l].pc = next, ![l].err = f \in absent]
  /\ UNCHANGED <<absent, g_init, g_lock>>

WriteLcd(l) ==
  /\ th[l].pc = "lcd" /\ write_int(l, "lcd", "level")
  /\ button_led_brightness' = LedBrightness(rgb_to_brightness(th[l].color))

WriteLevel(l) ==
  /\ th[l].pc = "level" /\ write_int(l, "level", "buttons")
  /\ UNCHANGED button_led_brightness

WriteButtons(l) ==
  /\ th[l].pc = "buttons" /\ write_int(l, "buttons", "unlock")
  /\ UNCHANGED button_led_brightness

Unlock(l) ==
  /\ th[l].pc = "unlock" /\ Go(l, "idle")
  /\ g_lock' = NoLight
  /\ UNCHANGED <<file, absent, button_led_brightness, g_init>>

Running(l) == Lock(l) \/ WriteLcd(l) \/ WriteLevel(l) \/ WriteButtons(l) \/ Unlock(l)

Next ==
  \E l \in Lights :
    \/ open_lights(l) \/ close_lights(l)
    \/ \E c \in Colors : set_light(l, c)
    \/ Running(l)

Spec == Init /\ [][Next]_vars
===============================================================================
