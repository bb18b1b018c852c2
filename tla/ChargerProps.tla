------------------------------- MODULE ChargerProps -------------------------------
(* What the charger has to do, and what a comment of it says it does. *)
EXTENDS Charger

(* The tablet never suspends under an animation: autosuspend is enabled     *)
(* only when one is over, or is not shown, with no transition due, and what *)
(* starts the next one, at whatever moment, disables it.  (Whether the      *)
(* panel is dark then is another matter: PanelStaysDark of ChargerProofs.)  *)
SuspendedIsIdle ==
  c.suspend /\ c.power = "on" => ~c.run /\ c.nextScreen = Never

(* The tablet starts only after its power key was down without interruption *)
(* for POWER_ON_KEY_TIME, whatever presses came before.                     *)
NoEarlyRestart == c.power = "restart" => heldFor = PowerOnKeyTime

(* While the driver shows the buffer that gr_flip() made active, that       *)
(* buffer is what was drawn last, turned, not the frame before it, and it   *)
(* is not written to.  A refused FBIOPUT_VSCREENINFO, which gr_flip() does  *)
(* not learn of, suspends both: the panel keeps the old frame, and the next *)
(* gr_flip() writes the buffer on show.  The swap that succeeds after it,   *)
(* however many were refused, brings both back.                             *)
DoubleBuffered ==
  /\ [](c.g.fd /\ c.g.active = c.g.shown /\ c.g.mem # Garbage =>
           c.g.fb[c.g.shown] = c.g.mem)
  /\ [][c.g.fd /\ c.g.active = c.g.shown =>
            c'.g.fb[c.g.shown] = c.g.fb[c.g.shown]]_vars

(* The animation always ends, although keys are pressed while it runs and   *)
(* the display fails; what its last ioctl leaves the panel in is not part   *)
(* of this.                                                                 *)
AnimationEnds == c.run ~> (~c.run \/ c.power # "on")

(* The program switches the tablet off only while its supply is out.        *)
OffUnplugged == [][c.power = "on" /\ c'.power = "off" => ~plugged]_vars

(* That; and a tablet whose supply is out for good is switched off as long  *)
(* as key events keep coming (without one the loop sleeps for ever).        *)
PowersOff ==
  /\ OffUnplugged
  /\ <>[](c.typed /\ ~plugged) /\ []<>(\E k \in Keys : HasEvent(k))
       => <>(c.power # "on")

(* "if the key is pressed but timeout hasn't expired, make sure we wake up  *)
(* at the right-ish time to check": a power key that is held restarts the   *)
(* tablet.                                                                  *)
HoldRestarts == <>[](held["power"]) => <>(c.power # "on")
===============================================================================
