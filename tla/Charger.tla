--------------------------------- MODULE Charger ---------------------------------
(***************************************************************************)
(* charger/charger.c, the program that runs while the tablet charges and   *)
(* is off: a loop that looks at two keys, at the supply and at the battery *)
(* animation, and then sleeps until one of its deadlines or a key event.   *)
(*                                                                         *)
(* Time is counted in ticks.  A deadline is the time that is left to it,   *)
(* as a timestamp is the time that has gone since: "now" is always 0.      *)
(***************************************************************************)
EXTENDS Display, Sequences

CONSTANTS Frames,          \* batt_anim_frames, from 0
          NumCycles,       \* cycles of the animation
          FrameTime,       \* disp_time
          UnknownTime,     \* BATTERY_UNKNOWN_TIME
          PowerOnKeyTime,  \* POWER_ON_KEY_TIME
          SupplyTime,      \* UNPLUGGED_SHUTDOWN_TIME
          Levels,          \* what get_battery_capacity() may return
          Faults           \* what may fail: "frames", "gr", "read", "pan", "blank"

ASSUME TimesAssumption ==
  /\ FrameTime \in Nat \ {0} /\ UnknownTime \in Nat \ {0}
  /\ PowerOnKeyTime \in Nat \ {0} /\ SupplyTime \in Nat \ {0}
ASSUME LevelsAssumption == Levels \subseteq -1..100
ASSUME NumCyclesAssumption == NumCycles \in Nat

AllFrames == 1 + CHOOSE n \in DOMAIN Frames : n + 1 \notin DOMAIN Frames

(* batt_anim_frames is an array, and not an empty one.                      *)
ASSUME FramesAssumption ==
  /\ AllFrames \in Nat \ {0} /\ DOMAIN Frames = 0 .. AllFrames - 1
  /\ \A f \in DOMAIN Frames :
       Frames[f].min \in Int /\ Frames[f].levelOnly \in BOOLEAN

Keys  == {"power", "home"}
Never == -1000    \* a deadline of -1 in the code

VARIABLES c,        \* the charger and the device it drives
          left,     \* what is left of the timeout of ev_wait()
          held,     \* the keys that are down
          heldFor,  \* how long the power key is, or was last, held
          plugged   \* the online file of the supply it started with reads 1

vars == <<c, left, held, heldFor, plugged>>

Min2(a, b) == IF a < b THEN a ELSE b

(* Time passes for a deadline; how late it is does not matter. *)
Sooner(t) == IF t \in {Never, -1} THEN t ELSE t - 1

-------------------------------------------------------------------------------
(* Keys *)

SetNextKeyCheck(s, then) ==
  IF s.nextKey = Never \/ then < s.nextKey THEN [s EXCEPT !.nextKey = then] ELSE s

(* request_suspend(false) and kick_animation() *)
Kick_Bug(s) == [s EXCEPT !.run = TRUE]

Kick(s) == [s EXCEPT !.suspend = FALSE, !.run = TRUE]

ProcessKey(s, code) ==
  LET k == s.keys[code]
      t == IF code = "power" /\ k.down
           THEN IF k.age >= PowerOnKeyTime THEN [s EXCEPT !.power = "restart"]
                ELSE SetNextKeyCheck(s, PowerOnKeyTime - k.age)
           ELSE IF k.pending THEN Kick(s) ELSE s
  IN  [t EXCEPT !.keys[code].pending = FALSE]

HandleInput(s) ==
  LET t == ProcessKey(ProcessKey(s, "power"), "home")
  IN  IF t.nextKey < 0 THEN [t EXCEPT !.nextKey = Never] ELSE t

SetKey_Bug(s, code, down) ==    \* keeps the first timestamp
  IF s.keys[code].down = down THEN s
  ELSE [s EXCEPT !.keys[code].down = down, !.keys[code].pending = TRUE]

(* The age of a key counts, and is asked for, while it is down only.        *)
SetKey(s, code, down) ==
  IF s.keys[code].down = down THEN s
  ELSE [s EXCEPT !.keys[code] = [pending |-> TRUE, down |-> down, age |-> 0]]

-------------------------------------------------------------------------------
(* The supply.  The file that is read is the one of the supply that was on  *)
(* when the program started; with none there is nothing to read.            *)

UpdateSupply_Bug(s, ok, on) ==    \* only learns that it is on
  IF s.typed /\ ok THEN [s EXCEPT !.online = @ \/ on] ELSE s

UpdateSupply(s, ok, on) ==
  IF s.typed /\ ok THEN [s EXCEPT !.online = on] ELSE s

CheckStatus(s, ok, on) ==
  IF s.nextSupply > 0 THEN s
  ELSE LET t == UpdateSupply(s, ok, on)
       IN  IF t.online THEN [t EXCEPT !.nextSupply = SupplyTime]
           ELSE [t EXCEPT !.power = "off"]

-------------------------------------------------------------------------------
(* The animation *)

(* Of a level, the last frame it reaches. *)
FrameOf(level) ==
  CHOOSE f \in DOMAIN Frames :
    /\ \A i \in 1..f : level >= Frames[i].min
    /\ f + 1 \in DOMAIN Frames => level < Frames[f + 1].min

Advance_Bug(s) ==    \* starts over without counting the cycle
  LET later == {f \in s.frame + 1 .. s.frames - 1 : ~Frames[f].levelOnly}
  IN  IF later = {} THEN [s EXCEPT !.frame = 0]
      ELSE [s EXCEPT !.frame = CHOOSE f \in later : \A h \in later : f <= h]

Advance(s) ==
  LET later == {f \in s.frame + 1 .. s.frames - 1 : ~Frames[f].levelOnly}
  IN  IF later = {} THEN [s EXCEPT !.frame = 0, !.cycle = @ + 1]
      ELSE [s EXCEPT !.frame = CHOOSE f \in later : \A h \in later : f <= h]

(* A frame, or the picture for an unknown level; a full cycle of the latter *)
(* is one picture.  The panel is unblanked on the first cycle, and blanked  *)
(* again by the gr_clear() of the redraw.                                   *)
ShowFrame(s, level, io) ==
  LET first   == s.frame = 0
      known   == level >= 0 /\ s.frames # 0
      t       == IF ~first THEN s
                 ELSE [s EXCEPT !.level = level,
                                !.frame = IF known THEN FrameOf(level) ELSE 0]
      unknown == t.frames = 0 \/ t.level < 0
      g       == IF s.cycle = 0 THEN gr_fb_blank(s.g, FALSE, io.light) ELSE s.g
      u       == [t EXCEPT !.g = gr_flip(gr_draw(gr_clear(g, io.dark),
                                          IF unknown THEN -1 ELSE t.frame),
                                         io.pan)]
  IN  IF FlipFaults(s.g) THEN [s EXCEPT !.power = "crashed"]
      ELSE IF unknown
      THEN [u EXCEPT !.nextScreen = UnknownTime, !.cycle = @ + 1]
      ELSE [Advance(u) EXCEPT
              !.nextScreen = IF first /\ known THEN 2 * FrameTime ELSE FrameTime]

(* The animation is over, or does not start, and the system may suspend. *)
Leave(s) == [s EXCEPT !.run = FALSE, !.nextScreen = Never, !.suspend = @ \/ s.online]

Over(s) == s.cycle = s.cycles

(* A picture is due. *)
Due(s) == s.power = "on" /\ s.run /\ s.nextScreen <= 0

UpdateScreen(s, level, r, io) ==
  IF ~s.inited /\ level < 0 THEN Leave(s)
  ELSE LET t == IF s.inited THEN s
                ELSE [s EXCEPT !.inited = TRUE,
                               !.g = gr_fb_blank(gr_init(@, r, io.pan), TRUE, io.dark)]
       IN  IF Over(t)
           THEN [Leave(t) EXCEPT !.cycle = 0, !.frame = 0,
                                 !.g = gr_fb_blank(@, TRUE, io.dark)]
           ELSE ShowFrame(t, level, io)

-------------------------------------------------------------------------------
(* The program *)

(* main(): typed says whether a supply was on, charger_type # NONE; the     *)
(* keys that are down already are known; the animation starts at once.      *)
Start(typed, frames, down) ==
  [power |-> "on", typed |-> typed, online |-> TRUE,
   nextScreen |-> -1, nextKey |-> Never, nextSupply |-> SupplyTime,
   keys |-> [k \in Keys |-> [pending |-> down[k], down |-> down[k], age |-> 0]],
   run |-> TRUE, frame |-> 0, cycle |-> 0, level |-> 0, frames |-> frames,
   cycles |-> IF frames = 0 THEN 1 ELSE NumCycles,
   inited |-> FALSE, g |-> NoDisplay, suspend |-> FALSE]

Init ==
  /\ plugged \in BOOLEAN
  /\ held \in [Keys -> BOOLEAN]
  /\ \E frames \in IF "frames" \in Faults THEN {0, AllFrames} ELSE {AllFrames} :
       c = Start(plugged, frames, held)
  /\ left = 0 /\ heldFor = 0

NextEvent(s) ==
  LET due == {s.nextScreen, s.nextKey} \ {Never}
  IN  IF due = {} THEN Never
      ELSE LET t == CHOOSE t \in due : \A u \in due : t <= u
           IN  IF t < 0 THEN 0 ELSE t

(* The kernel has an event of a key that is not what the program knows.     *)
HasEvent(code) == held[code] # c.keys[code].down

May(fault) == IF fault \in Faults THEN BOOLEAN ELSE {TRUE}

(* What the driver answers in one turn of the loop: to FBIOPUT_VSCREENINFO, *)
(* to FBIOBLANK for the unblanking and to FBIOBLANK for the blanking.  Two  *)
(* ioctls of a kind in one turn (the initialisation's and the redraw's) may *)
(* answer alike: what the second leaves does not depend on the first.       *)
Answers == [pan : May("pan"), light : May("blank"), dark : May("blank")]

Turned(s) ==
  /\ c' = s /\ left' = NextEvent(s)
  /\ UNCHANGED <<held, heldFor, plugged>>

(* ev_wait() returns, for the time or with an event, which ev_dispatch()    *)
(* hands to set_key_callback(); the loop turns and waits again.             *)
EventLoop(s) ==
  \E ok \in May("read"), t \in {HandleInput(s)} :
    \E u \in {IF t.power = "on" THEN CheckStatus(t, ok, plugged) ELSE t} :
      \/ ~Due(u) /\ Turned(u)
      \/ /\ Due(u)
         /\ \E level \in Levels, io \in Answers,
               r \in IF "gr" \in Faults THEN InitResults ELSE {"ok"} :
              \E v \in {UpdateScreen(u, level, r, io)} : Turned(v)

Timeout == c.power = "on" /\ left \in {0, -1} /\ EventLoop(c)

Dispatch(code) ==
  /\ c.power = "on" /\ HasEvent(code)
  /\ \E s \in {SetKey(c, code, held[code])} : EventLoop(s)

-------------------------------------------------------------------------------
(* Around it: while the program sleeps, and it may wake up one tick late,   *)
(* time passes, one of the keys may change, and the cable may be pulled or  *)
(* plugged in.                                                              *)

Age(k) == IF k.down THEN [k EXCEPT !.age = Min2(@ + 1, PowerOnKeyTime)] ELSE k

Tick(code) ==
  /\ c.power = "on" /\ left # -1
  /\ \A k \in Keys : ~HasEvent(k)
  /\ left' = Sooner(left)
  /\ c' = [c EXCEPT !.nextScreen = Sooner(@), !.nextKey = Sooner(@),
                    !.nextSupply = Sooner(@), !.keys["power"] = Age(@)]
  /\ held' \in {held, [held EXCEPT ![code] = ~@]}
  /\ heldFor' = IF held["power"] THEN Min2(heldFor + 1, PowerOnKeyTime) ELSE 0
  /\ plugged' \in BOOLEAN

Next ==
  \/ Timeout
  \/ \E code \in Keys : Dispatch(code) \/ Tick(code)

(* The program runs when it can, and time passes; nobody has to press a key *)
(* or to pull the cable.                                                    *)
Spec ==
  /\ Init /\ [][Next]_vars
  /\ WF_vars(Timeout)
  /\ WF_vars(\E code \in Keys : Dispatch(code))
  /\ WF_vars(\E code \in Keys : Tick(code))
===============================================================================
