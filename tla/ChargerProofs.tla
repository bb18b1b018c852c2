------------------------------ MODULE ChargerProofs ------------------------------
(* The charger and its display, for every animation, number of cycles,      *)
(* deadlines, levels of the battery, faults and size of the screen.         *)
EXTENDS ChargerProps, WellFoundedInduction, TLAPS

Deadlines == Nat \union {Never, -1}

Surfaces == {NoSurface} \union [Bytes -> Int \X Bytes]

DisplayType ==
  [fd : BOOLEAN, sized : BOOLEAN, mem : Surfaces, fb : [0..1 -> Surfaces],
   active : 0..1, shown : 0..1, blank : BOOLEAN]

KeyType == [pending : BOOLEAN, down : BOOLEAN, age : 0..PowerOnKeyTime]

ChargerType ==
  [power : {"on", "off", "restart", "crashed"}, typed : BOOLEAN, online : BOOLEAN,
   nextScreen : Deadlines, nextKey : Deadlines, nextSupply : Deadlines,
   keys : [Keys -> KeyType], run : BOOLEAN, frame : 0 .. AllFrames - 1,
   cycle : Nat, level : -1..100, frames : {0, AllFrames}, cycles : Nat,
   inited : BOOLEAN, g : DisplayType, suspend : BOOLEAN]

(* The types of the charger, and the end of its animation: a cycle that is  *)
(* counted was one of those to show.                                        *)
TypeOK ==
  /\ c \in ChargerType /\ c.cycle <= c.cycles
  /\ left \in Deadlines
  /\ held \in [Keys -> BOOLEAN]
  /\ heldFor \in 0..PowerOnKeyTime
  /\ plugged \in BOOLEAN

(* An open display has a surface, and the buffer it shows is the one that   *)
(* was filled last, unless the driver refused to show that one.             *)
DisplayInv(g) ==
  g.fd => /\ g.sized /\ g.mem # NoSurface
          /\ g.active = g.shown /\ g.mem # Garbage => g.fb[g.shown] = g.mem

(* Between two turns of the loop the panel is powered down, if it obeys.    *)
DarkInv(g) == "blank" \notin Faults => (g.fd => g.blank)

(* Without an animation no picture is due; the system may only suspend      *)
(* then; and the display is opened by the first picture.                    *)
IdleInv(s) ==
  /\ ~s.run => s.nextScreen = Never
  /\ s.suspend => ~s.run
  /\ ~s.inited => ~s.g.fd

(* What the program knows of the age of the power key is at most the time   *)
(* for which the key is really held.                                        *)
KeyInv ==
  /\ c.keys["power"].down => c.keys["power"].age <= heldFor
  /\ c.power = "restart" => heldFor = PowerOnKeyTime

SupplyInv == c.power = "on" => c.online

Inv ==
  TypeOK /\ DisplayInv(c.g) /\ DarkInv(c.g) /\ IdleInv(c) /\ KeyInv /\ SupplyInv

-------------------------------------------------------------------------------
(* The display *)

(* A picture covers the surface.                                            *)
LEMMA PictureType ==
  ASSUME NEW p \in Int
  PROVE  Picture(p) \in Surfaces /\ Picture(p) # NoSurface
<1>1. Picture(p) \in [Bytes -> Int \X Bytes]
  BY DEF Picture
<1>2. 0 \in Bytes
  BY PixelsAssumption DEF Bytes
<1>3. DOMAIN Picture(p) = Bytes /\ DOMAIN NoSurface = {}
  BY DEF Picture, NoSurface
<1> QED BY <1>1, <1>2, <1>3 DEF Surfaces

(* gr_flip() turns the surface in place: its loop reads no byte outside it. *)
LEMMA FlippedType ==
  ASSUME NEW m \in Surfaces, m # NoSurface
  PROVE  Flipped(m) \in Surfaces /\ Flipped(m) # NoSurface
<1>1. m \in [Bytes -> Int \X Bytes]
  BY DEF Surfaces
<1>2. 0 \in Bytes /\ \A j \in Bytes : j # 0 => 2 * Pixels - j \in Bytes
  BY PixelsAssumption DEF Bytes
<1>3. Flipped(m) \in [Bytes -> Int \X Bytes]
  BY <1>1, <1>2 DEF Flipped
<1>4. DOMAIN Flipped(m) = Bytes /\ DOMAIN NoSurface = {}
  BY DEF Flipped, NoSurface
<1> QED BY <1>2, <1>3, <1>4 DEF Surfaces

(* Turned twice, a surface is what it was.                                  *)
THEOREM FlipInvolutive ==
  ASSUME NEW m \in [Bytes -> Int \X Bytes]
  PROVE  Flipped(Flipped(m)) = m
<1>1. 0 \in Bytes /\ \A j \in Bytes : j # 0 => 2 * Pixels - j \in Bytes /\ 2 * Pixels - j # 0
  BY PixelsAssumption DEF Bytes
<1>2. \A j \in Bytes : 2 * Pixels - (2 * Pixels - j) = j
  BY PixelsAssumption DEF Bytes
<1>3. ASSUME NEW j \in Bytes PROVE Flipped(Flipped(m))[j] = m[j]
  BY <1>1, <1>2 DEF Flipped
<1>4. DOMAIN Flipped(Flipped(m)) = Bytes
  BY DEF Flipped
<1> QED BY <1>3, <1>4 DEF Flipped

(* gr_init() leaves a display with a blank picture, or none.                *)
LEMMA InitDisplay ==
  ASSUME NEW g \in DisplayType, NEW r \in InitResults, NEW ok \in BOOLEAN
  PROVE  /\ gr_init(g, r, ok) \in DisplayType
         /\ DisplayInv(gr_init(g, r, ok))
<1>1. /\ Zeroes \in Surfaces /\ NoSurface \in Surfaces
      /\ Garbage \in Surfaces /\ Garbage # NoSurface
  BY PictureType DEF Zeroes, Garbage, Surfaces
<1>2. CASE r = "ok"
  <2>1. PICK b \in BOOLEAN : b = TRUE
    OBVIOUS
  <2>2. PICK z \in 0..1 : z = 0
    OBVIOUS
  <2>3. PICK m \in Surfaces : m = Garbage
    BY <1>1
  <2>4. PICK f : f = [n \in 0..1 |-> Zeroes]
    OBVIOUS
  <2>5. f \in [0..1 -> Surfaces]
    BY <1>1, <2>4
  <2>6. PICK k : k = [g EXCEPT !.fd = b, !.sized = b, !.mem = m, !.fb = f, !.active = z]
    OBVIOUS
  <2>7. k \in DisplayType /\ k.fd = b /\ k.sized = b /\ k.mem = m /\ k.active = z
    BY <2>5, <2>6 DEF DisplayType
  <2>8. gr_init(g, r, ok) = IF ok THEN [k EXCEPT !.shown = 0] ELSE k
    BY <1>2, <2>1, <2>2, <2>3, <2>4, <2>6, <2>7 DEF gr_init, set_active_framebuffer
  <2> QED BY <1>1, <2>1, <2>2, <2>3, <2>7, <2>8 DEF DisplayType, DisplayInv
<1>3. CASE r # "ok"
  <2>1. \A b \in BOOLEAN : [g EXCEPT !.sized = b] \in DisplayType
    BY DEF DisplayType
  <2>2. \A h \in DisplayType : gr_exit(h) \in DisplayType /\ ~gr_exit(h).fd
    BY <1>1 DEF gr_exit, DisplayType
  <2>3. (g.sized \/ r = "map") \in BOOLEAN
    OBVIOUS
  <2> QED BY <1>3, <2>1, <2>2, <2>3 DEF gr_init, DisplayInv
<1> QED BY <1>2, <1>3

(* Blanking touches the panel only.                                         *)
LEMMA BlankDisplay ==
  ASSUME NEW g \in DisplayType, NEW on \in BOOLEAN, NEW ok \in BOOLEAN
  PROVE  LET h == gr_fb_blank(g, on, ok)
         IN  /\ h \in DisplayType /\ h.fd = g.fd /\ (h.fd /\ ok => h.blank = on)
             /\ h.sized = g.sized /\ h.mem = g.mem /\ h.fb = g.fb
             /\ h.active = g.active /\ h.shown = g.shown
BY DEF gr_fb_blank, DisplayType

(* Powered down, a panel that obeys is dark.                                *)
LEMMA DarkDisplay ==
  ASSUME NEW g \in DisplayType, NEW ok \in BOOLEAN, "blank" \notin Faults => ok
  PROVE  LET h == gr_fb_blank(g, TRUE, ok)
         IN  /\ h \in DisplayType /\ h.fd = g.fd /\ h.fb = g.fb
             /\ DarkInv(h) /\ (DisplayInv(g) => DisplayInv(h))
<1>1. CASE g.fd /\ ok
  <2>1. PICK h : h = [g EXCEPT !.blank = TRUE]
    OBVIOUS
  <2>2. /\ h \in DisplayType /\ h.fd = g.fd /\ h.fb = g.fb /\ h.blank
        /\ h.sized = g.sized /\ h.mem = g.mem
        /\ h.active = g.active /\ h.shown = g.shown
    BY <2>1 DEF DisplayType
  <2>3. gr_fb_blank(g, TRUE, ok) = h
    BY <1>1, <2>1 DEF gr_fb_blank
  <2>4. DarkInv(h) /\ (DisplayInv(g) => DisplayInv(h))
    BY <2>2 DEF DarkInv, DisplayInv
  <2> QED BY <2>2, <2>3, <2>4
<1>2. CASE ~(g.fd /\ ok)
  BY <1>2 DEF gr_fb_blank, DarkInv
<1> QED BY <1>1, <1>2

(* Clearing and drawing leave a surface where there was one.                *)
LEMMA DrawDisplay ==
  ASSUME NEW g \in DisplayType, NEW p \in Int, NEW ok \in BOOLEAN
  PROVE  LET h == gr_draw(gr_clear(g, ok), p)
         IN  /\ h \in DisplayType /\ h.fd = g.fd /\ h.sized = g.sized
             /\ h.fb = g.fb /\ h.active = g.active /\ h.shown = g.shown
             /\ h.mem = NoSurface <=> g.mem = NoSurface
             /\ h.fd /\ ok => h.blank
<1>1. Picture(p) \in Surfaces /\ Picture(p) # NoSurface
  BY PictureType
<1>2. PICK k \in DisplayType : k = gr_clear(g, ok)
  BY BlankDisplay DEF gr_clear
<1>3. /\ k.fd = g.fd /\ k.sized = g.sized /\ k.mem = g.mem
      /\ k.fb = g.fb /\ k.active = g.active /\ k.shown = g.shown
      /\ k.fd /\ ok => k.blank
  BY <1>2, BlankDisplay DEF gr_clear
<1>4. \A q \in Surfaces :
        LET h == [k EXCEPT !.mem = q]
        IN  /\ h \in DisplayType /\ h.fd = k.fd /\ h.sized = k.sized /\ h.mem = q
            /\ h.fb = k.fb /\ h.active = k.active /\ h.shown = k.shown
            /\ h.blank = k.blank
  BY DEF DisplayType
<1> QED BY <1>1, <1>2, <1>3, <1>4 DEF gr_draw

(* gr_flip() fills the buffer that is not active and shows it, if the       *)
(* driver agrees: one that was active and shown keeps its bytes.            *)
LEMMA FlipDisplay ==
  ASSUME NEW g \in DisplayType, ~FlipFaults(g), g.fd => g.sized, NEW ok \in BOOLEAN
  PROVE  LET h == gr_flip(g, ok)
         IN  /\ h \in DisplayType /\ DisplayInv(h)
             /\ h.fd = g.fd /\ h.blank = g.blank
             /\ g.fd /\ g.active = g.shown => h.fb[g.shown] = g.fb[g.shown]
<1> DEFINE n == (g.active + 1) % 2
<1>1. n \in 0..1 /\ n # g.active
  BY DEF DisplayType
<1>2. CASE ~g.sized
  BY <1>1, <1>2 DEF gr_flip, DisplayType, DisplayInv
<1>3. CASE g.sized
  <2>1. PICK m \in Surfaces : m = Flipped(g.mem) /\ m # NoSurface
    BY <1>3, FlippedType DEF FlipFaults, DisplayType
  <2>2. PICK k \in DisplayType : k = [g EXCEPT !.active = n, !.mem = m, !.fb[n] = m]
    BY <1>1 DEF DisplayType
  <2>3. /\ k.fd = g.fd /\ k.sized /\ k.mem = m /\ k.active = n /\ k.shown = g.shown
        /\ k.blank = g.blank
        /\ k.fb[n] = m /\ \A i \in 0..1 : i # n => k.fb[i] = g.fb[i]
    BY <1>1, <1>3, <2>2 DEF DisplayType
  <2>4. gr_flip(g, ok) = set_active_framebuffer(k, n, ok)
    BY <1>3, <2>1, <2>2 DEF gr_flip
  <2>5. g.active = g.shown => g.shown # n /\ g.shown \in 0..1
    BY <1>1 DEF DisplayType
  <2>6. CASE ~(g.fd /\ ok)
    <3>1. gr_flip(g, ok) = k
      BY <2>3, <2>4, <2>6 DEF set_active_framebuffer
    <3> HIDE DEF n
    <3>2. DisplayInv(k)
      BY <2>1, <2>3 DEF DisplayInv
    <3> QED BY <2>3, <2>5, <3>1, <3>2
  <2>7. CASE g.fd /\ ok
    <3>1. PICK h : h = [k EXCEPT !.shown = n] /\ h = gr_flip(g, ok)
      BY <2>3, <2>4, <2>7 DEF set_active_framebuffer
    <3>2. /\ h \in DisplayType /\ h.fd = k.fd /\ h.sized = k.sized /\ h.mem = k.mem
          /\ h.fb = k.fb /\ h.active = k.active /\ h.shown = n /\ h.blank = k.blank
      BY <1>1, <3>1 DEF DisplayType
    <3> HIDE DEF n
    <3>3. DisplayInv(h)
      BY <2>1, <2>3, <3>2 DEF DisplayInv
    <3> QED BY <2>3, <2>5, <3>1, <3>2, <3>3
  <2> QED BY <2>6, <2>7
<1> QED BY <1>2, <1>3

-------------------------------------------------------------------------------
(* The keys *)

Good(s) ==
  /\ s \in ChargerType /\ s.cycle <= s.cycles
  /\ DisplayInv(s.g) /\ DarkInv(s.g) /\ IdleInv(s)

(* What handling a key leaves: the ages, the supply and the display; and a  *)
(* restart is asked for by a power key that is down for long enough.        *)
KeyStep(s, t) ==
  /\ Good(t) /\ t.g = s.g /\ t.online = s.online /\ t.nextSupply = s.nextSupply
  /\ \A k \in Keys : t.keys[k].down = s.keys[k].down /\ t.keys[k].age = s.keys[k].age
  /\ t.power \in {s.power, "restart"}
  /\ t.power = "restart" /\ s.power # "restart" =>
       s.keys["power"].down /\ s.keys["power"].age = PowerOnKeyTime

(* Kick() starts the animation again and keeps the system awake.            *)
LEMMA KickKeeps ==
  ASSUME NEW s, Good(s)
  PROVE  KeyStep(s, Kick(s))
<1>1. PICK t : t = Kick(s)
  OBVIOUS
<1>2. /\ t \in ChargerType /\ t.run /\ ~t.suspend /\ t.g = s.g /\ t.online = s.online
      /\ t.nextSupply = s.nextSupply /\ t.keys = s.keys /\ t.power = s.power
      /\ t.cycle = s.cycle /\ t.cycles = s.cycles /\ t.inited = s.inited
  BY <1>1 DEF Kick, Good, ChargerType
<1> QED BY <1>1, <1>2 DEF KeyStep, Good, IdleInv

(* A deadline of a key.                                                     *)
LEMMA NextKeyCheckKeeps ==
  ASSUME NEW s, Good(s), NEW then \in Deadlines
  PROVE  KeyStep(s, SetNextKeyCheck(s, then))
<1>1. PICK t : t = [s EXCEPT !.nextKey = then]
  OBVIOUS
<1>2. /\ t \in ChargerType /\ t.run = s.run /\ t.suspend = s.suspend /\ t.g = s.g
      /\ t.online = s.online /\ t.nextSupply = s.nextSupply /\ t.keys = s.keys
      /\ t.power = s.power /\ t.nextScreen = s.nextScreen
      /\ t.cycle = s.cycle /\ t.cycles = s.cycles /\ t.inited = s.inited
  BY <1>1 DEF Good, ChargerType
<1> QED BY <1>1, <1>2 DEF SetNextKeyCheck, KeyStep, Good, IdleInv

(* A key that is handled is not pending any more.                           *)
LEMMA PendingKeeps ==
  ASSUME NEW s, Good(s), NEW code \in Keys
  PROVE  KeyStep(s, [s EXCEPT !.keys[code].pending = FALSE])
<1>1. PICK ks : ks = [s.keys EXCEPT ![code].pending = FALSE]
  OBVIOUS
<1>2. /\ ks \in [Keys -> KeyType]
      /\ \A k \in Keys : ks[k].down = s.keys[k].down /\ ks[k].age = s.keys[k].age
  <2>1. s.keys \in [Keys -> KeyType]
    BY DEF Good, ChargerType
  <2> QED BY <1>1, <2>1 DEF KeyType
<1>3. PICK t : t = [s EXCEPT !.keys = ks]
  OBVIOUS
<1>4. /\ t \in ChargerType /\ t.run = s.run /\ t.suspend = s.suspend /\ t.g = s.g
      /\ t.online = s.online /\ t.nextSupply = s.nextSupply /\ t.keys = ks
      /\ t.power = s.power /\ t.nextScreen = s.nextScreen
      /\ t.cycle = s.cycle /\ t.cycles = s.cycles /\ t.inited = s.inited
  BY <1>2, <1>3 DEF Good, ChargerType
<1>5. t = [s EXCEPT !.keys[code].pending = FALSE]
  BY <1>1, <1>3 DEF Good, ChargerType
<1>6. KeyStep(s, t)
  BY <1>2, <1>4 DEF KeyStep, Good, IdleInv
<1> QED BY <1>5, <1>6

(* A restart.                                                               *)
LEMMA RestartKeeps ==
  ASSUME NEW s, Good(s), s.keys["power"].down, s.keys["power"].age >= PowerOnKeyTime
  PROVE  KeyStep(s, [s EXCEPT !.power = "restart"])
<1>1. PICK t : t = [s EXCEPT !.power = "restart"]
  OBVIOUS
<1>2. /\ t \in ChargerType /\ t.run = s.run /\ t.suspend = s.suspend /\ t.g = s.g
      /\ t.online = s.online /\ t.nextSupply = s.nextSupply /\ t.keys = s.keys
      /\ t.power = "restart" /\ t.nextScreen = s.nextScreen
      /\ t.cycle = s.cycle /\ t.cycles = s.cycles /\ t.inited = s.inited
  BY <1>1 DEF Good, ChargerType
<1>3. s.keys["power"] \in KeyType
  BY DEF Good, ChargerType, Keys
<1>4. s.keys["power"].age = PowerOnKeyTime
  BY <1>3, TimesAssumption DEF KeyType
<1> QED BY <1>1, <1>2, <1>4 DEF KeyStep, Good, IdleInv

(* Nothing is lost between two steps of the input.                          *)
LEMMA KeyStepTrans ==
  ASSUME NEW s, NEW t, NEW u, KeyStep(s, t), KeyStep(t, u)
  PROVE  KeyStep(s, u)
BY DEF KeyStep, Keys

(* Doing nothing is a step of the input.                                    *)
LEMMA KeyStepRefl ==
  ASSUME NEW s, Good(s)
  PROVE  KeyStep(s, s)
BY DEF KeyStep

(* process_key(): a restart, a deadline, or an animation.                   *)
LEMMA ProcessKeyKeeps ==
  ASSUME NEW s, Good(s), NEW code \in Keys
  PROVE  KeyStep(s, ProcessKey(s, code))
<1> DEFINE k == s.keys[code]
           t == IF code = "power" /\ k.down
                THEN IF k.age >= PowerOnKeyTime THEN [s EXCEPT !.power = "restart"]
                     ELSE SetNextKeyCheck(s, PowerOnKeyTime - k.age)
                ELSE IF k.pending THEN Kick(s) ELSE s
<1>1. k \in KeyType
  BY DEF Good, ChargerType
<1>2. KeyStep(s, t)
  <2>1. CASE code = "power" /\ k.down /\ k.age >= PowerOnKeyTime
    BY <2>1, RestartKeeps
  <2>2. CASE code = "power" /\ k.down /\ ~(k.age >= PowerOnKeyTime)
    <3>1. PowerOnKeyTime - k.age \in Deadlines
      BY <1>1, <2>2, TimesAssumption DEF KeyType, Deadlines
    <3> QED BY <2>2, <3>1, NextKeyCheckKeeps
  <2>3. CASE ~(code = "power" /\ k.down) /\ k.pending
    BY <2>3, KickKeeps
  <2>4. CASE ~(code = "power" /\ k.down) /\ ~k.pending
    BY <2>4, KeyStepRefl
  <2> QED BY <2>1, <2>2, <2>3, <2>4
<1>3. Good(t)
  BY <1>2 DEF KeyStep
<1>4. ProcessKey(s, code) = [t EXCEPT !.keys[code].pending = FALSE]
  BY DEF ProcessKey
<1> HIDE DEF t
<1> QED BY <1>2, <1>3, <1>4, PendingKeeps, KeyStepTrans

(* handle_input_state() asks for a restart only after a long press.         *)
LEMMA HandleInputKeeps ==
  ASSUME NEW s, Good(s)
  PROVE  KeyStep(s, HandleInput(s))
<1> DEFINE u == ProcessKey(s, "power")
           t == ProcessKey(u, "home")
<1>1. KeyStep(s, u) /\ Good(u)
  BY ProcessKeyKeeps DEF Keys, KeyStep
<1>2. KeyStep(u, t) /\ Good(t)
  <2> HIDE DEF u
  <2> QED BY <1>1, ProcessKeyKeeps DEF Keys, KeyStep
<1>3. PICK v : v = [t EXCEPT !.nextKey = Never]
  OBVIOUS
<1>4. KeyStep(t, v)
  <2> HIDE DEF t
  <2>1. /\ v \in ChargerType /\ v.run = t.run /\ v.suspend = t.suspend /\ v.g = t.g
        /\ v.online = t.online /\ v.nextSupply = t.nextSupply /\ v.keys = t.keys
        /\ v.power = t.power /\ v.nextScreen = t.nextScreen
        /\ v.cycle = t.cycle /\ v.cycles = t.cycles /\ v.inited = t.inited
    BY <1>2, <1>3 DEF Good, ChargerType, Deadlines
  <2> QED BY <1>2, <2>1 DEF KeyStep, Good, IdleInv
<1>5. HandleInput(s) \in {t, v}
  BY <1>3 DEF HandleInput
<1> HIDE DEF u, t
<1> QED BY <1>1, <1>2, <1>4, <1>5, KeyStepTrans

(* set_key_callback(): a press begins at age 0.                             *)
LEMMA SetKeyKeeps ==
  ASSUME NEW s, Good(s), NEW code \in Keys, NEW down \in BOOLEAN, NEW n \in Nat,
         s.keys["power"].down => s.keys["power"].age <= n
  PROVE  LET t == SetKey(s, code, down)
         IN  /\ Good(t) /\ t.g = s.g /\ t.online = s.online /\ t.power = s.power
             /\ t.nextSupply = s.nextSupply
             /\ t.keys["power"].down => t.keys["power"].age <= n
<1>1. CASE s.keys[code].down = down
  BY <1>1 DEF SetKey
<1>2. CASE s.keys[code].down # down
  <2>1. PICK k : k = [pending |-> TRUE, down |-> down, age |-> 0]
    OBVIOUS
  <2>2. k \in KeyType /\ k.age = 0
    BY <2>1, TimesAssumption DEF KeyType
  <2>3. PICK ks : ks = [s.keys EXCEPT ![code] = k]
    OBVIOUS
  <2>4. ks \in [Keys -> KeyType] /\ (ks["power"].down => ks["power"].age <= n)
    BY <2>2, <2>3 DEF Good, ChargerType, Keys
  <2>5. PICK t : t = [s EXCEPT !.keys = ks]
    OBVIOUS
  <2>6. /\ t \in ChargerType /\ t.run = s.run /\ t.suspend = s.suspend /\ t.g = s.g
        /\ t.online = s.online /\ t.nextSupply = s.nextSupply /\ t.keys = ks
        /\ t.power = s.power /\ t.nextScreen = s.nextScreen
        /\ t.cycle = s.cycle /\ t.cycles = s.cycles /\ t.inited = s.inited
    BY <2>4, <2>5 DEF Good, ChargerType
  <2>7. SetKey(s, code, down) = t
    BY <1>2, <2>1, <2>3, <2>5 DEF SetKey, Good, ChargerType
  <2> QED BY <2>4, <2>6, <2>7 DEF Good, IdleInv
<1> QED BY <1>1, <1>2

-------------------------------------------------------------------------------
(* The animation *)

(* A set of numbers has a least one.                                        *)
LEMMA LeastNumber ==
  ASSUME NEW T \in SUBSET Nat, T # {}
  PROVE  \E x \in T : \A y \in T : x <= y
<1>1. PICK x \in T : \A y \in T : <<y, x>> \notin OpToRel(<, Nat)
  BY WFMin, NatLessThanWellFounded
<1>2. \A y \in T : ~(y < x)
  BY <1>1 DEF OpToRel
<1> QED BY <1>2

(* Every level has its frame, the last one that it reaches: the search of   *)
(* update_screen_state() ends inside the array, whatever the levels of the  *)
(* frames are.                                                              *)
THEOREM FrameOfLevel ==
  ASSUME NEW level \in Int
  PROVE  /\ FrameOf(level) \in 0 .. AllFrames - 1
         /\ \A i \in 1 .. FrameOf(level) : level >= Frames[i].min
         /\ FrameOf(level) < AllFrames - 1 => level < Frames[FrameOf(level) + 1].min
<1> DEFINE Stops(f) == f + 1 \in DOMAIN Frames => level < Frames[f + 1].min
           T == {f \in 0 .. AllFrames - 1 : Stops(f)}
<1>1. AllFrames - 1 \in T /\ T \in SUBSET Nat
  BY FramesAssumption
<1>2. PICK f \in T : \A h \in T : f <= h
  BY <1>1, LeastNumber
<1>3. \A i \in 1..f : level >= Frames[i].min
  <2>1. SUFFICES ASSUME NEW i \in 1..f PROVE level >= Frames[i].min
    OBVIOUS
  <2>2. i - 1 \in 0 .. AllFrames - 1 /\ i - 1 \notin T /\ (i - 1) + 1 = i
    BY <1>2, FramesAssumption
  <2>3. i \in DOMAIN Frames /\ ~(level < Frames[i].min)
    BY <2>2
  <2> QED BY <2>3, FramesAssumption
<1>4. f \in DOMAIN Frames
  BY FramesAssumption
<1>5. /\ FrameOf(level) \in DOMAIN Frames
      /\ \A i \in 1 .. FrameOf(level) : level >= Frames[i].min
      /\ FrameOf(level) + 1 \in DOMAIN Frames => level < Frames[FrameOf(level) + 1].min
  BY <1>3, <1>4 DEF FrameOf
<1> QED BY <1>5, FramesAssumption

(* What a turn of the animation leaves: the keys and the supply; and the    *)
(* buffer that was shown, if it was the active one.                         *)
ScreenStep(s, t) ==
  /\ Good(t) /\ t.keys = s.keys /\ t.online = s.online
  /\ t.power \in {s.power, "crashed"}
  /\ s.g.fd /\ s.g.active = s.g.shown => t.g.fb[s.g.shown] = s.g.fb[s.g.shown]

(* What the driver may answer, and that a panel that obeys answers well.    *)
LEMMA AnswersType ==
  ASSUME NEW io \in Answers
  PROVE  \E pan, light, dark \in BOOLEAN :
           /\ io = [pan |-> pan, light |-> light, dark |-> dark]
           /\ "blank" \notin Faults => dark
BY DEF Answers, May

(* The screen is left as it is.                                             *)
LEMMA LeaveKeeps ==
  ASSUME NEW s, Good(s)
  PROVE  LET t == Leave(s)
         IN  /\ Good(t) /\ t.keys = s.keys /\ t.online = s.online /\ t.power = s.power
             /\ t.g = s.g /\ ~t.run /\ t.cycle = s.cycle /\ t.inited = s.inited
<1>1. PICK b \in BOOLEAN : b = (s.suspend \/ s.online)
  OBVIOUS
<1>2. PICK t : t = [s EXCEPT !.run = FALSE, !.nextScreen = Never, !.suspend = b]
  OBVIOUS
<1>3. PICK n \in Deadlines : n = Never
  BY DEF Deadlines
<1>4. t = [s EXCEPT !.run = FALSE, !.nextScreen = n, !.suspend = b]
  BY <1>2, <1>3
<1>5. /\ t \in ChargerType /\ ~t.run /\ t.nextScreen = n /\ t.g = s.g
      /\ t.online = s.online /\ t.keys = s.keys /\ t.power = s.power
      /\ t.cycle = s.cycle /\ t.cycles = s.cycles /\ t.inited = s.inited
  BY <1>4 DEF Good, ChargerType
<1>6. Leave(s) = t
  BY <1>1, <1>2 DEF Leave
<1> QED BY <1>3, <1>5, <1>6 DEF Good, IdleInv

(* The next frame is one of the animation, or the cycle is over.            *)
LEMMA AdvanceKeeps ==
  ASSUME NEW s, Good(s), s.run, s.cycle < s.cycles
  PROVE  LET t == Advance(s)
         IN  /\ Good(t) /\ t.keys = s.keys /\ t.online = s.online /\ t.power = s.power
             /\ t.g = s.g /\ t.run /\ t.inited = s.inited
<1> DEFINE later == {f \in s.frame + 1 .. s.frames - 1 : ~Frames[f].levelOnly}
           f0 == CHOOSE f \in later : \A h \in later : f <= h
<1>1. later \in SUBSET (1 .. AllFrames - 1)
  BY FramesAssumption DEF Good, ChargerType
<1>2. CASE later = {}
  <2>1. PICK z \in 0 .. AllFrames - 1 : z = 0
    BY FramesAssumption
  <2>2. PICK n \in Nat : n = s.cycle + 1
    BY DEF Good, ChargerType
  <2>3. PICK t : t = [s EXCEPT !.frame = z, !.cycle = n]
    OBVIOUS
  <2>4. /\ t \in ChargerType /\ t.run = s.run /\ t.suspend = s.suspend /\ t.g = s.g
        /\ t.online = s.online /\ t.nextScreen = s.nextScreen /\ t.keys = s.keys
        /\ t.power = s.power /\ t.cycle = n /\ t.cycles = s.cycles /\ t.inited = s.inited
    BY <2>3 DEF Good, ChargerType
  <2>5. Advance(s) = t
    BY <1>2, <2>1, <2>2, <2>3 DEF Advance
  <2>6. n <= s.cycles
    BY <2>2 DEF Good, ChargerType
  <2> QED BY <2>4, <2>5, <2>6 DEF Good, IdleInv
<1>3. CASE later # {}
  <2>1. \E f \in later : \A h \in later : f <= h
    <3>1. later \in SUBSET Nat
      BY <1>1, FramesAssumption
    <3> HIDE DEF later
    <3> QED BY <1>3, <3>1, LeastNumber
  <2>2. f0 \in later
    BY <2>1
  <2>3. PICK f \in 0 .. AllFrames - 1 : f = f0
    BY <1>1, <2>2
  <2>4. PICK t : t = [s EXCEPT !.frame = f]
    OBVIOUS
  <2>5. /\ t \in ChargerType /\ t.run = s.run /\ t.suspend = s.suspend /\ t.g = s.g
        /\ t.online = s.online /\ t.nextScreen = s.nextScreen /\ t.keys = s.keys
        /\ t.power = s.power /\ t.cycle = s.cycle /\ t.cycles = s.cycles
        /\ t.inited = s.inited
    BY <2>4 DEF Good, ChargerType
  <2>6. Advance(s) = t
    BY <1>3, <2>3, <2>4 DEF Advance
  <2> QED BY <2>5, <2>6 DEF Good, IdleInv
<1> QED BY <1>2, <1>3

(* A picture is shown, or the program crashes.                              *)
LEMMA ShowFrameKeeps ==
  ASSUME NEW s, Good(s), s.run, s.inited, s.cycle < s.cycles,
         NEW level \in -1..100, NEW io \in Answers
  PROVE  ScreenStep(s, ShowFrame(s, level, io))
<1>0. PICK pan, light, dark \in BOOLEAN :
        /\ io.pan = pan /\ io.light = light /\ io.dark = dark
        /\ "blank" \notin Faults => dark
  BY AnswersType
<1> DEFINE first   == s.frame = 0
           known   == level >= 0 /\ s.frames # 0
           t       == IF ~first THEN s
                      ELSE [s EXCEPT !.level = level,
                                     !.frame = IF known THEN FrameOf(level) ELSE 0]
           unknown == t.frames = 0 \/ t.level < 0
           g       == IF s.cycle = 0 THEN gr_fb_blank(s.g, FALSE, light) ELSE s.g
           h       == gr_draw(gr_clear(g, dark), IF unknown THEN -1 ELSE t.frame)
           u       == [t EXCEPT !.g = gr_flip(h, pan)]
<1>1. /\ t \in ChargerType /\ t.run /\ t.suspend = s.suspend /\ t.nextScreen = s.nextScreen
      /\ t.online = s.online /\ t.keys = s.keys /\ t.power = s.power
      /\ t.cycle = s.cycle /\ t.cycles = s.cycles /\ t.inited /\ t.g = s.g
  <2>1. PICK f \in 0 .. AllFrames - 1 : f = IF known THEN FrameOf(level) ELSE 0
    <3> DEFINE first_frame == IF known THEN FrameOf(level) ELSE 0
    <3>1. FrameOf(level) \in 0 .. AllFrames - 1
      BY FrameOfLevel
    <3>2. 0 \in 0 .. AllFrames - 1
      BY FramesAssumption
    <3>3. first_frame \in 0 .. AllFrames - 1
      BY <3>1, <3>2, Zenon
    <3> HIDE DEF first_frame
    <3>4. \E f \in 0 .. AllFrames - 1 : f = first_frame
      BY <3>3, Zenon
    <3> QED BY <3>4 DEF first_frame
  <2>2. ASSUME NEW v, v = [s EXCEPT !.level = level, !.frame = f]
        PROVE  /\ v \in ChargerType /\ v.run /\ v.suspend = s.suspend
               /\ v.nextScreen = s.nextScreen
               /\ v.online = s.online /\ v.keys = s.keys /\ v.power = s.power
               /\ v.cycle = s.cycle /\ v.cycles = s.cycles /\ v.inited /\ v.g = s.g
    BY <2>2 DEF Good, ChargerType
  <2>3. t = s \/ t = [s EXCEPT !.level = level, !.frame = f]
    BY <2>1
  <2> HIDE DEF t
  <2> QED BY <2>2, <2>3 DEF Good
<1>2. /\ g \in DisplayType /\ g.fd = s.g.fd /\ g.sized = s.g.sized /\ g.mem = s.g.mem
      /\ g.fb = s.g.fb /\ g.active = s.g.active /\ g.shown = s.g.shown
  <2>1. s.g \in DisplayType
    BY DEF Good, ChargerType
  <2>2. PICK k : k = gr_fb_blank(s.g, FALSE, light)
    OBVIOUS
  <2>3. /\ k \in DisplayType /\ k.fd = s.g.fd /\ k.sized = s.g.sized /\ k.mem = s.g.mem
        /\ k.fb = s.g.fb /\ k.active = s.g.active /\ k.shown = s.g.shown
    BY <2>1, <2>2, BlankDisplay
  <2> QED BY <2>1, <2>2, <2>3
<1>3. /\ h \in DisplayType /\ h.fd = g.fd /\ h.sized = g.sized
      /\ h.fb = g.fb /\ h.active = g.active /\ h.shown = g.shown
      /\ h.mem = NoSurface <=> g.mem = NoSurface
      /\ DarkInv(h)
  <2>1. (IF unknown THEN -1 ELSE t.frame) \in Int
    <3> HIDE DEF t
    <3>1. t.frame \in Int
      BY <1>1, FramesAssumption DEF ChargerType
    <3> QED BY <3>1
  <2> HIDE DEF g, t, unknown
  <2> QED BY <1>0, <1>2, <2>1, DrawDisplay DEF DarkInv
<1> HIDE DEF t, g, h, known, unknown
<1>4. CASE FlipFaults(s.g)
  <2>1. PICK v : v = [s EXCEPT !.power = "crashed"]
    OBVIOUS
  <2>2. /\ v \in ChargerType /\ v.run = s.run /\ v.suspend = s.suspend /\ v.g = s.g
        /\ v.online = s.online /\ v.keys = s.keys /\ v.power = "crashed"
        /\ v.nextScreen = s.nextScreen
        /\ v.cycle = s.cycle /\ v.cycles = s.cycles /\ v.inited = s.inited
    BY <2>1 DEF Good, ChargerType
  <2>3. ShowFrame(s, level, io) = v
    BY <1>4, <2>1 DEF ShowFrame
  <2> QED BY <2>2, <2>3 DEF ScreenStep, Good, IdleInv
<1>5. CASE ~FlipFaults(s.g)
  <2>1. ~FlipFaults(h) /\ (h.fd => h.sized)
    BY <1>2, <1>3, <1>5 DEF FlipFaults, Good, DisplayInv
  <2>2. PICK q \in DisplayType :
          /\ q = gr_flip(h, pan) /\ DisplayInv(q) /\ q.fd = s.g.fd /\ q.blank = h.blank
          /\ s.g.fd /\ s.g.active = s.g.shown => q.fb[s.g.shown] = s.g.fb[s.g.shown]
    BY <1>2, <1>3, <2>1, FlipDisplay
  <2>d. DarkInv(q)
    BY <1>2, <1>3, <2>2 DEF DarkInv
  <2>3. /\ u \in ChargerType /\ u.run /\ u.suspend = s.suspend
        /\ u.online = s.online /\ u.keys = s.keys /\ u.power = s.power
        /\ u.cycle = s.cycle /\ u.cycles = s.cycles /\ u.inited /\ u.g = q
    BY <1>1, <2>2 DEF ChargerType
  <2>4. Good(u) /\ ScreenStep(s, u)
    BY <1>1, <2>2, <2>3, <2>d DEF ScreenStep, Good, IdleInv
  <2> HIDE DEF u
  <2>5. CASE unknown
    <3>1. PICK n \in Nat : n = u.cycle + 1
      BY <2>3 DEF Good, ChargerType
    <3>2. PICK d \in Deadlines : d = UnknownTime
      BY TimesAssumption DEF Deadlines
    <3>3. PICK v : v = [u EXCEPT !.nextScreen = d, !.cycle = n]
      OBVIOUS
    <3>4. /\ v \in ChargerType /\ v.run = u.run /\ v.suspend = u.suspend /\ v.g = u.g
          /\ v.online = u.online /\ v.keys = u.keys /\ v.power = u.power
          /\ v.cycle = n /\ v.cycles = u.cycles /\ v.inited = u.inited
      BY <2>3, <3>3 DEF ChargerType
    <3>5. ShowFrame(s, level, io) = v
      BY <1>0, <1>5, <2>5, <3>1, <3>2, <3>3 DEF ShowFrame, u, h, g, t, unknown, known
    <3>6. n <= s.cycles
      BY <2>3, <3>1 DEF Good, ChargerType
    <3> QED BY <2>3, <2>4, <3>4, <3>5, <3>6 DEF ScreenStep, Good, IdleInv
  <2>6. CASE ~unknown
    <3>1. PICK w : w = Advance(u)
      OBVIOUS
    <3>2. /\ Good(w) /\ w.keys = u.keys /\ w.online = u.online /\ w.power = u.power
          /\ w.g = u.g /\ w.run /\ w.inited = u.inited
      BY <2>3, <2>4, <3>1, AdvanceKeeps
    <3>3. PICK d \in Deadlines : d = IF first /\ known THEN 2 * FrameTime ELSE FrameTime
      BY TimesAssumption DEF Deadlines
    <3>4. PICK v : v = [w EXCEPT !.nextScreen = d]
      OBVIOUS
    <3>5. /\ v \in ChargerType /\ v.run = w.run /\ v.suspend = w.suspend /\ v.g = w.g
          /\ v.online = w.online /\ v.keys = w.keys /\ v.power = w.power
          /\ v.cycle = w.cycle /\ v.cycles = w.cycles /\ v.inited = w.inited
      BY <3>2, <3>4 DEF Good, ChargerType
    <3>6. ShowFrame(s, level, io) = v
      BY <1>0, <1>5, <2>6, <3>1, <3>3, <3>4 DEF ShowFrame, u, h, g, t, unknown, known
    <3> QED BY <2>3, <2>4, <3>2, <3>5, <3>6, ZenonT(40) DEF ScreenStep, Good, IdleInv
  <2> QED BY <2>5, <2>6
<1> QED BY <1>4, <1>5

(* update_screen_state() as a whole.                                        *)
LEMMA UpdateScreenKeeps ==
  ASSUME NEW s, Good(s), s.run,
         NEW level \in -1..100, NEW r \in InitResults, NEW io \in Answers
  PROVE  ScreenStep(s, UpdateScreen(s, level, r, io))
<1>0. PICK pan, light, dark \in BOOLEAN :
        /\ io.pan = pan /\ io.light = light /\ io.dark = dark
        /\ "blank" \notin Faults => dark
  BY AnswersType
<1> DEFINE t == IF s.inited THEN s
                ELSE [s EXCEPT !.inited = TRUE,
                               !.g = gr_fb_blank(gr_init(@, r, pan), TRUE, dark)]
<1>2. CASE ~s.inited /\ level < 0
  BY <1>2, LeaveKeeps DEF UpdateScreen, ScreenStep
<1>3. CASE ~(~s.inited /\ level < 0)
  <2>1. /\ Good(t) /\ t.keys = s.keys /\ t.online = s.online /\ t.power = s.power
        /\ t.run /\ t.inited /\ t.cycle = s.cycle /\ t.cycles = s.cycles
        /\ s.g.fd => t.g = s.g
    <3>1. CASE s.inited
      BY <1>3, <3>1
    <3>2. CASE ~s.inited
      <4>1. s.g \in DisplayType /\ ~s.g.fd
        BY <3>2 DEF Good, IdleInv, ChargerType
      <4>2. PICK k \in DisplayType : k = gr_init(s.g, r, pan) /\ DisplayInv(k)
        BY <4>1, InitDisplay
      <4>3. PICK g \in DisplayType : g = gr_fb_blank(k, TRUE, dark)
        BY <4>2, BlankDisplay
      <4>4. DisplayInv(g) /\ DarkInv(g)
        BY <1>0, <4>2, <4>3, DarkDisplay
      <4>5. PICK v : v = [s EXCEPT !.inited = TRUE, !.g = g]
        OBVIOUS
      <4>6. /\ v \in ChargerType /\ v.run = s.run /\ v.suspend = s.suspend /\ v.g = g
            /\ v.online = s.online /\ v.keys = s.keys /\ v.power = s.power
            /\ v.cycle = s.cycle /\ v.cycles = s.cycles /\ v.inited
        BY <4>5 DEF Good, ChargerType
      <4>7. t = v
        BY <1>0, <3>2, <4>2, <4>3, <4>5
      <4> HIDE DEF t
      <4> QED BY <1>3, <4>1, <4>4, <4>6, <4>7 DEF Good, IdleInv
    <3> QED BY <3>1, <3>2
  <2> HIDE DEF t
  <2>2. CASE Over(t)
    <3>0. t.g \in DisplayType /\ DisplayInv(t.g)
      BY <2>1 DEF Good, ChargerType
    <3>1. PICK g \in DisplayType : g = gr_fb_blank(t.g, TRUE, dark)
      BY <3>0, BlankDisplay
    <3>2. DisplayInv(g) /\ DarkInv(g) /\ g.fd = t.g.fd /\ g.fb = t.g.fb
      BY <1>0, <3>0, <3>1, DarkDisplay
    <3>3. PICK b \in BOOLEAN : b = (t.suspend \/ t.online)
      OBVIOUS
    <3>d. PICK d \in Deadlines : d = Never
      BY DEF Deadlines
    <3>z. PICK z \in Nat : z = 0
      OBVIOUS
    <3>f. PICK f \in 0 .. AllFrames - 1 : f = 0
      BY FramesAssumption
    <3>5. PICK w : w = [t EXCEPT !.run = FALSE, !.nextScreen = d, !.suspend = b]
      OBVIOUS
    <3>6. /\ w \in ChargerType /\ ~w.run /\ w.nextScreen = d /\ w.inited = t.inited
          /\ w.online = t.online /\ w.keys = t.keys /\ w.power = t.power
          /\ w.g = t.g /\ w.cycles = t.cycles
      BY <2>1, <3>5 DEF Good, ChargerType
    <3>7. PICK v : v = [w EXCEPT !.cycle = z, !.frame = f, !.g = g]
      OBVIOUS
    <3>8. /\ v \in ChargerType /\ v.run = w.run /\ v.nextScreen = w.nextScreen
          /\ v.inited = w.inited /\ v.online = w.online /\ v.keys = w.keys
          /\ v.power = w.power /\ v.g = g /\ v.cycles = w.cycles /\ v.cycle = z
      BY <3>6, <3>7 DEF ChargerType
    <3>9. UpdateScreen(s, level, r, io) = v
      <4>1. Leave(t) = w
        BY <3>3, <3>d, <3>5 DEF Leave
      <4> QED BY <1>0, <1>3, <2>2, <3>1, <3>z, <3>f, <3>6, <3>7, <4>1 DEF UpdateScreen, t
    <3>10. z <= w.cycles
      BY <2>1, <3>z, <3>6 DEF Good, ChargerType
    <3> QED BY <2>1, <3>2, <3>d, <3>6, <3>8, <3>9, <3>10 DEF ScreenStep, Good, IdleInv
  <2>3. CASE ~Over(t)
    <3>1. t.cycle < t.cycles
      BY <2>1, <2>3 DEF Over, Good, ChargerType
    <3>2. ScreenStep(t, ShowFrame(t, level, io))
      BY <2>1, <3>1, ShowFrameKeeps
    <3>3. UpdateScreen(s, level, r, io) = ShowFrame(t, level, io)
      BY <1>0, <1>3, <2>3 DEF UpdateScreen, t
    <3> QED BY <2>1, <3>2, <3>3 DEF ScreenStep
  <2> QED BY <2>2, <2>3
<1> QED BY <1>2, <1>3

(* check_status(): the program goes off only if the supply is off, which it *)
(* knows if the supply was on the last time it could look.                  *)
LEMMA CheckStatusKeeps ==
  ASSUME NEW s, Good(s), s.power = "on", s.online, NEW ok, NEW on \in BOOLEAN
  PROVE  LET t == CheckStatus(s, ok, on)
         IN  /\ Good(t) /\ t.keys = s.keys /\ t.g = s.g
             /\ t.power \in {"on", "off"}
             /\ t.power = "on" => t.online
             /\ t.power = "off" => ~on
<1>1. CASE s.nextSupply > 0
  BY <1>1 DEF CheckStatus
<1>2. CASE ~(s.nextSupply > 0)
  <2>1. PICK t : t = UpdateSupply(s, ok, on)
    OBVIOUS
  <2>2. PICK q : q = [s EXCEPT !.online = on]
    OBVIOUS
  <2>3. /\ q \in ChargerType /\ q.run = s.run /\ q.suspend = s.suspend /\ q.g = s.g
        /\ q.online = on /\ q.keys = s.keys /\ q.power = s.power
        /\ q.nextScreen = s.nextScreen
        /\ q.cycle = s.cycle /\ q.cycles = s.cycles /\ q.inited = s.inited
    BY <2>2 DEF Good, ChargerType
  <2>4. /\ Good(t) /\ t.keys = s.keys /\ t.g = s.g /\ t.power = "on"
        /\ ~t.online => ~on
    BY <2>1, <2>2, <2>3 DEF UpdateSupply, Good, IdleInv
  <2>5. CASE t.online
    <3>1. PICK d \in Deadlines : d = SupplyTime
      BY TimesAssumption DEF Deadlines
    <3>2. PICK v : v = [t EXCEPT !.nextSupply = d]
      OBVIOUS
    <3>3. /\ v \in ChargerType /\ v.run = t.run /\ v.suspend = t.suspend /\ v.g = t.g
          /\ v.online = t.online /\ v.keys = t.keys /\ v.power = t.power
          /\ v.nextScreen = t.nextScreen
          /\ v.cycle = t.cycle /\ v.cycles = t.cycles /\ v.inited = t.inited
      BY <2>4, <3>2 DEF Good, ChargerType
    <3>4. CheckStatus(s, ok, on) = v
      BY <1>2, <2>1, <2>5, <3>1, <3>2 DEF CheckStatus
    <3> QED BY <2>4, <2>5, <3>3, <3>4 DEF Good, IdleInv
  <2>6. CASE ~t.online
    <3>1. PICK v : v = [t EXCEPT !.power = "off"]
      OBVIOUS
    <3>2. /\ v \in ChargerType /\ v.run = t.run /\ v.suspend = t.suspend /\ v.g = t.g
          /\ v.online = t.online /\ v.keys = t.keys /\ v.power = "off"
          /\ v.nextScreen = t.nextScreen
          /\ v.cycle = t.cycle /\ v.cycles = t.cycles /\ v.inited = t.inited
      BY <2>4, <3>1 DEF Good, ChargerType
    <3>3. CheckStatus(s, ok, on) = v
      BY <1>2, <2>1, <2>6, <3>1 DEF CheckStatus
    <3> QED BY <2>4, <2>6, <3>2, <3>3 DEF Good, IdleInv
  <2> QED BY <2>5, <2>6
<1> QED BY <1>1, <1>2

-------------------------------------------------------------------------------
(* The steps *)

(* wait_next_event() waits for the earlier of its two deadlines.            *)
LEMMA NextEventType ==
  ASSUME NEW s \in ChargerType
  PROVE  NextEvent(s) \in Deadlines
<1> DEFINE due == {s.nextScreen, s.nextKey} \ {Never}
           m == CHOOSE t \in due : \A u \in due : t <= u
<1>1. due \subseteq Nat \union {-1}
  BY DEF ChargerType, Deadlines
<1>2. CASE due = {}
  BY <1>2 DEF NextEvent, Deadlines
<1>3. CASE due # {}
  <2>1. PICK t \in due : \A u \in due : t <= u
    <3>1. s.nextScreen \in Int /\ s.nextKey \in Int
      BY DEF ChargerType, Deadlines, Never
    <3>2. CASE s.nextScreen = Never
      BY <1>3, <3>1, <3>2
    <3>3. CASE s.nextKey = Never
      BY <1>3, <3>1, <3>3
    <3>4. CASE s.nextScreen # Never /\ s.nextKey # Never /\ s.nextScreen <= s.nextKey
      BY <3>1, <3>4
    <3>5. CASE s.nextScreen # Never /\ s.nextKey # Never /\ s.nextKey <= s.nextScreen
      BY <3>1, <3>5
    <3> QED BY <3>1, <3>2, <3>3, <3>4, <3>5
  <2>2. m \in due
    BY <2>1
  <2>3. NextEvent(s) = IF m < 0 THEN 0 ELSE m
    BY <1>3 DEF NextEvent
  <2> HIDE DEF m, due
  <2> QED BY <1>1, <2>2, <2>3 DEF Deadlines
<1> QED BY <1>2, <1>3

(* What any step leaves, besides the invariant, of an open display and of   *)
(* the supply.                                                              *)
StepOK ==
  /\ c.g.fd /\ c.g.active = c.g.shown => c'.g.fb[c.g.shown] = c.g.fb[c.g.shown]
  /\ c.power = "on" /\ c'.power = "off" => ~plugged

(* A turn of event_loop(): the keys, the supply, the screen.                *)
LEMMA EventLoopKeeps ==
  ASSUME Inv, c.power = "on", NEW s, Good(s), s.g = c.g, s.power = "on", s.online,
         s.keys["power"].down => s.keys["power"].age <= heldFor,
         EventLoop(s)
  PROVE  Inv' /\ StepOK
<1>1. PICK ok \in May("read"), t \in {HandleInput(s)} :
        \E u \in {IF t.power = "on" THEN CheckStatus(t, ok, plugged) ELSE t} :
          \/ ~Due(u) /\ Turned(u)
          \/ /\ Due(u)
             /\ \E level \in Levels, io \in Answers,
                   r \in IF "gr" \in Faults THEN InitResults ELSE {"ok"} :
                  \E v \in {UpdateScreen(u, level, r, io)} : Turned(v)
  BY DEF EventLoop
<1>2. PICK u : /\ u = IF t.power = "on" THEN CheckStatus(t, ok, plugged) ELSE t
               /\ \/ ~Due(u) /\ Turned(u)
                  \/ /\ Due(u)
                     /\ \E level \in Levels, io \in Answers, r \in InitResults :
                          Turned(UpdateScreen(u, level, r, io))
  BY <1>1 DEF InitResults
<1>3. PICK v : /\ Turned(v)
               /\ \/ ~Due(u) /\ v = u
                  \/ /\ Due(u)
                     /\ \E level \in Levels, io \in Answers, r \in InitResults :
                          v = UpdateScreen(u, level, r, io)
  BY <1>2
<1>4. c' = v /\ left' = NextEvent(c') /\ UNCHANGED <<held, heldFor, plugged>>
  BY <1>3 DEF Turned
<1>5. Levels \subseteq -1..100 /\ plugged \in BOOLEAN
  BY LevelsAssumption DEF Inv, TypeOK
<1>6. KeyStep(s, t)
  BY <1>1, HandleInputKeeps
<1>7. /\ Good(u) /\ u.keys = t.keys /\ u.g = t.g
      /\ u.power \in {t.power, "off"}
      /\ u.power = "on" => u.online
      /\ u.power = "off" => ~plugged
  <2>1. Good(t) /\ t.online /\ t.power \in {"on", "restart"}
    BY <1>6 DEF KeyStep
  <2>2. CASE t.power = "on"
    BY <1>2, <1>5, <2>1, <2>2, CheckStatusKeeps
  <2>3. CASE t.power # "on"
    BY <1>2, <2>1, <2>3
  <2> QED BY <2>2, <2>3
<1>8. ScreenStep(u, c')
  <2>1. CASE Due(u)
    BY <1>3, <1>4, <1>5, <1>7, <2>1, UpdateScreenKeeps DEF Due
  <2>2. CASE ~Due(u)
    BY <1>3, <1>4, <1>7, <2>2 DEF ScreenStep
  <2> QED BY <2>1, <2>2
<1>9. Good(c') /\ c'.keys = t.keys /\ c'.power \in {u.power, "crashed"}
  BY <1>7, <1>8 DEF ScreenStep
<1>10. TypeOK'
  <2>1. left' \in Deadlines
    BY <1>4, <1>9, NextEventType DEF Good
  <2> QED BY <1>4, <1>9, <2>1 DEF Good, TypeOK, Inv
<1>11. DisplayInv(c.g)' /\ DarkInv(c.g)' /\ IdleInv(c)'
  BY <1>9 DEF Good
<1>12. KeyInv' /\ SupplyInv'
  <2>1. c'.power = "restart" => t.power = "restart"
    BY <1>7, <1>9
  <2>2. t.power = "restart" => s.keys["power"].down /\ s.keys["power"].age = PowerOnKeyTime
    BY <1>6 DEF KeyStep
  <2>3. /\ t.keys["power"].down = s.keys["power"].down
        /\ t.keys["power"].age = s.keys["power"].age
    BY <1>6 DEF KeyStep, Keys
  <2>4. heldFor \in 0..PowerOnKeyTime /\ heldFor' = heldFor
    BY <1>4 DEF Inv, TypeOK
  <2>5. KeyInv'
    BY <1>9, <2>1, <2>2, <2>3, <2>4, TimesAssumption DEF KeyInv
  <2>6. c'.power = "on" => c'.online
    BY <1>7, <1>8 DEF ScreenStep
  <2> QED BY <2>5, <2>6 DEF SupplyInv
<1>13. StepOK
  BY <1>6, <1>7, <1>8, <1>9 DEF StepOK, KeyStep, ScreenStep
<1> QED BY <1>10, <1>11, <1>12, <1>13 DEF Inv

(* Time only brings the deadlines nearer; the age that is known of a key    *)
(* that is held and the time for which it is held go on together.           *)
LEMMA TickKeeps ==
  ASSUME Inv, NEW code \in Keys, Tick(code)
  PROVE  Inv' /\ StepOK
<1>1. c \in ChargerType /\ Good(c)
  BY DEF Inv, TypeOK, Good
<1>2. \A t \in Deadlines : Sooner(t) \in Deadlines /\ (t = Never => Sooner(t) = Never)
  BY DEF Deadlines, Sooner, Never
<1>3. PICK x \in Deadlines : x = Sooner(c.nextScreen)
  BY <1>1, <1>2 DEF ChargerType
<1>4. PICK y \in Deadlines : y = Sooner(c.nextKey)
  BY <1>1, <1>2 DEF ChargerType
<1>5. PICK z \in Deadlines : z = Sooner(c.nextSupply)
  BY <1>1, <1>2 DEF ChargerType
<1>6. c.keys \in [Keys -> KeyType] /\ "power" \in Keys
  BY <1>1 DEF ChargerType, Keys
<1>7. PICK k : k = Age(c.keys["power"])
  OBVIOUS
<1>8. /\ k \in KeyType /\ k.down = c.keys["power"].down
      /\ k.down => k.age = Min2(c.keys["power"].age + 1, PowerOnKeyTime)
  BY <1>6, <1>7, TimesAssumption DEF Age, KeyType, Min2
<1>9. PICK ks : ks = [c.keys EXCEPT !["power"] = k]
  OBVIOUS
<1>10. ks \in [Keys -> KeyType] /\ ks["power"] = k
  BY <1>6, <1>8, <1>9
<1>11. PICK t : t = [c EXCEPT !.nextScreen = x, !.nextKey = y, !.nextSupply = z, !.keys = ks]
  OBVIOUS
<1>12. /\ t \in ChargerType /\ t.run = c.run /\ t.suspend = c.suspend /\ t.g = c.g
       /\ t.online = c.online /\ t.keys = ks /\ t.power = c.power /\ t.nextScreen = x
       /\ t.cycle = c.cycle /\ t.cycles = c.cycles /\ t.inited = c.inited
  BY <1>1, <1>10, <1>11 DEF ChargerType
<1>13. c' = t
  <2>1. c' = [c EXCEPT !.nextScreen = Sooner(@), !.nextKey = Sooner(@),
                       !.nextSupply = Sooner(@), !.keys["power"] = Age(@)]
    BY DEF Tick
  <2> QED BY <1>1, <1>3, <1>4, <1>5, <1>7, <1>9, <1>11, <2>1 DEF ChargerType
<1>14. TypeOK'
  <2>1. left' \in Deadlines /\ plugged' \in BOOLEAN
    BY <1>2 DEF Inv, TypeOK, Tick
  <2>2. held' \in [Keys -> BOOLEAN]
    BY DEF Inv, TypeOK, Tick
  <2>3. heldFor' \in 0..PowerOnKeyTime
    BY TimesAssumption DEF Inv, TypeOK, Tick, Min2
  <2> QED BY <1>1, <1>12, <1>13, <2>1, <2>2, <2>3 DEF TypeOK, Good
<1>15. DisplayInv(c.g)' /\ DarkInv(c.g)' /\ IdleInv(c)'
  <2>1. c.nextScreen \in Deadlines
    BY <1>1 DEF ChargerType
  <2>2. c.nextScreen = Never => c'.nextScreen = Never
    BY <1>2, <1>3, <1>12, <1>13, <2>1
  <2>3. IdleInv(c)'
    BY <1>1, <1>12, <1>13, <2>2 DEF Good, IdleInv
  <2> QED BY <1>1, <1>12, <1>13, <2>3 DEF Good, DisplayInv
<1>16. KeyInv'
  <2>1. held["power"] = c.keys["power"].down /\ c.power = "on"
    BY <1>6 DEF Tick, HasEvent
  <2>2. k.down => heldFor' = Min2(heldFor + 1, PowerOnKeyTime)
    BY <1>8, <2>1 DEF Tick
  <2>3. heldFor \in Nat /\ c.keys["power"].age \in Nat
    BY <1>6 DEF Inv, TypeOK, KeyType
  <2>4. k.down => k.age <= heldFor'
    BY <1>8, <2>2, <2>3, TimesAssumption DEF Inv, KeyInv, Min2
  <2> QED BY <1>10, <1>12, <1>13, <2>1, <2>4 DEF KeyInv
<1>17. SupplyInv' /\ StepOK
  BY <1>12, <1>13 DEF Inv, SupplyInv, StepOK
<1> QED BY <1>14, <1>15, <1>16, <1>17 DEF Inv

(* A step of the program or around it.                                      *)
LEMMA NextKeeps == Inv /\ [Next]_vars => Inv' /\ (StepOK \/ UNCHANGED vars)
<1> SUFFICES ASSUME Inv, [Next]_vars PROVE Inv' /\ (StepOK \/ UNCHANGED vars)
  OBVIOUS
<1>1. Good(c)
  BY DEF Inv, TypeOK, Good
<1>2. CASE Timeout
  BY <1>1, <1>2, EventLoopKeeps DEF Timeout, Inv, SupplyInv, KeyInv
<1>3. ASSUME NEW code \in Keys, Dispatch(code) PROVE Inv' /\ StepOK
  <2>1. PICK s : s = SetKey(c, code, held[code]) /\ EventLoop(s)
    BY <1>3 DEF Dispatch
  <2>2. held[code] \in BOOLEAN /\ heldFor \in Nat
    BY DEF Inv, TypeOK
  <2>3. /\ Good(s) /\ s.g = c.g /\ s.online = c.online /\ s.power = c.power
        /\ s.keys["power"].down => s.keys["power"].age <= heldFor
    BY <1>1, <2>1, <2>2, SetKeyKeeps DEF Inv, KeyInv
  <2>4. c.power = "on" /\ c.online
    BY <1>3 DEF Dispatch, Inv, SupplyInv
  <2> QED BY <2>1, <2>3, <2>4, EventLoopKeeps
<1>4. ASSUME NEW code \in Keys, Tick(code) PROVE Inv' /\ StepOK
  BY <1>4, TickKeeps
<1>5. CASE UNCHANGED vars
  BY <1>5 DEF vars, Inv, TypeOK, DisplayInv, DarkInv, IdleInv, KeyInv, SupplyInv
<1> QED BY <1>2, <1>3, <1>4, <1>5 DEF Next

(* main(): nothing is drawn, no key has an age, and the supply counts as    *)
(* on.                                                                      *)
LEMMA InitInv == Init => Inv
<1> SUFFICES ASSUME Init PROVE Inv
  OBVIOUS
<1>1. PICK frames \in {0, AllFrames} : c = Start(plugged, frames, held)
  BY DEF Init
<1>2. PICK ks : ks = [k \in Keys |-> [pending |-> held[k], down |-> held[k], age |-> 0]]
  OBVIOUS
<1>3. ks \in [Keys -> KeyType] /\ ks["power"].age = 0
  BY <1>2, TimesAssumption DEF Init, KeyType, Keys
<1>4. NoDisplay \in DisplayType /\ ~NoDisplay.fd
  <2>1. [n \in 0..1 |-> NoSurface] \in [0..1 -> Surfaces] /\ NoSurface \in Surfaces
    BY DEF Surfaces
  <2> QED BY <2>1 DEF NoDisplay, DisplayType
<1>5. PICK n \in Nat : n = IF frames = 0 THEN 1 ELSE NumCycles
  BY NumCyclesAssumption
<1>6. plugged \in BOOLEAN /\ SupplyTime \in Deadlines /\ -1 \in Deadlines /\ Never \in Deadlines
      /\ 0 \in Deadlines /\ 0 \in 0 .. AllFrames - 1
  BY TimesAssumption, FramesAssumption DEF Init, Deadlines
<1>7. c = [power |-> "on", typed |-> plugged, online |-> TRUE,
           nextScreen |-> -1, nextKey |-> Never, nextSupply |-> SupplyTime,
           keys |-> ks, run |-> TRUE, frame |-> 0, cycle |-> 0, level |-> 0,
           frames |-> frames, cycles |-> n, inited |-> FALSE, g |-> NoDisplay,
           suspend |-> FALSE]
  BY <1>1, <1>2, <1>5 DEF Start
<1> HIDE DEF NoDisplay
<1>8. c \in ChargerType
  BY <1>3, <1>4, <1>6, <1>7 DEF ChargerType
<1>9. /\ c.cycle = 0 /\ c.cycles = n /\ c.g = NoDisplay /\ c.run /\ ~c.suspend
      /\ c.keys = ks /\ c.power = "on" /\ c.online
  BY <1>7
<1>10. TypeOK
  BY <1>6, <1>8, <1>9, TimesAssumption DEF TypeOK, Init
<1>11. DisplayInv(c.g) /\ DarkInv(c.g) /\ IdleInv(c) /\ KeyInv /\ SupplyInv
  BY <1>3, <1>4, <1>9 DEF DisplayInv, DarkInv, IdleInv, KeyInv, SupplyInv, Init
<1> QED BY <1>10, <1>11 DEF Inv

(* The invariant holds of every run of the charger.                         *)
LEMMA Invariant == Spec => []Inv
<1>1. Inv /\ [Next]_vars => Inv'
  BY NextKeeps
<1> QED BY InitInv, <1>1, PTL DEF Spec

(* Type correctness of the charger and its display, and an animation counts *)
(* no more cycles than it has.                                              *)
THEOREM ChargerTypeCorrect == Spec => []TypeOK
BY Invariant, PTL DEF Inv

(* The tablet suspends only with its animation over.                       *)
THEOREM SuspendedIsIdleHolds == Spec => []SuspendedIsIdle
<1>1. Inv => SuspendedIsIdle
  BY DEF Inv, IdleInv, SuspendedIsIdle
<1> QED BY <1>1, Invariant, PTL

(* If FBIOBLANK works, the panel is powered down whenever the loop waits,   *)
(* for every animation: the redraw's gr_clear() undoes at once what the     *)
(* comment "unblank the screen on first cycle" announces.                   *)
THEOREM PanelStaysDark ==
  ASSUME "blank" \notin Faults
  PROVE  Spec => [](c.g.fd => c.g.blank)
<1>1. Inv => (c.g.fd => c.g.blank)
  BY DEF Inv, DarkInv
<1> QED BY <1>1, Invariant, PTL

(* Only a long press restarts the tablet.                                   *)
THEOREM NoEarlyRestartHolds == Spec => []NoEarlyRestart
<1>1. Inv => NoEarlyRestart
  BY DEF Inv, KeyInv, NoEarlyRestart
<1> QED BY <1>1, Invariant, PTL

(* As long as the driver shows the active buffer, it is never drawn on and  *)
(* holds the last picture.                                                  *)
THEOREM DoubleBufferedHolds == Spec => DoubleBuffered
<1>1. Inv => (c.g.fd /\ c.g.active = c.g.shown /\ c.g.mem # Garbage =>
                c.g.fb[c.g.shown] = c.g.mem)
  BY DEF Inv, DisplayInv
<1>2. Inv /\ [Next]_vars =>
        [c.g.fd /\ c.g.active = c.g.shown =>
           c'.g.fb[c.g.shown] = c.g.fb[c.g.shown]]_vars
  BY NextKeeps DEF StepOK
<1> QED BY <1>1, <1>2, Invariant, PTL DEF Spec, DoubleBuffered

(* The program switches the tablet off only while its supply is out.        *)
THEOREM OffUnpluggedHolds == Spec => OffUnplugged
<1>1. Inv /\ [Next]_vars => [c.power = "on" /\ c'.power = "off" => ~plugged]_vars
  BY NextKeeps DEF StepOK
<1> QED BY <1>1, Invariant, PTL DEF Spec, OffUnplugged
===============================================================================
