------------------------------- MODULE LightsProofs -------------------------------
(* The two lights, for every set of colours and every missing file. *)
EXTENDS LightsProps, TLAPS

Locked == {"lcd", "level", "buttons", "unlock"}

(* The light that is past Lock() and not yet past Unlock() holds the lock,  *)
(* and nobody else: init_globals() does not take it away, because it was    *)
(* called before any light could be set.                                    *)
LockInv ==
  /\ \A l \in Lights : th[l].pc \in Locked <=> g_lock = l
  /\ \A l \in Lights : th[l].pc # "closed" => g_init
  /\ th["notifications"].pc # "lcd"

(* The brightness of the buttons is that of the screen as soon as the       *)
(* screen's is written, and the file's as soon as the file is written.      *)
LevelInv ==
  absent = {} =>
    /\ button_led_brightness = LedBrightness(file["lcd"])
    /\ file["level"] \in {0, button_led_brightness} \/ th["backlight"].pc = "level"

-------------------------------------------------------------------------------
(* Colours *)

(* The weights of the three colours add up to 256: no brightness exceeds a  *)
(* byte.                                                                    *)
LEMMA BrightnessIsByte ==
  ASSUME NEW c \in Byte \X Byte \X Byte
  PROVE  rgb_to_brightness(c) \in Byte
<1>1. PICK r \in Byte, g \in Byte, b \in Byte : c = <<r, g, b>>
  OBVIOUS
<1>2. rgb_to_brightness(c) = (77 * r + 150 * g + 29 * b) \div 256
  BY <1>1 DEF rgb_to_brightness
<1> QED BY <1>2 DEF Byte

(* A grey, which is what the framework asks for, has exactly its brightness.*)
THEOREM GreyIsExact ==
  \A b \in Byte : rgb_to_brightness(<<b, b, b>>) = b
BY DEF rgb_to_brightness, Byte

(* The buttons have three levels.                                           *)
LEMMA LevelIsLevel ==
  ASSUME NEW b \in Byte
  PROVE  LedBrightness(b) \in 1..3
BY DEF LedBrightness, Byte

(* What is written to a file is a byte, for any colour.                     *)
LEMMA ValueIsByte ==
  ASSUME NEW l \in Lights, NEW c \in Byte \X Byte \X Byte,
         NEW level \in 1..3, NEW f \in Files
  PROVE  Value(l, c, level, f) \in Byte
<1>1. rgb_to_brightness(c) \in Byte
  BY BrightnessIsByte
<1> QED BY <1>1 DEF Value, Files, Byte

-------------------------------------------------------------------------------
(* The types *)

USE ColorsAssumption, NoLightAssumption

Inv == TypeOK /\ LockInv /\ LevelInv

(* The first state, in which no light is open.                              *)
LEMMA InitInv == Init => Inv
<1> SUFFICES ASSUME Init PROVE Inv
  OBVIOUS
<1>1. TypeOK
  <2>1. Black \in Byte \X Byte \X Byte /\ 0 \in Byte
    BY DEF Black, Byte
  <2>2. th \in [Lights -> [pc : {"closed", "idle", "lock", "lcd", "level", "buttons", "unlock"},
                           color : Byte \X Byte \X Byte, err : BOOLEAN]]
    BY <2>1, Zenon DEF Init
  <2>3. /\ file \in [Files -> Byte] /\ absent \subseteq Files
        /\ g_init \in BOOLEAN /\ g_lock \in Lights \union {NoLight}
    BY <2>1, Zenon DEF Init
  <2>4. button_led_brightness \in 1..3
    BY DEF Init
  <2> QED BY <2>2, <2>3, <2>4 DEF TypeOK
<1>2. LockInv
  BY DEF Init, LockInv, Locked, Lights
<1>3. LevelInv
  BY DEF Init, LevelInv, LedBrightness, Lights, Files
<1> QED BY <1>1, <1>2, <1>3 DEF Inv

(* A step of either thread keeps the types, and the values that it writes   *)
(* are bytes.                                                               *)
LEMMA NextTypes == TypeOK /\ [Next]_vars => TypeOK'
<1> SUFFICES ASSUME TypeOK, [Next]_vars PROVE TypeOK'
  OBVIOUS
<1>1. CASE UNCHANGED vars
  BY <1>1 DEF TypeOK, vars
<1>2. ASSUME NEW l \in Lights, open_lights(l) PROVE TypeOK'
  BY <1>2 DEF TypeOK, open_lights, Go
<1>3. ASSUME NEW l \in Lights, close_lights(l) PROVE TypeOK'
  BY <1>3 DEF TypeOK, close_lights, Go
<1>4. ASSUME NEW l \in Lights, NEW c \in Colors, set_light(l, c) PROVE TypeOK'
  BY <1>4, ZenonT(40) DEF TypeOK, set_light
<1>5. ASSUME NEW l \in Lights, Lock(l) PROVE TypeOK'
  BY <1>5 DEF TypeOK, Lock, Go
<1>6. ASSUME NEW l \in Lights, NEW f \in Files, NEW pc \in {"level", "buttons", "unlock"},
             write_int(l, f, pc)
      PROVE  /\ file' \in [Files -> Byte] /\ absent' = absent
             /\ th' \in [Lights -> [pc : {"closed", "idle", "lock", "lcd", "level",
                                          "buttons", "unlock"},
                                    color : Byte \X Byte \X Byte, err : BOOLEAN]]
             /\ g_init' = g_init /\ g_lock' = g_lock
  <2>1. th[l].color \in Byte \X Byte \X Byte /\ button_led_brightness \in 1..3
    BY DEF TypeOK
  <2>2. Value(l, th[l].color, button_led_brightness, f) \in Byte
    BY <2>1, ValueIsByte
  <2>3. th' = [th EXCEPT ![l].pc = pc, ![l].err = f \in absent]
    BY <1>6 DEF write_int
  <2>4. (f \in absent) \in BOOLEAN
    OBVIOUS
  <2>5. th' \in [Lights -> [pc : {"closed", "idle", "lock", "lcd", "level",
                                 "buttons", "unlock"},
                           color : Byte \X Byte \X Byte, err : BOOLEAN]]
    BY <2>3, <2>4, ZenonT(40) DEF TypeOK
  <2> QED BY <1>6, <2>2, <2>5 DEF TypeOK, write_int
<1>7. ASSUME NEW l \in Lights, WriteLcd(l) PROVE TypeOK'
  <2>1. th[l].color \in Byte \X Byte \X Byte
    BY DEF TypeOK
  <2>2. button_led_brightness' \in 1..3
    BY <1>7, <2>1, BrightnessIsByte, LevelIsLevel DEF WriteLcd
  <2>3. write_int(l, "lcd", "level") /\ "lcd" \in Files
    BY <1>7 DEF WriteLcd, Files
  <2> QED BY <1>6, <2>2, <2>3 DEF TypeOK
<1>8. ASSUME NEW l \in Lights, WriteLevel(l) PROVE TypeOK'
  BY <1>6, <1>8 DEF TypeOK, Files, WriteLevel
<1>9. ASSUME NEW l \in Lights, WriteButtons(l) PROVE TypeOK'
  BY <1>6, <1>9 DEF TypeOK, Files, WriteButtons
<1>10. ASSUME NEW l \in Lights, Unlock(l) PROVE TypeOK'
  BY <1>10 DEF TypeOK, Unlock, Go
<1> QED BY <1>1, <1>2, <1>3, <1>4, <1>5, <1>7, <1>8, <1>9, <1>10 DEF Next, Running

(* The lock has one holder: Lock() waits for it and nothing else takes it,  *)
(* since no light is set before init_globals() was called.                  *)
LEMMA NextLock == TypeOK /\ LockInv /\ [Next]_vars => LockInv'
<1> SUFFICES ASSUME TypeOK, LockInv, [Next]_vars PROVE LockInv'
  OBVIOUS
<1> USE DEF Lights, Locked
<1>1. CASE UNCHANGED vars
  BY <1>1 DEF LockInv, vars
<1>2. ASSUME NEW l \in Lights, open_lights(l) PROVE LockInv'
  BY <1>2 DEF LockInv, TypeOK, open_lights, Go
<1>3. ASSUME NEW l \in Lights, close_lights(l) PROVE LockInv'
  BY <1>3 DEF LockInv, TypeOK, close_lights, Go
<1>4. ASSUME NEW l \in Lights, NEW c \in Colors, set_light(l, c) PROVE LockInv'
  BY <1>4 DEF LockInv, TypeOK, set_light
<1>5. ASSUME NEW l \in Lights, Lock(l) PROVE LockInv'
  BY <1>5 DEF LockInv, TypeOK, Lock, Go
<1>6. ASSUME NEW l \in Lights, WriteLcd(l) PROVE LockInv'
  BY <1>6 DEF LockInv, TypeOK, WriteLcd, write_int
<1>7. ASSUME NEW l \in Lights, WriteLevel(l) PROVE LockInv'
  BY <1>7 DEF LockInv, TypeOK, WriteLevel, write_int
<1>8. ASSUME NEW l \in Lights, WriteButtons(l) PROVE LockInv'
  BY <1>8 DEF LockInv, TypeOK, WriteButtons, write_int
<1>9. ASSUME NEW l \in Lights, Unlock(l) PROVE LockInv'
  BY <1>9 DEF LockInv, TypeOK, Unlock, Go
<1> QED BY <1>1, <1>2, <1>3, <1>4, <1>5, <1>6, <1>7, <1>8, <1>9 DEF Next, Running

(* Only the backlight changes the brightness, and it writes the level next. *)
LEMMA NextLevel == TypeOK /\ LockInv /\ LevelInv /\ [Next]_vars => LevelInv'
<1> SUFFICES ASSUME TypeOK, LockInv, LevelInv, [Next]_vars, absent' = {}
             PROVE  /\ button_led_brightness' = LedBrightness(file'["lcd"])
                    /\ \/ file'["level"] \in {0, button_led_brightness'}
                       \/ th'["backlight"].pc = "level"
  BY DEF LevelInv
<1> USE DEF Lights
<1>1. CASE UNCHANGED vars
  BY <1>1 DEF LevelInv, vars
<1>2. ASSUME NEW l \in Lights, open_lights(l) \/ close_lights(l) \/ Lock(l) \/ Unlock(l)
                                \/ \E c \in Colors : set_light(l, c)
      PROVE  LevelInv'
  BY <1>2 DEF LevelInv, TypeOK, open_lights, close_lights, Lock, Unlock, set_light, Go
<1>3. ASSUME NEW l \in Lights, WriteLcd(l) PROVE LevelInv'
  <2>1. l = "backlight" /\ absent = {}
    BY <1>3 DEF LockInv, WriteLcd, write_int
  <2>2. /\ file'["lcd"] = rgb_to_brightness(th[l].color)
        /\ th'["backlight"].pc = "level"
    BY <1>3, <2>1 DEF WriteLcd, write_int, Value, TypeOK, Files
  <2> QED BY <1>3, <2>2 DEF LevelInv, WriteLcd
<1>4. ASSUME NEW l \in Lights, WriteLevel(l) PROVE LevelInv'
  <2>1. /\ absent = {} /\ file' = [file EXCEPT !["level"] = button_led_brightness]
        /\ button_led_brightness' = button_led_brightness
    BY <1>4 DEF WriteLevel, write_int, Value
  <2> QED BY <2>1 DEF LevelInv, TypeOK, Files
<1>5. ASSUME NEW l \in Lights, WriteButtons(l) PROVE LevelInv'
  <2>1. /\ absent = {} /\ th[l].pc = "buttons"
        /\ button_led_brightness' = button_led_brightness
        /\ file'["level"] = file["level"] /\ file'["lcd"] = file["lcd"]
    BY <1>5 DEF WriteButtons, write_int, TypeOK, Files
  <2>2. CASE th["backlight"].pc # "level"
    BY <2>1, <2>2 DEF LevelInv
  <2>3. CASE th["backlight"].pc = "level"
    BY <2>1, <2>3 DEF LockInv, Locked
  <2> QED BY <2>2, <2>3
<1> QED BY <1>1, <1>2, <1>3, <1>4, <1>5 DEF Next, Running, LevelInv

(* The lights are type-correct, and every value written fits in a byte.     *)
THEOREM LightsTypeCorrect == Spec => []TypeOK
BY InitInv, NextTypes, PTL DEF Spec, Inv

(* The invariant that the rest is proved from.                              *)
LEMMA InvHolds == Spec => []Inv
<1>1. Inv /\ [Next]_vars => Inv'
  BY NextTypes, NextLock, NextLevel DEF Inv
<1> QED BY <1>1, InitInv, PTL DEF Spec

(* However the calls of the two lights overlap, the buttons end as bright   *)
(* as the screen asks for.                                                  *)
THEOREM LevelFollowsHolds == Spec => []LevelFollowsScreen
<1>1. Inv => LevelFollowsScreen
  BY DEF Inv, LevelInv, LockInv, Locked, Lights, LevelFollowsScreen
<1> QED BY <1>1, InvHolds, PTL

-------------------------------------------------------------------------------
(* The refinement *)

Shown == <<FileShown, absent, LevelShown, CallShown>>

(* A step that writes nothing and takes no lock changes nothing of what the *)
(* files show.                                                              *)
LEMMA FilesStay ==
  ASSUME TypeOK, UNCHANGED <<file, absent, button_led_brightness>>, NEW l \in Lights,
         th' \in [Lights -> [pc : {"closed", "idle", "lock", "lcd", "level",
                                 "buttons", "unlock"},
                           color : Byte \X Byte \X Byte, err : BOOLEAN]],
         th[l].pc \notin {"lcd", "level", "buttons"},
         th'[l].pc \notin {"lcd", "level", "buttons"},
         \A k \in Lights \ {l} : th'[k] = th[k]
  PROVE  FileShown' = FileShown /\ LevelShown' = LevelShown
<1> USE DEF Lights
<1>1. \A k \in Lights : Left(k)' = Left(k)
  BY DEF Left
<1>2. \A k \in Lights : Left(k) # {} => th'[k] = th[k]
  BY DEF Left
<1>3. LevelShown' = LevelShown
  BY DEF LevelShown
<1>4. \A f \in Files :
        /\ f \in Left("backlight") =>
             Value("backlight", th'["backlight"].color, LevelShown', f)
               = Value("backlight", th["backlight"].color, LevelShown, f)
        /\ f \in Left("notifications") =>
             Value("notifications", th'["notifications"].color, LevelShown', f)
               = Value("notifications", th["notifications"].color, LevelShown, f)
  BY <1>2, <1>3
<1>5. FileShown' = FileShown
  BY <1>1, <1>4 DEF FileShown
<1> QED BY <1>3, <1>5

(* Each step is a step of the promise, or none: here, an open.              *)
LEMMA OpenStep ==
  ASSUME Inv, NEW l \in Lights, open_lights(l)
  PROVE  Promised!Open(l)
<1>1. TypeOK /\ TypeOK'
  BY NextTypes DEF Inv, Next
<1>2. FileShown' = FileShown /\ LevelShown' = LevelShown /\ absent' = absent
  BY <1>1, FilesStay DEF TypeOK, open_lights, Go
<1>3. CallShown[l].pc = "closed" /\ CallShown' = [CallShown EXCEPT ![l].pc = "idle"]
  BY <1>1, ZenonT(40) DEF TypeOK, CallShown, Left, open_lights, Go
<1> QED BY <1>2, <1>3 DEF Promised!Open

(* So is a close.                                                           *)
LEMMA CloseStep ==
  ASSUME Inv, NEW l \in Lights, close_lights(l)
  PROVE  Promised!Close(l)
<1>1. TypeOK /\ TypeOK'
  BY NextTypes DEF Inv, Next
<1>2. FileShown' = FileShown /\ LevelShown' = LevelShown /\ absent' = absent
  BY <1>1, FilesStay DEF TypeOK, close_lights, Go
<1>3. CallShown[l].pc = "idle" /\ CallShown' = [CallShown EXCEPT ![l].pc = "closed"]
  BY <1>1, ZenonT(40) DEF TypeOK, CallShown, Left, close_lights, Go
<1> QED BY <1>2, <1>3 DEF Promised!Close

(* The call of set_light() that has not got the lock yet.                   *)
LEMMA SetStep ==
  ASSUME Inv, NEW l \in Lights, NEW c \in Colors, set_light(l, c)
  PROVE  Promised!Call(l, c)
<1>1. TypeOK /\ TypeOK'
  BY NextTypes DEF Inv, Next
<1>2. FileShown' = FileShown /\ LevelShown' = LevelShown /\ absent' = absent
  BY <1>1, FilesStay DEF TypeOK, set_light
<1>3. /\ CallShown[l].pc = "idle"
      /\ CallShown' = [CallShown EXCEPT ![l].pc = "called", ![l].color = c]
  BY <1>1, ZenonT(40) DEF TypeOK, CallShown, Left, set_light
<1> QED BY <1>2, <1>3 DEF Promised!Call

(* The return of a call.                                                    *)
LEMMA UnlockStep ==
  ASSUME Inv, NEW l \in Lights, Unlock(l)
  PROVE  Promised!Return(l)
<1>1. TypeOK /\ TypeOK'
  BY NextTypes DEF Inv, Next, Running
<1>2. FileShown' = FileShown /\ LevelShown' = LevelShown /\ absent' = absent
  BY <1>1, FilesStay DEF TypeOK, Unlock, Go
<1>3. /\ CallShown[l].pc = "served"
      /\ CallShown' = [CallShown EXCEPT ![l].pc = "idle"]
  <2>1. \A k \in Lights : Left(k)' = Left(k)
    BY <1>1 DEF TypeOK, Left, Unlock, Go
  <2>2. th[l].pc = "unlock" /\ th' = [th EXCEPT ![l].pc = "idle"] /\ absent' = absent
    BY DEF Unlock, Go
  <2> QED BY <1>1, <2>1, <2>2, ZenonT(40) DEF TypeOK, CallShown
<1> QED BY <1>2, <1>3 DEF Promised!Return

(* A call that gets the lock is served: no other light is writing, so the   *)
(* files show what they have, and from now on what the call leaves.         *)
LEMMA LockStep ==
  ASSUME Inv, NEW l \in Lights, Lock(l)
  PROVE  Promised!Serve(l)
<1> DEFINE c == th[l].color
<1>1. TypeOK /\ TypeOK' /\ LockInv
  BY NextTypes DEF Inv, Next, Running
<1>2. \A k \in Lights : Left(k) = {}
  BY <1>1 DEF Lock, LockInv, Locked, Left, Lights, NoLightAssumption
<1>3. /\ \A k \in Lights \ {l} : Left(k)' = {} /\ th'[k] = th[k]
      /\ Left(l)' = Written(l)
      /\ th'[l].color = c /\ th'[l].pc = IF l = "backlight" THEN "lcd" ELSE "level"
  BY <1>1, <1>2, ZenonT(40) DEF Lock, Go, Left, Written, TypeOK, Lights, Files
<1>4. LevelShown' = IF l = "backlight" THEN LedBrightness(rgb_to_brightness(c))
                    ELSE LevelShown
  BY <1>1, <1>2, <1>3 DEF Lock, LevelShown, LockInv, Locked, Lights
<1>5. FileShown = file
  BY <1>1, <1>2 DEF FileShown, TypeOK, Lights
<1>6. FileShown' = [f \in Files |-> IF f \in Written(l) \ absent
                                   THEN Value(l, c, LevelShown', f) ELSE FileShown[f]]
  BY <1>3, <1>5 DEF Lock, FileShown, Lights
<1>7. /\ CallShown[l].pc = "called" /\ CallShown[l].color = c
      /\ CallShown' = [CallShown EXCEPT ![l] =
                         [pc |-> "served", color |-> c, err |-> "buttons" \in absent]]
  <2>1. Written(l) # {}
    BY DEF Written, Files
  <2>2. th[l].pc = "lock" /\ absent' = absent
        /\ th' = [th EXCEPT ![l].pc = IF l = "backlight" THEN "lcd" ELSE "level"]
    BY DEF Lock, Go
  <2>3. CallShown'[l] = [pc |-> "served", color |-> c, err |-> "buttons" \in absent]
    BY <1>1, <1>3, <2>1, <2>2 DEF CallShown, TypeOK
  <2>4. \A k \in Lights \ {l} : CallShown'[k] = CallShown[k]
    BY <1>2, <1>3, <2>2 DEF CallShown
  <2>5. CallShown[l].pc = "called" /\ CallShown[l].color = c
    BY <2>2 DEF CallShown
  <2>6. CallShown' = [CallShown EXCEPT ![l] = CallShown'[l]]
    BY <2>4, ZenonT(40) DEF CallShown
  <2> QED BY <2>3, <2>5, <2>6
<1> QED BY <1>4, <1>6, <1>7
        DEF Lock, Promised!Serve, Promised!Written, Promised!Files, Promised!Value,
            Promised!LedBrightness, Promised!rgb_to_brightness, Promised!is_lit,
            Promised!Black, Written, Files, Value, LedBrightness, rgb_to_brightness,
            is_lit, Black

(* Writing a file changes nothing of what they show.                        *)
LEMMA WriteStep ==
  ASSUME Inv, NEW l \in Lights, WriteLcd(l) \/ WriteLevel(l) \/ WriteButtons(l)
  PROVE  UNCHANGED Shown
<1>1. TypeOK /\ TypeOK' /\ LockInv
  BY NextTypes DEF Inv, Next, Running
<1>2. \A k \in Lights \ {l} : Left(k) = {} /\ Left(k)' = {} /\ th'[k] = th[k]
  <2>1. g_lock = l
    BY <1>1 DEF WriteLcd, WriteLevel, WriteButtons, LockInv, Locked
  <2>2. \A k \in Lights \ {l} : th[k].pc \notin Locked /\ th'[k] = th[k]
    BY <1>1, <2>1 DEF WriteLcd, WriteLevel, WriteButtons, write_int, LockInv, TypeOK
  <2> QED BY <2>2 DEF Left, Locked
<1>3. PICK f \in Files :
        /\ f \in Left(l) /\ Left(l)' = Left(l) \ {f}
        /\ th'[l].color = th[l].color
        /\ file' = IF f \in absent THEN file
                   ELSE [file EXCEPT ![f] = Value(l, th[l].color, button_led_brightness, f)]
        /\ absent' = absent
        /\ f = "level" => LevelShown = button_led_brightness
  BY <1>1 DEF WriteLcd, WriteLevel, WriteButtons, write_int, Left, LevelShown, LockInv,
              Locked, Files, Lights, TypeOK
<1>4. LevelShown' = LevelShown
  BY <1>1 DEF WriteLcd, WriteLevel, WriteButtons, write_int, LevelShown, LockInv, Locked,
              Lights, TypeOK
<1>5. FileShown' = FileShown
  <2>1. \A g \in Files : file'[g] = IF g = f /\ f \notin absent
          THEN Value(l, th[l].color, button_led_brightness, f) ELSE file[g]
    BY <1>1, <1>3 DEF TypeOK
  <2>2. f = "level" \/ \A b \in 1..3 : \A d \in 1..3 :
          Value(l, th[l].color, b, f) = Value(l, th[l].color, d, f)
    BY DEF Value, Files
  <2>3. button_led_brightness \in 1..3 /\ LevelShown \in 1..3
    BY <1>1, BrightnessIsByte, LevelIsLevel DEF TypeOK, LevelShown, Lights
  <2>4. Value(l, th[l].color, button_led_brightness, f)
          = Value(l, th[l].color, LevelShown, f)
    BY <1>3, <2>2, <2>3
  <2>5. \A g \in Files : FileShown[g] = IF g \in Left(l) \ absent
                                        THEN Value(l, th[l].color, LevelShown, g) ELSE file[g]
    BY <1>2 DEF FileShown, Lights
  <2>6. \A g \in Files : FileShown'[g] = IF g \in Left(l)' \ absent'
                           THEN Value(l, th'[l].color, LevelShown', g) ELSE file'[g]
    BY <1>2 DEF FileShown, Lights
  <2>7. \A g \in Files : FileShown'[g] = FileShown[g]
    BY <1>3, <1>4, <2>1, <2>4, <2>5, <2>6
  <2> QED BY <2>7 DEF FileShown
<1>6. CallShown' = CallShown
  <2>1. th'[l].color = th[l].color /\ absent' = absent
    BY <1>3
  <2>2. /\ th[l].pc \in {"lcd", "level", "buttons"}
        /\ th'[l].pc \in {"level", "buttons", "unlock"}
        /\ th'[l].pc = "unlock" => th'[l].err = ("buttons" \in absent)
    BY <1>1 DEF WriteLcd, WriteLevel, WriteButtons, write_int, TypeOK
  <2>3. /\ Left(l) # {} /\ (Left(l)' = {} => th'[l].pc = "unlock")
    BY <2>2 DEF Left
  <2>4. CallShown'[l] = CallShown[l]
    BY <2>1, <2>2, <2>3 DEF CallShown
  <2>5. \A k \in Lights \ {l} : CallShown'[k] = CallShown[k]
    BY <1>2, <2>1 DEF CallShown
  <2> QED BY <2>4, <2>5 DEF CallShown
<1> QED BY <1>3, <1>4, <1>5, <1>6 DEF Shown

(* The lights implement what they promise: every call of set_light() is     *)
(* atomic to the other light's and to the files, whatever files are absent. *)
THEOREM AtomicHolds == Spec => Atomic
<1>1. Init => Promised!Init
  <2> SUFFICES ASSUME Init PROVE Promised!Init
    OBVIOUS
  <2>1. \A l \in Lights : Left(l) = {} /\ th[l].pc = "closed"
    BY DEF Init, Left
  <2>2. FileShown = [f \in Files |-> 0] /\ LevelShown = 1
    BY <2>1 DEF Init, FileShown, LevelShown, Lights
  <2>3. CallShown = [l \in Lights |-> [pc |-> "closed", color |-> Black, err |-> FALSE]]
    BY <2>1 DEF Init, CallShown
  <2> QED BY <2>2, <2>3 DEF Init, Promised!Init, Promised!Files, Promised!Lights,
          Promised!Black, Files, Lights, Black
<1>2. Inv /\ [Next]_vars => [Promised!Next]_Shown
  <2> SUFFICES ASSUME Inv, [Next]_vars PROVE [Promised!Next]_Shown
    OBVIOUS
  <2>1. CASE UNCHANGED vars
    BY <2>1 DEF vars, Shown, FileShown, LevelShown, CallShown, Left
  <2>2. ASSUME NEW l \in Lights,
               \/ open_lights(l) \/ close_lights(l)
               \/ \E c \in Colors : set_light(l, c)
               \/ Lock(l) \/ Unlock(l)
        PROVE  Promised!Next
    BY <2>2, OpenStep, CloseStep, SetStep, LockStep, UnlockStep
       DEF Promised!Next, Promised!Lights, Lights
  <2>3. ASSUME NEW l \in Lights, WriteLcd(l) \/ WriteLevel(l) \/ WriteButtons(l)
        PROVE  UNCHANGED Shown
    BY <2>3, WriteStep
  <2> QED BY <2>1, <2>2, <2>3 DEF Next, Running
<1> QED BY <1>1, <1>2, InvHolds, PTL DEF Spec, Atomic, Promised!Spec, Shown
===============================================================================
