------------------------------- MODULE LightState -------------------------------
(* liblights/lights.c: what a light_state_t asks for. *)
EXTENDS Integers

CONSTANTS Colors,    \* the colours that are asked for: <<red, green, blue>>
          NoLight    \* nobody holds the lock

Lights == {"backlight", "notifications"}
Files  == {"lcd", "level", "buttons"}
Byte   == 0..255
Black  == <<0, 0, 0>>

ASSUME ColorsAssumption  == Colors \subseteq Byte \X Byte \X Byte
ASSUME NoLightAssumption == NoLight \notin Lights

rgb_to_brightness(c) == (77 * c[1] + 150 * c[2] + 29 * c[3]) \div 256

is_lit(c) == c # Black

(* How bright the buttons are lit, to go with the screen. *)
LedBrightness(b) == IF b >= 170 THEN 3 ELSE IF b >= 85 THEN 2 ELSE 1

(* The files that a light writes, in this order. *)
Written(l) == IF l = "backlight" THEN Files ELSE Files \ {"lcd"}

(* What a light writes to a file, when the buttons' brightness is level. *)
Value_Bug(l, c, level, f) ==    \* the notification does not know the level
  CASE f = "lcd"     -> rgb_to_brightness(c)
    [] f = "level"   -> IF l = "backlight" THEN level ELSE 1
    [] f = "buttons" -> IF is_lit(c) THEN 255 ELSE 0

Value(l, c, level, f) ==
  CASE f = "lcd"     -> rgb_to_brightness(c)
    [] f = "level"   -> level
    [] f = "buttons" -> IF is_lit(c) THEN 255 ELSE 0
===============================================================================
