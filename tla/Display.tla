--------------------------------- MODULE Display ---------------------------------
(***************************************************************************)
(* recovery/graphics.c, the minui back end the charger is linked with      *)
(* (BOARD_CUSTOM_GRAPHICS), as operators on its state: two framebuffers of *)
(* the driver, of which one is shown, and a surface in memory that is      *)
(* drawn to and copied to the other one.                                   *)
(*                                                                         *)
(* A surface is the sequence, from 0, of its bytes, two for a pixel.  Byte *)
(* j of picture p is <<p, j>>; where on the surface a picture is drawn is  *)
(* left out: it covers the surface.                                        *)
(***************************************************************************)
EXTENDS Integers

CONSTANT Pixels   \* xres * yres

ASSUME PixelsAssumption == Pixels \in Nat \ {0}

Bytes == 0 .. 2 * Pixels - 1

Picture(p) == [j \in Bytes |-> <<p, j>>]
Zeroes     == Picture(-2)   \* a framebuffer after memset()
Garbage    == Picture(-3)   \* the surface after malloc()
NoSurface  == <<>>          \* data == NULL

(***************************************************************************)
(* fd: gr_fb_fd >= 0.  sized: vi has been read.  mem: gr_mem_surface.data. *)
(* fb: gr_framebuffer[].data.  active: gr_active_fb.  Of the driver: shown *)
(* (yoffset, as the driver has it) and whether the panel is blanked.        *)
(***************************************************************************)
NoDisplay ==
  [fd |-> FALSE, sized |-> FALSE, mem |-> NoSurface,
   fb |-> [n \in 0..1 |-> NoSurface], active |-> 0, shown |-> 0,
   blank |-> FALSE]

(* The ioctls may fail (~ok): the code prints it and goes on.               *)
gr_fb_blank(g, on, ok) == IF g.fd /\ ok THEN [g EXCEPT !.blank = on] ELSE g

gr_clear(g, ok) == gr_fb_blank(g, TRUE, ok)

gr_exit(g) == [g EXCEPT !.fd = FALSE, !.mem = NoSurface]

set_active_framebuffer(g, n, ok) ==
  IF g.fd /\ ok THEN [g EXCEPT !.shown = n] ELSE g

(* Why gr_init() may fail: tty0 refuses KDSETMODE, or fb0 cannot be opened, *)
(* or, when its size is known already, mapped.                             *)
InitResults == {"ok", "tty", "open", "map"}

gr_init(g, r, ok) ==
  IF r = "ok"
  THEN set_active_framebuffer(
         [g EXCEPT !.fd = TRUE, !.sized = TRUE, !.mem = Garbage,
                   !.fb = [n \in 0..1 |-> Zeroes], !.active = 0], 0, ok)
  ELSE gr_exit([g EXCEPT !.sized = @ \/ r = "map"])

(* gr_blit() and gr_text() draw on the surface in memory, if there is one.  *)
gr_draw(g, p) == IF g.mem = NoSurface THEN g ELSE [g EXCEPT !.mem = Picture(p)]

(* The loop of gr_flip() swaps the bytes i and 2 * Pixels - i.              *)
Flipped(m) == [j \in Bytes |-> IF j = 0 THEN m[0] ELSE m[2 * Pixels - j]]

(* With a size but no surface the loop writes through a null pointer.       *)
FlipFaults(g) == g.sized /\ g.mem = NoSurface

gr_flip_Bug(g, ok) ==    \* the front buffer is written
  IF ~g.sized THEN g
  ELSE LET m == Flipped(g.mem)
       IN  set_active_framebuffer([g EXCEPT !.mem = m, !.fb[g.active] = m],
                                  g.active, ok)

(* gr_active_fb is toggled whether or not the driver then shows the buffer. *)
gr_flip(g, ok) ==
  LET n == (g.active + 1) % 2
  IN  IF ~g.sized THEN [g EXCEPT !.active = n]
      ELSE LET m == Flipped(g.mem)
           IN  set_active_framebuffer(
                 [g EXCEPT !.active = n, !.mem = m, !.fb[n] = m], n, ok)
===============================================================================
