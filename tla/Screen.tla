------------------------------- MODULE Screen -------------------------------
(***************************************************************************)
(* The demonstration main0 ends in (app-common/splashscreen.c): fb_init,   *)
(* then frames drawn in a buffer line by line, two lines at a time, one    *)
(* from each end, and copied to the display.  A VC4_SUPPORT build launches *)
(* a program of the VideoCore and shows its error with the console.        *)
(*                                                                         *)
(* A word of the buffer holds a color, a triple of bytes.                  *)
(***************************************************************************)
EXTENDS Integers

CONSTANTS
  RATIO_WIDTH,      \* 23 in the source
  LOG2_INV_SPEED,   \* 6: the ratio moves by 1 / 2^6 of its range
  RingMin, RingMax, \* the squares of the radii of the ring (100 and 150)
  GLYPH_W,          \* the width of a glyph; its height is one word here
  Modes,            \* the [width, height, pitch] the firmware may answer,
                    \* the pitch in words
  Texts             \* the numbers of glyphs of an error: console_print's,
                    \* console_printhex's

ASSUME ScreenAssumption ==
  /\ LOG2_INV_SPEED \in Nat /\ RATIO_WIDTH \in Nat /\ RATIO_WIDTH > LOG2_INV_SPEED
  /\ {RingMin, RingMax} \subseteq Nat /\ {GLYPH_W, Texts} \subseteq Nat \ {0}
  /\ \A m \in Modes : /\ {m.width, m.height, m.pitch} \subseteq Nat \ {0}
                      /\ m.width <= m.pitch
                      /\ (1 + Texts) * GLYPH_W <= m.width /\ 3 <= m.height

VARIABLES
  vc4,          \* is this a VC4_SUPPORT build?
  stage,        \* where app_screen_demo is
  fb,           \* width, height and pitch of the framebuffer
  tmp,          \* fb.tmp: a color for each word written
  ptr, rptr, y, \* the first word of the upper line, the last of the lower
  ratio, up,    \* the weights of the two colors, and where they are going
  glyphs        \* the glyphs of the error displayed

drawVars   == <<ptr, rptr, y>>
screenVars == <<vc4, stage, fb, tmp, drawVars, ratio, up, glyphs>>

Shr(n, k) == n \div 2^k     \* an arithmetic shift
Byte(n)   == n % 256

(* Division in C: towards zero. *)
Div(a, b) == IF a >= 0 THEN a \div b ELSE -((-a) \div b)

(* pixel_at before its components are cut to bytes. *)
PixelAt(width, height, x, yy) ==
  LET u0 == x - width \div 2
      v0 == yy - height \div 2
      ring == u0 * u0 + v0 * v0 \in RingMin .. RingMax
      u == IF ring THEN u0 + width - 1 - 2 * x ELSE u0
      v == IF ring THEN v0 + height - 1 - 2 * yy ELSE v0
  IN  <<Shr(2^19 + Div(v * 2^20, height), 12),
        Shr(2^17 - Div(50900 * u, width) - Div(133480 * v, height), 10),
        Shr(2^19 + Div(u * 2^20, width), 12)>>

(* Fault: the weights do not add up to one. *)
Mix8Short(x1, x2, a) == Byte(Shr(a * x1 + (2^RATIO_WIDTH - 1 - a) * x2, RATIO_WIDTH))

Mix8(x1, x2, a) == Byte(Shr(a * x1 + (2^RATIO_WIDTH - a) * x2, RATIO_WIDTH))

Rgb(px1, px2, a) == [k \in 1 .. 3 |-> Mix8(Byte(px1[k]), Byte(px2[k]), a)]

(* How many colors a glyph or a screen has does not matter here. *)
Glyph == <<"glyph">>

ScreenInit ==
  /\ vc4 \in BOOLEAN
  /\ stage = "off" /\ fb = [width |-> 0, height |-> 0, pitch |-> 0]
  /\ tmp = [i \in {} |-> 0]
  /\ ptr = 0 /\ rptr = 0 /\ y = 0
  /\ ratio = 0 /\ up = TRUE /\ glyphs = 0

(* fb_init: the answer of the mailbox (fb_init_cb), and malloc.  Its       *)
(* result is printed and not looked at: when it is 1, some of fb was never *)
(* written, and what follows goes wild.                                    *)
FbInitOk(m) ==
  /\ stage = "off" /\ stage' = IF vc4 THEN "vpu" ELSE "frame"
  /\ fb' = m
  /\ UNCHANGED <<vc4, tmp, drawVars, ratio, up, glyphs>>

FbInitFails ==
  /\ stage = "off" /\ stage' = "wild"
  /\ UNCHANGED <<vc4, fb, tmp, drawVars, ratio, up, glyphs>>

(* vpu_execute_code_with_stack returns; on an error two texts follow. *)
VpuReturns ==
  /\ stage = "vpu" /\ stage' \in {"error", "show"}
  /\ UNCHANGED <<vc4, fb, tmp, drawVars, ratio, up, glyphs>>

(* displayChar, the next glyph of a line of text that starts at px = 1.    *)
DisplayChar ==
  LET py == 1 + (glyphs \div Texts)
      px == 1 + (glyphs % Texts)
      first == px * GLYPH_W + py * fb.pitch
      words == first .. first + GLYPH_W - 1
  IN  /\ stage = "error" /\ stage' = IF glyphs + 1 = 2 * Texts THEN "show" ELSE stage
      /\ tmp' = [i \in words \union DOMAIN tmp |-> IF i \in words THEN Glyph ELSE tmp[i]]
      /\ glyphs' = glyphs + 1
      /\ UNCHANGED <<vc4, fb, drawVars, ratio, up>>

(* fb_copy_buffer, after which a VC4_SUPPORT build is idle. *)
Show ==
  /\ stage = "show" /\ stage' = "end"
  /\ UNCHANGED <<vc4, fb, tmp, drawVars, ratio, up, glyphs>>

Frame ==
  /\ stage = "frame" /\ stage' = "lines"
  /\ ptr' = 0 /\ y' = 0
  /\ rptr' = fb.pitch * (fb.height - 1) + fb.width - 1
  /\ UNCHANGED <<vc4, fb, tmp, ratio, up, glyphs>>

(* A pair of lines. *)
Line ==
  LET px(x) == PixelAt(fb.width, fb.height, x, y)
      mirror(x) == PixelAt(fb.width, fb.height, fb.width - 1 - x, fb.height - 1 - y)
      upper == ptr .. ptr + fb.width - 1
      lower == rptr - fb.width + 1 .. rptr
  IN  /\ stage = "lines" /\ y < fb.height \div 2
      /\ tmp' = [i \in upper \union lower \union DOMAIN tmp |->
                   IF i \in upper THEN Rgb(px(i - ptr), mirror(i - ptr), ratio)
                   ELSE IF i \in lower THEN Rgb(mirror(rptr - i), px(rptr - i), ratio)
                   ELSE tmp[i]]
      /\ y' = y + 1 /\ ptr' = ptr + fb.pitch /\ rptr' = rptr - fb.pitch
      /\ UNCHANGED <<vc4, stage, fb, ratio, up, glyphs>>

(* Fault: the ratio is not held at one. *)
FrameDoneUnbounded ==
  LET step == 2^(RATIO_WIDTH - LOG2_INV_SPEED)
      r == IF up THEN ratio + step ELSE ratio - step
  IN  /\ stage = "lines" /\ y >= fb.height \div 2 /\ stage' = "frame"
      /\ ratio' = IF r < 0 THEN 0 ELSE r
      /\ up' = IF Shr(r, RATIO_WIDTH) # 0 THEN FALSE ELSE up
      /\ UNCHANGED <<vc4, fb, tmp, drawVars, glyphs>>

(* The next ratio, then fb_copy_buffer.  A ratio shifted right is not zero *)
(* when it is above one nor when it is negative, so that the last branch   *)
(* is never taken.                                                         *)
FrameDone ==
  LET step == 2^(RATIO_WIDTH - LOG2_INV_SPEED)
      r == IF up THEN ratio + step ELSE ratio - step
  IN  /\ stage = "lines" /\ y >= fb.height \div 2 /\ stage' = "frame"
      /\ ratio' = IF Shr(r, RATIO_WIDTH) # 0 THEN 2^RATIO_WIDTH - 1
                  ELSE IF r < 0 THEN 0 ELSE r
      /\ up' = IF Shr(r, RATIO_WIDTH) # 0 THEN FALSE ELSE IF r < 0 THEN TRUE ELSE up
      /\ UNCHANGED <<vc4, fb, tmp, drawVars, glyphs>>

(* All of app_screen_demo after fb_init. *)
ScreenStep == VpuReturns \/ DisplayChar \/ Show \/ Frame \/ Line \/ FrameDone

-----------------------------------------------------------------------------
Color == [1 .. 3 -> 0 .. 255]

(* The ratio is one of 0 .. 2^RATIO_WIDTH - 1, as mix8's weights need.     *)
ScreenTypeOK ==
  /\ vc4 \in BOOLEAN /\ up \in BOOLEAN /\ glyphs \in 0 .. 2 * Texts
  /\ stage \in {"off", "wild", "vpu", "error", "show", "end", "frame", "lines"}
  /\ {ptr, y} \subseteq Nat /\ rptr \in Int
  /\ ratio \in 0 .. 2^RATIO_WIDTH - 1
  /\ \A i \in DOMAIN tmp : tmp[i] \in Color \/ tmp[i] = Glyph

At(x, yy) == tmp[x + yy * fb.pitch]

(* The visible words, and those a frame has drawn: all but the middle line *)
(* of an odd number.                                                       *)
Visible == {x + yy * fb.pitch : x \in 0 .. fb.width - 1, yy \in 0 .. fb.height - 1}
Drawn == {p \in (0 .. fb.width - 1) \X (0 .. fb.height - 1) :
            p[2] < fb.height \div 2 \/ p[2] >= fb.height - fb.height \div 2}

(* Nothing is written outside the visible words, and between two frames    *)
(* every drawn pixel lies between its own color and that of the pixel      *)
(* opposite, the two of a pair sharing the two colors out but for one unit *)
(* lost to a shift; no component of a color was cut (app_screen_demo's     *)
(* pointers, pixel_at, mix8).                                              *)
FrameIsRight ==
  /\ DOMAIN tmp \subseteq Visible
  /\ stage = "lines" /\ y >= fb.height \div 2 =>
       \A p \in Drawn, k \in 1 .. 3 :
         LET q == <<fb.width - 1 - p[1], fb.height - 1 - p[2]>>
             a == PixelAt(fb.width, fb.height, p[1], p[2])[k]
             b == PixelAt(fb.width, fb.height, q[1], q[2])[k]
             m == At(p[1], p[2])[k]
         IN  /\ IF a <= b THEN m \in a .. b ELSE m \in b .. a
             /\ a + b - m - At(q[1], q[2])[k] \in {0, 1}
=============================================================================
