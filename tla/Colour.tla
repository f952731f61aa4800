------------------------------- MODULE Colour -------------------------------
(***************************************************************************)
(* svga_translate_rgb of drivers/svga.c: the value of a pixel for a colour *)
(* [r, g, b] on the frame buffer that the loader describes.                *)
(***************************************************************************)
EXTENDS Naturals, Sequences, FiniteSetsExt

(* struct multiboot_tag_framebuffer: a palette, as it is found behind the  *)
(* number of its colours, or three fields [position, size] of a pixel      *)
IndexedTag(palette) == [type |-> "indexed", palette |-> palette]
RgbTag(red, green, blue) == [type |-> "rgb", red |-> red, green |-> green, blue |-> blue]

(* The square of an unsigned difference is that of the difference. *)
Square(a, b) == IF a < b THEN (b - a) * (b - a) ELSE (a - b) * (a - b)
Distance(c, d) == Square(c.b, d.b) + Square(c.r, d.r) + Square(c.g, d.g)

(* r_real, g_real and b_real, in their place.  The product with the float  *)
(* is exact enough: it rounds down to this for every size up to 8.         *)
Field(value, f) == ((value * (2 ^ f.size - 1)) \div 255) * 2 ^ f.position

(* svga_translate_rgb *)
TranslateRgb(tagfb, c) ==
  CASE tagfb.type = "indexed" ->
         LET best == Min({Distance(c, tagfb.palette[k]) : k \in DOMAIN tagfb.palette}) IN
         Min({k \in DOMAIN tagfb.palette : Distance(c, tagfb.palette[k]) = best}) - 1
    [] tagfb.type = "rgb" ->
         Field(c.r, tagfb.red) + Field(c.g, tagfb.green) + Field(c.b, tagfb.blue)
    [] tagfb.type = "ega_text" -> 92 + 256
    [] OTHER -> 2 ^ 32 - 1

-----------------------------------------------------------------------------
(* What a field of a pixel shows, from 0 to 255 *)
Shown(pixel, f) == (((pixel \div 2 ^ f.position) % 2 ^ f.size) * 255) \div (2 ^ f.size - 1)

(* On a screen with fields a colour is shown as itself or darker, by less  *)
(* than one step of the field, and black and full are exact; on one with a *)
(* palette a colour that is in it is found (svga.c:55-72).                 *)
ColoursKept(levels, tags, palette) ==
  \A r, g, b \in levels :
    LET c == [r |-> r, g |-> g, b |-> b] IN
    /\ \A t \in tags :
         LET pixel == TranslateRgb(t, c)
             Kept(v, f) == Shown(pixel, f) <= v /\ (v - Shown(pixel, f)) * (2 ^ f.size - 1) < 255 + 2 ^ f.size
         IN /\ Kept(r, t.red) /\ Kept(g, t.green) /\ Kept(b, t.blue)
            /\ r \in {0, 255} => Shown(pixel, t.red) = r
    /\ \A k \in DOMAIN palette : palette[k] = c => palette[TranslateRgb(IndexedTag(palette), c) + 1] = c
=============================================================================
