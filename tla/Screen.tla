------------------------------- MODULE Screen -------------------------------
(***************************************************************************)
(* drivers/svga.c with shell/font.c: characters on a screen of pixels.     *)
(*                                                                         *)
(* Of a line of pixels the model keeps, for each column of characters, the *)
(* set of glyphs of which the line shows a part.  A character is drawn     *)
(* over what is there already: svga_draw_char sets pixels and clears none. *)
(* The frame buffer and the back buffer are written alike and are one.     *)
(***************************************************************************)
EXTENDS Seqs

CONSTANTS
  SCR_COLUMNS, SCR_ROWS,
  SCR_REST,   \* the lines of pixels below the last row
  FONT_H

ROW_H == FONT_H + 2
SCR_H == SCR_ROWS * ROW_H + SCR_REST
CELLS == SCR_ROWS * SCR_COLUMNS

ASSUME ScreenAssumption ==
  /\ SCR_COLUMNS \in Nat \ {0} /\ SCR_ROWS \in Nat \ {0}
  /\ FONT_H \in Nat \ {0} /\ SCR_REST \in 0 .. ROW_H - 1

SPACE == 32
BLOCK == 255    \* every pixel of its glyph is set
GARBAGE == 256  \* what memory behind the buffer shows

BlankLine == [x \in 0 .. SCR_COLUMNS - 1 |-> {}]

(* svga_clr_scr *)
ClrScr == [y \in 0 .. SCR_H - 1 |-> BlankLine]

(* svga_init, with what the loader leaves on the screen *)
SvgaInit == ClrScr

(* console_font_7x9, font_get_char: a space has no pixel. *)
Glyph(c) == IF c = SPACE THEN {} ELSE {c}

(* svga_draw_char at a cell, in the colour of the text *)
DrawChar(fb, cell, c) ==
  LET x == cell % SCR_COLUMNS
      y == (cell \div SCR_COLUMNS) * ROW_H
  IN [l \in DOMAIN fb |-> IF l \in y .. y + FONT_H - 1 THEN [fb[l] EXCEPT ![x] = @ \cup Glyph(c)]
                                                       ELSE fb[l]]

(* svga_draw_char of the block, in black: the cell is blank. *)
DrawBlack(fb, cell) ==
  LET x == cell % SCR_COLUMNS
      y == (cell \div SCR_COLUMNS) * ROW_H
  IN [l \in DOMAIN fb |-> IF l \in y .. y + FONT_H - 1 THEN [fb[l] EXCEPT ![x] = {}] ELSE fb[l]]

(* svga_scroll_down: all lines of pixels but the last are copied from some *)
(* rows further down, which for the lowest of them is behind the buffer;   *)
(* then the lowest ROW_H lines are cleared.                                *)
ScrollDown(fb, lines) ==
  LET down == ROW_H * (IF lines > SCR_ROWS THEN SCR_ROWS ELSE lines)
      copied == [y \in DOMAIN fb |->
                   IF y = SCR_H - 1 THEN fb[y]
                   ELSE IF y + down >= SCR_H THEN [x \in DOMAIN BlankLine |-> {GARBAGE}]
                   ELSE fb[y + down]]
  IN [y \in DOMAIN fb |-> IF y >= SCR_H - ROW_H THEN BlankLine ELSE copied[y]]

(* The scroll of svga_draw_char_cell when the position is off the screen *)
MakeRoom(scr) ==
  IF scr.pos + 1 > CELLS THEN [fb |-> ScrollDown(scr.fb, 1), pos |-> scr.pos - SCR_COLUMNS] ELSE scr

(* svga_draw_char_cell(&scrpos, c, brush): syscall_fb_write_chr *)
WriteChr(scr, c) ==
  LET at == MakeRoom(scr) IN [fb |-> DrawChar(at.fb, at.pos, c), pos |-> at.pos + 1]

(* svga_draw_char_cell(&scrpos, 255, black): syscall_fb_clr_cell *)
ClrCell(scr) ==
  LET at == MakeRoom(scr) IN [fb |-> DrawBlack(at.fb, at.pos), pos |-> at.pos + 1]

(* ceiling of maths.c, which rounds to the nearest *)
Ceiling(dividend, divisor) == (dividend + divisor \div 2) \div divisor

(* svga_write_str, of the debugging log and the tests: when the text is    *)
(* too long for the rest of the screen, an x is drawn before it.           *)
WriteStr(scr, str) ==
  LET over == scr.pos + Len(str) > CELLS
      len == IF over /\ Len(str) > CELLS THEN CELLS ELSE Len(str)
      lines == Ceiling((scr.pos + len) - CELLS, SCR_COLUMNS)
      start == IF over THEN WriteChr([fb |-> ScrollDown(scr.fb, lines), pos |-> scr.pos - lines * SCR_COLUMNS], 120)
                       ELSE scr
  IN Fold(WriteChr, start, SubSeq(str, 1, len))

(* What a cell shows, line by line. *)
Shows(fb, cell, glyphs) ==
  \A l \in 0 .. ROW_H - 1 :
    fb[(cell \div SCR_COLUMNS) * ROW_H + l][cell % SCR_COLUMNS] = IF l < FONT_H THEN glyphs ELSE {}

(* A text of at most a row is on the screen after it has been written at   *)
(* any position, all of it, just before the new position and each          *)
(* character alone in its cell (svga.c:193-205).  A longer one may scroll  *)
(* by several rows at once, of which only the last is cleared.             *)
TextShown(chars) ==
  \A pos \in 0 .. CELLS, len \in 1 .. SCR_COLUMNS : \A str \in [1 .. len -> chars] :
    LET full == Fold(WriteChr, [fb |-> ClrScr, pos |-> 0], [n \in 1 .. pos |-> 97])
        scr == WriteStr(full, str)
    IN \A n \in 1 .. len : Shows(scr.fb, ((scr.pos - len) + n) - 1, Glyph(str[n]))
=============================================================================
