-------------------------------- MODULE Bmp ---------------------------------
(***************************************************************************)
(* shell/bmp.c and the command rei.bmp of the shell: a picture of 24 bits  *)
(* per pixel from a file to the screen.  A pixel is the offset in the file *)
(* of its three bytes.                                                     *)
(***************************************************************************)
EXTENDS Naturals, Sequences

(* round_up *)
RoundUp(n, alignment) == n + ((alignment - (n % alignment)) % alignment)

RowSz(w) == RoundUp((24 * w + 31) \div 8, 4)

(* libbmp_get_all_pixels: the rows in the order of the file *)
GetAllPixels(bmp) ==
  [index \in 0 .. bmp.w * bmp.h - 1 |->
     bmp.start + RowSz(bmp.w) * (index \div bmp.w) + 3 * (index % bmp.w)]

(* The loops of the command: which pixel is drawn at (450 + j, 100 + y). *)
Drawn(bmp) ==
  [j \in 0 .. bmp.w - 1, y \in 1 .. bmp.h |-> GetAllPixels(bmp)[(bmp.h - y) * bmp.w + j]]

-----------------------------------------------------------------------------
(* A file has its lowest row first, each row filled up to a multiple of    *)
(* four bytes: the picture is drawn upright and each pixel is the file's   *)
(* (bmp.c:106, shell.c:215).  This is so for the widths w with w % 4 = 3,  *)
(* which the picture of the system, 183 wide, has; RowSz is 4 bytes more   *)
(* than the row for any other width.                                       *)
PictureUpright(pictures) ==
  \A bmp \in {p \in pictures : p.w % 4 = 3} :
    \A j \in 0 .. bmp.w - 1, y \in 1 .. bmp.h :
      LET row == CHOOSE r \in 3 * bmp.w .. 3 * bmp.w + 3 : r % 4 = 0 IN
      Drawn(bmp)[j, y] = bmp.start + row * (bmp.h - y) + 3 * j
=============================================================================
