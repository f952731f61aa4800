------------------------------- MODULE Bitmap -------------------------------
(***************************************************************************)
(* utils/bitmap.c on bytes.  PageFrames has the bitmap of the page frames  *)
(* as a set of pages, and Screen a glyph as a set of pixels: BitmapIsSet   *)
(* shows that the functions treat bytes as such a set.                     *)
(***************************************************************************)
EXTENDS Integers, Sequences, SequencesExt, FiniteSetsExt

BitmapGetBit(bitstring, bitno) == (bitstring[bitno \div 8] \div 2 ^ (bitno % 8)) % 2

BitmapGetBitReverse(bitstring, bitno) == (bitstring[bitno \div 8] \div 2 ^ (7 - (bitno % 8))) % 2

BitmapSetBit(bitstring, bitno) ==
  [bitstring EXCEPT ![bitno \div 8] = @ + (1 - BitmapGetBit(bitstring, bitno)) * 2 ^ (bitno % 8)]

BitmapClearBit(bitstring, bitno) ==
  [bitstring EXCEPT ![bitno \div 8] = @ - BitmapGetBit(bitstring, bitno) * 2 ^ (bitno % 8)]

BitmapToggleBit(bitstring, bitno) ==
  IF BitmapGetBit(bitstring, bitno) = 1 THEN BitmapClearBit(bitstring, bitno)
                                        ELSE BitmapSetBit(bitstring, bitno)

BitmapSetBits(bitstring, startbit, count) ==
  FoldLeft(BitmapSetBit, bitstring, [k \in 1 .. count |-> (startbit + k) - 1])

(* bitmap_find_first_set: only whole words of four bytes are looked at. *)
BitmapFindFirstSet(bitstring, maxbyte) ==
  LET leftover == (maxbyte \div 4) * 4
      set == {bitno \in 0 .. 8 * leftover - 1 : BitmapGetBit(bitstring, bitno) = 1}
  IN IF set = {} THEN -1 ELSE Min(set)

-----------------------------------------------------------------------------
Bits(bitstring) == {n \in 0 .. 8 * Cardinality(DOMAIN bitstring) - 1 : BitmapGetBit(bitstring, n) = 1}

(* The functions add, remove and look up elements of the set of bits, and  *)
(* leave every byte in its range (bitmap.c:10, 18, 61, 66); the reversed   *)
(* look-up, which the font is drawn with, takes a byte from its other end. *)
BitmapIsSet(bytes) ==
  \A b \in [0 .. 1 -> bytes] : \A n \in 0 .. 15 :
    /\ Bits(BitmapSetBit(b, n)) = Bits(b) \cup {n}
    /\ Bits(BitmapClearBit(b, n)) = Bits(b) \ {n}
    /\ (n \in Bits(BitmapToggleBit(b, n))) = (n \notin Bits(b))
    /\ BitmapGetBitReverse(b, n) = BitmapGetBit(b, 8 * (n \div 8) + (7 - (n % 8)))
    /\ \A count \in 0 .. 16 - n : LET after == BitmapSetBits(b, n, count) IN
         /\ Bits(after) = Bits(b) \cup n .. (n + count) - 1
         /\ \A k \in 0 .. 1 : after[k] \in 0 .. 255

(* The first set bit is found if it is in a whole word (bitmap.c:41). *)
FirstSetFound(words) ==
  \A w \in words, maxbyte \in 0 .. 8 :
    LET found == BitmapFindFirstSet(w, maxbyte)
        set == {n \in Bits(w) : n < 32 * (maxbyte \div 4)}
    IN IF set = {} THEN found = -1 ELSE found \in set /\ \A n \in set : found <= n
=============================================================================
