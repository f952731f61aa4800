------------------------------ MODULE Keyboard ------------------------------
(***************************************************************************)
(* drivers/keyboard.c: what a scan code means.  Characters are their       *)
(* codes; the entries of the two tables behind the last one below are 0.   *)
(***************************************************************************)
EXTENDS Naturals, Sequences

NUL == 0
KEY_BACKSPACE == 8
NL == 10
KEY_LSHIFT == 14
KEY_RSHIFT == 15

sc_table_noshift ==
  << 0, 27, 49, 50, 51, 52, 53, 54, 55, 56, 57, 48, 45, 61, 8, 9, 113, 119, 101, 114, 116, 121,
     117, 105, 111, 112, 91, 93, 10, 17, 97, 115, 100, 102, 103, 104, 106, 107, 108, 59, 39, 96,
     14, 92, 122, 120, 99, 118, 98, 110, 109, 44, 46, 47, 15, 0, 0, 32, 26 >>

sc_table_shift ==
  << 0, 27, 33, 64, 35, 36, 37, 94, 38, 42, 40, 41, 95, 43, 8, 9, 81, 87, 69, 82, 84, 89, 85, 73,
     79, 80, 123, 125, 10, 17, 65, 83, 68, 70, 71, 72, 74, 75, 76, 58, 34, 126, 14, 124, 90, 88,
     67, 86, 66, 78, 77, 44, 46, 47, 15, 0, 0, 32, 26 >>

Entry(table, scan_code) == IF scan_code < Len(table) THEN table[scan_code + 1] ELSE NUL

(* A release has bit 7 set; that of a shift key is one more shift. *)
ScanCodeToAscii(scan_code, is_shift_depressed) ==
  IF scan_code >= 128
    THEN IF scan_code \in {170, 182} THEN Entry(sc_table_noshift, scan_code - 128) ELSE NUL
    ELSE Entry(IF is_shift_depressed THEN sc_table_shift ELSE sc_table_noshift, scan_code)
=============================================================================
