---------------------------- MODULE MCPageFrames ----------------------------
(***************************************************************************)
(* Instances of PageFrames for TLC, and a check of the functions that its  *)
(* bitmap is kept with.                                                    *)
(***************************************************************************)
EXTENDS PageFrames, Bitmap

(* A table inside the memory that the bitmap describes, and device         *)
(* registers above it.                                                     *)
TableAndRegisters == {[start |-> 5, n |-> 2], [start |-> NPages + 1, n |-> 1]}

ASSUME BitmapChecked == BitmapIsSet({0, 1, 90, 128, 255})
ASSUME FirstSetChecked == FirstSetFound([0 .. 7 -> {0, 24}])
=============================================================================
