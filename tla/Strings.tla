------------------------------ MODULE Strings -------------------------------
(***************************************************************************)
(* utils/string.c and the formatting of utils/debug.c.  A string is the    *)
(* sequence of the codes from its pointer on, the 0 that ends it included. *)
(***************************************************************************)
EXTENDS Integers, Seqs

END == 0
MINUS == 45
PERCENT == 37

Strlen(s) == Least({n \in DOMAIN s : s[n] = END}) - 1

(* _strncmp: the first difference or end among count characters decides. *)
Strncmp(cs, ct, count) ==
  LET stops == {n \in 1 .. count : /\ \A k \in 1 .. n - 1 : cs[k] = ct[k] /\ cs[k] # END
                                   /\ cs[n] # ct[n] \/ cs[n] = END}
  IN IF stops = {} THEN 0
     ELSE LET n == Least(stops) IN IF cs[n] = ct[n] THEN 0 ELSE IF cs[n] < ct[n] THEN -1 ELSE 1

-----------------------------------------------------------------------------
(* C's n % 10 without its sign, and n / 10, which is rounded to zero *)
Digit(n) == IF n < 0 THEN (-n) % 10 ELSE n % 10
Tenth(n) == IF n < 0 THEN -((-n) \div 10) ELSE n \div 10

(* The loop of _int_to_str_s: the digits, the lowest first, while there is *)
(* room.                                                                   *)
Backwards[n \in Int, bufsize \in Nat] ==
  IF bufsize = 0 THEN [ret |-> -1, out |-> <<>>]
  ELSE IF Tenth(n) = 0 THEN [ret |-> 0, out |-> <<48 + Digit(n)>>]
  ELSE LET rest == Backwards[Tenth(n), bufsize - 1] IN
       [ret |-> rest.ret, out |-> <<48 + Digit(n)>> \o rest.out]

(* _int_to_str_s, and _int_to_str_u for the numbers that are not negative: *)
(* out is what has been written into the buffer.                           *)
IntToStr(bufsize, n) ==
  LET sign == IF n < 0 THEN <<MINUS>> ELSE <<>>
      b == Backwards[n, bufsize - Len(sign)]
  IN IF n < 0 /\ bufsize = 0 THEN [ret |-> -1, out |-> <<>>]
     ELSE IF b.ret < 0 \/ bufsize = Len(sign \o b.out) THEN [ret |-> -1, out |-> sign \o b.out]
     ELSE [ret |-> 0, out |-> sign \o [k \in DOMAIN b.out |-> b.out[Len(b.out) + 1 - k]] \o <<END>>]

(* _int_to_str_static, from the end of its buffer to the front *)
IntToStrStatic(num, base) ==
  LET Char(digit) == IF digit < 10 THEN 48 + digit ELSE 55 + digit
      chars[n \in Nat] == (IF n \div base = 0 THEN <<>> ELSE chars[n \div base])
                          \o <<Char(n % base)>>
  IN chars[num]

-----------------------------------------------------------------------------
(* _dbg_log and _dbg_screen: what a conversion prints of its argument.     *)
(* One that is not known prints nothing and takes no argument.             *)
Takes == {99, 100, 111, 115, 117, 120}  \* c d o s u x
Converted(conv, arg) ==
  CASE conv = 99 -> <<arg>>
    [] conv = 100 -> (IF arg < 0 THEN <<MINUS>> ELSE <<>>) \o IntToStrStatic(IF arg < 0 THEN -arg ELSE arg, 10)
    [] conv = 117 -> IntToStrStatic(arg, 10)
    [] conv = 111 -> IntToStrStatic(arg, 8)
    [] conv = 120 -> IntToStrStatic(arg, 16)
    [] conv = 115 -> SubSeq(arg, 1, Strlen(arg))
    [] OTHER -> <<>>

(* The loop over the format, which is given without the 0 at its end and   *)
(* does not end in a percent sign: behind that one the code reads on.      *)
Format(format, args) ==
  LET Step(s, c) ==
        IF ~s.pct THEN IF c = PERCENT THEN [s EXCEPT !.pct = TRUE] ELSE [s EXCEPT !.out = Append(@, c)]
        ELSE IF c \in Takes
          THEN [pct |-> FALSE, out |-> s.out \o Converted(c, Head(s.args)), args |-> Tail(s.args)]
        ELSE [s EXCEPT !.pct = FALSE]
  IN Fold(Step, [pct |-> FALSE, args |-> args, out |-> <<>>], format).out

-----------------------------------------------------------------------------
(* The number that a sequence of digits stands for *)
Value(digits) == Fold(LAMBDA v, c : 10 * v + (c - 48), 0, digits)

(* _int_to_str writes the number with no superfluous digit and ends the    *)
(* string, or returns -1 if the buffer is too small for that, and in both  *)
(* cases never writes past the buffer (string.c:118, 127).                 *)
NumbersWritten(numbers) ==
  \A n \in numbers : \A bufsize \in 0 .. 6 :
    LET r == IntToStr(bufsize, n)
        size == (IF n < 0 THEN 2 ELSE 1) + Least({d \in 1 .. 6 : n < 10 ^ d /\ -n < 10 ^ d})
        digits == SubSeq(r.out, IF n < 0 THEN 2 ELSE 1, Len(r.out) - 1)
    IN /\ Len(r.out) <= bufsize
       /\ r.ret = 0 <=> size <= bufsize
       /\ r.ret = 0 => /\ Len(r.out) = size /\ r.out[size] = END
                       /\ Value(digits) = (IF n < 0 THEN -n ELSE n)
                       /\ n < 0 => r.out[1] = MINUS

(* pieces: records [fmt, arg, text], a part of a format and what it prints *)
(* as text.  A log line is the text of its parts in their order, each      *)
(* conversion with its own argument (debug.c:25-74).                       *)
LogFormatted(pieces) ==
  \A n \in 1 .. 3 : \A parts \in [1 .. n -> pieces] :
    LET Of(field) == Fold(LAMBDA s, part : s \o part[field], <<>>, parts) IN
    Format(Of("fmt"), Of("arg")) = Of("text")
=============================================================================
