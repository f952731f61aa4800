------------------------------ MODULE Console -------------------------------
(***************************************************************************)
(* shell/shell.c with the interrupt handler of drivers/keyboard.c: the     *)
(* shell prompts, waits for a line, runs it as a command and prompts       *)
(* again, while CPU 0 edits the line, a key at a time, in the handler of   *)
(* the keyboard.  The two share a flag, the buffer, a position in it and   *)
(* the cursor, and no lock.                                                *)
(*                                                                         *)
(* The two assignments at the start of shell_cin are to plain variables,   *)
(* and the compiler is free to swap them (GCC does): both orders happen.   *)
(* The shell writes to the screen in one step: HandlerAlone shows that the *)
(* handler does not write to it at the same time.  The log messages and    *)
(* the tests, which draw on the same screen, are left out.                 *)
(***************************************************************************)
EXTENDS Keyboard, Screen, Strings

CONSTANTS
  CIN_BUFSZ,
  ScanCodes,   \* the codes that the keyboard sends
  Commands,    \* the names that shell_handle_cmd tries, in its order, with
               \* what each prints or "clear"
  MaxKeys      \* bounds the keys for one line

(* A line is never longer than the screen without a row; it has 256        *)
(* characters, and the smallest screen of the loader 40 x 18.              *)
ASSUME ConsoleAssumption ==
  /\ CIN_BUFSZ \in Nat \ {0} /\ CIN_BUFSZ <= (SCR_ROWS - 1) * SCR_COLUMNS
  /\ MaxKeys \in Nat

VARIABLES
  is_shift_key_depressed,
  kb,       \* the handler: [pc, ascii, pos], pos being the _cin_pos it has read
  _receiving_user_input,
  _cin, _cin_pos,
  scr,      \* [fb, pos]; pos is _cur
  shell,    \* where the shell is
  buf,      \* the line, as shell_main has it
  typed,    \* the keys that the handler took for the current line
  early     \* has it taken one before shell_cin was ready?

keyVars == <<is_shift_key_depressed, kb>>
shared == <<_receiving_user_input, _cin, _cin_pos>>
consoleVars == <<keyVars, shared, scr, shell, buf, typed, early>>

PROMPT == 62
Cleared == [n \in 0 .. CIN_BUFSZ - 1 |-> NUL]

(* One round of shell_cout *)
CoutChar(s, c) ==
  IF c = NL
    THEN LET next == s.pos + (SCR_COLUMNS - (s.pos % SCR_COLUMNS)) IN
         IF next >= CELLS THEN [fb |-> ScrollDown(s.fb, 1), pos |-> next - SCR_COLUMNS]
                          ELSE [s EXCEPT !.pos = next]
    ELSE WriteChr(s, c)

Cout(s, str) == Fold(CoutChar, s, str)

(* shell_init, with the greeting left out *)
ConsoleInit ==
  /\ is_shift_key_depressed = FALSE
  /\ kb = [pc |-> "idle", ascii |-> NUL, pos |-> 0]
  /\ _receiving_user_input = FALSE /\ _cin = Cleared /\ _cin_pos = 0
  /\ scr = [fb |-> SvgaInit, pos |-> 0]
  /\ shell = "prompt" /\ buf = <<>>
  /\ typed = <<>> /\ early = FALSE

-----------------------------------------------------------------------------
(* The keyboard's interrupts, one at a time. *)

(* ISR_KEYBOARD up to the callback *)
IsrKeyboard(scan_code) ==
  LET ascii == ScanCodeToAscii(scan_code, is_shift_key_depressed) IN
  /\ kb.pc = "idle"
  /\ IF ascii \in {KEY_LSHIFT, KEY_RSHIFT}
       THEN is_shift_key_depressed' = ~is_shift_key_depressed /\ UNCHANGED kb
       ELSE /\ ascii \notin {NUL, NL} => Len(typed) < MaxKeys
            /\ kb' = [kb EXCEPT !.pc = "test", !.ascii = ascii] /\ UNCHANGED is_shift_key_depressed
  /\ UNCHANGED <<shared, scr, shell, buf, typed, early>>

KeyGoto(to) == kb' = [kb EXCEPT !.pc = to]

(* Mutant of KeyTest: the line feed is written like any character. *)
KeyTestWriteEnd ==
  /\ kb.pc = "test"
  /\ IF ~_receiving_user_input \/ kb.ascii = NUL
       THEN KeyGoto("idle") /\ UNCHANGED <<shared, typed, early>>
     ELSE /\ _receiving_user_input' = (kb.ascii # NL)
          /\ typed' = Append(typed, kb.ascii) /\ early' = (early \/ shell = "cin_pos")
          /\ KeyGoto("read") /\ UNCHANGED <<_cin, _cin_pos>>
  /\ UNCHANGED <<is_shift_key_depressed, scr, shell, buf>>


(* shell_handle_keypress: the flag, and the end of the line *)
KeyTest ==
  /\ kb.pc = "test"
  /\ IF ~_receiving_user_input \/ kb.ascii = NUL
       THEN KeyGoto("idle") /\ UNCHANGED <<shared, typed, early>>
     ELSE IF kb.ascii = NL
       THEN /\ _receiving_user_input' = FALSE /\ KeyGoto("idle")
            /\ UNCHANGED <<_cin, _cin_pos, typed, early>>
     ELSE /\ typed' = Append(typed, kb.ascii) /\ early' = (early \/ shell = "cin_pos")
          /\ KeyGoto("read") /\ UNCHANGED shared
  /\ UNCHANGED <<is_shift_key_depressed, scr, shell, buf>>

(* Its look at the position: nothing goes into a full line, and nothing    *)
(* comes out of an empty one.                                              *)
KeyRead ==
  /\ kb.pc = "read"
  /\ kb' = [kb EXCEPT !.pos = _cin_pos,
                      !.pc = IF _cin_pos >= CIN_BUFSZ \/ (kb.ascii = KEY_BACKSPACE /\ _cin_pos = 0)
                               THEN "idle" ELSE "edit"]
  /\ UNCHANGED <<is_shift_key_depressed, shared, scr, shell, buf, typed, early>>

(* _cin[_cin_pos--] = '\0', or _cin[_cin_pos++] = ascii *)
KeyEdit ==
  /\ kb.pc = "edit"
  /\ IF kb.ascii = KEY_BACKSPACE
       THEN _cin' = [_cin EXCEPT ![kb.pos] = NUL] /\ _cin_pos' = kb.pos - 1
       ELSE _cin' = [_cin EXCEPT ![kb.pos] = kb.ascii] /\ _cin_pos' = kb.pos + 1
  /\ KeyGoto("echo")
  /\ UNCHANGED <<is_shift_key_depressed, _receiving_user_input, scr, shell, buf, typed, early>>

(* Mutant of KeyEcho: the cursor stays where the cleared cell has put it. *)
KeyEchoOnce ==
  /\ kb.pc = "echo"
  /\ IF kb.ascii = KEY_BACKSPACE
       THEN scr' = ClrCell([scr EXCEPT !.pos = @ - 1])
       ELSE scr' = WriteChr(scr, kb.ascii)
  /\ KeyGoto("idle")
  /\ UNCHANGED <<is_shift_key_depressed, shared, shell, buf, typed, early>>

(* The cursor goes back, the cell is cleared, which moves the cursor on,   *)
(* and it goes back again; or the character is written.                    *)
KeyEcho ==
  /\ kb.pc = "echo"
  /\ IF kb.ascii = KEY_BACKSPACE
       THEN LET s == ClrCell([scr EXCEPT !.pos = @ - 1]) IN scr' = [s EXCEPT !.pos = @ - 1]
       ELSE scr' = WriteChr(scr, kb.ascii)
  /\ KeyGoto("idle")
  /\ UNCHANGED <<is_shift_key_depressed, shared, shell, buf, typed, early>>

Handler == KeyTest \/ KeyRead \/ KeyEdit \/ KeyEcho

-----------------------------------------------------------------------------
(* The shell. *)

(* The head of shell_main's loop *)
Prompt ==
  /\ shell = "prompt" /\ shell' = "cin"
  /\ buf' = <<>>
  /\ scr' = Cout(scr, <<PROMPT>>)
  /\ typed' = <<>> /\ early' = FALSE
  /\ UNCHANGED <<keyVars, shared>>

(* shell_cin: _cin_pos = 0 and _receiving_user_input = 1, in either order; *)
(* the loop begins with the test, or, as compiled, with the hlt.           *)
CinReceive ==
  /\ \/ shell = "cin" /\ _cin_pos' = 0 /\ shell' = "cin_flag" /\ UNCHANGED _receiving_user_input
     \/ shell = "cin" /\ _receiving_user_input' = TRUE /\ shell' = "cin_pos" /\ UNCHANGED _cin_pos
     \/ shell = "cin_flag" /\ _receiving_user_input' = TRUE /\ shell' \in {"wait", "halted"} /\ UNCHANGED _cin_pos
     \/ shell = "cin_pos" /\ _cin_pos' = 0 /\ shell' \in {"wait", "halted"} /\ UNCHANGED _receiving_user_input
  /\ UNCHANGED <<keyVars, _cin, scr, buf, typed, early>>

(* while (_receiving_user_input) hlt *)
CinTest ==
  /\ shell = "wait"
  /\ shell' = IF _receiving_user_input THEN "halted" ELSE "take"
  /\ UNCHANGED <<keyVars, shared, scr, buf, typed, early>>

(* An interrupt, such as the timer's, ends the hlt. *)
ShellWake == shell = "halted" /\ shell' = "wait" /\ UNCHANGED <<keyVars, shared, scr, buf, typed, early>>

(* Mutant of CinTake: the buffer is copied up to its first NUL, and not as *)
(* far as the position, so that a character taken back is in the line.     *)
CinTakeWhole ==
  /\ shell = "take"
  /\ IF _cin_pos <= CIN_BUFSZ
       THEN /\ LET used == {n \in 1 .. CIN_BUFSZ : \A k \in 1 .. n : _cin[k - 1] # NUL} IN
               buf' = [n \in used |-> _cin[n - 1]]
            /\ _cin' = Cleared /\ _cin_pos' = 0
            /\ scr' = Cout(scr, <<NL>>)
            /\ shell' = "cmd"
       ELSE shell' = "panic" /\ UNCHANGED <<buf, _cin, _cin_pos, scr>>
  /\ UNCHANGED <<keyVars, _receiving_user_input, typed, early>>

(* The rest of shell_cin, and the line feed *)
CinTake ==
  /\ shell = "take"
  /\ IF _cin_pos <= CIN_BUFSZ
       THEN /\ buf' = [n \in 1 .. _cin_pos |-> _cin[n - 1]]
            /\ _cin' = Cleared /\ _cin_pos' = 0
            /\ scr' = Cout(scr, <<NL>>)
            /\ shell' = "cmd"
       ELSE shell' = "panic" /\ UNCHANGED <<buf, _cin, _cin_pos, scr>>
  /\ UNCHANGED <<keyVars, _receiving_user_input, typed, early>>

(* shell_handle_cmd: the first command whose name the line begins with *)
HandleCmd ==
  LET Matches(command) == Strncmp(Append(buf, NUL), command.name, Len(command.name)) = 0
      hits == SelectSeq(Commands, Matches)
  IN /\ shell = "cmd" /\ shell' = "prompt"
     /\ scr' = CASE hits = <<>> -> scr
                 [] hits # <<>> /\ Head(hits).clear -> [fb |-> ClrScr, pos |-> 0]
                 [] hits # <<>> /\ ~Head(hits).clear -> Cout(scr, Head(hits).prints)
     /\ UNCHANGED <<keyVars, shared, buf, typed, early>>

ShellRuns == Prompt \/ CinReceive \/ CinTest \/ ShellWake \/ CinTake \/ HandleCmd

ConsoleNext == ShellRuns \/ Handler \/ \E scan_code \in ScanCodes : IsrKeyboard(scan_code)

(* Nothing interrupts the handler, which therefore returns; the shell, of  *)
(* which some step is always possible, is given its turns, and the timer   *)
(* interrupts the CPU that it has halted.                                  *)
ConsoleSpec == ConsoleInit /\ [][ConsoleNext]_consoleVars /\ []<>(kb.pc = "idle") /\ []<><<ShellRuns>>_consoleVars

-----------------------------------------------------------------------------
(* The line that the keys make: a full line takes no more of them, not     *)
(* even a backspace (shell.c:53).                                          *)
Edited(keys) ==
  LET Take(line, c) == IF Len(line) = CIN_BUFSZ THEN line
                       ELSE IF c # KEY_BACKSPACE THEN Append(line, c)
                       ELSE IF line = <<>> THEN line ELSE SubSeq(line, 1, Len(line) - 1)
  IN Fold(Take, <<>>, keys)

(* The shell runs the line that was typed at its prompt, all of it and     *)
(* nothing else, unless a key came between the two assignments at the      *)
(* start of shell_cin in the order of the compiler (shell.c:93): that one  *)
(* may be forgotten.                                                       *)
LineTyped == shell = "cmd" /\ ~early => buf = Edited(typed)

(* While the shell waits, the screen shows the prompt and the line as it   *)
(* is in the buffer just before the cursor, each character alone in its    *)
(* cell, and nothing behind the cursor: also after the line has scrolled   *)
(* the screen or has been taken back across rows (shell.c:57-66,           *)
(* svga.c:171-172, 178-180).                                               *)
EchoMatches ==
  shell \in {"wait", "halted"} /\ kb.pc \in {"idle", "test"} /\ ~early =>
    LET start == scr.pos - _cin_pos IN
    /\ _cin_pos \in 0 .. CIN_BUFSZ /\ start >= 1 /\ scr.pos <= CELLS
    /\ Shows(scr.fb, start - 1, {PROMPT})
    /\ \A n \in 0 .. _cin_pos - 1 : Shows(scr.fb, start + n, Glyph(_cin[n]))
    /\ \A cell \in scr.pos .. CELLS - 1 : Shows(scr.fb, cell, {})

(* The handler changes the buffer and the screen only while the shell is   *)
(* in the loop of shell_cin, or about to enter it: the flag keeps the two  *)
(* apart (shell.c:47, 50, 94).                                             *)
HandlerAlone == kb.pc \in {"read", "edit", "echo"} => shell \in {"cin_pos", "wait", "halted"}

=============================================================================
