----------------------------- MODULE MCConsole ------------------------------
(***************************************************************************)
(* A screen of three rows of two characters, a line of three, and the keys *)
(* a, backspace, Enter and a shift key, with the release of the first and  *)
(* the last.  The functions of Strings, Screen and Bmp without state are   *)
(* compared with their definitions by the assumptions at the end, on small *)
(* sets with each kind of conversion and of width.                         *)
(***************************************************************************)
EXTENDS Console, Bmp, Colour, TLC

MCScanCodes == {14, 28, 30, 42, 158, 170}

MCCommands == << [name |-> <<97, 97>>, clear |-> FALSE, prints |-> <<120, NL, 120, NL>>],
                 [name |-> <<65>>, clear |-> TRUE, prints |-> <<>>],
                 [name |-> <<97>>, clear |-> FALSE, prints |-> <<120, 120, NL>>] >>

MCNumbers == -120 .. 120 \cup {-99999, -10000, -1000, -999, 999, 1000, 9999, 10000, 99999}

Piece(fmt, arg, text) == [fmt |-> fmt, arg |-> arg, text |-> text]

MCPieces == {
  Piece(<<65>>, <<>>, <<65>>), Piece(<<66, 67>>, <<>>, <<66, 67>>),
  Piece(<<37, 99>>, <<88>>, <<88>>),
  Piece(<<37, 100>>, <<0>>, <<48>>), Piece(<<37, 100>>, <<-205>>, <<45, 50, 48, 53>>),
  Piece(<<37, 117>>, <<10>>, <<49, 48>>), Piece(<<37, 111>>, <<8>>, <<49, 48>>),
  Piece(<<37, 120>>, <<171>>, <<65, 66>>), Piece(<<37, 115>>, << <<104, 105, 0, 106>> >>, <<104, 105>>),
  Piece(<<37, 37>>, <<>>, <<>>) }

ASSUME NumbersChecked == NumbersWritten(MCNumbers)
ASSUME LogChecked == LogFormatted(MCPieces)
ASSUME TextChecked == TextShown({SPACE, 98, 99})
Rgb(r, g, b, at) == RgbTag([position |-> at[1], size |-> r], [position |-> at[2], size |-> g],
                           [position |-> at[3], size |-> b])
MCPalette == [k \in 1 .. 8 |-> [r |-> 255 * (k % 2), g |-> 51 * k, b |-> 255 * ((k \div 2) % 2)]]
ASSUME ColoursChecked ==
  ColoursKept({0, 1, 51, 102, 127, 128, 204, 254, 255},
              {Rgb(8, 8, 8, <<16, 8, 0>>), Rgb(5, 6, 5, <<11, 5, 0>>), Rgb(5, 5, 5, <<0, 5, 10>>)},
              SubSeq(MCPalette, 1, 5))
ASSUME PicturesChecked == PictureUpright([w : 1 .. 11, h : 1 .. 3, start : {54}])
=============================================================================
