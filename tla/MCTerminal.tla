----------------------------- MODULE MCTerminal ------------------------------
(***************************************************************************)
(* Two rows of two columns, and a line of pixels below them.               *)
(***************************************************************************)
EXTENDS Terminal

MCDefaultColor == [n \in Names |-> CASE n = "r=" -> 7 [] n = "g=" -> 8 [] OTHER -> 9]
MCHexDigit == [b \in {"1", "2", "z", "#"} \cup Names |->
                  CASE b = "1" -> 1 [] b = "2" -> 2 [] OTHER -> 0]

\* Comments, a colour set twice, a long line, a byte and a line that are no number, an unfinished line.
Settings == <<"\n", "z", "r=", "#", "\n", "r=", "#", "1", "1", "\n", "r=", "#", "2", "z", "\r", "\n",
              "g=", "#", "1", "2", "2", "1", "\n", "b=", "1", "2", "1", "\n", "b=", "#", "1", "\n",
              "g=", "#", "1", "1">>
MCThemeFiles == {<<>>, Settings}
=============================================================================
