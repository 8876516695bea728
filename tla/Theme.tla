-------------------------------- MODULE Theme --------------------------------
(***************************************************************************)
(* The parser of theme files (ui/theme.c).  A file is a sequence of bytes; *)
(* the text "red=" is one byte here, a member of Names.  The file is read  *)
(* in pieces, but the line and its length live on from one piece to the    *)
(* next, so a file is folded byte by byte, whatever the pieces.            *)
(***************************************************************************)
EXTENDS Integers, Sequences, FiniteSets
LOCAL INSTANCE FiniteSetsExt

CONSTANTS
  Names,          \* "black=", "red=", ...
  DefaultColor,   \* COLOR_BLACK, COLOR_RED, ...: from names to colours
  HexDigit,       \* from bytes to what they add to a colour: not all are digits
  DIGITS,         \* 6
  LINE_MAX        \* bytes of a line that are kept: sizeof(line) - 1

LineEnds == {"\n", "\r"}

\* Anything but "#" and six bytes is black; a byte that is no digit counts 0.
HexToUint32(hex) ==
    LET color[k \in 0..DIGITS] == IF k = 0 THEN 0 ELSE color[k-1] * 16 + HexDigit[hex[k+1]]
    IN  IF Len(hex) = DIGITS + 1 /\ hex[1] = "#" THEN color[DIGITS] ELSE 0

Assign(theme, line) ==
    IF line[1] \in Names THEN [theme EXCEPT ![line[1]] = HexToUint32(Tail(line))] ELSE theme

\* Mutant: a line is begun anew by assigning it, but not by a comment.
ParseByteKeeps(s, b) ==
    CASE b \in LineEnds /\ s.line # <<>> ->
            [line |-> IF s.line[1] \in Names THEN <<>> ELSE s.line,
             theme |-> Assign(s.theme, s.line)]
      [] b \in LineEnds /\ s.line = <<>> -> s
      [] OTHER -> IF Len(s.line) < LINE_MAX THEN [s EXCEPT !.line = Append(@, b)] ELSE s

ParseByte(s, b) ==
    CASE b \in LineEnds /\ s.line # <<>> -> [line |-> <<>>, theme |-> Assign(s.theme, s.line)]
      [] b \in LineEnds /\ s.line = <<>> -> s
      [] OTHER -> IF Len(s.line) < LINE_MAX THEN [s EXCEPT !.line = Append(@, b)] ELSE s

\* The theme after the file is read; without the file, the default one.
LoadTheme(file) ==
    LET run[i \in 0..Len(file)] ==
            IF i = 0 THEN [line |-> <<>>, theme |-> DefaultColor] ELSE ParseByte(run[i-1], file[i])
    IN  run[Len(file)].theme

-----------------------------------------------------------------------------
(* What a theme file means, said without the parser: a colour is the one of
   the last line that names it.  What follows the last line end is no line.  *)
LineAt(file, end) ==
    LET begin == Max({0} \cup {q \in 1..end - 1 : file[q] \in LineEnds})
        whole == SubSeq(file, begin + 1, end - 1)
    IN  SubSeq(whole, 1, Min({Len(whole), LINE_MAX}))

Meant(file, name) ==
    LET ends == {p \in DOMAIN file : /\ file[p] \in LineEnds
                                     /\ LineAt(file, p) # <<>>
                                     /\ LineAt(file, p)[1] = name}
        text == Tail(LineAt(file, Max(ends)))
        number[k \in 0..DIGITS] == IF k = 0 THEN 0 ELSE number[k-1] * 16 + HexDigit[text[k+1]]
    IN  CASE ends = {} -> DefaultColor[name]
          [] ends # {} /\ Len(text) = DIGITS + 1 /\ text[1] = "#" -> number[DIGITS]
          [] OTHER -> 0

ThemeMeant(file) == [n \in Names |-> Meant(file, n)]
=============================================================================
