------------------------------- MODULE ShellRc -------------------------------
(***************************************************************************)
(* The settings file that init reads before it runs the shell              *)
(* (user_programs/init.c).  A file is a sequence of bytes; the texts       *)
(* "set ", "theme" and "font" are one byte here.  init cuts the file up in *)
(* the buffer it was read into, by writing NULs over what ends a string.   *)
(***************************************************************************)
EXTENDS Integers, Sequences, FiniteSets
LOCAL INSTANCE FiniteSetsExt

CONSTANTS
  SPACE, NL, CR,  \* ' ' (a tab is treated alike), '\n', '\r'
  NUL,            \* '\0'
  Keys,           \* "theme" and "font"
  BUF,            \* sizeof(buf)
  Bytes,          \* what a file may consist of
  Pieces,         \* files are made by appending these,
  MAX_PIECES      \* bound: not more than so many of them

\* There is room for the two NULs, and what the parser tells apart is different.
ASSUME RcAssumption ==
    /\ BUF \in Nat \ {0, 1}
    /\ Keys \cap {SPACE, NL, CR, NUL, "="} = {}
    /\ "=" \notin {SPACE, NL, CR, NUL}
    /\ NUL \notin {SPACE, NL, CR, "set "}
    /\ Pieces \subseteq Seq(Bytes)

VARIABLES
  shellrc,        \* the file
  pieces          \* how many it was made of

rcvars == <<shellrc, pieces>>

Blanks == {SPACE, NL, CR}

\* Where the string at p ends, and the string.
Stop(b, p)   == Min({q \in p..Len(b) : b[q] = NUL})
String(b, p) == SubSeq(b, p, Stop(b, p) - 1)

\* trim, of the string at p: it now begins behind its spaces, and blanks and line
\* ends behind it are NULs, but never its first byte.
Trim(b, p) ==
    LET stop == Stop(b, p)
        at   == Min({q \in p..stop : b[q] # SPACE})
        last == Max({at} \cup {q \in at..stop - 1 : b[q] \notin Blanks})
    IN  [at  |-> at,
         buf |-> SubSeq(b, 1, last) \o [q \in 1..stop - last |-> NUL] \o SubSeq(b, stop + 1, Len(b))]

\* read_file: init and the kernel each keep a byte of the buffer for a NUL.
Read == SubSeq(shellrc, 1, Min({Len(shellrc), BUF - 2})) \o <<NUL>>

\* A line of s.buf, that begins with "set " and has its first "=" at equal: both its
\* sides are trimmed before either is read.
Setting(s, line, equal) ==
    LET key   == Trim([s.buf EXCEPT ![equal] = NUL], line + 1)
        value == Trim(key.buf, equal + 1)
        name  == String(value.buf, key.at)
        call  == [key |-> name[1], value |-> String(value.buf, value.at)]
    IN  [s EXCEPT !.buf   = value.buf,
                  !.calls = IF Len(name) = 1 /\ name[1] \in Keys THEN Append(@, call) ELSE @]

\* Where the line ends that begins at the cursor.
LineEnd(s) == Min({p \in s.cursor..Len(s.buf) : s.buf[p] \in {NUL, NL}})

\* Mutant: no NUL is written over the end of the line.
PassLine(s) == [s EXCEPT !.cursor = IF s.buf[LineEnd(s)] = NL THEN LineEnd(s) + 1 ELSE LineEnd(s)]

\* The line becomes a string, and the cursor is at the next one.
CutLine(s) ==
    [buf    |-> [s.buf EXCEPT ![LineEnd(s)] = NUL],
     cursor |-> IF s.buf[LineEnd(s)] = NL THEN LineEnd(s) + 1 ELSE LineEnd(s),
     calls  |-> s.calls]

\* Once round the loop, for the line that begins at the cursor.
Round(s) ==
    LET cut    == CutLine(s)
        equals == {p \in s.cursor + 1..Stop(cut.buf, s.cursor) : cut.buf[p] = "="}
    IN  IF s.buf[s.cursor] = NUL THEN s
        ELSE IF cut.buf[s.cursor] # "set " \/ equals = {} THEN cut
        ELSE Setting(cut, s.cursor, Min(equals))

\* shell_load_rc: as often as there are lines, which is not more often than there are bytes.
Calls ==
    LET loop[n \in 0..Len(Read)] ==
            IF n = 0 THEN [buf |-> Read, cursor |-> 1, calls |-> <<>>] ELSE Round(loop[n-1])
    IN  loop[Len(Read)].calls

RcInit == shellrc = <<>> /\ pieces = 0
RcNext == \E piece \in Pieces :
            /\ pieces < MAX_PIECES
            /\ shellrc' = shellrc \o piece
            /\ pieces' = pieces + 1
RcSpec == RcInit /\ [][RcNext]_rcvars

-----------------------------------------------------------------------------
(* What a settings file means, said without the parser.                     *)

\* What the file says.
Text == String(Read, 1)

\* Where the lines of t end, and the one that ends at p.
Ends(t)    == {p \in 1..Len(t) + 1 : p = Len(t) + 1 \/ t[p] = NL}
Line(t, p) == SubSeq(t, 1 + Max({0} \cup {q \in 1..p - 1 : t[q] = NL}), p - 1)

\* t is what is left of s without its padding.
Stripped(s, t) ==
    \E f \in 1..Len(s) + 1 : \E l \in f - 1..Len(s) :
        /\ t = SubSeq(s, f, l)
        /\ \A i \in 1..f - 1 : s[i] = SPACE
        /\ \A i \in l + 1..Len(s) : s[i] \in Blanks
        /\ IF l < f THEN f = Len(s) + 1 ELSE s[f] # SPACE /\ (l > f => s[l] \notin Blanks)

\* The line sets key to value.
Means(line, key, value) ==
    \E e \in 2..Len(line) :
        /\ line[1] = "set " /\ line[e] = "="
        /\ Stripped(SubSeq(line, 2, e - 1), <<key>>)
        /\ Stripped(SubSeq(line, e + 1, Len(line)), value)

\* The lines of t that set something.
Settings(t) ==
    {p \in Ends(t) : LET line == Line(t, p)
                     IN  \E key \in Keys, a \in 1..Len(line) + 1, b \in 0..Len(line) :
                            Means(line, key, SubSeq(line, a, b))}

(* init makes a call for each line that is a setting, in their order, with the
   value as it was meant, and for no other line: a line without "=", the end of
   a line, or a NUL written for one setting does not spoil another
   (shell_load_rc and trim, which cut the buffer up in place).                *)
SettingsAreMeant ==
    LET text     == Text
        calls    == Calls
        settings == Settings(text)
    IN  /\ Len(calls) = Cardinality(settings)
        /\ \A p \in settings :
              LET call == calls[Cardinality({q \in settings : q <= p})]
              IN  Means(Line(text, p), call.key, call.value)
=============================================================================
