----------------------------- MODULE TextBuffer ------------------------------
(***************************************************************************)
(* What an editor promises of the text it holds: it lies on both sides of  *)
(* a cursor; typing and deleting happen at the cursor and leave the rest   *)
(* alone, and moving the cursor leaves all of it alone.  Up and down keep  *)
(* the column as well as the line they come to allows.  The file changes   *)
(* by saving only, to the text or a beginning of it, and saving leaves the *)
(* text alone.                                                             *)
(***************************************************************************)
EXTENDS Integers, Sequences, FiniteSets

CONSTANTS NL, Chars, LIMIT     \* LIMIT: the most that the text may hold

VARIABLES before, after, stored

text == before \o after
Here == Len(before)

\* The line of place p, and the column: what lies between the line's begin and p.
Line(p)   == Cardinality({i \in 1..p : text[i] = NL})
Column(p) == Cardinality({i \in 1..p : \A j \in i..p : text[j] # NL})
Places    == 0..Len(text)

\* The place in line n that is nearest to column c without being beyond it.
Nearest(n, c, p) ==
    /\ Line(p) = n /\ Column(p) <= c
    /\ \A q \in Places : (Line(q) = n /\ Column(q) <= c) => Column(q) <= Column(p)

MoveTo(p) ==
    /\ before' = SubSeq(text, 1, p) /\ after' = SubSeq(text, p + 1, Len(text))
    /\ UNCHANGED stored

Insert(c) ==
    /\ Len(text) < LIMIT
    /\ before' = Append(before, c)
    /\ UNCHANGED <<after, stored>>

Backspace ==
    /\ before # <<>>
    /\ before' = SubSeq(before, 1, Len(before) - 1)
    /\ UNCHANGED <<after, stored>>

Left  == Here > 0 /\ MoveTo(Here - 1)
Right == Here < Len(text) /\ MoveTo(Here + 1)

Up ==
    IF Line(Here) = 0 THEN MoveTo(0)
    ELSE \E p \in Places : Nearest(Line(Here) - 1, Column(Here), p) /\ MoveTo(p)

Down ==
    IF Line(Here) = Line(Len(text)) THEN MoveTo(Len(text))
    ELSE \E p \in Places : Nearest(Line(Here) + 1, Column(Here), p) /\ MoveTo(p)

\* As much of the file as the text may hold.
Fitting == SubSeq(stored, 1, IF Len(stored) < LIMIT THEN Len(stored) ELSE LIMIT)

\* The editor is run again, on the file.
Open == before' = <<>> /\ after' = Fitting /\ UNCHANGED stored

\* A save that fails leaves the file alone, or with a beginning of the text.
Save ==
    /\ UNCHANGED stored \/ \E p \in Places : stored' = SubSeq(text, 1, p)
    /\ UNCHANGED <<before, after>>

Init == before = <<>> /\ after = Fitting

Next ==
    \/ \E c \in Chars \cup {NL} : Insert(c)
    \/ Backspace \/ Left \/ Right \/ Up \/ Down
    \/ Open \/ Save

Spec == Init /\ [][Next]_<<before, after, stored>>
=============================================================================
