----------------------------- MODULE CharScreen ------------------------------
(***************************************************************************)
(* What a program may expect of the terminal: a page of characters in      *)
(* reading order, and a place in it.  A write puts a character at the      *)
(* place and goes on to the next one; past the end the page moves up by a  *)
(* row.  The cursor is a block in the page: it takes the place of whatever *)
(* it is moved onto, which is lost.  All of it as long as fonts are of one *)
(* height: "same".                                                         *)
(***************************************************************************)
EXTENDS Integers

CONSTANTS ROWS, COLS, Chars, Blank, Block

VARIABLES text, at, same

Size  == ROWS * COLS
Cells == 0..Size - 1
RowOf(p) == p \div COLS

\* The page is left as t, and the place becomes p, at most one row past the end.
Arrive(t, p) ==
    LET up == [i \in Cells |-> IF i + COLS < Size THEN t[i + COLS] ELSE Blank]
    IN  IF p < Size THEN at' = p /\ text' = [t EXCEPT ![p] = Block]
        ELSE at' = p - COLS /\ text' = [up EXCEPT ![p - COLS] = Block]

Erased == [text EXCEPT ![at] = Blank]
Before == IF at = 0 THEN 0 ELSE at - 1

Write(c)  == Arrive([text EXCEPT ![at] = c], at + 1)
NewLine   == Arrive(Erased, (RowOf(at) + 1) * COLS)
Backspace == Arrive(Erased, Before)
\* Back, a blank, and back again.
RubOut    == Arrive([text EXCEPT ![Before + 1] = Blank], Before)
Clear     == at' = 0 /\ text' = [p \in Cells |-> Blank]
MoveTo(p) == Arrive(Erased, p)
\* Within the row of the cursor.  A cursor left of p stays behind as a block.
ClearFrom(p) ==
    /\ RowOf(p) = RowOf(at)
    /\ Arrive([q \in Cells |-> IF RowOf(q) = RowOf(p) /\ q >= p THEN Blank ELSE text[q]], p)

Init == at = 0 /\ same = TRUE

Next ==
    \/ /\ same = TRUE /\ same' = TRUE
       /\ \/ \E c \in Chars : Write(c)
          \/ NewLine \/ Backspace \/ RubOut \/ Clear
          \/ \E p \in Cells : MoveTo(p) \/ ClearFrom(p)
    \/ same' = FALSE

Spec == Init /\ [][Next]_<<text, at, same>>
=============================================================================
