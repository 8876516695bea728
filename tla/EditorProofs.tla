---------------------------- MODULE EditorProofs -----------------------------
(***************************************************************************)
(* For every text, key, size of the buffer and height of the screen: the   *)
(* cursor stays in the text and the text in the buffer (TypeOK), the line  *)
(* of the cursor is on the screen (CursorVisible), the rows down to it     *)
(* show the text (FreshToCursor), text that is not marked as modified is   *)
(* what was saved (UnmodifiedIsSaved), and keys do to the text what        *)
(* TextBuffer promises (ImplementsTextBuffer).  Lines and columns are      *)
(* numbers of bytes: those before a place, and those without a newline     *)
(* behind one, are the beginning of an interval (BeginOfInterval).         *)
(***************************************************************************)
EXTENDS Editor, FiniteSetTheorems, SequenceTheorems, TLAPS

Bytes == Chars \cup {NL}

IInv == TypeOK /\ CursorVisible /\ UnmodifiedIsSaved /\ file \in Seq(Bytes)

\* How many members of a part of an interval there are.
LEMMA PartOfInterval ==
    ASSUME NEW a \in Nat, NEW b \in Nat, a <= b, NEW S \in SUBSET (a + 1..b)
    PROVE  Cardinality(S) \in Nat /\ Cardinality(S) <= b - a
<1>1. IsFiniteSet(a + 1..b) /\ Cardinality(a + 1..b) = b - a
  <2>1. a + 1 \in Int /\ b \in Int OBVIOUS
  <2>2. /\ IsFiniteSet(a + 1..b)
        /\ Cardinality(a + 1..b) = IF a + 1 > b THEN 0 ELSE b - (a + 1) + 1
    BY <2>1, FS_Interval
  <2>3. QED BY <2>2
<1>2. IsFiniteSet(S) /\ Cardinality(S) <= Cardinality(a + 1..b) BY <1>1, FS_Subset
<1>3. QED BY <1>1, <1>2, FS_CardinalityType

\* The same of an interval that begins with 1.
LEMMA PartOfFirst ==
    ASSUME NEW b \in Nat, NEW S \in SUBSET (1..b)
    PROVE  Cardinality(S) \in 0..b
<1>1. S \in SUBSET (0 + 1..b) /\ 0 \in Nat /\ 0 <= b OBVIOUS
<1>2. Cardinality(S) \in Nat /\ Cardinality(S) <= b - 0 BY <1>1, PartOfInterval
<1>3. QED BY <1>2

LEMMA LineOfType ==
    ASSUME NEW buf \in Seq(Bytes), NEW pos \in Nat PROVE LineOf(buf, pos) \in Nat
<1>1. Least(pos, Len(buf)) \in Nat BY DEF Least
<1>2. {i \in 1..Least(pos, Len(buf)) : buf[i] = NL} \in SUBSET (1..Least(pos, Len(buf)))
  OBVIOUS
<1>3. QED BY <1>1, <1>2, PartOfFirst DEF LineOf

LEMMA LineStartBound ==
    ASSUME NEW buf \in Seq(Bytes), NEW n \in Int PROVE LineStart(buf, n) \in 0..Len(buf)
<1>1. {i \in 1..Len(buf) : LineOf(buf, i - 1) < n} \in SUBSET (1..Len(buf)) OBVIOUS
<1>2. Len(buf) \in Nat OBVIOUS
<1>3. QED BY <1>1, <1>2, PartOfFirst DEF LineStart

LEMMA LineEndBound ==
    ASSUME NEW buf \in Seq(Bytes), NEW start \in 0..Len(buf)
    PROVE  LineEnd(buf, start) \in start..Len(buf)
<1> DEFINE S == {i \in start + 1..Len(buf) : \A j \in start + 1..i : buf[j] # NL}
<1>1. S \in SUBSET (start + 1..Len(buf)) OBVIOUS
<1>2. Len(buf) \in Nat OBVIOUS
<1>3. Cardinality(S) \in Nat /\ Cardinality(S) <= Len(buf) - start
  BY <1>1, <1>2, PartOfInterval
<1>4. QED BY <1>2, <1>3 DEF LineEnd

\* The bytes before a place in a line are at least those of the lines before it.
LEMMA LineStartBefore ==
    ASSUME NEW buf \in Seq(Bytes), NEW pos \in 0..Len(buf)
    PROVE  LineStart(buf, LineOf(buf, pos)) <= pos
<1> DEFINE S == {i \in 1..Len(buf) : LineOf(buf, i - 1) < LineOf(buf, pos)}
<1>1. ASSUME NEW i \in S PROVE i <= pos
  <2>1. SUFFICES ASSUME i > pos PROVE FALSE OBVIOUS
  <2>2. pos \in Nat /\ i \in Nat /\ i - 1 \in Nat /\ i - 1 >= pos
        /\ Least(pos, Len(buf)) = pos /\ Least(i - 1, Len(buf)) = i - 1
    BY <2>1 DEF Least
  <2>3. {j \in 1..pos : buf[j] = NL} \subseteq {j \in 1..i - 1 : buf[j] = NL} BY <2>2
  <2>4. IsFiniteSet({j \in 1..i - 1 : buf[j] = NL})
    <3>1. IsFiniteSet(1..i - 1) BY <2>2, FS_Interval
    <3>2. QED BY <3>1, FS_Subset
  <2>5. Cardinality({j \in 1..pos : buf[j] = NL}) <= Cardinality({j \in 1..i - 1 : buf[j] = NL})
    BY <2>3, <2>4, FS_Subset
  <2>6. LineOf(buf, pos) <= LineOf(buf, i - 1) BY <2>2, <2>5 DEF LineOf
  <2>7. LineOf(buf, pos) \in Nat /\ LineOf(buf, i - 1) \in Nat BY <2>2, LineOfType
  <2>8. QED BY <2>6, <2>7
<1>2. S \in SUBSET (1..pos) BY <1>1
<1>3. Cardinality(S) \in 0..pos BY <1>2, PartOfFirst
<1>4. QED BY <1>3 DEF LineStart

LEMMA SameColumnBound ==
    ASSUME NEW buf \in Seq(Bytes), NEW n \in Int, NEW pos \in 0..Len(buf)
    PROVE  SameColumn(buf, n, pos) \in 0..Len(buf)
<1> DEFINE start == LineStart(buf, n)
           col   == ColumnOf(buf, pos)
<1>1. start \in 0..Len(buf) BY LineStartBound
<1>2. LineEnd(buf, start) \in start..Len(buf) BY <1>1, LineEndBound
<1>3. col \in Nat
  <2>1. LineOf(buf, pos) \in Int BY LineOfType
  <2>2. LineStart(buf, LineOf(buf, pos)) \in 0..Len(buf) BY <2>1, LineStartBound
  <2>3. QED BY <2>2, LineStartBefore DEF ColumnOf
<1>4. Least(col, LineEnd(buf, start) - start) \in 0..Len(buf) - start
  BY <1>1, <1>2, <1>3 DEF Least
<1> HIDE DEF start, col
<1>5. start + Least(col, LineEnd(buf, start) - start) \in 0..Len(buf) BY <1>1, <1>4
<1>6. QED BY <1>5 DEF SameColumn, start, col

\* A beginning of a text is a text, no longer than what was asked for.
LEMMA PrefixType ==
    ASSUME NEW s \in Seq(Bytes), NEW n \in Nat
    PROVE  Prefix(s, n) \in Seq(Bytes) /\ Len(Prefix(s, n)) <= n
<1>1. Least(Len(s), n) \in 0..Len(s) /\ Least(Len(s), n) <= n BY DEF Least
<1>2. QED BY <1>1 DEF Prefix

\* All of a text is a beginning of it.
LEMMA PrefixAll ==
    ASSUME NEW s \in Seq(Bytes), NEW n \in Nat, Len(s) <= n PROVE Prefix(s, n) = s
<1>1. Least(Len(s), n) = Len(s) BY DEF Least
<1>2. QED BY <1>1 DEF Prefix

-----------------------------------------------------------------------------
(* Where lines begin and end, and what is drawn of them.                     *)

\* A part of an interval that has no gap before any of its members is its beginning.
LEMMA BeginOfInterval ==
    ASSUME NEW a \in Nat, NEW b \in Nat, a <= b, NEW S \in SUBSET (a + 1..b),
           \A i \in S : \A j \in a + 1..i : j \in S
    PROVE  S = a + 1..a + Cardinality(S)
<1> DEFINE c == Cardinality(S)
<1>1. c \in Nat /\ c <= b - a BY PartOfInterval
<1>2. IsFiniteSet(S)
  <2>1. IsFiniteSet(a + 1..b) BY FS_Interval
  <2>2. QED BY <2>1, FS_Subset
<1>3. ASSUME NEW i \in S PROVE i <= a + c
  <2>1. i \in Nat /\ i >= a + 1 OBVIOUS
  <2>2. a + 1..i \subseteq S OBVIOUS
  <2>3. Cardinality(a + 1..i) = i - a
    <3>1. a + 1 \in Int /\ i \in Int BY <2>1
    <3>2. Cardinality(a + 1..i) = IF a + 1 > i THEN 0 ELSE i - (a + 1) + 1 BY <3>1, FS_Interval
    <3>3. QED BY <2>1, <3>2
  <2>4. Cardinality(a + 1..i) <= c BY <1>2, <2>2, FS_Subset
  <2>5. QED BY <1>1, <2>1, <2>3, <2>4
<1>4. ASSUME NEW i \in a + 1..a + c, i \notin S PROVE FALSE
  <2>1. i \in Nat /\ i - 1 \in Nat /\ a <= i - 1 /\ i <= a + c BY <1>1
  <2>2. \A k \in S : k < i
    <3>1. \A k \in S : k \in Nat /\ (i <= k => i \in a + 1..k) BY <2>1
    <3>2. QED BY <1>4, <2>1, <3>1
  <2>3. S \in SUBSET (a + 1..i - 1) BY <2>1, <2>2
  <2>4. c <= (i - 1) - a BY <2>1, <2>3, PartOfInterval
  <2>5. QED BY <1>1, <2>1, <2>4
<1> HIDE DEF c
<1>5. S \subseteq a + 1..a + c BY <1>1, <1>3
<1>6. QED BY <1>4, <1>5 DEF c

\* Of a place in the text, the line is the number of newlines before it.
LEMMA LineOfHere ==
    ASSUME NEW buf \in Seq(Bytes), NEW p \in 0..Len(buf)
    PROVE  LineOf(buf, p) = Cardinality({i \in 1..p : buf[i] = NL}) /\ LineOf(buf, p) \in Nat
<1>1. Least(p, Len(buf)) = p /\ p \in Nat BY DEF Least
<1>2. QED BY <1>1, LineOfType DEF LineOf

\* A newline before a place is before every later one, and behind the earlier if its line is.
LEMMA LineOfGrows ==
    ASSUME NEW buf \in Seq(Bytes), NEW p \in 0..Len(buf), NEW q \in p..Len(buf)
    PROVE  /\ LineOf(buf, p) <= LineOf(buf, q)
           /\ LineOf(buf, p) = LineOf(buf, q) <=> \A i \in p + 1..q : buf[i] # NL
<1> DEFINE P == {i \in 1..p : buf[i] = NL}
           Q == {i \in 1..q : buf[i] = NL}
<1>1. LineOf(buf, p) = Cardinality(P) /\ LineOf(buf, q) = Cardinality(Q)
  <2>1. q \in 0..Len(buf) OBVIOUS
  <2>2. QED BY <2>1, LineOfHere
<1>2. P \subseteq Q OBVIOUS
<1>3. IsFiniteSet(Q)
  <2>1. IsFiniteSet(1..q) BY FS_Interval
  <2>2. QED BY <2>1, FS_Subset
<1>4. Cardinality(P) <= Cardinality(Q) /\ (Cardinality(P) = Cardinality(Q) <=> P = Q)
  BY <1>2, <1>3, FS_Subset
<1>5. P = Q <=> \A i \in p + 1..q : buf[i] # NL
  <2>1. \A i \in p + 1..q : i \in 1..q /\ i \notin 1..p OBVIOUS
  <2>2. \A i \in 1..q : i \in 1..p \/ i \in p + 1..q OBVIOUS
  <2>3. QED BY <2>1, <2>2
<1>6. QED BY <1>1, <1>4, <1>5

\* Behind one more byte, the line is the next one or the same.
LEMMA LineOfNext ==
    ASSUME NEW buf \in Seq(Bytes), NEW p \in 0..Len(buf) - 1
    PROVE  LineOf(buf, p + 1) = LineOf(buf, p) + IF buf[p + 1] = NL THEN 1 ELSE 0
<1> DEFINE P == {i \in 1..p : buf[i] = NL}
           Q == {i \in 1..p + 1 : buf[i] = NL}
<1>1. LineOf(buf, p) = Cardinality(P) /\ LineOf(buf, p + 1) = Cardinality(Q)
  <2>1. p \in 0..Len(buf) /\ p + 1 \in 0..Len(buf) OBVIOUS
  <2>2. QED BY <2>1, LineOfHere
<1>2. IsFiniteSet(P)
  <2>1. IsFiniteSet(1..p) BY FS_Interval
  <2>2. QED BY <2>1, FS_Subset
<1>3. CASE buf[p + 1] = NL
  <2>1. Q = P \cup {p + 1} /\ p + 1 \notin P BY <1>3
  <2>2. Cardinality(Q) = Cardinality(P) + 1 BY <1>2, <2>1, FS_AddElement
  <2>3. QED BY <1>1, <1>3, <2>2
<1>4. CASE buf[p + 1] # NL
  <2>1. Q = P BY <1>4
  <2>2. Cardinality(P) \in Nat BY <1>2, FS_CardinalityType
  <2>3. LineOf(buf, p + 1) = LineOf(buf, p) /\ LineOf(buf, p) \in Nat BY <1>1, <2>1, <2>2
  <2>4. QED BY <1>4, <2>3
<1>5. QED BY <1>3, <1>4

\* A line begins where the places of the lines before it end.
LEMMA LineStartDivides ==
    ASSUME NEW buf \in Seq(Bytes), NEW n \in Int, NEW p \in 0..Len(buf) - 1
    PROVE  p < LineStart(buf, n) <=> LineOf(buf, p) < n
<1> DEFINE S == {i \in 1..Len(buf) : LineOf(buf, i - 1) < n}
<1>1. S \in SUBSET (0 + 1..Len(buf)) /\ Len(buf) \in Nat OBVIOUS
<1>2. ASSUME NEW i \in S, NEW j \in 1..i PROVE j \in S
  <2>1. j - 1 \in 0..Len(buf) /\ i - 1 \in 0..Len(buf) /\ i - 1 \in j - 1..Len(buf) OBVIOUS
  <2>2. LineOf(buf, j - 1) <= LineOf(buf, i - 1) BY <2>1, LineOfGrows
  <2>3. LineOf(buf, j - 1) \in Nat /\ LineOf(buf, i - 1) \in Nat BY <2>1, LineOfHere
  <2>4. QED BY <2>2, <2>3
<1>3. p + 1 \in S <=> LineOf(buf, p) < n
  <2>1. p + 1 \in 1..Len(buf) /\ (p + 1) - 1 = p OBVIOUS
  <2>2. QED BY <2>1
<1>4. LineStart(buf, n) = Cardinality(S) BY DEF LineStart
<1> HIDE DEF S
<1>5. \A i \in S : \A j \in 0 + 1..i : j \in S BY <1>2
<1>6. S = 0 + 1..0 + Cardinality(S)
  <2>1. 0 \in Nat /\ 0 <= Len(buf) BY <1>1
  <2>2. QED BY <1>1, <1>5, <2>1, BeginOfInterval
<1>7. Cardinality(S) \in Nat BY <1>1, PartOfFirst
<1>8. QED BY <1>3, <1>4, <1>6, <1>7

\* From the begin of a line to its end there is no newline, and behind its end there is one.
LEMMA LineEndIsNewline ==
    ASSUME NEW buf \in Seq(Bytes), NEW start \in 0..Len(buf)
    PROVE  /\ \A i \in start + 1..LineEnd(buf, start) : buf[i] # NL
           /\ LineEnd(buf, start) < Len(buf) => buf[LineEnd(buf, start) + 1] = NL
<1> DEFINE S == {i \in start + 1..Len(buf) : \A j \in start + 1..i : buf[j] # NL}
           e == LineEnd(buf, start)
<1>1. S \in SUBSET (start + 1..Len(buf)) /\ Len(buf) \in Nat OBVIOUS
<1>2. \A i \in S : \A j \in start + 1..i : j \in S OBVIOUS
<1>3. e = start + Cardinality(S) BY DEF LineEnd
<1>4. S = start + 1..start + Cardinality(S)
  <2> HIDE DEF S
  <2>1. start \in Nat /\ start <= Len(buf) OBVIOUS
  <2>2. QED BY <1>1, <1>2, <2>1, BeginOfInterval
<1>5. e \in start..Len(buf) BY LineEndBound
<1>6. S = start + 1..e BY <1>3, <1>4
<1> HIDE DEF e
<1>7. \A i \in start + 1..e : buf[i] # NL BY <1>5, <1>6
<1>8. ASSUME e < Len(buf), buf[e + 1] # NL PROVE FALSE
  <2>1. e + 1 \in start + 1..Len(buf) BY <1>5, <1>8
  <2>2. \A j \in start + 1..e + 1 : buf[j] # NL BY <1>5, <1>7, <1>8
  <2>3. e + 1 \in S BY <2>1, <2>2
  <2>4. QED BY <1>5, <1>6, <2>3
<1>9. QED BY <1>7, <1>8 DEF e

\* A line that there is begins in it.
LEMMA LineBegins ==
    ASSUME NEW buf \in Seq(Bytes), NEW n \in Nat, n <= LineOf(buf, Len(buf))
    PROVE  LineOf(buf, LineStart(buf, n)) = n
<1> DEFINE s == LineStart(buf, n)
<1>1. s \in 0..Len(buf) /\ Len(buf) \in Nat BY LineStartBound
<1>2. LineOf(buf, s) \in Nat /\ LineOf(buf, Len(buf)) \in Nat
  <2>1. Len(buf) \in 0..Len(buf) BY <1>1
  <2>2. QED BY <1>1, <2>1, LineOfHere
<1>3. LineOf(buf, s) >= n
  <2>1. CASE s < Len(buf)
    <3>1. s \in 0..Len(buf) - 1 BY <1>1, <2>1
    <3>2. s < LineStart(buf, n) <=> LineOf(buf, s) < n BY <3>1, LineStartDivides
    <3>3. QED BY <1>1, <1>2, <3>2
  <2>2. CASE s = Len(buf) BY <1>2, <2>2
  <2>3. QED BY <1>1, <2>1, <2>2
<1>4. CASE s = 0
  <2>1. 0 \in 0..Len(buf) /\ {i \in 1..0 : buf[i] = NL} = {} BY <1>1
  <2>2. LineOf(buf, 0) = 0 BY <2>1, LineOfHere, FS_EmptySet
  <2>3. QED BY <1>3, <1>4, <2>2
<1>5. CASE s > 0
  <2>1. s - 1 \in 0..Len(buf) - 1 /\ s - 1 \in 0..Len(buf) /\ (s - 1) + 1 = s BY <1>1, <1>5
  <2>2. s - 1 < s BY <1>1
  <2>3. LineOf(buf, s - 1) < n BY <2>1, <2>2, LineStartDivides
  <2>4. LineOf(buf, s - 1) \in Nat BY <2>1, LineOfHere
  <2>5. LineOf(buf, s) <= LineOf(buf, s - 1) + 1
    <3>1. LineOf(buf, (s - 1) + 1) = LineOf(buf, s - 1) + IF buf[(s - 1) + 1] = NL THEN 1 ELSE 0
      BY <2>1, LineOfNext
    <3>2. QED BY <2>1, <2>4, <3>1
  <2>6. QED BY <1>2, <1>3, <2>3, <2>4, <2>5
<1>6. QED BY <1>1, <1>4, <1>5

\* The places of a line are those from its begin to its end.
LEMMA LinePlaces ==
    ASSUME NEW buf \in Seq(Bytes), NEW n \in Nat, n <= LineOf(buf, Len(buf)),
           NEW p \in 0..Len(buf)
    PROVE  LineOf(buf, p) = n <=> p \in LineStart(buf, n)..LineEnd(buf, LineStart(buf, n))
<1> DEFINE s == LineStart(buf, n)
           e == LineEnd(buf, s)
<1>1. s \in 0..Len(buf) /\ LineOf(buf, s) = n BY LineStartBound, LineBegins
<1>2. e \in s..Len(buf) BY <1>1, LineEndBound
<1>3. /\ \A i \in s + 1..e : buf[i] # NL
      /\ e < Len(buf) => buf[e + 1] = NL
  BY <1>1, LineEndIsNewline
<1> HIDE DEF e
<1>4. ASSUME LineOf(buf, p) = n PROVE p \in s..e
  <2>1. s <= p BY <1>4, LineStartBefore
  <2>2. p \in s..Len(buf) BY <1>1, <2>1
  <2>3. \A i \in s + 1..p : buf[i] # NL BY <1>1, <1>4, <2>2, LineOfGrows
  <2>4. ASSUME p > e PROVE FALSE
    <3>1. e + 1 \in s + 1..p /\ e < Len(buf) BY <1>1, <1>2, <2>2, <2>4
    <3>2. QED BY <1>3, <2>3, <3>1
  <2>5. QED BY <1>1, <1>2, <2>1, <2>4
<1>5. ASSUME p \in s..e PROVE LineOf(buf, p) = n
  <2>1. p \in s..Len(buf) /\ \A i \in s + 1..p : buf[i] # NL BY <1>1, <1>2, <1>3, <1>5
  <2>2. LineOf(buf, s) = LineOf(buf, p) BY <1>1, <2>1, LineOfGrows
  <2>3. QED BY <1>1, <2>2
<1>6. QED BY <1>4, <1>5 DEF e

\* The column is the number of bytes since the last newline.
LEMMA ColumnCounts ==
    ASSUME NEW buf \in Seq(Bytes), NEW p \in 0..Len(buf)
    PROVE  Cardinality({i \in 1..p : \A j \in i..p : buf[j] # NL}) = ColumnOf(buf, p)
<1> DEFINE s == LineStart(buf, LineOf(buf, p))
           S == {i \in 1..p : \A j \in i..p : buf[j] # NL}
<1>1. LineOf(buf, p) \in Nat BY LineOfHere
<1>2. s \in 0..Len(buf) /\ s <= p BY <1>1, LineStartBound, LineStartBefore
<1>3. ASSUME NEW i \in 1..p PROVE i \in S <=> i > s
  <2>1. i - 1 \in 0..Len(buf) /\ i - 1 \in 0..Len(buf) - 1 /\ p \in i - 1..Len(buf)
        /\ (i - 1) + 1 = i
    OBVIOUS
  <2>2. /\ LineOf(buf, i - 1) <= LineOf(buf, p)
        /\ LineOf(buf, i - 1) = LineOf(buf, p) <=> \A j \in i..p : buf[j] # NL
    BY <2>1, LineOfGrows
  <2>3. LineOf(buf, i - 1) \in Nat BY <2>1, LineOfHere
  <2>4. i - 1 < s <=> LineOf(buf, i - 1) < LineOf(buf, p) BY <1>1, <2>1, LineStartDivides
  <2>5. i \in S <=> ~(i - 1 < s) BY <1>1, <2>2, <2>3, <2>4
  <2> HIDE DEF S
  <2>6. QED BY <1>2, <2>5
<1>4. S = s + 1..p
  <2>1. \A i \in S : i \in 1..p OBVIOUS
  <2> HIDE DEF S, s
  <2>2. \A i \in s + 1..p : i \in 1..p /\ i > s BY <1>2
  <2>3. \A i \in 1..p : i > s => i \in s + 1..p BY <1>2
  <2>4. \A i \in S : i \in s + 1..p BY <1>3, <2>1, <2>3
  <2>5. \A i \in s + 1..p : i \in S BY <1>3, <2>2
  <2>6. QED BY <2>4, <2>5
<1> HIDE DEF S, s
<1>5. Cardinality(s + 1..p) = p - s
  <2>1. s + 1 \in Int /\ p \in Int /\ p >= s /\ s \in Int BY <1>2
  <2>2. Cardinality(s + 1..p) = IF s + 1 > p THEN 0 ELSE p - (s + 1) + 1 BY <2>1, FS_Interval
  <2>3. QED BY <2>1, <2>2
<1>6. QED BY <1>4, <1>5 DEF ColumnOf, S, s

\* SameColumn finds the place in a line that is nearest to a column without being beyond it.
LEMMA SameColumnIsNearest ==
    ASSUME NEW buf \in Seq(Bytes), NEW n \in Nat, n <= LineOf(buf, Len(buf)),
           NEW pos \in 0..Len(buf)
    PROVE  LET p == SameColumn(buf, n, pos)
           IN  /\ p \in 0..Len(buf) /\ LineOf(buf, p) = n
               /\ ColumnOf(buf, p) <= ColumnOf(buf, pos)
               /\ \A q \in 0..Len(buf) :
                    (LineOf(buf, q) = n /\ ColumnOf(buf, q) <= ColumnOf(buf, pos))
                        => ColumnOf(buf, q) <= ColumnOf(buf, p)
<1> DEFINE s == LineStart(buf, n)
           e == LineEnd(buf, s)
           c == ColumnOf(buf, pos)
           p == SameColumn(buf, n, pos)
<1>1. s \in 0..Len(buf) BY LineStartBound
<1>2. e \in s..Len(buf) BY <1>1, LineEndBound
<1>3. c \in Nat
  <2>1. LineOf(buf, pos) \in Nat BY LineOfHere
  <2>2. LineStart(buf, LineOf(buf, pos)) \in 0..Len(buf) BY <2>1, LineStartBound
  <2>3. QED BY <2>2, LineStartBefore DEF ColumnOf
<1>4. p = s + Least(c, e - s) BY DEF SameColumn
<1>5. \A q \in 0..Len(buf) : LineOf(buf, q) = n <=> q \in s..e BY LinePlaces
<1>6. \A q \in 0..Len(buf) : LineOf(buf, q) = n => ColumnOf(buf, q) = q - s BY DEF ColumnOf
<1> HIDE DEF s, e, c, p
<1>7. p \in s..e /\ p - s <= c /\ (p - s = c \/ p = e)
  <2>1. CASE c < e - s BY <1>1, <1>2, <1>3, <1>4, <2>1 DEF Least
  <2>2. CASE ~(c < e - s)
    <3>1. p = s + (e - s) BY <1>4, <2>2 DEF Least
    <3>2. QED BY <1>1, <1>2, <1>3, <2>2, <3>1
  <2>3. QED BY <2>1, <2>2
<1>8. p \in 0..Len(buf) BY <1>1, <1>2, <1>7
<1>9. LineOf(buf, p) = n /\ ColumnOf(buf, p) = p - s BY <1>5, <1>6, <1>7, <1>8
<1>10. ASSUME NEW q \in 0..Len(buf), LineOf(buf, q) = n, ColumnOf(buf, q) <= c
       PROVE  ColumnOf(buf, q) <= p - s
  <2>1. ColumnOf(buf, q) = q - s /\ q \in s..e BY <1>5, <1>6, <1>10
  <2>2. QED BY <1>1, <1>2, <1>3, <1>7, <1>10, <2>1
<1>11. QED BY <1>7, <1>8, <1>9, <1>10 DEF p, c

\* No line begins at the end of the text or behind it but the last one.
LEMMA LastLine ==
    ASSUME NEW buf \in Seq(Bytes), NEW n \in Nat, LineStart(buf, n) >= Len(buf)
    PROVE  LineOf(buf, Len(buf)) <= n
<1>1. Len(buf) \in Nat /\ LineStart(buf, n) = Len(buf) /\ LineOf(buf, Len(buf)) \in Nat
  <2>1. Len(buf) \in Nat /\ Len(buf) \in 0..Len(buf) OBVIOUS
  <2>2. LineStart(buf, n) \in 0..Len(buf) BY LineStartBound
  <2>3. LineOf(buf, Len(buf)) \in Nat BY <2>1, LineOfHere
  <2>4. QED BY <2>1, <2>2, <2>3
<1>2. CASE Len(buf) = 0
  <2>1. 0 \in 0..Len(buf) /\ {i \in 1..0 : buf[i] = NL} = {} BY <1>1
  <2>2. LineOf(buf, 0) = 0 BY <2>1, LineOfHere, FS_EmptySet
  <2>3. QED BY <1>2, <2>2
<1>3. CASE Len(buf) > 0
  <2> DEFINE l == Len(buf) - 1
  <2>1. l \in 0..Len(buf) - 1 /\ l \in 0..Len(buf) /\ l + 1 = Len(buf) /\ l < Len(buf)
    BY <1>1, <1>3
  <2>2. LineOf(buf, l) < n BY <1>1, <2>1, LineStartDivides
  <2>3. LineOf(buf, l + 1) = LineOf(buf, l) + IF buf[l + 1] = NL THEN 1 ELSE 0
    BY <2>1, LineOfNext
  <2>4. LineOf(buf, l) \in Nat BY <2>1, LineOfHere
  <2> HIDE DEF l
  <2>5. QED BY <2>1, <2>2, <2>3, <2>4
<1>4. QED BY <1>1, <1>2, <1>3

\* A line that begins before the end of the text is one of its lines.
LEMMA LineThatBegins ==
    ASSUME NEW buf \in Seq(Bytes), NEW n \in Nat, LineStart(buf, n) < Len(buf)
    PROVE  n <= LineOf(buf, Len(buf))
<1> DEFINE s == LineStart(buf, n)
<1>1. s \in 0..Len(buf) BY LineStartBound
<1>2. s \in 0..Len(buf) - 1 /\ Len(buf) \in s..Len(buf) /\ Len(buf) \in 0..Len(buf)
  BY <1>1
<1>3. ~(LineOf(buf, s) < n) BY <1>1, <1>2, LineStartDivides
<1>4. LineOf(buf, s) <= LineOf(buf, Len(buf)) BY <1>1, <1>2, LineOfGrows
<1>5. LineOf(buf, s) \in Nat /\ LineOf(buf, Len(buf)) \in Nat BY <1>1, <1>2, LineOfHere
<1>6. QED BY <1>3, <1>4, <1>5

\* A line above a place is drawn the same whatever becomes of the text behind the place.
LEMMA DrawnAbove ==
    ASSUME NEW buf \in Seq(Bytes), NEW new \in Seq(Bytes),
           NEW p \in 0..Len(buf), p <= Len(new), \A i \in 1..p : buf[i] = new[i],
           NEW n \in Nat, n < LineOf(buf, p),
           NEW pos \in Nat, pos >= p, NEW pos2 \in Nat, pos2 >= p
    PROVE  Drawn(buf, pos, n) = Drawn(new, pos2, n)
<1> DEFINE s  == LineStart(buf, n)
           s2 == LineStart(new, n)
           e  == LineEnd(buf, s)
           e2 == LineEnd(new, s)
<1>1. Len(buf) \in Nat /\ Len(new) \in Nat /\ p \in Nat OBVIOUS
<1>2. ASSUME NEW q \in 0..p PROVE LineOf(buf, q) = LineOf(new, q)
  <2>1. {i \in 1..q : buf[i] = NL} = {i \in 1..q : new[i] = NL} OBVIOUS
  <2>2. q \in 0..Len(buf) /\ q \in 0..Len(new) BY <1>1
  <2>3. QED BY <2>1, <2>2, LineOfHere
<1>3. n < LineOf(new, p) /\ LineOf(buf, p) \in Nat /\ LineOf(new, p) \in Nat
  <2>1. p \in 0..p BY <1>1
  <2>2. QED BY <1>2, <2>1, LineOfHere
<1>4. n <= LineOf(buf, Len(buf)) /\ n <= LineOf(new, Len(new))
  <2>1. /\ p \in 0..Len(new)
        /\ Len(buf) \in p..Len(buf) /\ Len(new) \in p..Len(new)
        /\ Len(buf) \in 0..Len(buf) /\ Len(new) \in 0..Len(new)
    BY <1>1
  <2>2. LineOf(buf, p) <= LineOf(buf, Len(buf)) /\ LineOf(new, p) <= LineOf(new, Len(new))
    BY <2>1, LineOfGrows
  <2>3. LineOf(buf, Len(buf)) \in Nat /\ LineOf(new, Len(new)) \in Nat BY <2>1, LineOfHere
  <2>4. QED BY <1>3, <2>2, <2>3
<1>5. s \in 0..p
  <2>1. s \in 0..Len(buf) BY LineStartBound
  <2>2. CASE p < Len(buf)
    <3>1. p \in 0..Len(buf) - 1 BY <1>1, <2>2
    <3>2. ~(p < s) BY <1>3, <3>1, LineStartDivides
    <3>3. QED BY <1>1, <2>1, <3>2
  <2>3. QED BY <1>1, <2>1, <2>2
<1>6. s2 \in 0..p
  <2>1. s2 \in 0..Len(new) BY LineStartBound
  <2>2. CASE p < Len(new)
    <3>1. p \in 0..Len(new) - 1 BY <1>1, <2>2
    <3>2. ~(p < s2) BY <1>3, <3>1, LineStartDivides
    <3>3. QED BY <1>1, <2>1, <3>2
  <2>3. QED BY <1>1, <2>1, <2>2
<1>7. s = s2
  <2>1. ASSUME NEW q \in 0..p - 1 PROVE q < s <=> q < s2
    <3>1. q \in 0..p /\ q \in 0..Len(buf) - 1 /\ q \in 0..Len(new) - 1 BY <1>1
    <3>2. QED BY <1>2, <3>1, LineStartDivides
  <2> HIDE DEF s, s2
  <2>2. ASSUME s < s2 PROVE FALSE
    <3>1. s \in 0..p - 1 BY <1>5, <1>6, <2>2
    <3>2. QED BY <1>5, <2>1, <2>2, <3>1
  <2>3. ASSUME s2 < s PROVE FALSE
    <3>1. s2 \in 0..p - 1 BY <1>5, <1>6, <2>3
    <3>2. QED BY <1>6, <2>1, <2>3, <3>1
  <2>4. QED BY <1>5, <1>6, <2>2, <2>3
<1>8. s \in 0..Len(buf) /\ s \in 0..Len(new) BY <1>1, <1>5
<1>9. e \in s..Len(buf) /\ e2 \in s..Len(new) BY <1>8, LineEndBound
<1>10. e < p
  <2>1. LineOf(buf, p) = n <=> p \in s..e BY <1>4, LinePlaces
  <2>2. p \notin s..e BY <1>3, <2>1
  <2> HIDE DEF s, e
  <2>3. QED BY <1>5, <1>9, <2>2
<1>11. e2 < p
  <2>1. p \in 0..Len(new) BY <1>1
  <2>2. LineOf(new, p) = n <=> p \in s2..LineEnd(new, s2) BY <1>4, <2>1, LinePlaces
  <2>3. p \notin s..e2 BY <1>3, <1>7, <2>2
  <2> HIDE DEF s, e2
  <2>4. QED BY <1>5, <1>9, <2>3
<1>12. /\ \A i \in s + 1..e : buf[i] # NL
       /\ \A i \in s + 1..e2 : new[i] # NL
       /\ buf[e + 1] = NL /\ new[e2 + 1] = NL
  <2>1. e < Len(buf) /\ e2 < Len(new) BY <1>1, <1>9, <1>10, <1>11
  <2>2. QED BY <1>8, <2>1, LineEndIsNewline
<1> HIDE DEF s, s2, e, e2
<1>13. e = e2
  <2>1. ASSUME e < e2 PROVE FALSE
    <3>1. e + 1 \in s + 1..e2 /\ e + 1 \in 1..p BY <1>5, <1>9, <1>10, <2>1
    <3>2. QED BY <1>12, <3>1
  <2>2. ASSUME e2 < e PROVE FALSE
    <3>1. e2 + 1 \in s + 1..e /\ e2 + 1 \in 1..p BY <1>5, <1>9, <1>11, <2>2
    <3>2. QED BY <1>12, <3>1
  <2>3. QED BY <1>5, <1>9, <2>1, <2>2
<1>14. SubSeq(buf, s + 1, e) = SubSeq(new, s + 1, e)
  <2>1. \A i \in s + 1..e : i \in 1..p /\ i \in 1..Len(buf) /\ i \in 1..Len(new)
    BY <1>1, <1>5, <1>9, <1>10
  <2>2. SubSeq(buf, s + 1, e) \in Seq(Bytes) /\ SubSeq(new, s + 1, e) \in Seq(Bytes)
    BY <1>1, <1>5, <1>9, <1>10
  <2>3. /\ Len(SubSeq(buf, s + 1, e)) = e - s /\ Len(SubSeq(new, s + 1, e)) = e - s
    BY <1>1, <1>5, <1>9, <1>10
  <2>4. ASSUME NEW i \in 1..e - s PROVE SubSeq(buf, s + 1, e)[i] = SubSeq(new, s + 1, e)[i]
    <3>1. s + i \in 1..p BY <1>5, <1>9, <1>10
    <3>2. SubSeq(buf, s + 1, e)[i] = buf[s + i] /\ SubSeq(new, s + 1, e)[i] = new[s + i]
      BY <1>1, <1>5, <1>9, <1>10
    <3>3. QED BY <3>1, <3>2
  <2>5. QED BY <2>2, <2>3, <2>4, SeqEqual
<1>15. pos \notin s..e /\ pos2 \notin s..e BY <1>1, <1>5, <1>9, <1>10
<1>16. Drawn(buf, pos, n) = [number |-> n + 1, text |-> SubSeq(buf, s + 1, e), cursor |-> -1]
  BY <1>15 DEF Drawn, s, e
<1>17. Drawn(new, pos2, n) = [number |-> n + 1, text |-> SubSeq(new, s + 1, e), cursor |-> -1]
  BY <1>7, <1>13, <1>15 DEF Drawn, s, s2, e2
<1>18. QED BY <1>14, <1>16, <1>17

-----------------------------------------------------------------------------
(* The bounds of the cursor and the text, and the mark of modified text.     *)

\* ensure_cursor_visible does what its name says.
LEMMA VisibleIsVisible ==
    ASSUME NEW line \in Nat, NEW scroll \in Nat
    PROVE  /\ Visible(line, scroll) \in Nat
           /\ Visible(line, scroll) <= line /\ line < Visible(line, scroll) + max_lines
BY EditorAssumption DEF Visible, max_lines

LEMMA InitEstablishes == Init => IInv
<1> SUFFICES ASSUME Init PROVE IInv OBVIOUS
<1>1. file \in Seq(Bytes) BY EditorAssumption DEF Init, Bytes
<1>2. MAX_BUFFER - 1 \in Nat BY EditorAssumption
<1>3. buffer \in Seq(Bytes) /\ Len(buffer) <= MAX_BUFFER - 1
  BY <1>1, <1>2, PrefixType DEF Init, Loaded
<1>4. cursor_pos = 0 /\ scroll_line = 0 /\ modified = FALSE /\ lost = FALSE BY DEF Init
<1>5. TypeOK
  <2>1. modified \in BOOLEAN /\ lost \in BOOLEAN BY <1>4
  <2>2. Len(buffer) < MAX_BUFFER /\ cursor_pos \in 0..Len(buffer) /\ scroll_line \in Nat
    BY <1>3, <1>4, EditorAssumption
  <2>3. QED BY <1>3, <2>1, <2>2 DEF TypeOK, Bytes
<1>6. CursorVisible
  <2>1. {i \in 1..Least(0, Len(buffer)) : buffer[i] = NL} = {} BY <1>3 DEF Least
  <2>2. LineOf(buffer, cursor_pos) = 0 BY <1>4, <2>1, FS_EmptySet DEF LineOf
  <2>3. QED BY <1>4, <2>2, EditorAssumption DEF CursorVisible, max_lines
<1>7. UnmodifiedIsSaved BY DEF Init, UnmodifiedIsSaved
<1>8. QED BY <1>1, <1>5, <1>6, <1>7 DEF IInv

\* What a key leaves of the text and the cursor, and the redrawing after it, keep the bounds.
LEMMA RedrawKeeps ==
    ASSUME IInv, Redraw, buffer' \in Seq(Bytes), Len(buffer') < MAX_BUFFER,
           cursor_pos' \in 0..Len(buffer'), modified' \in BOOLEAN,
           UnmodifiedIsSaved'
    PROVE  IInv'
<1>1. LineOf(buffer', cursor_pos') \in Nat BY LineOfType
<1>2. scroll_line \in Nat /\ lost \in BOOLEAN /\ file \in Seq(Bytes) BY DEF IInv, TypeOK
<1>3. /\ scroll_line' = Visible(LineOf(buffer', cursor_pos'), scroll_line)
      /\ file' = file /\ lost' = lost
  BY DEF Redraw
<1>4. scroll_line' \in Nat /\ CursorVisible'
  BY <1>1, <1>2, <1>3, VisibleIsVisible DEF CursorVisible, max_lines
<1>5. lost' \in BOOLEAN BY <1>2, <1>3
<1>6. TypeOK' BY <1>4, <1>5 DEF TypeOK, Bytes
<1>7. QED BY <1>2, <1>3, <1>4, <1>6 DEF IInv

LEMMA MovingKeeps ==
    ASSUME IInv, Moving, cursor_pos' \in 0..Len(buffer) PROVE IInv'
<1>1. buffer' = buffer /\ modified' = modified /\ Redraw BY DEF Moving
<1>2. buffer \in Seq(Bytes) /\ Len(buffer) < MAX_BUFFER /\ modified \in BOOLEAN
  BY DEF IInv, TypeOK, Bytes
<1>3. UnmodifiedIsSaved' BY <1>1 DEF IInv, UnmodifiedIsSaved, Redraw
<1>4. modified' \in BOOLEAN BY <1>1, <1>2
<1>5. QED BY <1>1, <1>2, <1>3, <1>4, RedrawKeeps

\* A key that changes the text marks it as modified.
LEMMA EditKeeps ==
    ASSUME IInv, Redraw, buffer' \in Seq(Bytes), Len(buffer') < MAX_BUFFER,
           cursor_pos' \in 0..Len(buffer'), modified' = TRUE
    PROVE  IInv'
<1>1. UnmodifiedIsSaved' /\ modified' \in BOOLEAN BY DEF UnmodifiedIsSaved
<1>2. QED BY <1>1, RedrawKeeps

LEMMA InsertKeeps == ASSUME IInv, NEW c \in Bytes, InsertAtCursor(c) PROVE IInv'
<1>1. /\ buffer \in Seq(Bytes) /\ Len(buffer) \in Nat /\ cursor_pos \in 0..Len(buffer)
      /\ Len(buffer) < MAX_BUFFER
  BY DEF IInv, TypeOK, Bytes
<1>2. CASE Len(buffer) + 1 >= MAX_BUFFER
  <2>1. cursor_pos' = cursor_pos /\ Moving BY <1>2 DEF InsertAtCursor, Moving
  <2>2. QED BY <1>1, <2>1, MovingKeeps
<1>3. CASE ~(Len(buffer) + 1 >= MAX_BUFFER)
  <2> DEFINE l == SubSeq(buffer, 1, cursor_pos)
             r == SubSeq(buffer, cursor_pos + 1, Len(buffer))
  <2>1. /\ buffer' = l \o <<c>> \o r /\ cursor_pos' = cursor_pos + 1
        /\ modified' = TRUE /\ Redraw
    BY <1>3 DEF InsertAtCursor
  <2>2. l \in Seq(Bytes) /\ Len(l) = cursor_pos BY <1>1
  <2>3. r \in Seq(Bytes) /\ Len(r) = Len(buffer) - cursor_pos BY <1>1
  <2> HIDE DEF l, r
  <2>4. buffer' \in Seq(Bytes) /\ Len(buffer') = Len(buffer) + 1
    BY <1>1, <2>1, <2>2, <2>3
  <2>5. Len(buffer') < MAX_BUFFER /\ cursor_pos' \in 0..Len(buffer')
    BY <1>1, <1>3, <2>1, <2>4, EditorAssumption
  <2>6. QED BY <2>1, <2>4, <2>5, EditKeeps
<1>4. QED BY <1>2, <1>3

LEMMA BackspaceKeeps == ASSUME IInv, BackspaceAtCursor PROVE IInv'
<1>1. /\ buffer \in Seq(Bytes) /\ Len(buffer) \in Nat /\ cursor_pos \in 0..Len(buffer)
      /\ Len(buffer) < MAX_BUFFER
  BY DEF IInv, TypeOK, Bytes
<1>2. CASE cursor_pos = 0
  <2>1. cursor_pos' = cursor_pos /\ Moving BY <1>2 DEF BackspaceAtCursor, Moving
  <2>2. QED BY <1>1, <2>1, MovingKeeps
<1>3. CASE cursor_pos # 0
  <2> DEFINE l == SubSeq(buffer, 1, cursor_pos - 1)
             r == SubSeq(buffer, cursor_pos + 1, Len(buffer))
  <2>1. /\ buffer' = l \o r /\ cursor_pos' = cursor_pos - 1
        /\ modified' = TRUE /\ Redraw
    BY <1>3 DEF BackspaceAtCursor
  <2>2. l \in Seq(Bytes) /\ Len(l) = cursor_pos - 1 BY <1>1, <1>3
  <2>3. r \in Seq(Bytes) /\ Len(r) = Len(buffer) - cursor_pos BY <1>1
  <2> HIDE DEF l, r
  <2>4. buffer' \in Seq(Bytes) /\ Len(buffer') = Len(buffer) - 1
    <3>1. l \o r \in Seq(Bytes) /\ Len(l \o r) = Len(l) + Len(r) BY <2>2, <2>3
    <3>2. Len(l) + Len(r) = Len(buffer) - 1
      <4>1. cursor_pos \in Nat BY <1>1
      <4>2. QED BY <4>1, <1>1, <2>2, <2>3
    <3>3. QED BY <3>1, <3>2, <2>1
  <2>5. Len(buffer') < MAX_BUFFER /\ cursor_pos' \in 0..Len(buffer')
    BY <1>1, <1>3, <2>1, <2>4, EditorAssumption
  <2>6. QED BY <2>1, <2>4, <2>5, EditKeeps
<1>4. QED BY <1>2, <1>3

LEMMA MovesKeep ==
    ASSUME IInv, MoveCursorLeft \/ MoveCursorRight \/ MoveCursorUp \/ MoveCursorDown PROVE IInv'
<1>1. buffer \in Seq(Bytes) /\ Len(buffer) \in Nat /\ cursor_pos \in 0..Len(buffer)
  BY DEF IInv, TypeOK, Bytes
<1>2. LineOf(buffer, cursor_pos) \in Nat BY <1>1, LineOfType
<1>3. CASE MoveCursorLeft BY <1>1, <1>3, MovingKeeps DEF MoveCursorLeft
<1>4. CASE MoveCursorRight BY <1>1, <1>4, MovingKeeps DEF MoveCursorRight
<1>5. CASE MoveCursorUp
  <2>1. SameColumn(buffer, LineOf(buffer, cursor_pos) - 1, cursor_pos) \in 0..Len(buffer)
    BY <1>1, <1>2, SameColumnBound
  <2>2. cursor_pos' \in 0..Len(buffer) /\ Moving BY <1>1, <1>5, <2>1 DEF MoveCursorUp
  <2>3. QED BY <2>2, MovingKeeps
<1>6. CASE MoveCursorDown
  <2>1. SameColumn(buffer, LineOf(buffer, cursor_pos) + 1, cursor_pos) \in 0..Len(buffer)
    BY <1>1, <1>2, SameColumnBound
  <2>2. cursor_pos' \in 0..Len(buffer) /\ Moving BY <1>1, <1>6, <2>1 DEF MoveCursorDown
  <2>3. QED BY <2>2, MovingKeeps
<1>7. QED BY <1>3, <1>4, <1>5, <1>6

LEMMA SaveKeeps == ASSUME IInv, SaveBufferToFile PROVE IInv'
<1>1. /\ buffer \in Seq(Bytes) /\ Len(buffer) <= MAX_BUFFER - 1 /\ MAX_BUFFER - 1 \in Nat
      /\ file \in Seq(Bytes) /\ modified \in BOOLEAN /\ lost \in BOOLEAN
  BY EditorAssumption DEF IInv, TypeOK, Bytes
<1>2. buffer' = buffer /\ cursor_pos' = cursor_pos /\ scroll_line' = scroll_line
  BY DEF SaveBufferToFile
<1>3. CASE file' = buffer /\ modified' = FALSE /\ lost' = FALSE
  <2>1. Loaded(file') = buffer' BY <1>1, <1>2, <1>3, PrefixAll DEF Loaded
  <2>2. modified' \in BOOLEAN /\ lost' \in BOOLEAN BY <1>3
  <2>3. TypeOK' BY <1>2, <2>2 DEF IInv, TypeOK
  <2>4. CursorVisible' BY <1>2 DEF IInv, CursorVisible, max_lines
  <2>5. UnmodifiedIsSaved' BY <2>1 DEF UnmodifiedIsSaved
  <2>6. QED BY <1>1, <1>3, <2>3, <2>4, <2>5 DEF IInv
<1>4. CASE /\ file' = file \/ \E k \in 0..Len(buffer) : file' = Prefix(buffer, k)
           /\ lost' = (lost \/ ~modified) /\ modified' = modified
  <2>1. file' \in Seq(Bytes)
    <3>1. \A k \in 0..Len(buffer) : Prefix(buffer, k) \in Seq(Bytes) BY <1>1, PrefixType
    <3>2. QED BY <1>1, <1>4, <3>1
  <2>2. modified' \in BOOLEAN BY <1>1, <1>4
  <2>3. lost' \in BOOLEAN BY <1>4
  <2>4. TypeOK' BY <1>2, <2>2, <2>3 DEF IInv, TypeOK
  <2>5. CursorVisible' BY <1>2 DEF IInv, CursorVisible, max_lines
  <2>6. UnmodifiedIsSaved' BY <1>4 DEF UnmodifiedIsSaved
  <2>7. QED BY <2>1, <2>4, <2>5, <2>6 DEF IInv
<1>5. QED BY <1>3, <1>4 DEF SaveBufferToFile

LEMMA OpenKeeps == ASSUME IInv, QuitAndOpen PROVE IInv'
<1>1. file \in Seq(Bytes) /\ file' = file /\ MAX_BUFFER - 1 \in Nat
  BY EditorAssumption DEF IInv, QuitAndOpen
<1>2. buffer' = Loaded(file) /\ cursor_pos' = 0 /\ scroll_line' = 0
      /\ modified' = FALSE /\ lost' = FALSE
  BY DEF QuitAndOpen
<1>3. buffer' \in Seq(Bytes) /\ Len(buffer') <= MAX_BUFFER - 1
  BY <1>1, <1>2, PrefixType DEF Loaded
<1>4. modified' \in BOOLEAN /\ lost' \in BOOLEAN BY <1>2
<1>5. Len(buffer') < MAX_BUFFER /\ cursor_pos' \in 0..Len(buffer') /\ scroll_line' \in Nat
  BY <1>2, <1>3, EditorAssumption
<1>6. TypeOK' BY <1>3, <1>4, <1>5 DEF TypeOK, Bytes
<1>7. CursorVisible'
  <2>1. {i \in 1..Least(0, Len(buffer')) : buffer'[i] = NL} = {} BY <1>3 DEF Least
  <2>2. LineOf(buffer', cursor_pos') = 0 BY <1>2, <2>1, FS_EmptySet DEF LineOf
  <2>3. QED BY <1>2, <2>2, EditorAssumption DEF CursorVisible, max_lines
<1>8. UnmodifiedIsSaved' BY <1>1, <1>2 DEF UnmodifiedIsSaved, Loaded
<1>9. QED BY <1>1, <1>6, <1>7, <1>8 DEF IInv

LEMMA StepPreserves == IInv /\ [Next]_vars => IInv'
<1> SUFFICES ASSUME IInv, [Next]_vars PROVE IInv' OBVIOUS
<1>1. ASSUME NEW c \in Chars \cup {NL}, InsertAtCursor(c) PROVE IInv'
  BY <1>1, InsertKeeps DEF Bytes
<1>2. CASE BackspaceAtCursor BY <1>2, BackspaceKeeps
<1>3. CASE MoveCursorLeft \/ MoveCursorRight \/ MoveCursorUp \/ MoveCursorDown
  BY <1>3, MovesKeep
<1>4. CASE SaveBufferToFile BY <1>4, SaveKeeps
<1>5. CASE QuitAndOpen BY <1>5, OpenKeeps
<1>6. CASE UNCHANGED vars
  BY <1>6 DEF vars, IInv, TypeOK, CursorVisible, UnmodifiedIsSaved, max_lines
<1>7. QED BY <1>1, <1>2, <1>3, <1>4, <1>5, <1>6 DEF Next

\* The inductive invariant holds in every reachable state.
THEOREM InductiveInvariant == Spec => []IInv
<1>1. QED BY InitEstablishes, StepPreserves, PTL DEF Spec

\* The text never fills the buffer and the cursor never leaves the text, so memmove stays
\* within buffer[MAX_BUFFER] (insert_at_cursor, backspace_at_cursor, the cursor keys).
THEOREM TypeCorrect == Spec => []TypeOK
<1>1. IInv => TypeOK BY DEF IInv
<1>2. QED BY <1>1, InductiveInvariant, PTL

\* The line of the cursor is always in one of the rows for text (ensure_cursor_visible).
THEOREM CursorStaysVisible == Spec => []CursorVisible
<1>1. IInv => CursorVisible BY DEF IInv
<1>2. QED BY <1>1, InductiveInvariant, PTL

\* Text without the mark is in the file, unless a save of such text failed
\* (save_buffer_to_file).
THEOREM UnmodifiedTextIsSaved == Spec => []UnmodifiedIsSaved
<1>1. IInv => UnmodifiedIsSaved BY DEF IInv
<1>2. QED BY <1>1, InductiveInvariant, PTL

-----------------------------------------------------------------------------
(* What is on the screen.                                                    *)

\* Between two keys, what has been drawn was drawn for this cursor and this scroll line.
Fresh ==
    /\ last_cursor_pos = cursor_pos /\ last_scroll_line = scroll_line
    /\ FreshToCursor

\* The rows from the top to that of a visible line.
LEMMA RowOfLine ==
    ASSUME NEW scroll \in Nat, NEW line \in Nat, NEW rows \in Nat,
           scroll <= line, line < scroll + rows, NEW r \in 0..line - scroll
    PROVE  r \in Nat /\ scroll + r \in Nat /\ scroll + r <= line /\ r <= rows - 1
OBVIOUS

(* Rows are fresh after redrawing if the text up to some place p is as it was, and the
   lines to the cursor's that are not drawn, if any, are above p.                        *)
LEMMA RedrawFreshens ==
    ASSUME IInv, IInv', Fresh, RedrawPartial,
           NEW p \in 0..Len(buffer), p <= Len(buffer'), p <= cursor_pos, p <= cursor_pos',
           \A i \in 1..p : buffer[i] = buffer'[i],
           \A n \in Nat :
               (n < LineOf(buffer', cursor_pos') /\ n # LineOf(buffer', cursor_pos))
                   => n < LineOf(buffer, p)
    PROVE  Fresh'
<1>1. /\ buffer \in Seq(Bytes) /\ cursor_pos \in 0..Len(buffer) /\ scroll_line \in Nat
      /\ buffer' \in Seq(Bytes) /\ cursor_pos' \in 0..Len(buffer') /\ scroll_line' \in Nat
  BY DEF IInv, TypeOK, Bytes
<1>2. cursor_pos \in Nat /\ cursor_pos' \in Nat BY <1>1
<1> DEFINE here == LineOf(buffer', cursor_pos')
<1>3. here \in Nat /\ LineOf(buffer, cursor_pos) \in Nat /\ LineOf(buffer, p) \in Nat
  BY <1>1, LineOfHere
<1>4. LineOf(buffer, p) <= LineOf(buffer, cursor_pos)
  <2>1. cursor_pos \in p..Len(buffer) BY <1>1
  <2>2. QED BY <1>1, <2>1, LineOfGrows
<1>5. /\ scroll_line' <= here /\ here < scroll_line' + max_lines
      /\ max_lines \in Nat
  BY EditorAssumption DEF IInv, CursorVisible, max_lines
<1>6. last_cursor_pos' = cursor_pos' /\ last_scroll_line' = scroll_line' BY DEF RedrawPartial
<1>7. ASSUME NEW r \in 0..here - scroll_line'
      PROVE  shown'[r] = Drawn(buffer', cursor_pos', scroll_line' + r)
  <2> DEFINE n == scroll_line' + r
  <2>1. r \in Nat /\ n \in Nat /\ n <= here /\ r <= max_lines - 1
    BY <1>1, <1>3, <1>5, RowOfLine
  <2>2. r \in Rows BY <1>5, <2>1 DEF Rows
  <2>3. CASE n \in Redrawn(buffer', cursor_pos', scroll_line') BY <2>1, <2>2, <2>3 DEF RedrawPartial
  <2>4. CASE n \notin Redrawn(buffer', cursor_pos', scroll_line')
    <3>1. shown'[r] = shown[r] BY <2>2, <2>4 DEF RedrawPartial
    <3>2. scroll_line' = last_scroll_line BY <2>1, <2>2, <2>4 DEF Redrawn, Rows
    <3>3. n # here /\ n # LineOf(buffer', last_cursor_pos)
      <4>1. ~(last_cursor_pos < 0) /\ ~(last_scroll_line < 0) BY <1>1, <1>2 DEF Fresh
      <4>2. QED BY <2>4, <3>2, <4>1 DEF Redrawn
    <3>4. scroll_line' = scroll_line /\ n # LineOf(buffer', cursor_pos) BY <3>2, <3>3 DEF Fresh
    <3>5. n < here BY <1>3, <2>1, <3>3
    <3>6. n < LineOf(buffer, p) BY <2>1, <3>4, <3>5
    <3>7. r \in 0..LineOf(buffer, cursor_pos) - scroll_line
      BY <1>1, <1>3, <1>4, <2>1, <3>4, <3>6
    <3>8. shown[r] = Drawn(buffer, cursor_pos, n) BY <3>4, <3>7 DEF Fresh, FreshToCursor
    <3> HIDE DEF n
    <3>9. Drawn(buffer, cursor_pos, n) = Drawn(buffer', cursor_pos', n)
      BY <1>1, <1>2, <2>1, <3>6, DrawnAbove
    <3>10. QED BY <3>1, <3>8, <3>9 DEF n
  <2>5. QED BY <2>3, <2>4
<1>8. FreshToCursor' BY <1>7 DEF FreshToCursor
<1>9. QED BY <1>6, <1>8 DEF Fresh

\* Moving the cursor down by a line at most leaves no line out.
LEMMA MovingFreshens ==
    ASSUME IInv, IInv', Fresh, Moving,
           LineOf(buffer, cursor_pos') <= LineOf(buffer, cursor_pos) + 1
    PROVE  Fresh'
<1>1. buffer' = buffer /\ RedrawPartial BY DEF Moving, Redraw
<1>2. /\ buffer \in Seq(Bytes) /\ Len(buffer) \in Nat
      /\ cursor_pos \in 0..Len(buffer) /\ cursor_pos' \in 0..Len(buffer)
  BY <1>1 DEF IInv, TypeOK, Bytes
<1>3. LineOf(buffer, cursor_pos) \in Nat /\ LineOf(buffer, cursor_pos') \in Nat
  BY <1>2, LineOfHere
<1>4. CASE cursor_pos' <= cursor_pos
  <2>1. QED BY <1>1, <1>2, <1>4, RedrawFreshens
<1>5. CASE cursor_pos < cursor_pos'
  <2>1. \A n \in Nat : (n < LineOf(buffer', cursor_pos') /\ n # LineOf(buffer', cursor_pos))
                           => n < LineOf(buffer, cursor_pos)
    BY <1>1, <1>3
  <2>2. QED BY <1>1, <1>2, <1>5, <2>1, RedrawFreshens
<1>6. QED BY <1>2, <1>4, <1>5

LEMMA MovesFreshen ==
    ASSUME IInv, IInv', Fresh,
           MoveCursorLeft \/ MoveCursorRight \/ MoveCursorUp \/ MoveCursorDown
    PROVE  Fresh'
<1>1. /\ buffer \in Seq(Bytes) /\ Len(buffer) \in Nat
      /\ cursor_pos \in 0..Len(buffer) /\ Len(buffer) \in 0..Len(buffer)
  BY DEF IInv, TypeOK, Bytes
<1>2. \A q \in 0..Len(buffer) : LineOf(buffer, q) \in Nat BY <1>1, LineOfHere
<1>3. CASE MoveCursorLeft
  <2>1. cursor_pos' \in 0..Len(buffer) /\ cursor_pos \in cursor_pos'..Len(buffer) /\ Moving
    BY <1>1, <1>3 DEF MoveCursorLeft
  <2>2. LineOf(buffer, cursor_pos') <= LineOf(buffer, cursor_pos) BY <1>1, <2>1, LineOfGrows
  <2>3. QED BY <1>1, <1>2, <2>1, <2>2, MovingFreshens
<1>4. CASE MoveCursorRight
  <2>1. CASE cursor_pos < Len(buffer)
    <3>1. cursor_pos \in 0..Len(buffer) - 1 /\ cursor_pos' = cursor_pos + 1 /\ Moving
      BY <1>1, <1>4, <2>1 DEF MoveCursorRight
    <3>2. LineOf(buffer, cursor_pos + 1)
              = LineOf(buffer, cursor_pos) + IF buffer[cursor_pos + 1] = NL THEN 1 ELSE 0
      BY <1>1, <3>1, LineOfNext
    <3>3. LineOf(buffer, cursor_pos') <= LineOf(buffer, cursor_pos) + 1
      BY <1>1, <1>2, <3>1, <3>2
    <3>4. QED BY <3>1, <3>3, MovingFreshens
  <2>2. CASE ~(cursor_pos < Len(buffer))
    <3>1. cursor_pos' = cursor_pos /\ Moving BY <1>4, <2>2 DEF MoveCursorRight
    <3>2. QED BY <1>1, <1>2, <3>1, MovingFreshens
  <2>3. QED BY <2>1, <2>2
<1>5. CASE MoveCursorUp
  <2> DEFINE line == LineOf(buffer, cursor_pos)
  <2>1. Moving BY <1>5 DEF MoveCursorUp
  <2>2. CASE line = 0
    <3>1. cursor_pos' = 0 /\ 0 \in 0..Len(buffer) /\ cursor_pos \in 0..Len(buffer)
      BY <1>1, <1>5, <2>2 DEF MoveCursorUp
    <3>2. LineOf(buffer, 0) <= line BY <1>1, <3>1, LineOfGrows
    <3>3. LineOf(buffer, cursor_pos') <= line + 1 BY <1>1, <1>2, <3>1, <3>2
    <3>4. QED BY <2>1, <3>3, MovingFreshens
  <2>3. CASE line # 0
    <3>1. line \in Nat /\ line - 1 \in Nat BY <1>1, <1>2, <2>3
    <3>2. cursor_pos' = SameColumn(buffer, line - 1, cursor_pos)
      BY <1>5, <2>3 DEF MoveCursorUp
    <3>3. line <= LineOf(buffer, Len(buffer))
      <4>1. Len(buffer) \in cursor_pos..Len(buffer) BY <1>1
      <4>2. QED BY <1>1, <4>1, LineOfGrows
    <3>4. line - 1 <= LineOf(buffer, Len(buffer)) BY <1>1, <1>2, <3>3
    <3> HIDE DEF line
    <3>5. LineOf(buffer, cursor_pos') = line - 1
      BY <1>1, <3>1, <3>2, <3>4, SameColumnIsNearest
    <3>6. LineOf(buffer, cursor_pos') <= line + 1 BY <3>1, <3>5
    <3>7. QED BY <2>1, <3>6, MovingFreshens DEF line
  <2>4. QED BY <2>2, <2>3
<1>6. CASE MoveCursorDown
  <2> DEFINE next == LineOf(buffer, cursor_pos) + 1
  <2>1. Moving /\ next \in Nat BY <1>1, <1>2, <1>6 DEF MoveCursorDown
  <2>2. CASE LineStart(buffer, next) >= Len(buffer)
    <3>1. cursor_pos' = Len(buffer) BY <1>6, <2>2 DEF MoveCursorDown
    <3> HIDE DEF next
    <3>2. LineOf(buffer, cursor_pos') <= next BY <1>1, <2>1, <2>2, <3>1, LastLine
    <3>3. QED BY <2>1, <3>2, MovingFreshens DEF next
  <2>3. CASE ~(LineStart(buffer, next) >= Len(buffer))
    <3>1. cursor_pos' = SameColumn(buffer, next, cursor_pos) BY <1>6, <2>3 DEF MoveCursorDown
    <3> HIDE DEF next
    <3>2. LineStart(buffer, next) \in 0..Len(buffer) BY <1>1, <2>1, LineStartBound
    <3>3. next <= LineOf(buffer, Len(buffer)) BY <1>1, <2>1, <2>3, <3>2, LineThatBegins
    <3>4. LineOf(buffer, cursor_pos') = next
      BY <1>1, <2>1, <3>1, <3>3, SameColumnIsNearest
    <3>5. LineOf(buffer, cursor_pos') <= next BY <2>1, <3>4
    <3>6. QED BY <2>1, <3>5, MovingFreshens DEF next
  <2>4. QED BY <2>2, <2>3
<1>7. QED BY <1>3, <1>4, <1>5, <1>6

LEMMA InsertFreshens ==
    ASSUME IInv, IInv', Fresh, NEW c \in Bytes, InsertAtCursor(c) PROVE Fresh'
<1>1. /\ buffer \in Seq(Bytes) /\ Len(buffer) \in Nat /\ cursor_pos \in 0..Len(buffer)
      /\ buffer' \in Seq(Bytes) /\ cursor_pos' \in 0..Len(buffer')
  BY DEF IInv, TypeOK, Bytes
<1>2. CASE Len(buffer) + 1 >= MAX_BUFFER
  <2>1. cursor_pos' = cursor_pos /\ Moving BY <1>2 DEF InsertAtCursor, Moving
  <2>2. LineOf(buffer, cursor_pos) \in Nat BY <1>1, LineOfHere
  <2>3. LineOf(buffer, cursor_pos') <= LineOf(buffer, cursor_pos) + 1 BY <2>1, <2>2
  <2>4. QED BY <2>1, <2>3, MovingFreshens
<1>3. CASE ~(Len(buffer) + 1 >= MAX_BUFFER)
  <2> DEFINE l == SubSeq(buffer, 1, cursor_pos)
             r == SubSeq(buffer, cursor_pos + 1, Len(buffer))
  <2>1. buffer' = l \o <<c>> \o r /\ cursor_pos' = cursor_pos + 1 /\ RedrawPartial
    BY <1>3 DEF InsertAtCursor, Redraw
  <2>2. l \in Seq(Bytes) /\ Len(l) = cursor_pos /\ \A i \in 1..cursor_pos : l[i] = buffer[i]
    BY <1>1
  <2>3. r \in Seq(Bytes) /\ Len(r) = Len(buffer) - cursor_pos BY <1>1
  <2> HIDE DEF l, r
  <2>4. Len(buffer') = Len(buffer) + 1 BY <1>1, <2>1, <2>2, <2>3
  <2>5. \A i \in 1..cursor_pos : buffer[i] = buffer'[i] BY <1>1, <2>1, <2>2, <2>3
  <2>6. LineOf(buffer', cursor_pos) = LineOf(buffer, cursor_pos)
    <3>1. {i \in 1..cursor_pos : buffer[i] = NL} = {i \in 1..cursor_pos : buffer'[i] = NL}
      BY <2>5
    <3>2. cursor_pos \in 0..Len(buffer') BY <1>1, <2>4
    <3>3. QED BY <1>1, <3>1, <3>2, LineOfHere
  <2>7. LineOf(buffer', cursor_pos') <= LineOf(buffer', cursor_pos) + 1
    <3>1. cursor_pos \in 0..Len(buffer') - 1 /\ cursor_pos \in 0..Len(buffer') BY <1>1, <2>4
    <3>2. LineOf(buffer', cursor_pos + 1)
              = LineOf(buffer', cursor_pos) + IF buffer'[cursor_pos + 1] = NL THEN 1 ELSE 0
      BY <1>1, <3>1, LineOfNext
    <3>3. LineOf(buffer', cursor_pos) \in Nat BY <1>1, <3>1, LineOfHere
    <3>4. QED BY <2>1, <3>2, <3>3
  <2>8. \A n \in Nat : (n < LineOf(buffer', cursor_pos') /\ n # LineOf(buffer', cursor_pos))
                           => n < LineOf(buffer, cursor_pos)
    <3>1. LineOf(buffer, cursor_pos) \in Nat /\ LineOf(buffer', cursor_pos') \in Nat
      BY <1>1, LineOfHere
    <3>2. QED BY <2>6, <2>7, <3>1
  <2>9. cursor_pos <= Len(buffer') /\ cursor_pos <= cursor_pos' /\ cursor_pos <= cursor_pos
    BY <1>1, <2>1, <2>4
  <2>10. QED BY <1>1, <2>1, <2>5, <2>8, <2>9, RedrawFreshens
<1>4. QED BY <1>2, <1>3

LEMMA BackspaceFreshens == ASSUME IInv, IInv', Fresh, BackspaceAtCursor PROVE Fresh'
<1>1. /\ buffer \in Seq(Bytes) /\ Len(buffer) \in Nat /\ cursor_pos \in 0..Len(buffer)
      /\ buffer' \in Seq(Bytes) /\ cursor_pos' \in 0..Len(buffer')
  BY DEF IInv, TypeOK, Bytes
<1>2. CASE cursor_pos = 0
  <2>1. cursor_pos' = cursor_pos /\ Moving BY <1>2 DEF BackspaceAtCursor, Moving
  <2>2. LineOf(buffer, cursor_pos) \in Nat BY <1>1, LineOfHere
  <2>3. LineOf(buffer, cursor_pos') <= LineOf(buffer, cursor_pos) + 1 BY <2>1, <2>2
  <2>4. QED BY <2>1, <2>3, MovingFreshens
<1>3. CASE cursor_pos # 0
  <2> DEFINE p == cursor_pos - 1
             l == SubSeq(buffer, 1, p)
             r == SubSeq(buffer, cursor_pos + 1, Len(buffer))
  <2>1. buffer' = l \o r /\ cursor_pos' = p /\ RedrawPartial
    BY <1>3 DEF BackspaceAtCursor, Redraw
  <2>2. p \in 0..Len(buffer) /\ p <= cursor_pos BY <1>1, <1>3
  <2>3. l \in Seq(Bytes) /\ Len(l) = p /\ \A i \in 1..p : l[i] = buffer[i] BY <1>1, <2>2
  <2>4. r \in Seq(Bytes) BY <1>1
  <2> HIDE DEF l, r, p
  <2>5. \A i \in 1..p : buffer[i] = buffer'[i] BY <2>1, <2>2, <2>3, <2>4
  <2>6. LineOf(buffer', p) = LineOf(buffer, p)
    <3>1. {i \in 1..p : buffer[i] = NL} = {i \in 1..p : buffer'[i] = NL} BY <2>5
    <3>2. p \in 0..Len(buffer') BY <1>1, <2>1
    <3>3. QED BY <1>1, <2>2, <3>1, <3>2, LineOfHere
  <2>7. p <= Len(buffer') /\ p <= cursor_pos' BY <1>1, <2>1, <2>2
  <2>8. \A n \in Nat : (n < LineOf(buffer', cursor_pos') /\ n # LineOf(buffer', cursor_pos))
                           => n < LineOf(buffer, p)
    BY <2>1, <2>6
  <2>9. QED BY <2>1, <2>2, <2>5, <2>7, <2>8, RedrawFreshens
<1>4. QED BY <1>2, <1>3

LEMMA SaveFreshens == ASSUME IInv, IInv', Fresh, SaveBufferToFile PROVE Fresh'
<1>1. buffer' = buffer /\ cursor_pos' = cursor_pos /\ RedrawPartial BY DEF SaveBufferToFile
<1>2. cursor_pos \in 0..Len(buffer) /\ Len(buffer) \in Nat BY DEF IInv, TypeOK
<1>3. cursor_pos <= Len(buffer) /\ cursor_pos <= cursor_pos BY <1>2
<1>4. \A n \in Nat : (n < LineOf(buffer', cursor_pos') /\ n # LineOf(buffer', cursor_pos))
                         => n < LineOf(buffer, cursor_pos)
  BY <1>1
<1>5. QED BY <1>1, <1>2, <1>3, <1>4, RedrawFreshens

\* After loading, every row is drawn.
LEMMA DrawnAll ==
    ASSUME NEW buf \in Seq(Bytes), NEW line \in Nat, line < max_lines,
           NEW rows, rows = [r \in Rows |-> Drawn(buf, 0, r)], NEW r \in 0..line - 0
    PROVE  rows[r] = Drawn(buf, 0, 0 + r)
<1>1. r \in Rows /\ 0 + r = r BY EditorAssumption DEF Rows, max_lines
<1>2. QED BY <1>1

LEMMA FreshPreserved == IInv /\ IInv' /\ Fresh /\ [Next]_vars => Fresh'
<1> SUFFICES ASSUME IInv, IInv', Fresh, [Next]_vars PROVE Fresh' OBVIOUS
<1>1. ASSUME NEW c \in Chars \cup {NL}, InsertAtCursor(c) PROVE Fresh'
  BY <1>1, InsertFreshens DEF Bytes
<1>2. CASE BackspaceAtCursor BY <1>2, BackspaceFreshens
<1>3. CASE MoveCursorLeft \/ MoveCursorRight \/ MoveCursorUp \/ MoveCursorDown
  BY <1>3, MovesFreshen
<1>4. CASE SaveBufferToFile BY <1>4, SaveFreshens
<1>5. CASE QuitAndOpen
  <2>1. /\ cursor_pos' = 0 /\ scroll_line' = 0 /\ last_cursor_pos' = 0 /\ last_scroll_line' = 0
        /\ shown' = [r \in Rows |-> Drawn(buffer', 0, r)]
    BY <1>5 DEF QuitAndOpen
  <2>2. /\ buffer' \in Seq(Bytes) /\ cursor_pos' \in 0..Len(buffer')
        /\ LineOf(buffer', cursor_pos') < scroll_line' + max_lines
    BY DEF IInv, TypeOK, Bytes, CursorVisible
  <2>3. LineOf(buffer', 0) \in Nat /\ LineOf(buffer', 0) < max_lines
    <3>1. max_lines \in Int BY EditorAssumption DEF max_lines
    <3>2. LineOf(buffer', cursor_pos') \in Nat BY <2>2, LineOfHere
    <3>3. QED BY <2>1, <2>2, <3>1, <3>2
  <2>4. \A r \in 0..LineOf(buffer', 0) - 0 : shown'[r] = Drawn(buffer', 0, 0 + r)
    BY <2>1, <2>2, <2>3, DrawnAll
  <2>5. FreshToCursor' BY <2>1, <2>4 DEF FreshToCursor
  <2>6. QED BY <2>1, <2>5 DEF Fresh
<1>6. CASE UNCHANGED vars
  BY <1>6 DEF vars, Fresh, FreshToCursor
<1>7. QED BY <1>1, <1>2, <1>3, <1>4, <1>5, <1>6 DEF Next

LEMMA InitFresh == Init => Fresh
<1> SUFFICES ASSUME Init PROVE Fresh OBVIOUS
<1>1. IInv BY InitEstablishes
<1>2. /\ cursor_pos = 0 /\ scroll_line = 0 /\ last_cursor_pos = 0 /\ last_scroll_line = 0
      /\ shown = [r \in Rows |-> Drawn(buffer, 0, r)]
  BY DEF Init
<1>3. /\ buffer \in Seq(Bytes) /\ cursor_pos \in 0..Len(buffer)
      /\ LineOf(buffer, cursor_pos) < scroll_line + max_lines
  BY <1>1 DEF IInv, TypeOK, Bytes, CursorVisible
<1>4. LineOf(buffer, 0) \in Nat /\ LineOf(buffer, 0) < max_lines
  <2>1. max_lines \in Int BY EditorAssumption DEF max_lines
  <2>2. LineOf(buffer, cursor_pos) \in Nat BY <1>3, LineOfHere
  <2>3. QED BY <1>2, <1>3, <2>1, <2>2
<1>5. \A r \in 0..LineOf(buffer, 0) - 0 : shown[r] = Drawn(buffer, 0, 0 + r)
  BY <1>2, <1>3, <1>4, DrawnAll
<1>6. FreshToCursor BY <1>2, <1>5 DEF FreshToCursor
<1>7. QED BY <1>2, <1>6 DEF Fresh

\* Whatever is typed, the rows from the top to the cursor's show the text as it is, though
\* redraw_screen_partial draws two lines only.
THEOREM ScreenIsFresh == Spec => []FreshToCursor
<1>1. Fresh => FreshToCursor BY DEF Fresh
<1>2. QED BY <1>1, InitFresh, FreshPreserved, InductiveInvariant, PTL DEF Spec

-----------------------------------------------------------------------------
(* The text is what TextBuffer promises.                                     *)

\* TextBuffer counts as the editor does.
LEMMA SameCardinality == \A S : Text!Cardinality(S) = Cardinality(S)
BY DEF Text!Cardinality, Cardinality

\* What lies on both sides of the cursor is the text, and lines and columns are those of the text.
LEMMA TextIsBuffer ==
    ASSUME IInv
    PROVE  /\ Text!text = buffer /\ Text!Here = cursor_pos /\ Text!Places = 0..Len(buffer)
           /\ \A p \in 0..Len(buffer) : Text!Line(p) = LineOf(buffer, p)
                                        /\ Text!Column(p) = ColumnOf(buffer, p)
<1> DEFINE l == SubSeq(buffer, 1, cursor_pos)
           r == SubSeq(buffer, cursor_pos + 1, Len(buffer))
<1>1. buffer \in Seq(Bytes) /\ Len(buffer) \in Nat /\ cursor_pos \in 0..Len(buffer)
  BY DEF IInv, TypeOK, Bytes
<1>2. /\ l \in Seq(Bytes) /\ Len(l) = cursor_pos
      /\ \A i \in 1..cursor_pos : l[i] = buffer[i]
  BY <1>1
<1>3. /\ r \in Seq(Bytes) /\ Len(r) = Len(buffer) - cursor_pos
      /\ \A i \in 1..Len(r) : r[i] = buffer[cursor_pos + i]
  BY <1>1
<1>4. l \o r = buffer
  <2> HIDE DEF l, r
  <2>1. l \o r \in Seq(Bytes) /\ Len(l \o r) = Len(buffer)
    <3>1. l \o r \in Seq(Bytes) /\ Len(l \o r) = Len(l) + Len(r)
      BY <1>2, <1>3, ConcatProperties
    <3>2. cursor_pos + (Len(buffer) - cursor_pos) = Len(buffer) BY <1>1
    <3>3. QED BY <1>2, <1>3, <3>1, <3>2
  <2>2. ASSUME NEW i \in 1..Len(l \o r) PROVE (l \o r)[i] = buffer[i]
    <3>1. CASE i <= cursor_pos BY <1>1, <1>2, <1>3, <2>1, <3>1
    <3>2. CASE i > cursor_pos
      <4>1. i - cursor_pos \in 1..Len(r) /\ cursor_pos + (i - cursor_pos) = i
        BY <1>1, <1>3, <2>1, <3>2
      <4>2. (l \o r)[i] = r[i - cursor_pos] BY <1>1, <1>2, <1>3, <2>1, <3>2
      <4>3. QED BY <1>3, <4>1, <4>2
    <3>3. QED BY <1>1, <2>1, <3>1, <3>2
  <2>3. QED BY <1>1, <2>1, <2>2, SeqEqual
<1>5. Text!text = buffer BY <1>4 DEF Text!text
<1>6. Text!Here = cursor_pos BY <1>2 DEF Text!Here
<1>7. Text!Places = 0..Len(buffer) BY <1>5 DEF Text!Places
<1>8. ASSUME NEW p \in 0..Len(buffer)
      PROVE  Text!Line(p) = LineOf(buffer, p) /\ Text!Column(p) = ColumnOf(buffer, p)
  <2>1. Text!Line(p) = Cardinality({i \in 1..p : buffer[i] = NL})
    BY <1>5, SameCardinality DEF Text!Line
  <2>2. Text!Column(p) = Cardinality({i \in 1..p : \A j \in i..p : buffer[j] # NL})
    BY <1>5, SameCardinality DEF Text!Column
  <2>3. QED BY <1>1, <2>1, <2>2, LineOfHere, ColumnCounts
<1>9. QED BY <1>5, <1>6, <1>7, <1>8

\* Moving the cursor is moving it in the text.
LEMMA MovingMaps ==
    ASSUME IInv, Moving, NEW p, cursor_pos' = p PROVE Text!MoveTo(p)
<1>1. buffer' = buffer /\ file' = file BY DEF Moving, Redraw
<1>2. QED BY <1>1, TextIsBuffer DEF Text!MoveTo

\* Cutting where two texts were joined gives them back.
LEMMA CutBefore ==
    ASSUME NEW s \in Seq(Bytes), NEW t \in Seq(Bytes) PROVE SubSeq(s \o t, 1, Len(s)) = s
<1>1. /\ s \o t \in Seq(Bytes) /\ Len(s \o t) = Len(s) + Len(t)
      /\ \A i \in 1..Len(s) : (s \o t)[i] = s[i]
      /\ Len(s) \in Nat /\ Len(t) \in Nat
  OBVIOUS
<1> DEFINE u == s \o t
           c == SubSeq(u, 1, Len(s))
<1> HIDE DEF u
<1>2. c \in Seq(Bytes) /\ Len(c) = Len(s) /\ \A i \in 1..Len(s) : c[i] = s[i] BY <1>1 DEF u
<1> HIDE DEF c
<1>3. c = s BY <1>2, SeqEqual
<1>4. QED BY <1>3 DEF c, u

LEMMA CutBehind ==
    ASSUME NEW s \in Seq(Bytes), NEW t \in Seq(Bytes)
    PROVE  SubSeq(s \o t, Len(s) + 1, Len(s \o t)) = t
<1> DEFINE u == s \o t
           c == SubSeq(u, Len(s) + 1, Len(u))
<1>1. /\ u \in Seq(Bytes) /\ Len(u) = Len(s) + Len(t)
      /\ Len(s) \in Nat /\ Len(t) \in Nat
  OBVIOUS
<1>2. ASSUME NEW i \in 1..Len(t) PROVE u[Len(s) + i] = t[i]
  <2>1. Len(s) + i \in 1..Len(s) + Len(t) /\ Len(s) + i > Len(s) /\ (Len(s) + i) - Len(s) = i
    BY <1>1
  <2>2. QED BY <2>1, ConcatProperties
<1> HIDE DEF u
<1>3. c \in Seq(Bytes) /\ Len(c) = Len(t) BY <1>1
<1>4. \A i \in 1..Len(t) : c[i] = t[i]
  <2> SUFFICES ASSUME NEW i \in 1..Len(t) PROVE c[i] = t[i] OBVIOUS
  <2>1. c[i] = u[Len(s) + i] BY <1>1
  <2>2. QED BY <1>2, <2>1
<1> HIDE DEF c
<1>5. c = t BY <1>3, <1>4, SeqEqual
<1>6. QED BY <1>5 DEF c, u

LEMMA MovesMap ==
    ASSUME IInv, MoveCursorLeft \/ MoveCursorRight \/ MoveCursorUp \/ MoveCursorDown
    PROVE  \/ Text!Left \/ Text!Right \/ Text!Up \/ Text!Down
           \/ buffer' = buffer /\ cursor_pos' = cursor_pos
<1>1. /\ buffer \in Seq(Bytes) /\ Len(buffer) \in Nat
      /\ cursor_pos \in 0..Len(buffer) /\ Len(buffer) \in 0..Len(buffer)
      /\ Len(buffer) \in cursor_pos..Len(buffer)
  BY DEF IInv, TypeOK, Bytes
<1>2. /\ Text!text = buffer /\ Text!Here = cursor_pos /\ Text!Places = 0..Len(buffer)
      /\ \A p \in 0..Len(buffer) : Text!Line(p) = LineOf(buffer, p)
                                   /\ Text!Column(p) = ColumnOf(buffer, p)
  BY TextIsBuffer
<1> DEFINE line == LineOf(buffer, cursor_pos)
           last == LineOf(buffer, Len(buffer))
<1>3. line \in Nat /\ last \in Nat /\ line <= last BY <1>1, LineOfHere, LineOfGrows
<1>4. /\ Text!Line(Text!Here) = line /\ Text!Line(Len(Text!text)) = last
      /\ Text!Column(Text!Here) = ColumnOf(buffer, cursor_pos)
  BY <1>1, <1>2
<1>5. CASE MoveCursorLeft
  <2>1. Moving /\ buffer' = buffer BY <1>5 DEF MoveCursorLeft, Moving
  <2>2. CASE cursor_pos > 0
    <3>1. cursor_pos' = cursor_pos - 1 BY <1>5, <2>2 DEF MoveCursorLeft
    <3>2. Text!MoveTo(cursor_pos - 1) BY <2>1, <3>1, MovingMaps
    <3>3. QED BY <1>2, <2>2, <3>2 DEF Text!Left
  <2>3. CASE ~(cursor_pos > 0) BY <1>5, <2>1, <2>3 DEF MoveCursorLeft
  <2>4. QED BY <2>2, <2>3
<1>6. CASE MoveCursorRight
  <2>1. Moving /\ buffer' = buffer BY <1>6 DEF MoveCursorRight, Moving
  <2>2. CASE cursor_pos < Len(buffer)
    <3>1. cursor_pos' = cursor_pos + 1 BY <1>6, <2>2 DEF MoveCursorRight
    <3>2. Text!MoveTo(cursor_pos + 1) BY <2>1, <3>1, MovingMaps
    <3>3. QED BY <1>2, <2>2, <3>2 DEF Text!Right
  <2>3. CASE ~(cursor_pos < Len(buffer)) BY <1>6, <2>1, <2>3 DEF MoveCursorRight
  <2>4. QED BY <2>2, <2>3
<1>7. ASSUME NEW n \in Nat, n <= last, Moving,
             cursor_pos' = SameColumn(buffer, n, cursor_pos)
      PROVE  \E p \in Text!Places :
                 Text!Nearest(n, Text!Column(Text!Here), p) /\ Text!MoveTo(p)
  <2> DEFINE p == SameColumn(buffer, n, cursor_pos)
  <2>1. /\ p \in 0..Len(buffer) /\ LineOf(buffer, p) = n
        /\ ColumnOf(buffer, p) <= ColumnOf(buffer, cursor_pos)
        /\ \A q \in 0..Len(buffer) :
             (LineOf(buffer, q) = n /\ ColumnOf(buffer, q) <= ColumnOf(buffer, cursor_pos))
                 => ColumnOf(buffer, q) <= ColumnOf(buffer, p)
    BY <1>1, <1>7, SameColumnIsNearest
  <2>2. Text!MoveTo(p) BY <1>7, MovingMaps
  <2> HIDE DEF p
  <2>3. Text!Nearest(n, Text!Column(Text!Here), p) BY <1>2, <1>4, <2>1 DEF Text!Nearest
  <2>4. QED BY <1>2, <2>1, <2>2, <2>3
<1>8. CASE MoveCursorUp
  <2>1. Moving BY <1>8 DEF MoveCursorUp
  <2>2. CASE line = 0
    <3>1. cursor_pos' = 0 BY <1>8, <2>2 DEF MoveCursorUp
    <3>2. Text!MoveTo(0) BY <2>1, <3>1, MovingMaps
    <3>3. QED BY <1>4, <2>2, <3>2 DEF Text!Up
  <2>3. CASE line # 0
    <3>1. cursor_pos' = SameColumn(buffer, line - 1, cursor_pos)
      BY <1>8, <2>3 DEF MoveCursorUp
    <3> HIDE DEF line, last
    <3>2. line - 1 \in Nat /\ line - 1 <= last BY <1>3, <2>3
    <3>3. \E p \in Text!Places :
              Text!Nearest(line - 1, Text!Column(Text!Here), p) /\ Text!MoveTo(p)
      BY <1>7, <2>1, <3>1, <3>2
    <3>4. Text!Up BY <1>4, <2>3, <3>3 DEF Text!Up
    <3>5. QED BY <3>4
  <2>4. QED BY <2>2, <2>3
<1>9. CASE MoveCursorDown
  <2>1. Moving BY <1>9 DEF MoveCursorDown
  <2>2. line + 1 \in Nat BY <1>3
  <2>3. CASE LineStart(buffer, line + 1) >= Len(buffer)
    <3>1. cursor_pos' = Len(buffer) BY <1>9, <2>3 DEF MoveCursorDown
    <3>2. Text!MoveTo(Len(buffer)) BY <2>1, <3>1, MovingMaps
    <3>3. last <= line + 1 BY <1>1, <2>2, <2>3, LastLine
    <3>4. CASE line = last
      <4>1. Text!Down BY <1>2, <1>4, <3>2, <3>4 DEF Text!Down
      <4>2. QED BY <4>1
    <3>5. CASE line # last
      <4>1. last = line + 1 BY <1>3, <3>3, <3>5
      <4>2. LineStart(buffer, last) = Len(buffer)
        <5>1. LineStart(buffer, line + 1) \in 0..Len(buffer) BY <1>1, <2>2, LineStartBound
        <5>2. QED BY <1>1, <2>3, <4>1, <5>1
      <4>3. ColumnOf(buffer, Len(buffer)) = 0 BY <1>1, <4>2 DEF ColumnOf
      <4>4. ColumnOf(buffer, cursor_pos) >= 0
        <5>1. LineStart(buffer, line) \in 0..Len(buffer) BY <1>1, <1>3, LineStartBound
        <5>2. LineStart(buffer, line) <= cursor_pos BY <1>1, LineStartBefore
        <5>3. QED BY <1>1, <5>1, <5>2 DEF ColumnOf
      <4>5. ASSUME NEW q \in 0..Len(buffer), LineOf(buffer, q) = last
            PROVE  ColumnOf(buffer, q) <= 0
        <5>1. LineStart(buffer, last) <= q BY <1>1, <4>5, LineStartBefore
        <5>2. QED BY <1>1, <4>2, <4>5, <5>1 DEF ColumnOf
      <4> HIDE DEF line, last
      <4>6. Text!Line(Len(buffer)) = last /\ Text!Column(Len(buffer)) = 0
        BY <1>1, <1>2, <4>3 DEF last
      <4>7. Text!Nearest(line + 1, Text!Column(Text!Here), Len(buffer))
        BY <1>2, <1>4, <4>1, <4>4, <4>5, <4>6 DEF Text!Nearest
      <4>8. \E p \in Text!Places :
                Text!Nearest(line + 1, Text!Column(Text!Here), p) /\ Text!MoveTo(p)
        BY <1>1, <1>2, <3>2, <4>7
      <4>9. Text!Down BY <1>4, <3>5, <4>8 DEF Text!Down
      <4>10. QED BY <4>9
    <3>6. QED BY <3>4, <3>5
  <2>4. CASE ~(LineStart(buffer, line + 1) >= Len(buffer))
    <3>1. cursor_pos' = SameColumn(buffer, line + 1, cursor_pos)
      BY <1>9, <2>4 DEF MoveCursorDown
    <3>2. line + 1 <= last
      <4>1. LineStart(buffer, line + 1) \in 0..Len(buffer) BY <1>1, <2>2, LineStartBound
      <4> HIDE DEF line
      <4>2. LineStart(buffer, line + 1) < Len(buffer) BY <1>1, <2>4, <4>1
      <4>3. QED BY <1>1, <2>2, <4>2, LineThatBegins
    <3> HIDE DEF line, last
    <3>3. \E p \in Text!Places :
              Text!Nearest(line + 1, Text!Column(Text!Here), p) /\ Text!MoveTo(p)
      BY <1>7, <2>1, <2>2, <3>1, <3>2
    <3>4. line # last BY <1>3, <3>2
    <3>5. Text!Down BY <1>4, <3>3, <3>4 DEF Text!Down
    <3>6. QED BY <3>5
  <2>5. QED BY <2>3, <2>4
<1>10. QED BY <1>5, <1>6, <1>8, <1>9

LEMMA InsertMaps ==
    ASSUME IInv, NEW c \in Bytes, InsertAtCursor(c)
    PROVE  Text!Insert(c) \/ (buffer' = buffer /\ cursor_pos' = cursor_pos)
<1>1. buffer \in Seq(Bytes) /\ Len(buffer) \in Nat /\ cursor_pos \in 0..Len(buffer)
  BY DEF IInv, TypeOK, Bytes
<1>2. CASE Len(buffer) + 1 >= MAX_BUFFER BY <1>2 DEF InsertAtCursor
<1>3. CASE ~(Len(buffer) + 1 >= MAX_BUFFER)
  <2> DEFINE l == SubSeq(buffer, 1, cursor_pos)
             r == SubSeq(buffer, cursor_pos + 1, Len(buffer))
  <2>1. buffer' = l \o <<c>> \o r /\ cursor_pos' = cursor_pos + 1 BY <1>3 DEF InsertAtCursor
  <2>2. l \in Seq(Bytes) /\ Len(l) = cursor_pos BY <1>1
  <2>3. r \in Seq(Bytes) /\ Len(r) = Len(buffer) - cursor_pos BY <1>1
  <2> HIDE DEF l, r
  <2> DEFINE b == l \o <<c>>
  <2>4. b \in Seq(Bytes) /\ Len(b) = cursor_pos + 1 /\ b = Append(l, c) BY <1>1, <2>2
  <2> HIDE DEF b
  <2>5. buffer' = b \o r BY <2>1 DEF b
  <2>6. Len(buffer') = Len(b) + Len(r) /\ buffer' \in Seq(Bytes)
    BY <2>3, <2>4, <2>5, ConcatProperties
  <2>7. SubSeq(buffer', 1, Len(b)) = b
    BY <2>3, <2>4, <2>5, <2>6, CutBefore
  <2>8. SubSeq(buffer', Len(b) + 1, Len(buffer')) = r
    BY <2>3, <2>4, <2>5, <2>6, CutBehind
  <2>0. file' = file BY DEF InsertAtCursor, Redraw
  <2>9. Len(Text!text) < MAX_BUFFER - 1
    <3>1. Text!text = buffer BY TextIsBuffer
    <3>2. QED BY <1>1, <1>3, <3>1, EditorAssumption
  <2>10. /\ SubSeq(buffer', 1, cursor_pos') = Append(l, c)
         /\ SubSeq(buffer', cursor_pos' + 1, Len(buffer')) = r
    BY <2>1, <2>4, <2>7, <2>8
  <2>11. Text!Insert(c) BY <2>0, <2>9, <2>10 DEF Text!Insert, l, r
  <2>12. QED BY <2>11
<1>4. QED BY <1>2, <1>3

LEMMA BackspaceMaps ==
    ASSUME IInv, BackspaceAtCursor
    PROVE  Text!Backspace \/ (buffer' = buffer /\ cursor_pos' = cursor_pos)
<1>1. buffer \in Seq(Bytes) /\ Len(buffer) \in Nat /\ cursor_pos \in 0..Len(buffer)
  BY DEF IInv, TypeOK, Bytes
<1>2. CASE cursor_pos = 0 BY <1>2 DEF BackspaceAtCursor
<1>3. CASE cursor_pos # 0
  <2> DEFINE l == SubSeq(buffer, 1, cursor_pos)
             b == SubSeq(buffer, 1, cursor_pos - 1)
             r == SubSeq(buffer, cursor_pos + 1, Len(buffer))
  <2>1. buffer' = b \o r /\ cursor_pos' = cursor_pos - 1 BY <1>3 DEF BackspaceAtCursor
  <2>2. l \in Seq(Bytes) /\ Len(l) = cursor_pos /\ l # <<>> BY <1>1, <1>3
  <2>3. b \in Seq(Bytes) /\ Len(b) = cursor_pos - 1 BY <1>1, <1>3
  <2>4. r \in Seq(Bytes) BY <1>1
  <2>5. SubSeq(l, 1, Len(l) - 1) = b
    <3>1. \A i \in 1..cursor_pos - 1 : b[i] = buffer[i] /\ l[i] = buffer[i] BY <1>1, <1>3
    <3> HIDE DEF l, b
    <3> DEFINE k == SubSeq(l, 1, Len(l) - 1)
    <3>2. k \in Seq(Bytes) /\ Len(k) = cursor_pos - 1 BY <1>1, <1>3, <2>2
    <3>3. \A i \in 1..cursor_pos - 1 : k[i] = l[i] BY <1>1, <1>3, <2>2
    <3> HIDE DEF k
    <3>4. k = b BY <2>3, <3>1, <3>2, <3>3, SeqEqual
    <3>5. QED BY <3>4 DEF k
  <2> HIDE DEF l, b, r
  <2>6. SubSeq(buffer', 1, cursor_pos') = b
    <3>1. SubSeq(b \o r, 1, Len(b)) = b BY <2>3, <2>4, CutBefore
    <3>2. QED BY <2>1, <2>3, <3>1
  <2>7. SubSeq(buffer', cursor_pos' + 1, Len(buffer')) = r
    <3>1. SubSeq(b \o r, Len(b) + 1, Len(b \o r)) = r BY <2>3, <2>4, CutBehind
    <3>2. QED BY <2>1, <2>3, <3>1
  <2>8. SubSeq(buffer', 1, cursor_pos') = SubSeq(l, 1, Len(l) - 1) BY <2>5, <2>6
  <2>9. file' = file BY DEF BackspaceAtCursor, Redraw
  <2>10. Text!Backspace BY <2>2, <2>7, <2>8, <2>9 DEF Text!Backspace, l, r
  <2>11. QED BY <2>10
<1>4. QED BY <1>2, <1>3

\* A file that is read has the cursor before as much of it as fits.
LEMMA AtBegin ==
    ASSUME NEW f \in Seq(Bytes)
    PROVE  /\ SubSeq(Loaded(f), 1, 0) = <<>>
           /\ SubSeq(Loaded(f), 0 + 1, Len(Loaded(f)))
                = SubSeq(f, 1, IF Len(f) < MAX_BUFFER - 1 THEN Len(f) ELSE MAX_BUFFER - 1)
<1>1. MAX_BUFFER - 1 \in Nat BY EditorAssumption
<1>2. Loaded(f) = SubSeq(f, 1, IF Len(f) < MAX_BUFFER - 1 THEN Len(f) ELSE MAX_BUFFER - 1)
  BY <1>1 DEF Loaded, Prefix, Least
<1>3. Loaded(f) \in Seq(Bytes) BY <1>1 DEF Loaded, Prefix, Least
<1> HIDE DEF Loaded
<1>4. SubSeq(Loaded(f), 1, 0) = <<>> BY <1>3
<1>5. SubSeq(Loaded(f), 1, Len(Loaded(f))) = Loaded(f) BY <1>3, SubSeqFull
<1>6. 0 + 1 = 1 OBVIOUS
<1> DEFINE k == 0 + 1
<1> HIDE DEF k
<1>7. SubSeq(Loaded(f), k, Len(Loaded(f))) = Loaded(f) BY <1>5, <1>6 DEF k
<1>8. QED BY <1>2, <1>4, <1>7 DEF k

\* Ctrl-S leaves the text alone, and the file as it was or with a beginning of the text.
LEMMA SaveMaps == ASSUME IInv, SaveBufferToFile PROVE Text!Save
<1>1. /\ buffer \in Seq(Bytes) /\ Len(buffer) \in Nat
      /\ buffer' = buffer /\ cursor_pos' = cursor_pos
  BY DEF IInv, TypeOK, Bytes, SaveBufferToFile
<1>2. Text!text = buffer /\ Text!Places = 0..Len(buffer) BY TextIsBuffer
<1>3. file' = file \/ \E p \in 0..Len(buffer) : file' = SubSeq(buffer, 1, p)
  <2>1. CASE file' = buffer
    <3>1. buffer = SubSeq(buffer, 1, Len(buffer)) BY <1>1, SubSeqFull
    <3>2. Len(buffer) \in 0..Len(buffer) BY <1>1
    <3>3. QED BY <2>1, <3>1, <3>2
  <2>2. ASSUME NEW k \in 0..Len(buffer), k < Len(buffer), file' = Prefix(buffer, k)
        PROVE  file' = SubSeq(buffer, 1, k)
    BY <1>1, <2>2 DEF Prefix, Least
  <2>3. QED BY <2>1, <2>2 DEF SaveBufferToFile
<1>4. QED BY <1>1, <1>2, <1>3 DEF Text!Save

LEMMA StepMaps ==
    ASSUME IInv, [Next]_vars
    PROVE  [Text!Next]_<<SubSeq(buffer, 1, cursor_pos),
                         SubSeq(buffer, cursor_pos + 1, Len(buffer)), file>>
<1>1. ASSUME buffer' = buffer, cursor_pos' = cursor_pos, file' = file
      PROVE  UNCHANGED <<SubSeq(buffer, 1, cursor_pos),
                         SubSeq(buffer, cursor_pos + 1, Len(buffer)), file>>
  BY <1>1
<1>2. ASSUME NEW c \in Chars \cup {NL}, InsertAtCursor(c)
      PROVE  Text!Next \/ (buffer' = buffer /\ cursor_pos' = cursor_pos /\ file' = file)
  <2>1. Text!Insert(c) \/ (buffer' = buffer /\ cursor_pos' = cursor_pos)
    BY <1>2, InsertMaps DEF Bytes
  <2>2. file' = file BY <1>2 DEF InsertAtCursor, Redraw
  <2>3. QED BY <2>1, <2>2 DEF Text!Next
<1>3. CASE BackspaceAtCursor
  <2>1. file' = file BY <1>3 DEF BackspaceAtCursor, Redraw
  <2>2. QED BY <1>1, <1>3, <2>1, BackspaceMaps DEF Text!Next
<1>4. CASE MoveCursorLeft \/ MoveCursorRight \/ MoveCursorUp \/ MoveCursorDown
  <2>1. file' = file
    BY <1>4 DEF MoveCursorLeft, MoveCursorRight, MoveCursorUp, MoveCursorDown, Moving, Redraw
  <2>2. QED BY <1>1, <1>4, <2>1, MovesMap DEF Text!Next
<1>5. CASE SaveBufferToFile
  <2>1. Text!Save BY <1>5, SaveMaps
  <2>2. QED BY <2>1 DEF Text!Next
<1>6. CASE QuitAndOpen
  <2>1. cursor_pos' = 0 /\ buffer' = Loaded(file) /\ file' = file BY <1>6 DEF QuitAndOpen
  <2>2. file \in Seq(Bytes) BY DEF IInv, Bytes
  <2>3. Text!Open BY <2>1, <2>2, AtBegin DEF Text!Open, Text!Fitting
  <2>4. QED BY <2>3 DEF Text!Next
<1>7. CASE UNCHANGED vars BY <1>1, <1>7 DEF vars
<1>8. QED BY <1>1, <1>2, <1>3, <1>4, <1>5, <1>6, <1>7 DEF Next

LEMMA InitMaps == Init => Text!Init
<1> SUFFICES ASSUME Init PROVE Text!Init OBVIOUS
<1>1. file \in Seq(Bytes) BY InitEstablishes DEF IInv, Bytes
<1>2. cursor_pos = 0 /\ buffer = Loaded(file) BY DEF Init
<1>3. QED BY <1>1, <1>2, AtBegin DEF Text!Init, Text!Fitting

\* Every key does to the text and the cursor what TextBuffer promises: typing and deleting
\* happen at the cursor and nowhere else, up and down find the nearest column, opening shows
\* what the file holds, and only a save changes the file.
THEOREM EditorImplementsTextBuffer == Spec => ImplementsTextBuffer
<1>1. IInv /\ [Next]_vars
          => [Text!Next]_<<SubSeq(buffer, 1, cursor_pos),
                           SubSeq(buffer, cursor_pos + 1, Len(buffer)), file>>
  BY StepMaps
<1>2. QED BY <1>1, InitMaps, InductiveInvariant, PTL DEF Spec, ImplementsTextBuffer, Text!Spec
=============================================================================
