--------------------------- MODULE TerminalProofs ----------------------------
(***************************************************************************)
(* For every screen, font and set of bytes: the cursor stays on the screen *)
(* (TypeOK, CursorOnScreen), and the lines below the last row stay blank   *)
(* (NothingBelow).  A call is a composition of hiding, drawing, advancing  *)
(* and scrolling, so each of those gets a lemma about what it keeps.       *)
(* The second half is about what it shows: a page of cells in reading      *)
(* order (Cell), of which each call replaces some (Writes, Arrived).  From *)
(* that follow the echo of readline (EchoIsLine), with fonts of any        *)
(* height, and, with fonts of one, the step of CharScreen that each call   *)
(* is.                                                                     *)
(***************************************************************************)
EXTENDS Terminal, ShellRc, SequenceTheorems, FiniteSetTheorems, TLAPS
LOCAL INSTANCE FiniteSetsExt

Screens == [Lines -> [Columns -> Parts]]
Terminals == [screen : Screens, x : Columns, y : 0..rows - 1]

\* The font is the one the rows were computed with, as long as none of another height came.
SameFont == resized = 0 => glyph_size = BOOT_SIZE

Below(s) == \A l \in Lines : l >= rows * BOOT_SIZE => \A c \in Columns : s[l][c] = Blank

\* What a call may do to the lines below the last row.
Keeps(s, t) == (glyph_size = BOOT_SIZE /\ Below(s)) => Below(t)

\* readline goes on only as long as there is room.
Room == reading => Len(line) < INPUT_MAX

IInv == TypeOK /\ SameFont /\ NothingBelow /\ Room

-----------------------------------------------------------------------------
\* The screen has a row, the rows are on it, and the constants have their types.
LEMMA RowsFit ==
    /\ HEIGHT \in Nat /\ BOOT_SIZE \in Nat /\ BOOT_SIZE >= 1 /\ COLS \in Nat /\ COLS >= 1
    /\ rows \in Nat /\ rows >= 1 /\ rows * BOOT_SIZE <= HEIGHT
    /\ 0 \in Columns /\ COLS - 1 \in Columns
    /\ Blank \in Parts /\ Block \in Parts /\ Mess \in Parts
<1>1. HEIGHT \in Nat /\ BOOT_SIZE \in Nat /\ BOOT_SIZE >= 1 /\ COLS \in Nat /\ COLS >= 1
      /\ BOOT_SIZE <= HEIGHT
  BY ScreenAssumption
<1>2. HEIGHT \div BOOT_SIZE \in Nat /\ HEIGHT \div BOOT_SIZE >= 1
      /\ (HEIGHT \div BOOT_SIZE) * BOOT_SIZE <= HEIGHT
  BY <1>1
<1>3. QED BY <1>1, <1>2 DEF rows, Columns, Parts

\* Multiplication by a size keeps the order of rows.
LEMMA RowsOrdered ==
    ASSUME NEW a \in Nat, NEW b \in Nat, a <= b, NEW g \in Nat PROVE a * g <= b * g
<1>1. PICK d \in Nat : b = a + d
  <2>1. b - a \in Nat /\ b = a + (b - a) OBVIOUS
  <2>2. QED BY <2>1
<1>2. b * g = a * g + d * g BY <1>1
<1>3. d * g \in Nat /\ a * g \in Nat OBVIOUS
<1>4. QED BY <1>2, <1>3

\* Every line of every glyph that is drawn is one that a screen may show.
LEMMA PartsDrawn ==
    ASSUME NEW ch \in Chars, NEW i \in 0..BOOT_SIZE - 1 PROVE Part(ch, i) \in Parts
BY DEF Part, Parts

\* Filling a cell of a row leaves a screen, and the lines below the last row alone.
LEMMA FillKeeps ==
    ASSUME NEW s \in Screens, NEW x \in Columns, NEW y \in 0..rows - 1, NEW p \in Parts,
           glyph_size \in 1..BOOT_SIZE
    PROVE  Fill(s, x, y, p) \in Screens /\ Keeps(s, Fill(s, x, y, p))
<1>1. Fill(s, x, y, p) \in Screens BY DEF Fill, Screens
<1>2. ASSUME glyph_size = BOOT_SIZE, Below(s), NEW l \in Lines, l >= rows * BOOT_SIZE,
             NEW c \in Columns
      PROVE  Fill(s, x, y, p)[l][c] = Blank
  <2>1. (y + 1) * BOOT_SIZE <= rows * BOOT_SIZE BY RowsOrdered, RowsFit
  <2>2. l \in Nat /\ rows * BOOT_SIZE \in Nat /\ (y + 1) * BOOT_SIZE \in Nat
    BY RowsFit DEF Lines
  <2>3. ~(l < (y + 1) * BOOT_SIZE) BY <1>2, <2>1, <2>2
  <2>4. ~InRow(l, y) BY <1>2, <2>3 DEF InRow
  <2>5. s[l][c] = Blank BY <1>2 DEF Below
  <2>6. QED BY <2>4, <2>5 DEF Fill
<1>3. QED BY <1>1, <1>2 DEF Keeps, Below

\* So does drawing a glyph.
LEMMA DrawCharKeeps ==
    ASSUME NEW s \in Screens, NEW x \in Columns, NEW y \in 0..rows - 1, NEW ch \in Chars,
           glyph_size \in 1..BOOT_SIZE
    PROVE  DrawChar(s, x, y, ch) \in Screens /\ Keeps(s, DrawChar(s, x, y, ch))
<1>1. ASSUME NEW l \in Lines, InRow(l, y) PROVE Part(ch, l - y * glyph_size) \in Parts
  <2>1. /\ l \in Nat /\ y * glyph_size \in Nat
        /\ (y + 1) * glyph_size = y * glyph_size + glyph_size
    BY RowsFit DEF Lines
  <2>2. l - y * glyph_size \in 0..BOOT_SIZE - 1
    BY <1>1, <2>1, RowsFit DEF InRow
  <2>3. QED BY <2>2, PartsDrawn
<1>2. DrawChar(s, x, y, ch) \in Screens BY <1>1, RowsFit DEF DrawChar, Screens
<1>3. ASSUME glyph_size = BOOT_SIZE, Below(s), NEW l \in Lines, l >= rows * BOOT_SIZE,
             NEW c \in Columns
      PROVE  DrawChar(s, x, y, ch)[l][c] = Blank
  <2>1. (y + 1) * BOOT_SIZE <= rows * BOOT_SIZE BY RowsOrdered, RowsFit
  <2>2. l \in Nat /\ rows * BOOT_SIZE \in Nat /\ (y + 1) * BOOT_SIZE \in Nat
    BY RowsFit DEF Lines
  <2>3. ~(l < (y + 1) * BOOT_SIZE) BY <1>3, <2>1, <2>2
  <2>4. ~InRow(l, y) BY <1>3, <2>3 DEF InRow
  <2>5. s[l][c] = Blank BY <1>3 DEF Below
  <2>6. QED BY <2>4, <2>5 DEF DrawChar
<1>4. QED BY <1>2, <1>3 DEF Keeps, Below

LEMMA HideAndDrawKeep ==
    ASSUME NEW t \in Terminals, glyph_size \in 1..BOOT_SIZE
    PROVE  /\ HideCursor(t) \in Terminals /\ Keeps(t.screen, HideCursor(t).screen)
           /\ HideCursor(t).x = t.x /\ HideCursor(t).y = t.y
           /\ DrawCursor(t) \in Terminals /\ Keeps(t.screen, DrawCursor(t).screen)
           /\ DrawCursor(t).x = t.x /\ DrawCursor(t).y = t.y
<1>1. t.screen \in Screens /\ t.x \in Columns /\ t.y \in 0..rows - 1 BY DEF Terminals
<1>2. /\ Fill(t.screen, t.x, t.y, Blank) \in Screens
      /\ Keeps(t.screen, Fill(t.screen, t.x, t.y, Blank))
      /\ Fill(t.screen, t.x, t.y, Block) \in Screens
      /\ Keeps(t.screen, Fill(t.screen, t.x, t.y, Block))
  BY <1>1, FillKeeps, RowsFit
<1>3. QED BY <1>1, <1>2 DEF HideCursor, DrawCursor, Terminals

\* A cursor one row too low is brought back by scrolling.
LEMMA ScrollIfBelowKeeps ==
    ASSUME NEW s \in Screens, NEW x \in Columns, NEW y \in 0..rows, glyph_size \in 1..BOOT_SIZE
    PROVE  LET t == ScrollIfBelow([screen |-> s, x |-> x, y |-> y])
           IN  t \in Terminals /\ Keeps(s, t.screen)
<1> DEFINE u  == [screen |-> s, x |-> x, y |-> y]
           up == [l \in Lines |-> IF l < HEIGHT - glyph_size
                                  THEN s[l + glyph_size] ELSE [c \in Columns |-> Blank]]
<1>1. CASE y >= rows
  <2>1. y - 1 = rows - 1 /\ y - 1 \in 0..rows - 1 BY <1>1, RowsFit
  <2>2. ScrollIfBelow(u) = [screen |-> up, x |-> x, y |-> y - 1]
    BY <1>1 DEF ScrollIfBelow, Scroll
  <2>3. up \in Screens
    <3>1. ASSUME NEW l \in Lines, l < HEIGHT - glyph_size PROVE l + glyph_size \in Lines
      BY <3>1, RowsFit DEF Lines
    <3>2. QED BY <3>1, RowsFit DEF Screens
  <2>4. ASSUME glyph_size = BOOT_SIZE, Below(s), NEW l \in Lines, l >= rows * BOOT_SIZE,
               NEW c \in Columns
        PROVE  up[l][c] = Blank
    <3>1. CASE l < HEIGHT - glyph_size
      <4>1. rows * BOOT_SIZE \in Nat BY RowsFit
      <4>2. l + glyph_size \in Lines /\ l + glyph_size >= rows * BOOT_SIZE
        BY <3>1, <2>4, <4>1, RowsFit DEF Lines
      <4>3. s[l + glyph_size][c] = Blank BY <2>4, <4>2 DEF Below
      <4>4. QED BY <3>1, <4>3
    <3>2. CASE ~(l < HEIGHT - glyph_size) BY <3>2
    <3>3. QED BY <3>1, <3>2
  <2>5. Keeps(s, up) BY <2>4 DEF Keeps, Below
  <2>6. QED BY <2>1, <2>2, <2>3, <2>5 DEF Terminals
<1>2. CASE ~(y >= rows)
  <2>1. ScrollIfBelow(u) = u BY <1>2 DEF ScrollIfBelow
  <2>2. y \in 0..rows - 1 BY <1>2, RowsFit
  <2>3. QED BY <2>1, <2>2 DEF Terminals, Keeps
<1>3. QED BY <1>1, <1>2

LEMMA AdvanceKeeps ==
    ASSUME NEW t \in Terminals, glyph_size \in 1..BOOT_SIZE
    PROVE  Advance(t) \in Terminals /\ Keeps(t.screen, Advance(t).screen)
<1>1. t.screen \in Screens /\ t.x \in Columns /\ t.y \in 0..rows - 1
      /\ t = [screen |-> t.screen, x |-> t.x, y |-> t.y]
  BY DEF Terminals
<1>2. CASE t.x + 1 >= COLS
  <2>1. Advance(t) = ScrollIfBelow([screen |-> t.screen, x |-> 0, y |-> t.y + 1])
    BY <1>2 DEF Advance, At
  <2>2. t.y + 1 \in 0..rows BY <1>1, RowsFit
  <2>3. QED BY <1>1, <2>1, <2>2, ScrollIfBelowKeeps, RowsFit
<1>3. CASE ~(t.x + 1 >= COLS)
  <2>1. Advance(t) = [screen |-> t.screen, x |-> t.x + 1, y |-> t.y]
    BY <1>3 DEF Advance, At
  <2>2. t.x + 1 \in Columns BY <1>1, <1>3, RowsFit DEF Columns
  <2>3. QED BY <1>1, <2>1, <2>2 DEF Terminals, Keeps
<1>4. QED BY <1>2, <1>3

-----------------------------------------------------------------------------
\* The bytes that are written.
LEMMA PutNewlineKeeps ==
    ASSUME NEW t \in Terminals, glyph_size \in 1..BOOT_SIZE
    PROVE  PutNewline(t) \in Terminals /\ Keeps(t.screen, PutNewline(t).screen)
<1> DEFINE h == HideCursor(t)
           n == ScrollIfBelow(At(h, 0, t.y + 1))
<1>1. h.screen \in Screens /\ Keeps(t.screen, h.screen) /\ t.y + 1 \in 0..rows
  BY HideAndDrawKeep, RowsFit DEF Terminals
<1>2. n \in Terminals /\ Keeps(h.screen, n.screen)
  BY <1>1, ScrollIfBelowKeeps, RowsFit DEF At
<1>3. DrawCursor(n) \in Terminals /\ Keeps(n.screen, DrawCursor(n).screen)
  BY <1>2, HideAndDrawKeep
<1>4. Keeps(t.screen, DrawCursor(n).screen) BY <1>1, <1>2, <1>3 DEF Keeps
<1>5. QED BY <1>3, <1>4 DEF PutNewline

LEMMA PutBackspaceKeeps ==
    ASSUME NEW t \in Terminals, glyph_size \in 1..BOOT_SIZE
    PROVE  PutBackspace(t) \in Terminals /\ Keeps(t.screen, PutBackspace(t).screen)
<1> DEFINE x == IF t.x > 0 THEN t.x - 1 ELSE IF t.y > 0 THEN COLS - 1 ELSE 0
           y == IF t.x = 0 /\ t.y > 0 THEN t.y - 1 ELSE t.y
           h == HideCursor(t)
           f == Fill(h.screen, x, y, Blank)
           n == [screen |-> f, x |-> x, y |-> y]
<1>1. t.x \in Columns /\ t.y \in 0..rows - 1 BY DEF Terminals
<1>2. x \in Columns /\ y \in 0..rows - 1 BY <1>1, RowsFit DEF Columns
<1>3. h.screen \in Screens /\ Keeps(t.screen, h.screen) BY HideAndDrawKeep DEF Terminals
<1> HIDE DEF x, y, h
<1>4. f \in Screens /\ Keeps(h.screen, f) BY <1>2, <1>3, FillKeeps, RowsFit
<1>5. n \in Terminals /\ n.screen = f BY <1>2, <1>4 DEF Terminals
<1>6. DrawCursor(n) \in Terminals /\ Keeps(n.screen, DrawCursor(n).screen)
  BY <1>5, HideAndDrawKeep
<1>7. Keeps(t.screen, DrawCursor(n).screen) BY <1>3, <1>4, <1>5, <1>6 DEF Keeps
<1>8. PutBackspace(t) = DrawCursor(n) BY DEF PutBackspace, x, y, h
<1>9. QED BY <1>6, <1>7, <1>8

LEMMA PutGlyphKeeps ==
    ASSUME NEW t \in Terminals, NEW ch \in Chars, glyph_size \in 1..BOOT_SIZE
    PROVE  PutGlyph(t, ch) \in Terminals /\ Keeps(t.screen, PutGlyph(t, ch).screen)
<1> DEFINE h == HideCursor(t)
           d == DrawChar(h.screen, t.x, t.y, ch)
           n == [screen |-> d, x |-> t.x, y |-> t.y]
<1>1. /\ t.x \in Columns /\ t.y \in 0..rows - 1
      /\ h.screen \in Screens /\ Keeps(t.screen, h.screen)
  BY HideAndDrawKeep DEF Terminals
<1>2. d \in Screens /\ Keeps(h.screen, d) BY <1>1, DrawCharKeeps
<1>3. n \in Terminals /\ n.screen = d BY <1>1, <1>2 DEF Terminals
<1>4. Advance(n) \in Terminals /\ Keeps(n.screen, Advance(n).screen) BY <1>3, AdvanceKeeps
<1>5. /\ DrawCursor(Advance(n)) \in Terminals
      /\ Keeps(Advance(n).screen, DrawCursor(Advance(n)).screen)
  BY <1>4, HideAndDrawKeep
<1>6. Keeps(t.screen, DrawCursor(Advance(n)).screen)
  BY <1>1, <1>2, <1>3, <1>4, <1>5 DEF Keeps
<1>7. QED BY <1>5, <1>6 DEF PutGlyph

LEMMA PutSpaceKeeps ==
    ASSUME NEW t \in Terminals, glyph_size \in 1..BOOT_SIZE
    PROVE  PutSpace(t) \in Terminals /\ Keeps(t.screen, PutSpace(t).screen)
<1> DEFINE h == HideCursor(t)
<1>1. h \in Terminals /\ Keeps(t.screen, h.screen) BY HideAndDrawKeep
<1>2. Advance(h) \in Terminals /\ Keeps(h.screen, Advance(h).screen) BY <1>1, AdvanceKeeps
<1>3. /\ DrawCursor(Advance(h)) \in Terminals
      /\ Keeps(Advance(h).screen, DrawCursor(Advance(h)).screen)
  BY <1>2, HideAndDrawKeep
<1>4. Keeps(t.screen, DrawCursor(Advance(h)).screen) BY <1>1, <1>2, <1>3 DEF Keeps
<1>5. QED BY <1>3, <1>4 DEF PutSpace

\* The echo of a backspace.
LEMMA RubOutKeeps ==
    ASSUME NEW t \in Terminals, glyph_size \in 1..BOOT_SIZE
    PROVE  LET e == PutBackspace(PutSpace(PutBackspace(t)))
           IN  e \in Terminals /\ Keeps(t.screen, e.screen)
<1> DEFINE a == PutBackspace(t)
           b == PutSpace(a)
<1>1. a \in Terminals /\ Keeps(t.screen, a.screen) BY PutBackspaceKeeps
<1>2. b \in Terminals /\ Keeps(a.screen, b.screen) BY <1>1, PutSpaceKeeps
<1>3. PutBackspace(b) \in Terminals /\ Keeps(b.screen, PutBackspace(b).screen)
  BY <1>2, PutBackspaceKeeps
<1>4. QED BY <1>1, <1>2, <1>3 DEF Keeps

LEMMA ClearedKeeps ==
    Cleared \in Terminals /\ Below(Cleared.screen)
BY RowsFit DEF Cleared, Terminals, Screens, Below

-----------------------------------------------------------------------------
LEMMA InitEstablishes == Init => IInv
<1> SUFFICES ASSUME Init PROVE IInv OBVIOUS
<1>1. /\ screen \in [Lines -> [Columns -> Parts]] /\ NothingBelow
      /\ cursor_x \in Columns /\ cursor_y \in 0..rows - 1
  BY RowsFit DEF Init, NothingBelow
<1>2. glyph_size \in 1..BOOT_SIZE /\ resized \in 0..MAX_RESIZES /\ SameFont
  BY RowsFit, ScreenAssumption DEF Init, SameFont
<1>3. line \in Seq(Chars) /\ Len(line) <= INPUT_MAX BY ScreenAssumption DEF Init
<1>4. reading \in BOOLEAN /\ Room BY DEF Init, Room
<1>5. QED BY <1>1, <1>2, <1>3, <1>4 DEF IInv, TypeOK

\* A call that shows a terminal, and leaves the font alone, keeps the invariant of the screen.
LEMMA ShowsPreserves ==
    ASSUME IInv, NEW t \in Terminals, Keeps(screen, t.screen), Shows(t),
           UNCHANGED <<glyph_size, resized>>
    PROVE  /\ screen' \in [Lines -> [Columns -> Parts]] /\ NothingBelow'
           /\ cursor_x' \in Columns /\ cursor_y' \in 0..rows - 1
           /\ glyph_size' \in 1..BOOT_SIZE /\ resized' \in 0..MAX_RESIZES /\ SameFont'
<1>1. t.screen \in Screens /\ t.x \in Columns /\ t.y \in 0..rows - 1 BY DEF Terminals
<1>2. /\ screen' \in [Lines -> [Columns -> Parts]]
      /\ cursor_x' \in Columns /\ cursor_y' \in 0..rows - 1
  BY <1>1 DEF Shows, Screens
<1>3. glyph_size' \in 1..BOOT_SIZE /\ resized' \in 0..MAX_RESIZES /\ SameFont'
  BY DEF IInv, TypeOK, SameFont
<1>4. ASSUME resized' = 0 PROVE Below(screen')
  <2>1. glyph_size = BOOT_SIZE /\ Below(screen)
    BY <1>4 DEF IInv, SameFont, NothingBelow, Below, rows
  <2>2. QED BY <2>1 DEF Keeps, Shows
<1>5. NothingBelow' BY <1>4 DEF NothingBelow, Below, rows
<1>6. QED BY <1>2, <1>3, <1>5

LEMMA ThisIsATerminal == IInv => This \in Terminals /\ This.screen = screen
BY DEF IInv, TypeOK, This, Terminals, Screens

\* A call made while no line is read.
LEMMA OtherCallPreserves ==
    ASSUME IInv, NEW t \in Terminals, Keeps(screen, t.screen), Shows(t), OtherCall
    PROVE  IInv'
<1>1. /\ screen' \in [Lines -> [Columns -> Parts]] /\ NothingBelow'
      /\ cursor_x' \in Columns /\ cursor_y' \in 0..rows - 1
      /\ glyph_size' \in 1..BOOT_SIZE /\ resized' \in 0..MAX_RESIZES /\ SameFont'
  BY ShowsPreserves DEF OtherCall
<1>2. reading' \in BOOLEAN /\ line' \in Seq(Chars) /\ Len(line') <= INPUT_MAX
  BY DEF IInv, TypeOK, OtherCall
<1>3. Room' BY DEF IInv, Room, OtherCall
<1>4. QED BY <1>1, <1>2, <1>3, RowsFit DEF IInv, TypeOK

LEMMA ClampIn ==
    ASSUME NEW i \in Int, NEW n \in Nat, n >= 1 PROVE Clamp(i, n) \in 0..n - 1
BY DEF Clamp

LEMMA MoveCursorPreserves ==
    ASSUME IInv, NEW row \in Int, NEW col \in Int, MoveCursor(row, col) PROVE IInv'
<1> DEFINE h == HideCursor(This)
           m == At(h, Clamp(col, COLS), Clamp(row, rows))
<1>1. glyph_size \in 1..BOOT_SIZE BY DEF IInv, TypeOK
<1>2. h.screen \in Screens /\ Keeps(screen, h.screen)
  BY <1>1, ThisIsATerminal, HideAndDrawKeep DEF Terminals
<1>3. Clamp(col, COLS) \in Columns /\ Clamp(row, rows) \in 0..rows - 1
  BY ClampIn, RowsFit DEF Columns
<1>4. m \in Terminals /\ m.screen = h.screen BY <1>2, <1>3 DEF At, Terminals
<1>5. DrawCursor(m) \in Terminals /\ Keeps(m.screen, DrawCursor(m).screen)
  BY <1>1, <1>4, HideAndDrawKeep
<1>6. Keeps(screen, DrawCursor(m).screen) BY <1>2, <1>4, <1>5 DEF Keeps
<1>7. Shows(DrawCursor(m)) /\ OtherCall BY DEF MoveCursor
<1>8. QED BY <1>5, <1>6, <1>7, OtherCallPreserves

LEMMA ClearLineFromPreserves ==
    ASSUME IInv, NEW col \in Int, ClearLineFrom(col) PROVE IInv'
<1> DEFINE from == IF col < 0 THEN 0 ELSE col
           left == [l \in Lines |-> [c \in Columns |->
                       IF c >= from /\ InRow(l, cursor_y) THEN Blank ELSE screen[l][c]]]
           m    == [screen |-> left, x |-> from, y |-> cursor_y]
<1>1. glyph_size \in 1..BOOT_SIZE /\ cursor_y \in 0..rows - 1 BY DEF IInv, TypeOK
<1>2. from \in Columns BY RowsFit DEF ClearLineFrom, Columns
<1>3. screen \in [Lines -> [Columns -> Parts]] BY DEF IInv, TypeOK
<1>4. left \in Screens BY <1>3, RowsFit DEF Screens
<1>5. Keeps(screen, left) BY DEF Keeps, Below
<1>6. m \in Terminals /\ m.screen = left BY <1>1, <1>2, <1>4 DEF Terminals
<1>7. DrawCursor(m) \in Terminals /\ Keeps(left, DrawCursor(m).screen)
  BY <1>1, <1>6, HideAndDrawKeep
<1>8. Keeps(screen, DrawCursor(m).screen) BY <1>5, <1>7 DEF Keeps
<1>9. Shows(DrawCursor(m)) /\ OtherCall BY DEF ClearLineFrom
<1>10. QED BY <1>7, <1>8, <1>9, OtherCallPreserves

LEMMA ChangeFontPreserves ==
    ASSUME IInv, NEW size \in Sizes, ChangeFont(size) PROVE IInv'
<1>1. size \in 1..BOOT_SIZE BY SizesAssumption
<1>2. /\ screen' = screen /\ cursor_x' = cursor_x /\ cursor_y' = cursor_y
      /\ reading' = reading /\ line' = line /\ glyph_size' = size
      /\ resized' = (IF size = glyph_size THEN resized ELSE resized + 1)
      /\ resized' <= MAX_RESIZES
  BY DEF ChangeFont
<1>3. resized' \in 0..MAX_RESIZES BY <1>2, ScreenAssumption DEF IInv, TypeOK
<1>4. resized' = 0 => resized = 0 /\ size = glyph_size BY <1>2 DEF IInv, TypeOK
<1>5. SameFont' /\ NothingBelow' /\ Room' BY <1>2, <1>4 DEF IInv, SameFont, NothingBelow, Room
<1>6. TypeOK' BY <1>1, <1>2, <1>3 DEF IInv, TypeOK, rows
<1>7. QED BY <1>5, <1>6 DEF IInv

\* A terminal is shown, and the line and its reading go on within their types.
LEMMA TypingPreserves ==
    ASSUME IInv, NEW t \in Terminals, Keeps(screen, t.screen), Shows(t), Typing,
           reading' \in BOOLEAN, line' \in Seq(Chars), Len(line') <= INPUT_MAX, Room'
    PROVE  IInv'
<1>1. /\ screen' \in [Lines -> [Columns -> Parts]] /\ NothingBelow'
      /\ cursor_x' \in Columns /\ cursor_y' \in 0..rows - 1
      /\ glyph_size' \in 1..BOOT_SIZE /\ resized' \in 0..MAX_RESIZES /\ SameFont'
  BY ShowsPreserves DEF Typing
<1>2. QED BY <1>1, RowsFit DEF IInv, TypeOK

LEMMA StepPreserves == IInv /\ [Next]_vars => IInv'
<1> SUFFICES ASSUME IInv, [Next]_vars PROVE IInv' OBVIOUS
<1> USE ThisIsATerminal
<1>0. glyph_size \in 1..BOOT_SIZE /\ This \in Terminals /\ This.screen = screen
      /\ Len(line) \in Nat /\ line \in Seq(Chars) /\ Len(line) <= INPUT_MAX
  BY DEF IInv, TypeOK
<1>1. ASSUME NEW ch \in Chars, WriteChar(ch) PROVE IInv'
  BY <1>0, <1>1, PutGlyphKeeps, OtherCallPreserves DEF WriteChar
<1>2. ASSUME NEW ch \in Chars, Type(ch) PROVE IInv'
  <2>1. /\ PutGlyph(This, ch) \in Terminals /\ Keeps(screen, PutGlyph(This, ch).screen)
        /\ Shows(PutGlyph(This, ch)) /\ Typing
    BY <1>0, <1>2, PutGlyphKeeps DEF Type
  <2>2. line' \in Seq(Chars) /\ Len(line') = Len(line) + 1 BY <1>0, <1>2 DEF Type
  <2>3. reading' = (Len(line) + 1 < INPUT_MAX) BY <1>2 DEF Type
  <2>4. reading' \in BOOLEAN BY <2>3
  <2>5. Len(line') <= INPUT_MAX
    BY <1>0, <1>2, <2>2, ScreenAssumption DEF Type, Typing, IInv, Room
  <2>6. Room' BY <2>2, <2>3 DEF Room
  <2>7. QED BY <2>1, <2>2, <2>4, <2>5, <2>6, TypingPreserves
<1>3. CASE WriteSpace BY <1>0, <1>3, PutSpaceKeeps, OtherCallPreserves DEF WriteSpace
<1>4. CASE WriteNewline BY <1>0, <1>4, PutNewlineKeeps, OtherCallPreserves DEF WriteNewline
<1>5. CASE WriteBackspace BY <1>0, <1>5, PutBackspaceKeeps, OtherCallPreserves DEF WriteBackspace
<1>6. CASE Clear
  BY <1>6, ClearedKeeps, OtherCallPreserves DEF Clear, Keeps
<1>7. ASSUME NEW row \in -1..rows, NEW col \in -1..COLS, MoveCursor(row, col) PROVE IInv'
  BY <1>7, MoveCursorPreserves, RowsFit
<1>8. ASSUME NEW col \in -1..COLS, ClearLineFrom(col) PROVE IInv'
  BY <1>8, ClearLineFromPreserves, RowsFit
<1>9. ASSUME NEW size \in Sizes, ChangeFont(size) PROVE IInv'
  BY <1>9, ChangeFontPreserves
<1>10. ASSUME NEW file \in ThemeFiles, ChangeTheme(file) PROVE IInv'
  <2>1. Keeps(screen, Cleared.screen) /\ Shows(Cleared) /\ Cleared \in Terminals
    BY <1>10, ClearedKeeps DEF ChangeTheme, Keeps
  <2>2. UNCHANGED <<glyph_size, reading, line, resized>> BY <1>10 DEF ChangeTheme
  <2>3. /\ screen' \in [Lines -> [Columns -> Parts]] /\ NothingBelow'
        /\ cursor_x' \in Columns /\ cursor_y' \in 0..rows - 1
        /\ glyph_size' \in 1..BOOT_SIZE /\ resized' \in 0..MAX_RESIZES /\ SameFont'
    BY <2>1, <2>2, ShowsPreserves
  <2>4. reading' \in BOOLEAN /\ line' \in Seq(Chars) /\ Len(line') <= INPUT_MAX
    BY <2>2 DEF IInv, TypeOK
  <2>5. Room' BY <2>2 DEF IInv, Room
  <2>6. QED BY <2>3, <2>4, <2>5, RowsFit DEF IInv, TypeOK
<1>11. CASE StartLine
  <2>1. UNCHANGED <<screen, cursor_x, cursor_y, glyph_size, resized>>
        /\ reading' = TRUE /\ line' = <<>>
    BY <1>11 DEF StartLine
  <2>2. reading' \in BOOLEAN BY <2>1
  <2>3. /\ screen' \in [Lines -> [Columns -> Parts]]
        /\ cursor_x' \in Columns /\ cursor_y' \in 0..rows - 1
        /\ glyph_size' \in 1..BOOT_SIZE /\ resized' \in 0..MAX_RESIZES
        /\ line' \in Seq(Chars) /\ Len(line') <= INPUT_MAX
    BY <2>1, ScreenAssumption DEF IInv, TypeOK
  <2>4. Room' /\ SameFont' /\ NothingBelow'
    BY <2>1, ScreenAssumption DEF Room, IInv, SameFont, NothingBelow
  <2>5. QED BY <2>2, <2>3, <2>4, RowsFit DEF IInv, TypeOK
<1>12. CASE RubOut
  <2>1. Shows(PutBackspace(PutSpace(PutBackspace(This)))) /\ Typing BY <1>12 DEF RubOut
  <2>2. line' \in Seq(Chars) /\ Len(line') <= INPUT_MAX
    BY <1>0, <1>12, ScreenAssumption DEF RubOut
  <2>3. reading' \in BOOLEAN BY <1>12 DEF RubOut, IInv, TypeOK
  <2>4. Room' BY <1>0, <1>12, ScreenAssumption DEF RubOut, IInv, Room
  <2>5. QED BY <1>0, <2>1, <2>2, <2>3, <2>4, RubOutKeeps, TypingPreserves
<1>13. CASE Enter
  <2>1. Shows(PutNewline(This)) /\ Typing BY <1>13 DEF Enter
  <2>2. line' \in Seq(Chars) /\ Len(line') <= INPUT_MAX BY <1>13, ScreenAssumption DEF Enter
  <2>3. reading' \in BOOLEAN /\ Room' BY <1>13 DEF Enter, Room
  <2>4. QED BY <1>0, <2>1, <2>2, <2>3, PutNewlineKeeps, TypingPreserves
<1>14. CASE UNCHANGED vars
  BY <1>14 DEF vars, IInv, TypeOK, SameFont, NothingBelow, Room
<1>15. QED
  BY <1>1, <1>2, <1>3, <1>4, <1>5, <1>6, <1>7, <1>8, <1>9, <1>10, <1>11, <1>12, <1>13, <1>14
     DEF Next

\* The inductive invariant holds in every reachable state.
THEOREM InductiveInvariant == Spec => []IInv
<1>1. QED BY InitEstablishes, StepPreserves, PTL DEF Spec

\* Whatever is written, typed, or chosen for a font, the terminal's fields keep to their
\* types: the cursor is in one of the rows and columns (gterminal.c).
THEOREM TypeCorrect == Spec => []TypeOK
<1>1. IInv => TypeOK BY DEF IInv
<1>2. QED BY <1>1, InductiveInvariant, PTL

\* The cursor is in a column and the pixels of its row are all on the screen, with the
\* font that was loaded last, as long as it is not higher than the one of the boot
\* (gterminal_putchar, console_changefont).
THEOREM CursorStaysOnScreen == Spec => []CursorOnScreen
<1>1. IInv => CursorOnScreen
  <2> SUFFICES ASSUME IInv PROVE (cursor_y + 1) * glyph_size <= HEIGHT
    BY DEF CursorOnScreen, IInv, TypeOK
  <2>1. cursor_y \in 0..rows - 1 /\ glyph_size \in 1..BOOT_SIZE BY DEF IInv, TypeOK
  <2>2. cursor_y + 1 \in Nat /\ cursor_y + 1 <= rows /\ glyph_size \in Nat BY <2>1, RowsFit
  <2>3. (cursor_y + 1) * glyph_size <= rows * glyph_size BY <2>2, RowsOrdered, RowsFit
  <2>4. glyph_size * rows <= BOOT_SIZE * rows BY <2>1, <2>2, RowsOrdered, RowsFit
  <2>5. glyph_size * rows = rows * glyph_size /\ BOOT_SIZE * rows = rows * BOOT_SIZE
    BY <2>2, RowsFit
  <2>6. /\ (cursor_y + 1) * glyph_size \in Nat /\ rows * glyph_size \in Nat
        /\ rows * BOOT_SIZE \in Nat
    BY <2>2, RowsFit
  <2>7. QED BY <2>3, <2>4, <2>5, <2>6, RowsFit
<1>2. QED BY <1>1, InductiveInvariant, PTL

\* The lines below the last row stay blank, so that scrolling brings a blank row
\* (gterminal_scroll), whatever the height of the screen.
THEOREM NothingDrawnBelow == Spec => []NothingBelow
<1>1. IInv => NothingBelow BY DEF IInv
<1>2. QED BY <1>1, InductiveInvariant, PTL

-----------------------------------------------------------------------------
\* The page as a sequence of places, and what a call does to each of its cells.
\* A place in the page is in one row and one column.
LEMMA PlaceDivides ==
    ASSUME NEW n \in Nat, n >= 1, NEW y \in Nat, NEW x \in 0..n - 1
    PROVE  (y * n + x) \div n = y /\ (y * n + x) % n = x
<1> DEFINE p == y * n + x
           q == p \div n
           r == p % n
<1>1. p \in Nat /\ q \in Nat /\ r \in 0..n - 1 /\ p = q * n + r
  <2>1. y * n \in Nat OBVIOUS
  <2>2. p \in Nat BY <2>1
  <2> HIDE DEF p
  <2>3. QED BY <2>2
<1>2. q * n \in Nat /\ y * n \in Nat /\ q * n + r = y * n + x BY <1>1
<1> HIDE DEF p, q, r
<1>3. q = y
  <2>1. ASSUME q + 1 <= y PROVE FALSE
    <3>1. (q + 1) * n <= y * n BY <1>1, <2>1, RowsOrdered
    <3>2. (q + 1) * n = q * n + n BY <1>1
    <3>3. QED BY <1>1, <1>2, <3>1, <3>2
  <2>2. ASSUME y + 1 <= q PROVE FALSE
    <3>1. (y + 1) * n <= q * n BY <1>1, <2>2, RowsOrdered
    <3>2. (y + 1) * n = y * n + n OBVIOUS
    <3>3. QED BY <1>1, <1>2, <3>1, <3>2
  <2>3. QED BY <1>1, <2>1, <2>2
<1>4. r = x BY <1>1, <1>2, <1>3
<1>5. QED BY <1>3, <1>4 DEF p, q, r

\* The page as a sequence of places; what the screen shows at one; and a whole glyph.
Places      == 0..rows * COLS - 1
Cell(s, p)  == [i \in 0..glyph_size - 1 |-> s[(p \div COLS) * glyph_size + i][p % COLS]]
Glyph(ch)   == [i \in 0..glyph_size - 1 |-> Part(ch, i)]
Place(t)    == t.y * COLS + t.x

LEMMA PlaceOfCursor ==
    ASSUME NEW x \in Columns, NEW y \in 0..rows - 1
    PROVE  /\ y * COLS + x \in Places
           /\ (y * COLS + x) \div COLS = y /\ (y * COLS + x) % COLS = x
<1>1. COLS \in Nat /\ COLS >= 1 /\ x \in 0..COLS - 1 /\ y \in Nat /\ y + 1 <= rows /\ rows \in Nat
  BY RowsFit DEF Columns
<1>2. (y + 1) * COLS <= rows * COLS BY <1>1, RowsOrdered
<1>3. (y + 1) * COLS = y * COLS + COLS /\ y * COLS \in Nat /\ rows * COLS \in Nat BY <1>1
<1>4. y * COLS + x \in Places BY <1>1, <1>2, <1>3 DEF Places
<1>5. QED BY <1>1, <1>4, PlaceDivides

LEMMA PlaceInPage ==
    ASSUME NEW p \in Places
    PROVE  /\ p \div COLS \in 0..rows - 1 /\ p % COLS \in Columns
           /\ p = (p \div COLS) * COLS + (p % COLS)
<1> DEFINE q == p \div COLS
           r == p % COLS
<1>1. COLS \in Nat /\ COLS >= 1 /\ rows \in Nat /\ rows * COLS \in Nat BY RowsFit
<1>2. p \in Nat /\ p < rows * COLS BY <1>1 DEF Places
<1>3. q \in Nat /\ r \in 0..COLS - 1 /\ p = q * COLS + r BY <1>1, <1>2
<1> HIDE DEF q, r
<1>4. ASSUME rows <= q PROVE FALSE
  <2>1. rows * COLS <= q * COLS BY <1>1, <1>3, <1>4, RowsOrdered
  <2>2. q * COLS \in Nat BY <1>1, <1>3
  <2>3. QED BY <1>1, <1>2, <1>3, <2>1, <2>2
<1>5. QED BY <1>1, <1>3, <1>4 DEF q, r, Columns

\* Lines of pixels of a row are on the screen, and in no other row.
LEMMA LinesOfRow ==
    ASSUME NEW y \in 0..rows - 1, NEW i \in 0..glyph_size - 1, glyph_size \in 1..BOOT_SIZE
    PROVE  /\ y * glyph_size + i \in Lines
           /\ \A z \in Nat : InRow(y * glyph_size + i, z) <=> z = y
<1> DEFINE g == glyph_size
<1>1. g \in Nat /\ g >= 1 /\ g <= BOOT_SIZE /\ y \in Nat /\ y + 1 <= rows /\ rows \in Nat
      /\ i \in Nat /\ i < g /\ HEIGHT \in Nat /\ BOOT_SIZE \in Nat
  BY RowsFit
<1> HIDE DEF g
<1>2. (y + 1) * g <= rows * g BY <1>1, RowsOrdered
<1>3. g * rows <= BOOT_SIZE * rows BY <1>1, RowsOrdered
<1>4. g * rows = rows * g /\ BOOT_SIZE * rows = rows * BOOT_SIZE BY <1>1
<1>5. (y + 1) * g = y * g + g /\ y * g \in Nat /\ rows * g \in Nat /\ rows * BOOT_SIZE \in Nat
  BY <1>1
<1>6. y * g + i \in Lines BY <1>1, <1>2, <1>3, <1>4, <1>5, RowsFit DEF Lines
<1>7. ASSUME NEW z \in Nat, z * g <= y * g + i, y * g + i < (z + 1) * g PROVE z = y
  <2>1. (z + 1) * g = z * g + g /\ z * g \in Nat BY <1>1
  <2>2. ASSUME z + 1 <= y PROVE FALSE
    <3>1. (z + 1) * g <= y * g BY <1>1, <2>2, RowsOrdered
    <3>2. QED BY <1>1, <1>5, <1>7, <2>1, <3>1
  <2>3. ASSUME y + 1 <= z PROVE FALSE
    <3>1. (y + 1) * g <= z * g BY <1>1, <2>3, RowsOrdered
    <3>2. QED BY <1>1, <1>5, <1>7, <2>1, <3>1
  <2>4. QED BY <1>1, <2>2, <2>3
<1>8. y * g <= y * g + i /\ y * g + i < (y + 1) * g BY <1>1, <1>5
<1>9. QED BY <1>6, <1>7, <1>8 DEF InRow, g

\* A filled cell shows its filling, and the others what they did.
LEMMA CellFill ==
    ASSUME NEW s \in Screens, NEW x \in Columns, NEW y \in 0..rows - 1, NEW b,
           glyph_size \in 1..BOOT_SIZE, NEW p \in Places
    PROVE  Cell(Fill(s, x, y, b), p)
               = IF p = y * COLS + x THEN [i \in 0..glyph_size - 1 |-> b] ELSE Cell(s, p)
<1> DEFINE z == p \div COLS
           c == p % COLS
<1>1. z \in 0..rows - 1 /\ c \in Columns /\ p = z * COLS + c BY PlaceInPage
<1>2. p = y * COLS + x <=> z = y /\ c = x
  <2>1. (y * COLS + x) \div COLS = y /\ (y * COLS + x) % COLS = x BY PlaceOfCursor
  <2>2. QED BY <1>1, <2>1
<1> HIDE DEF z, c
<1>3. ASSUME NEW i \in 0..glyph_size - 1
      PROVE  Fill(s, x, y, b)[z * glyph_size + i][c]
                 = IF p = y * COLS + x THEN b ELSE s[z * glyph_size + i][c]
  <2>1. z * glyph_size + i \in Lines /\ (InRow(z * glyph_size + i, y) <=> y = z)
    BY <1>1, LinesOfRow
  <2> DEFINE l == z * glyph_size + i
  <2> HIDE DEF l
  <2>2. l \in Lines /\ (InRow(l, y) <=> y = z) BY <2>1 DEF l
  <2>3. Fill(s, x, y, b)[l][c] = IF c = x /\ InRow(l, y) THEN b ELSE s[l][c]
    BY <1>1, <2>2 DEF Fill
  <2>4. QED BY <1>2, <2>2, <2>3 DEF l
<1>4. QED BY <1>3 DEF Cell, z, c

\* On a blank cell, a glyph is drawn as it is.
LEMMA CellDraw ==
    ASSUME NEW s \in Screens, NEW x \in Columns, NEW y \in 0..rows - 1, NEW ch \in Chars,
           glyph_size \in 1..BOOT_SIZE, Cell(s, y * COLS + x) = [i \in 0..glyph_size - 1 |-> Blank],
           NEW p \in Places
    PROVE  Cell(DrawChar(s, x, y, ch), p) = IF p = y * COLS + x THEN Glyph(ch) ELSE Cell(s, p)
<1> DEFINE z == p \div COLS
           c == p % COLS
<1>1. z \in 0..rows - 1 /\ c \in Columns /\ p = z * COLS + c BY PlaceInPage
<1>2. p = y * COLS + x <=> z = y /\ c = x
  <2>1. (y * COLS + x) \div COLS = y /\ (y * COLS + x) % COLS = x BY PlaceOfCursor
  <2>2. QED BY <1>1, <2>1
<1>3. ASSUME p = y * COLS + x, NEW i \in 0..glyph_size - 1 PROVE s[z * glyph_size + i][c] = Blank
  <2>1. Cell(s, p) = [j \in 0..glyph_size - 1 |-> Blank] BY <1>3
  <2>2. Cell(s, p)[i] = Blank BY <2>1
  <2>3. QED BY <2>2 DEF Cell
<1> HIDE DEF z, c
<1>4. ASSUME NEW i \in 0..glyph_size - 1
      PROVE  DrawChar(s, x, y, ch)[z * glyph_size + i][c]
                 = IF p = y * COLS + x THEN Part(ch, i) ELSE s[z * glyph_size + i][c]
  <2>1. z * glyph_size + i \in Lines /\ (InRow(z * glyph_size + i, y) <=> y = z)
    BY <1>1, LinesOfRow
  <2> DEFINE l == z * glyph_size + i
  <2>2. y = z => l - y * glyph_size = i
    <3>1. z * glyph_size \in Nat /\ i \in Nat BY <1>1, RowsFit
    <3>2. QED BY <3>1
  <2> HIDE DEF l
  <2>3. l \in Lines /\ (InRow(l, y) <=> y = z) BY <2>1 DEF l
  <2>4. DrawChar(s, x, y, ch)[l][c]
            = IF c = x /\ InRow(l, y)
              THEN IF s[l][c] = Blank THEN Part(ch, l - y * glyph_size) ELSE Mess
              ELSE s[l][c]
    BY <1>1, <2>3 DEF DrawChar
  <2>5. p = y * COLS + x => s[l][c] = Blank BY <1>3 DEF l
  <2>6. QED BY <1>2, <2>2, <2>3, <2>4, <2>5 DEF l
<1>5. QED BY <1>4 DEF Cell, Glyph, z, c

\* Scrolling moves every cell up by a row, and the last row is blank if nothing was below it.
LEMMA CellScroll ==
    ASSUME NEW s \in Screens, NEW x, NEW y, glyph_size \in 1..BOOT_SIZE, NEW p \in Places
    PROVE  LET up == Scroll([screen |-> s, x |-> x, y |-> y]).screen
           IN  /\ p + COLS \in Places => Cell(up, p) = Cell(s, p + COLS)
               /\ (glyph_size = BOOT_SIZE /\ Below(s) /\ p + COLS \notin Places)
                      => Cell(up, p) = [i \in 0..glyph_size - 1 |-> Blank]
<1> DEFINE up == Scroll([screen |-> s, x |-> x, y |-> y]).screen
           z  == p \div COLS
           c  == p % COLS
<1>1. z \in 0..rows - 1 /\ c \in Columns /\ p = z * COLS + c BY PlaceInPage
<1>2. up = [l \in Lines |-> IF l < HEIGHT - glyph_size THEN s[l + glyph_size]
                            ELSE [k \in Columns |-> Blank]]
  BY DEF Scroll
<1>3. COLS \in Nat /\ COLS >= 1 /\ p \in Nat /\ glyph_size \in Nat /\ HEIGHT \in Nat
  BY RowsFit DEF Places
<1>4. ASSUME p + COLS \in Places PROVE Cell(up, p) = Cell(s, p + COLS)
  <2>1. (p + COLS) \div COLS = z + 1 /\ (p + COLS) % COLS = c
    <3>1. p + COLS = (z + 1) * COLS + c /\ z + 1 \in Nat /\ c \in 0..COLS - 1
      BY <1>1, <1>3, RowsFit DEF Columns
    <3> DEFINE w == z + 1
    <3> HIDE DEF z, c, w
    <3>2. ((z + 1) * COLS + c) \div COLS = z + 1 /\ ((z + 1) * COLS + c) % COLS = c
      <4>1. w \in Nat /\ c \in 0..COLS - 1 BY <3>1 DEF w
      <4>2. (w * COLS + c) \div COLS = w /\ (w * COLS + c) % COLS = c
        BY <1>3, <4>1, PlaceDivides
      <4>3. QED BY <4>2 DEF w
    <3>3. QED BY <3>1, <3>2
  <2>2. z + 1 \in 0..rows - 1 BY <1>4, <2>1, PlaceInPage
  <2> HIDE DEF z, c, up
  <2>3. ASSUME NEW i \in 0..glyph_size - 1
        PROVE  up[z * glyph_size + i][c] = s[(z + 1) * glyph_size + i][c]
    <3>1. z * glyph_size + i \in Lines /\ (z + 1) * glyph_size + i \in Lines
      BY <1>1, <2>2, LinesOfRow
    <3>2. (z + 1) * glyph_size + i = (z * glyph_size + i) + glyph_size
      <4>1. z \in Nat BY <1>1, RowsFit
      <4>2. QED BY <1>3, <4>1
    <3>3. z * glyph_size + i < HEIGHT - glyph_size BY <1>3, <3>1, <3>2 DEF Lines
    <3>4. QED BY <1>2, <3>1, <3>2, <3>3
  <2>4. Cell(up, p) = [i \in 0..glyph_size - 1 |-> up[z * glyph_size + i][c]] BY DEF Cell, z, c
  <2>5. Cell(s, p + COLS) = [i \in 0..glyph_size - 1 |-> s[(z + 1) * glyph_size + i][c]]
    BY <2>1 DEF Cell
  <2>6. QED BY <2>3, <2>4, <2>5
<1>5. ASSUME glyph_size = BOOT_SIZE, Below(s), p + COLS \notin Places
      PROVE  Cell(up, p) = [i \in 0..glyph_size - 1 |-> Blank]
  <2> HIDE DEF z, c, up
  <2>1. z = rows - 1
    <3>1. ASSUME z + 1 <= rows - 1 PROVE FALSE
      <4>1. z + 1 \in 0..rows - 1 BY <1>1, <3>1, RowsFit
      <4>2. (z + 1) * COLS + c \in Places BY <1>1, <4>1, PlaceOfCursor
      <4>3. (z + 1) * COLS + c = p + COLS BY <1>1, <1>3, RowsFit DEF Columns
      <4>4. QED BY <1>5, <4>2, <4>3
    <3>2. QED BY <1>1, <3>1, RowsFit
  <2>2. ASSUME NEW i \in 0..glyph_size - 1 PROVE up[z * glyph_size + i][c] = Blank
    <3> DEFINE l == z * glyph_size + i
    <3>1. l \in Lines BY <1>1, LinesOfRow
    <3>2. l + glyph_size >= rows * BOOT_SIZE
      <4>1. z * glyph_size + glyph_size = rows * BOOT_SIZE BY <1>3, <1>5, <2>1, RowsFit
      <4>2. z * glyph_size \in Nat /\ rows * BOOT_SIZE \in Nat BY <1>1, <1>3, RowsFit
      <4>3. QED BY <1>3, <4>1, <4>2
    <3> HIDE DEF l
    <3>3. CASE l < HEIGHT - glyph_size
      <4>1. l + glyph_size \in Lines BY <1>3, <3>1, <3>3 DEF Lines
      <4>2. s[l + glyph_size][c] = Blank BY <1>1, <1>5, <3>2, <4>1 DEF Below
      <4>3. QED BY <1>2, <3>1, <3>3, <4>2 DEF l
    <3>4. CASE ~(l < HEIGHT - glyph_size) BY <1>1, <1>2, <3>1, <3>4 DEF l
    <3>5. QED BY <3>3, <3>4
  <2>3. Cell(up, p) = [i \in 0..glyph_size - 1 |-> up[z * glyph_size + i][c]] BY DEF Cell, z, c
  <2>4. QED BY <2>2, <2>3
<1>6. QED BY <1>4, <1>5

Size == rows * COLS

\* What is at p after scrolling.
Up(s, p) == IF p + COLS \in Places THEN Cell(s, p + COLS) ELSE Glyph(" ")

(* The terminal t shows the page of s, with the cursor drawn at the place p: moved
   up by a row when p is past the end.  What comes in at the end is known only if
   nothing is below the last row.                                              *)
Arrived(t, s, p) ==
    IF p < Size
    THEN /\ Place(t) = p
         /\ \A q \in Places : Cell(t.screen, q) = IF q = p THEN Glyph("block") ELSE Cell(s, q)
    ELSE /\ Place(t) = p - COLS
         /\ \A q \in Places :
               q + COLS \in Places \/ (glyph_size = BOOT_SIZE /\ Below(s))
                   => Cell(t.screen, q) = IF q = p - COLS THEN Glyph("block") ELSE Up(s, q)

LEMMA PlainGlyphs ==
    /\ Glyph(" ") = [i \in 0..glyph_size - 1 |-> Blank]
    /\ Glyph("block") = [i \in 0..glyph_size - 1 |-> Block]
<1>1. " " \notin Chars /\ "block" \notin Chars BY CharsAssumption
<1>2. QED BY <1>1 DEF Glyph, Part, Blank, Block

LEMMA SizeOfPage ==
    /\ Size \in Nat /\ COLS \in Nat /\ COLS >= 1 /\ rows \in Nat /\ rows >= 1
    /\ Places = 0..Size - 1 /\ COLS <= Size
<1>1. rows \in Nat /\ rows >= 1 /\ COLS \in Nat /\ COLS >= 1 BY RowsFit
<1>2. 1 * COLS <= rows * COLS BY <1>1, RowsOrdered
<1>3. QED BY <1>1, <1>2 DEF Size, Places

\* Hiding the cursor leaves a blank in its place, drawing it a block.
LEMMA CellsHidden ==
    ASSUME NEW t \in Terminals, glyph_size \in 1..BOOT_SIZE
    PROVE  /\ \A q \in Places : Cell(HideCursor(t).screen, q)
                                    = IF q = Place(t) THEN Glyph(" ") ELSE Cell(t.screen, q)
           /\ \A q \in Places : Cell(DrawCursor(t).screen, q)
                                    = IF q = Place(t) THEN Glyph("block") ELSE Cell(t.screen, q)
<1>1. t.screen \in Screens /\ t.x \in Columns /\ t.y \in 0..rows - 1 BY DEF Terminals
<1>2. /\ HideCursor(t).screen = Fill(t.screen, t.x, t.y, Blank)
      /\ DrawCursor(t).screen = Fill(t.screen, t.x, t.y, Block)
  BY DEF HideCursor, DrawCursor
<1>3. ASSUME NEW b, NEW q \in Places
      PROVE  Cell(Fill(t.screen, t.x, t.y, b), q)
                 = IF q = t.y * COLS + t.x THEN [i \in 0..glyph_size - 1 |-> b]
                   ELSE Cell(t.screen, q)
  BY <1>1, CellFill
<1>4. /\ Glyph(" ") = [i \in 0..glyph_size - 1 |-> Blank]
      /\ Glyph("block") = [i \in 0..glyph_size - 1 |-> Block]
  BY PlainGlyphs
<1>5. ASSUME NEW q \in Places
      PROVE  Cell(HideCursor(t).screen, q) = IF q = Place(t) THEN Glyph(" ") ELSE Cell(t.screen, q)
  <2>1. Cell(Fill(t.screen, t.x, t.y, Blank), q)
            = IF q = Place(t) THEN [i \in 0..glyph_size - 1 |-> Blank] ELSE Cell(t.screen, q)
    BY <1>3, <1>5 DEF Place
  <2>2. QED BY <1>2, <1>4, <2>1
<1>6. ASSUME NEW q \in Places
      PROVE  Cell(DrawCursor(t).screen, q) = IF q = Place(t) THEN Glyph("block") ELSE Cell(t.screen, q)
  <2>1. Cell(Fill(t.screen, t.x, t.y, Block), q)
            = IF q = Place(t) THEN [i \in 0..glyph_size - 1 |-> Block] ELSE Cell(t.screen, q)
    BY <1>3, <1>6 DEF Place
  <2>2. QED BY <1>2, <1>4, <2>1
<1>7. QED BY <1>5, <1>6

LEMMA ArrivedInPage ==
    ASSUME NEW t \in Terminals, glyph_size \in 1..BOOT_SIZE
    PROVE  Place(t) \in Places /\ Arrived(DrawCursor(t), t.screen, Place(t))
<1>1. t.x \in Columns /\ t.y \in 0..rows - 1 BY DEF Terminals
<1>2. Place(t) \in Places BY <1>1, PlaceOfCursor DEF Place
<1>3. Place(DrawCursor(t)) = Place(t) BY HideAndDrawKeep DEF Place
<1>4. Place(t) < Size BY <1>2, SizeOfPage
<1>5. QED BY <1>2, <1>3, <1>4, CellsHidden DEF Arrived

LEMMA ArrivedAt ==
    ASSUME NEW s \in Screens, NEW x \in Columns, NEW y \in 0..rows, glyph_size \in 1..BOOT_SIZE
    PROVE  Arrived(DrawCursor(ScrollIfBelow([screen |-> s, x |-> x, y |-> y])), s, y * COLS + x)
<1> DEFINE u == [screen |-> s, x |-> x, y |-> y]
           t == ScrollIfBelow(u)
           d == DrawCursor(t)
           p == y * COLS + x
<1>0. x \in 0..COLS - 1 /\ y \in Nat /\ COLS \in Nat /\ COLS >= 1 /\ rows \in Nat /\ rows >= 1
  BY SizeOfPage DEF Columns
<1>1. CASE y < rows
  <2>1. t = u /\ y \in 0..rows - 1 BY <1>0, <1>1 DEF ScrollIfBelow
  <2>2. u \in Terminals /\ u.screen = s /\ Place(u) = p BY <2>1 DEF Terminals, Place
  <2>3. QED BY <2>1, <2>2, ArrivedInPage
<1>2. CASE y >= rows
  <2>1. y = rows /\ p = Size + x /\ Size \in Nat BY <1>0, <1>2, SizeOfPage DEF Size
  <2>2. t = Scroll(u) /\ t.x = x /\ t.y = rows - 1 BY <1>2, <2>1 DEF ScrollIfBelow, Scroll
  <2>3. t \in Terminals BY ScrollIfBelowKeeps
  <2>4. Place(t) = p - COLS
    <3>1. (rows - 1) * COLS = rows * COLS - COLS BY <1>0
    <3>2. QED BY <1>0, <2>1, <2>2, <3>1 DEF Place, Size
  <2>5. Place(d) = p - COLS BY <2>3, <2>4, HideAndDrawKeep DEF Place
  <2>6. ~(p < Size) BY <1>0, <2>1
  <2>7. ASSUME NEW q \in Places, q + COLS \in Places \/ (glyph_size = BOOT_SIZE /\ Below(s))
        PROVE  Cell(d.screen, q) = IF q = p - COLS THEN Glyph("block") ELSE Up(s, q)
    <3>1. Cell(d.screen, q) = IF q = p - COLS THEN Glyph("block") ELSE Cell(t.screen, q)
      BY <2>3, <2>4, CellsHidden
    <3>2. q + COLS \in Places => Cell(t.screen, q) = Cell(s, q + COLS) BY <2>2, CellScroll
    <3>3. q + COLS \notin Places => Cell(t.screen, q) = Glyph(" ")
      <4>1. (glyph_size = BOOT_SIZE /\ Below(s) /\ q + COLS \notin Places)
                => Cell(Scroll(u).screen, q) = [i \in 0..glyph_size - 1 |-> Blank]
        BY CellScroll
      <4>2. QED BY <2>2, <2>7, <4>1, PlainGlyphs
    <3>4. QED BY <3>1, <3>2, <3>3 DEF Up
  <2> HIDE DEF d, p
  <2>8. QED BY <2>5, <2>6, <2>7 DEF Arrived, d, p
<1>3. QED BY <1>0, <1>1, <1>2

\* Going on to the next place.
LEMMA ArrivedNext ==
    ASSUME NEW t \in Terminals, glyph_size \in 1..BOOT_SIZE
    PROVE  Arrived(DrawCursor(Advance(t)), t.screen, Place(t) + 1)
<1>1. t.screen \in Screens /\ t.x \in 0..COLS - 1 /\ t.y \in 0..rows - 1
  BY DEF Terminals, Columns
<1>2. COLS \in Nat /\ COLS >= 1 /\ rows \in Nat /\ rows >= 1 BY SizeOfPage
<1>3. CASE t.x + 1 >= COLS
  <2>1. Advance(t) = ScrollIfBelow([screen |-> t.screen, x |-> 0, y |-> t.y + 1])
    BY <1>3 DEF Advance, At
  <2>2. 0 \in Columns /\ t.y + 1 \in 0..rows BY <1>1, <1>2 DEF Columns
  <2>3. (t.y + 1) * COLS + 0 = Place(t) + 1
    <3>1. (t.y + 1) * COLS = t.y * COLS + COLS /\ t.y * COLS \in Nat BY <1>1, <1>2
    <3>2. t.x + 1 = COLS BY <1>1, <1>2, <1>3
    <3>3. QED BY <1>1, <1>2, <3>1, <3>2 DEF Place
  <2>4. Arrived(DrawCursor(Advance(t)), t.screen, (t.y + 1) * COLS + 0)
    BY <1>1, <2>1, <2>2, ArrivedAt
  <2>5. QED BY <2>3, <2>4
<1>4. CASE ~(t.x + 1 >= COLS)
  <2> DEFINE u == [screen |-> t.screen, x |-> t.x + 1, y |-> t.y]
  <2>1. Advance(t) = u BY <1>4 DEF Advance, At
  <2>2. u \in Terminals BY <1>1, <1>2, <1>4 DEF Terminals, Columns
  <2>3. Place(u) = Place(t) + 1
    <3>1. t.y * COLS \in Nat BY <1>1, <1>2
    <3>2. QED BY <1>1, <3>1 DEF Place
  <2>4. QED BY <2>1, <2>2, <2>3, ArrivedInPage
<1>5. QED BY <1>3, <1>4

\* The page of s is the page of u with the glyph of ch at p.
Redrawn(s, u, p, ch) == \A q \in Places : Cell(s, q) = IF q = p THEN Glyph(ch) ELSE Cell(u, q)

Before(p) == IF p = 0 THEN 0 ELSE p - 1

(* A call leaves the cursor at the place to, on a page where the glyph of ch has
   replaced what was at the old place.                                         *)
Writes(t, ch, e, to) ==
    \E s \in Screens : /\ Keeps(t.screen, s)
                       /\ Redrawn(s, t.screen, Place(t), ch)
                       /\ Arrived(e, s, to)

LEMMA GlyphPage ==
    ASSUME NEW t \in Terminals, NEW ch \in Chars, glyph_size \in 1..BOOT_SIZE
    PROVE  Writes(t, ch, PutGlyph(t, ch), Place(t) + 1)
<1> DEFINE h == HideCursor(t)
           d == DrawChar(h.screen, t.x, t.y, ch)
           n == [screen |-> d, x |-> t.x, y |-> t.y]
<1>1. /\ t.x \in Columns /\ t.y \in 0..rows - 1 /\ t.screen \in Screens
      /\ h \in Terminals /\ h.screen \in Screens /\ Keeps(t.screen, h.screen)
  BY HideAndDrawKeep DEF Terminals
<1>2. d \in Screens /\ Keeps(h.screen, d) BY <1>1, DrawCharKeeps
<1>3. Redrawn(h.screen, t.screen, Place(t), " ") BY CellsHidden DEF Redrawn
<1>4. Place(t) \in Places BY ArrivedInPage
<1> HIDE DEF h
<1>5. Cell(h.screen, t.y * COLS + t.x) = [i \in 0..glyph_size - 1 |-> Blank]
  BY <1>3, <1>4, PlainGlyphs DEF Redrawn, Place
<1>6. ASSUME NEW q \in Places
      PROVE  Cell(d, q) = IF q = Place(t) THEN Glyph(ch) ELSE Cell(h.screen, q)
  BY <1>1, <1>5, CellDraw DEF Place
<1> HIDE DEF d
<1>7. Redrawn(d, t.screen, Place(t), ch) BY <1>3, <1>6 DEF Redrawn
<1>8. n \in Terminals /\ n.screen = d /\ Place(n) = Place(t) BY <1>1, <1>2 DEF Terminals, Place
<1>9. Arrived(DrawCursor(Advance(n)), n.screen, Place(n) + 1) BY <1>8, ArrivedNext
<1>10. PutGlyph(t, ch) = DrawCursor(Advance(n)) BY DEF PutGlyph, d, h
<1>11. Arrived(PutGlyph(t, ch), d, Place(t) + 1) BY <1>8, <1>9, <1>10
<1>12. Keeps(t.screen, d) BY <1>1, <1>2 DEF Keeps
<1>13. QED BY <1>2, <1>7, <1>11, <1>12 DEF Writes

LEMMA SpacePage ==
    ASSUME NEW t \in Terminals, glyph_size \in 1..BOOT_SIZE
    PROVE  Writes(t, " ", PutSpace(t), Place(t) + 1)
<1> DEFINE h == HideCursor(t)
<1>1. h \in Terminals /\ h.screen \in Screens /\ Keeps(t.screen, h.screen) /\ Place(h) = Place(t)
  BY HideAndDrawKeep DEF Terminals, Place
<1>2. Redrawn(h.screen, t.screen, Place(t), " ") BY CellsHidden DEF Redrawn
<1>3. Arrived(PutSpace(t), h.screen, Place(t) + 1) BY <1>1, ArrivedNext DEF PutSpace
<1> HIDE DEF h
<1>4. QED BY <1>1, <1>2, <1>3 DEF Writes

LEMMA NewlinePage ==
    ASSUME NEW t \in Terminals, glyph_size \in 1..BOOT_SIZE
    PROVE  Writes(t, " ", PutNewline(t), (t.y + 1) * COLS)
<1> DEFINE h == HideCursor(t)
<1>1. /\ h \in Terminals /\ h.screen \in Screens /\ Keeps(t.screen, h.screen)
      /\ t.y + 1 \in 0..rows /\ 0 \in Columns
  BY HideAndDrawKeep, RowsFit DEF Terminals
<1>2. Redrawn(h.screen, t.screen, Place(t), " ") BY CellsHidden DEF Redrawn
<1>3. At(h, 0, t.y + 1) = [screen |-> h.screen, x |-> 0, y |-> t.y + 1] BY DEF At
<1>4. PutNewline(t) = DrawCursor(ScrollIfBelow([screen |-> h.screen, x |-> 0, y |-> t.y + 1]))
  BY <1>3 DEF PutNewline
<1> HIDE DEF h
<1>5. Arrived(PutNewline(t), h.screen, (t.y + 1) * COLS + 0) BY <1>1, <1>4, ArrivedAt
<1>6. (t.y + 1) * COLS + 0 = (t.y + 1) * COLS
  <2>1. (t.y + 1) * COLS \in Nat BY <1>1, RowsFit
  <2>2. QED BY <2>1
<1>7. QED BY <1>1, <1>2, <1>5, <1>6 DEF Writes

\* The cursor goes to another place of the page.
LEMMA MovePage ==
    ASSUME NEW t \in Terminals, NEW x \in Columns, NEW y \in 0..rows - 1,
           glyph_size \in 1..BOOT_SIZE
    PROVE  Writes(t, " ", DrawCursor(At(HideCursor(t), x, y)), y * COLS + x)
<1> DEFINE h == HideCursor(t)
           m == At(h, x, y)
<1>1. h.screen \in Screens /\ Keeps(t.screen, h.screen) BY HideAndDrawKeep DEF Terminals
<1>2. Redrawn(h.screen, t.screen, Place(t), " ") BY CellsHidden DEF Redrawn
<1>3. m \in Terminals /\ m.screen = h.screen /\ Place(m) = y * COLS + x
  BY <1>1 DEF At, Terminals, Place
<1>4. Arrived(DrawCursor(m), h.screen, y * COLS + x) BY <1>3, ArrivedInPage
<1> HIDE DEF h, m
<1>5. QED BY <1>1, <1>2, <1>4 DEF Writes, h, m

LEMMA BackspacePage ==
    ASSUME NEW t \in Terminals, glyph_size \in 1..BOOT_SIZE
    PROVE  Writes(t, " ", PutBackspace(t), Before(Place(t)))
<1> DEFINE x == IF t.x > 0 THEN t.x - 1 ELSE IF t.y > 0 THEN COLS - 1 ELSE 0
           y == IF t.x = 0 /\ t.y > 0 THEN t.y - 1 ELSE t.y
           h == HideCursor(t)
           f == Fill(h.screen, x, y, Blank)
           n == [screen |-> f, x |-> x, y |-> y]
           p == y * COLS + x
<1>1. t.x \in 0..COLS - 1 /\ t.y \in 0..rows - 1 BY DEF Terminals, Columns
<1>2. x \in Columns /\ y \in 0..rows - 1 BY <1>1, RowsFit DEF Columns
<1>3. p = Before(Place(t))
  <2>1. COLS \in Nat /\ COLS >= 1 /\ t.x \in Nat /\ t.y \in Nat BY <1>1, RowsFit
  <2>2. t.y * COLS \in Nat /\ (t.y - 1) * COLS = t.y * COLS - COLS BY <2>1
  <2>3. CASE t.x > 0
    <3>1. x = t.x - 1 /\ y = t.y BY <2>1, <2>3
    <3>2. Place(t) = t.y * COLS + t.x /\ Place(t) # 0 BY <2>1, <2>2, <2>3 DEF Place
    <3>3. QED BY <2>1, <2>2, <3>1, <3>2 DEF Before
  <2>4. CASE t.x = 0 /\ t.y > 0
    <3>1. x = COLS - 1 /\ y = t.y - 1 BY <2>1, <2>4
    <3>2. 1 * COLS <= t.y * COLS BY <2>1, <2>4, RowsOrdered
    <3>3. Place(t) = t.y * COLS /\ Place(t) # 0 BY <2>1, <2>2, <2>4, <3>2 DEF Place
    <3>4. QED BY <2>1, <2>2, <3>1, <3>3 DEF Before
  <2>5. CASE t.x = 0 /\ t.y = 0
    <3>1. x = 0 /\ y = 0 /\ 0 * COLS = 0 BY <2>1, <2>5
    <3>2. QED BY <2>5, <3>1 DEF Before, Place
  <2>6. QED BY <2>1, <2>3, <2>4, <2>5
<1>4. h.screen \in Screens /\ Keeps(t.screen, h.screen) BY HideAndDrawKeep DEF Terminals
<1>5. Redrawn(h.screen, t.screen, Place(t), " ") BY CellsHidden DEF Redrawn
<1> HIDE DEF x, y, h, p
<1>6. f \in Screens /\ Keeps(h.screen, f) BY <1>2, <1>4, FillKeeps, RowsFit
<1>7. ASSUME NEW q \in Places, q # p PROVE Cell(f, q) = Cell(h.screen, q)
  <2>1. Cell(f, q) = IF q = y * COLS + x THEN [i \in 0..glyph_size - 1 |-> Blank]
                     ELSE Cell(h.screen, q)
    BY <1>2, <1>4, CellFill
  <2>2. QED BY <1>7, <2>1 DEF p
<1> HIDE DEF f
<1>8. n \in Terminals /\ n.screen = f /\ Place(n) = p BY <1>2, <1>6 DEF Terminals, Place, p
<1>9. p \in Places /\ Arrived(DrawCursor(n), f, p) BY <1>8, ArrivedInPage
<1>10. p < Size BY <1>9, SizeOfPage
<1>11. Arrived(DrawCursor(n), h.screen, p) BY <1>7, <1>9, <1>10 DEF Arrived
<1>12. PutBackspace(t) = DrawCursor(n) BY DEF PutBackspace, x, y, h, f
<1>13. QED BY <1>3, <1>4, <1>5, <1>11, <1>12 DEF Writes

\* The echo of a backspace: the cursor one place back, and a blank where it was.
LEMMA RubOutPage ==
    ASSUME NEW t \in Terminals, glyph_size \in 1..BOOT_SIZE
    PROVE  LET e == PutBackspace(PutSpace(PutBackspace(t)))
               b == Before(Place(t))
           IN  /\ Place(e) = b
               /\ \A q \in Places : Cell(e.screen, q) = IF q = b THEN Glyph("block")
                                                       ELSE IF q = b + 1 THEN Glyph(" ")
                                                       ELSE Cell(t.screen, q)
<1> DEFINE u == PutBackspace(t)
           v == PutSpace(u)
           e == PutBackspace(v)
           p == Place(t)
           b == Before(p)
<1>1. u \in Terminals /\ v \in Terminals /\ e \in Terminals
  BY PutBackspaceKeeps, PutSpaceKeeps
<1>2. p \in 0..Size - 1 /\ b \in 0..Size - 1 /\ (p = b \/ p = b + 1) /\ (p = b => b = 0)
  BY ArrivedInPage, SizeOfPage DEF Before
<1>3. Place(u) = b /\ \A q \in Places : Cell(u.screen, q) = IF q = b THEN Glyph("block")
                                                            ELSE IF q = p THEN Glyph(" ")
                                                            ELSE Cell(t.screen, q)
  <2>1. Writes(t, " ", u, b) BY BackspacePage
  <2>2. b < Size BY <1>2, SizeOfPage
  <2> HIDE DEF u, p, b
  <2>3. QED BY <2>1, <2>2 DEF Writes, Arrived, Redrawn, p
<1>4. Writes(u, " ", v, b + 1) BY <1>1, <1>3, SpacePage
<1>5. Writes(v, " ", e, Before(Place(v))) BY <1>1, BackspacePage
<1> HIDE DEF u, v, e, p, b
<1>6. CASE b + 1 < Size
  <2>1. Place(v) = b + 1 /\ \A q \in Places : Cell(v.screen, q)
                                = IF q = b + 1 THEN Glyph("block")
                                  ELSE IF q = b THEN Glyph(" ") ELSE Cell(u.screen, q)
    BY <1>3, <1>4, <1>6 DEF Writes, Arrived, Redrawn
  <2>2. Before(Place(v)) = b /\ b < Size
    <3>1. b \in Nat /\ b < Size BY <1>2, SizeOfPage
    <3>2. Before(b + 1) = b BY <3>1 DEF Before
    <3>3. QED BY <2>1, <3>1, <3>2
  <2>3. Place(e) = b /\ \A q \in Places : Cell(e.screen, q)
                            = IF q = b THEN Glyph("block")
                              ELSE IF q = b + 1 THEN Glyph(" ") ELSE Cell(v.screen, q)
    BY <1>5, <2>1, <2>2 DEF Writes, Arrived, Redrawn
  <2>4. ASSUME NEW q \in Places, q # b, q # b + 1 PROVE Cell(e.screen, q) = Cell(t.screen, q)
    BY <1>2, <1>3, <2>1, <2>3, <2>4
  <2>5. QED BY <2>3, <2>4 DEF e, u, v, p, b
<1>7. CASE ~(b + 1 < Size)
  <2>1. Size = 1 /\ COLS = 1 /\ b = 0 /\ p = 0
    BY <1>2, <1>7, SizeOfPage
  <2>2. Place(v) = 0
    <3>1. PICK s \in Screens : Arrived(v, s, b + 1) BY <1>4 DEF Writes
    <3>2. Arrived(v, s, 1) /\ ~(1 < Size) /\ 1 - COLS = 0 BY <2>1, <3>1
    <3>3. Place(v) = 0 BY <3>2 DEF Arrived
    <3>4. QED BY <3>3
  <2>3. Place(e) = 0 /\ \A q \in Places : q = 0 => Cell(e.screen, q) = Glyph("block")
    <3>1. PICK s \in Screens : Arrived(e, s, Before(0)) BY <1>5, <2>2 DEF Writes
    <3>2. Before(0) = 0 /\ 0 < Size BY <2>1 DEF Before
    <3>3. QED BY <3>1, <3>2 DEF Arrived
  <2>4. Places = {0} BY <2>1, SizeOfPage
  <2>5. \A q \in Places : Cell(e.screen, q) = Glyph("block") /\ q = b BY <2>1, <2>3, <2>4
  <2>6. QED BY <2>1, <2>3, <2>5 DEF e, u, v, p, b
<1>8. QED BY <1>6, <1>7

-----------------------------------------------------------------------------
\* The page before the place p ends with what l has, as far as it goes back.
Echoes(s, p, l) ==
    \A k \in 1..(IF Len(l) < p THEN Len(l) ELSE p) : Cell(s, p - k) = Glyph(l[Len(l) - k + 1])

LEMMA EchoIsEchoes == EchoIsLine <=> (reading => Echoes(screen, Place(This), line))
<1>1. Place(This) = cursor_y * COLS + cursor_x BY DEF Place, This
<1>2. QED BY <1>1 DEF EchoIsLine, Echoes, Cell, Glyph

\* The same of the next state, in the cells of this one's font.
LEMMA EchoIsEchoesNext ==
    ASSUME NEW t, Shows(t), glyph_size' = glyph_size
    PROVE  EchoIsLine' <=> (reading' => Echoes(t.screen, Place(t), line'))
<1>1. Place(t) = cursor_y' * COLS + cursor_x' /\ t.screen = screen' BY DEF Place, Shows
<1>2. QED BY <1>1 DEF EchoIsLine, Echoes, Cell, Glyph

\* A byte that is written, scrolling or not, comes after what is there.
LEMMA GlyphEchoes ==
    ASSUME NEW t \in Terminals, NEW ch \in Chars, NEW l \in Seq(Chars),
           glyph_size \in 1..BOOT_SIZE, Echoes(t.screen, Place(t), l)
    PROVE  Echoes(PutGlyph(t, ch).screen, Place(PutGlyph(t, ch)), Append(l, ch))
<1> DEFINE e == PutGlyph(t, ch)
           p == Place(t)
           m == Append(l, ch)
<1>1. PICK s \in Screens : Redrawn(s, t.screen, p, ch) /\ Arrived(e, s, p + 1)
  BY GlyphPage DEF Writes
<1>2. p \in 0..Size - 1 /\ Places = 0..Size - 1 /\ Size \in Nat /\ COLS \in Nat /\ COLS >= 1
      /\ COLS <= Size
  BY ArrivedInPage, SizeOfPage
<1>3. Len(l) \in Nat /\ Len(m) = Len(l) + 1 /\ m[Len(l) + 1] = ch
      /\ \A i \in 1..Len(l) : m[i] = l[i]
  BY DEF m
<1>4. Echoes(t.screen, p, l) OBVIOUS
<1> HIDE DEF e, p, m
<1>5. ASSUME NEW k \in 1..Len(m), k <= p + 1
      PROVE  p + 1 - k \in Places /\ Cell(s, p + 1 - k) = Glyph(m[Len(m) - k + 1])
  <2>1. p + 1 - k \in Places BY <1>2, <1>5
  <2>2. CASE k = 1
    <3>1. p + 1 - k = p /\ Len(m) - k + 1 = Len(l) + 1 BY <1>2, <1>3, <2>2
    <3>2. QED BY <1>1, <1>3, <2>1, <3>1 DEF Redrawn
  <2>3. CASE k # 1
    <3> DEFINE j == k - 1
    <3>1. j \in 1..(IF Len(l) < p THEN Len(l) ELSE p) BY <1>2, <1>3, <1>5, <2>3
    <3>2. p + 1 - k = p - j /\ p - j # p /\ Len(m) - k + 1 = Len(l) - j + 1
          /\ Len(l) - j + 1 \in 1..Len(l)
      BY <1>2, <1>3, <1>5, <2>3
    <3> HIDE DEF j
    <3>3. Cell(t.screen, p - j) = Glyph(l[Len(l) - j + 1]) BY <1>4, <3>1 DEF Echoes
    <3>4. Cell(s, p - j) = Cell(t.screen, p - j) BY <1>1, <2>1, <3>2 DEF Redrawn
    <3>5. QED BY <1>3, <2>1, <3>2, <3>3, <3>4
  <2>4. QED BY <2>2, <2>3
<1>6. CASE p + 1 < Size
  <2> DEFINE w == p + 1
  <2>1. Place(e) = w BY <1>1, <1>6 DEF Arrived
  <2>2. ASSUME NEW k \in 1..(IF Len(m) < w THEN Len(m) ELSE w)
        PROVE  Cell(e.screen, w - k) = Glyph(m[Len(m) - k + 1])
    <3>1. k \in 1..Len(m) /\ k <= p + 1 /\ p + 1 - k # p + 1 BY <1>2, <1>3, <2>2
    <3>2. p + 1 - k \in Places BY <1>5, <3>1
    <3>3. Cell(e.screen, p + 1 - k) = Cell(s, p + 1 - k) BY <1>1, <1>6, <3>1, <3>2 DEF Arrived
    <3>4. Cell(s, p + 1 - k) = Glyph(m[Len(m) - k + 1]) BY <1>5, <3>1
    <3>5. p + 1 - k = w - k BY <1>2
    <3>6. QED BY <3>3, <3>4, <3>5
  <2> HIDE DEF w
  <2>3. Echoes(e.screen, w, m) BY <2>2 DEF Echoes
  <2>4. QED BY <2>1, <2>3 DEF e, m, w
<1>7. CASE ~(p + 1 < Size)
  <2> DEFINE o == p + 1 - COLS
  <2>1. /\ Place(e) = o
        /\ \A q \in Places : q + COLS \in Places /\ q # o
                => Cell(e.screen, q) = Cell(s, q + COLS)
    <3> DEFINE w == p + 1
    <3>2. Arrived(e, s, w) /\ ~(w < Size) /\ o = w - COLS /\ w \in Nat BY <1>1, <1>2, <1>7
    <3> HIDE DEF w, o
    <3>3. QED BY <3>2 DEF Arrived, Up
  <2>2. ASSUME NEW k \in 1..(IF Len(m) < o THEN Len(m) ELSE o)
        PROVE  Cell(e.screen, o - k) = Glyph(m[Len(m) - k + 1])
    <3>1. /\ k \in 1..Len(m) /\ k <= p + 1 /\ o - k # o
          /\ o - k + COLS = p + 1 - k /\ o - k \in Places
      <4>1. p \in Nat /\ p + 1 = Size /\ Places = 0..Size - 1 /\ Size \in Nat /\ COLS \in Nat /\ COLS >= 1
        BY <1>2, <1>7
      <4>2. k \in Nat /\ 1 <= k /\ k <= o /\ k <= Len(m) /\ Len(m) \in Nat
        BY <1>3, <2>2, <4>1
      <4>3. QED BY <4>1, <4>2
    <3>2. o - k + COLS \in Places BY <1>5, <3>1
    <3>3. Cell(e.screen, o - k) = Cell(s, o - k + COLS)
      BY <2>1, <3>1, <3>2
    <3>4. QED BY <1>5, <3>1, <3>3
  <2> HIDE DEF o
  <2> HIDE DEF o
  <2>3. Echoes(e.screen, o, m) BY <2>2 DEF Echoes
  <2>4. QED BY <2>1, <2>3 DEF e, m
<1>8. QED BY <1>6, <1>7

\* A byte that is taken back is the last one.
LEMMA RubOutEchoes ==
    ASSUME NEW t \in Terminals, NEW l \in Seq(Chars), l # <<>>,
           glyph_size \in 1..BOOT_SIZE, Echoes(t.screen, Place(t), l)
    PROVE  LET e == PutBackspace(PutSpace(PutBackspace(t)))
           IN  Echoes(e.screen, Place(e), SubSeq(l, 1, Len(l) - 1))
<1> DEFINE e == PutBackspace(PutSpace(PutBackspace(t)))
           p == Place(t)
           b == Before(p)
           m == SubSeq(l, 1, Len(l) - 1)
<1>1. Place(e) = b /\ \A q \in Places : q # b /\ q # b + 1 => Cell(e.screen, q) = Cell(t.screen, q)
  BY RubOutPage
<1>2. p \in 0..Size - 1 /\ Places = 0..Size - 1 /\ Size \in Nat BY ArrivedInPage, SizeOfPage
<1>3. Len(l) \in Nat /\ Len(l) >= 1 /\ Len(m) = Len(l) - 1 /\ \A i \in 1..Len(m) : m[i] = l[i]
  <2>1. Len(l) \in Nat /\ Len(l) # 0 BY EmptySeq
  <2>2. 1 \in 1..Len(l) + 1 /\ Len(l) - 1 \in 0..Len(l) BY <2>1
  <2>3. Len(l) - 1 \in Int /\ \A i \in 1..Len(l) - 1 : l[i] \in Chars BY <2>1
  <2>4. /\ Len(m) = IF 1 <= Len(l) - 1 THEN Len(l) - 1 - 1 + 1 ELSE 0
        /\ \A i \in 1..Len(l) - 1 - 1 + 1 : m[i] = l[1 + i - 1]
    BY <2>3, SubSeqProperties
  <2> HIDE DEF m
  <2>5. Len(m) = Len(l) - 1
    <3> DEFINE n == Len(l)
    <3>1. n \in Nat /\ n # 0 /\ Len(m) = IF 1 <= n - 1 THEN n - 1 - 1 + 1 ELSE 0 BY <2>1, <2>4
    <3> HIDE DEF n
    <3>2. Len(m) = n - 1 BY <3>1
    <3>3. QED BY <3>2 DEF n
  <2>6. ASSUME NEW i \in 1..Len(m) PROVE m[i] = l[i]
    <3>1. i \in 1..Len(l) - 1 - 1 + 1 /\ 1 + i - 1 = i BY <2>1, <2>5
    <3>2. QED BY <2>4, <3>1
  <2>7. QED BY <2>1, <2>5, <2>6
<1>4. Echoes(t.screen, p, l) OBVIOUS
<1> HIDE DEF e, p, m
<1>5. ASSUME NEW k \in 1..(IF Len(m) < b THEN Len(m) ELSE b)
      PROVE  Cell(e.screen, b - k) = Glyph(m[Len(m) - k + 1])
  <2>1. b = p - 1 /\ p >= 1 BY <1>2, <1>3, <1>5 DEF Before
  <2> DEFINE j == k + 1
  <2>2. /\ j \in 1..(IF Len(l) < p THEN Len(l) ELSE p) /\ b - k = p - j
        /\ b - k \in Places /\ b - k # b /\ b - k # b + 1
        /\ Len(m) - k + 1 = Len(l) - j + 1 /\ Len(m) - k + 1 \in 1..Len(m)
    BY <1>2, <1>3, <1>5, <2>1
  <2> HIDE DEF j, b
  <2>3. Cell(t.screen, p - j) = Glyph(l[Len(l) - j + 1]) BY <1>4, <2>2 DEF Echoes
  <2>4. Cell(e.screen, b - k) = Cell(t.screen, b - k) BY <1>1, <2>2
  <2>5. QED BY <1>3, <2>2, <2>3, <2>4
<1> HIDE DEF b
<1>6. QED BY <1>1, <1>5 DEF Echoes, e, m

LEMMA EchoPreserved == IInv /\ EchoIsLine /\ [Next]_vars => EchoIsLine'
<1> SUFFICES ASSUME IInv, EchoIsLine, [Next]_vars PROVE EchoIsLine' OBVIOUS
<1>0. glyph_size \in 1..BOOT_SIZE /\ This \in Terminals /\ line \in Seq(Chars)
  BY ThisIsATerminal DEF IInv, TypeOK
<1>1. reading => Echoes(This.screen, Place(This), line)
  BY EchoIsEchoes, ThisIsATerminal
<1>2. ASSUME ~reading' PROVE EchoIsLine' BY <1>2 DEF EchoIsLine
<1>3. ASSUME NEW ch \in Chars, Type(ch) PROVE EchoIsLine'
  <2>1. /\ reading /\ Shows(PutGlyph(This, ch)) /\ glyph_size' = glyph_size
        /\ line' = Append(line, ch)
    BY <1>3 DEF Type, Typing
  <2>2. Echoes(PutGlyph(This, ch).screen, Place(PutGlyph(This, ch)), line')
    BY <1>0, <1>1, <2>1, GlyphEchoes
  <2>3. QED BY <2>1, <2>2, EchoIsEchoesNext
<1>4. CASE RubOut
  <2> DEFINE e == PutBackspace(PutSpace(PutBackspace(This)))
  <2>1. /\ reading /\ Shows(e) /\ glyph_size' = glyph_size
        /\ line # <<>> /\ line' = SubSeq(line, 1, Len(line) - 1)
    BY <1>4 DEF RubOut, Typing
  <2>2. Echoes(e.screen, Place(e), line') BY <1>0, <1>1, <2>1, RubOutEchoes
  <2> HIDE DEF e
  <2>3. QED BY <2>1, <2>2, EchoIsEchoesNext
<1>5. CASE StartLine
  <2>1. line' = <<>> BY <1>5 DEF StartLine
  <2>2. \A n : (IF Len(line') < n THEN Len(line') ELSE n) < 1 \/ ~(n \in Nat) BY <2>1
  <2>3. (cursor_y * COLS + cursor_x)' \in Nat
    <3>1. cursor_x' = cursor_x /\ cursor_y' = cursor_y BY <1>5 DEF StartLine
    <3>2. cursor_x \in Columns /\ cursor_y \in 0..rows - 1 BY DEF IInv, TypeOK
    <3>3. cursor_y * COLS + cursor_x \in 0..Size - 1 BY <3>2, PlaceOfCursor, SizeOfPage
    <3>4. cursor_y * COLS + cursor_x \in Nat BY <3>3, SizeOfPage
    <3>5. QED BY <3>1, <3>4
  <2>4. QED BY <2>1, <2>3 DEF EchoIsLine
<1>6. CASE UNCHANGED vars BY <1>6 DEF vars, EchoIsLine
<1>7. ASSUME OtherCall PROVE EchoIsLine' BY <1>2, <1>7 DEF OtherCall
<1>8. ASSUME NEW size, ChangeFont(size) PROVE EchoIsLine' BY <1>2, <1>8 DEF ChangeFont
<1>9. ASSUME NEW file, ChangeTheme(file) PROVE EchoIsLine' BY <1>2, <1>9 DEF ChangeTheme
<1>10. CASE Enter BY <1>2, <1>10 DEF Enter
<1>11. ASSUME NEW ch, WriteChar(ch) PROVE OtherCall BY <1>11 DEF WriteChar
<1>12. WriteSpace \/ WriteNewline \/ WriteBackspace \/ Clear => OtherCall
  BY DEF WriteSpace, WriteNewline, WriteBackspace, Clear
<1>13. ASSUME NEW row, NEW col, MoveCursor(row, col) PROVE OtherCall BY <1>13 DEF MoveCursor
<1>14. ASSUME NEW col, ClearLineFrom(col) PROVE OtherCall BY <1>14 DEF ClearLineFrom
<1>15. QED
  BY <1>3, <1>4, <1>5, <1>6, <1>7, <1>8, <1>9, <1>10, <1>11, <1>12, <1>13, <1>14 DEF Next

\* What readline will give to the program is what stands before the cursor, byte by byte,
\* over ends of rows, scrolling, and backspaces, in a font of any height (readline, and
\* gterminal_putchar).
THEOREM EchoMatchesLine == Spec => []EchoIsLine
<1>1. Init => EchoIsLine BY DEF Init, EchoIsLine
<1>2. QED BY <1>1, EchoPreserved, InductiveInvariant, PTL DEF Spec

-----------------------------------------------------------------------------
\* The text that CharScreen speaks of, and the step of it that every call is.
\* The character a cell shows, and the text of a screen, in the font of the boot.
CharOf(g) == IF \A i \in 0..BOOT_SIZE - 1 : g[i] = Part(g[0][1], i) THEN g[0][1] ELSE "mess"
TextOf(s) == [q \in Places |-> CharOf(Cell(s, q))]

LEMMA CharOfGlyph == ASSUME NEW ch, glyph_size = BOOT_SIZE PROVE CharOf(Glyph(ch)) = ch
<1>1. 0 \in 0..BOOT_SIZE - 1 BY RowsFit
<1>2. Glyph(ch)[0] = Part(ch, 0) /\ \A i \in 0..BOOT_SIZE - 1 : Glyph(ch)[i] = Part(ch, i)
  BY <1>1 DEF Glyph
<1>3. Part(ch, 0)[1] = ch BY DEF Part
<1>4. QED BY <1>2, <1>3 DEF CharOf

LEMMA TextIsPage ==
    ASSUME glyph_size = BOOT_SIZE
    PROVE  [p \in 0..rows * COLS - 1 |-> CellAt(p)] = TextOf(screen)
<1>1. ASSUME NEW p \in Places PROVE CellAt(p) = CharOf(Cell(screen, p))
  <2>1. 0 \in 0..BOOT_SIZE - 1 BY RowsFit
  <2>2. /\ \A i \in 0..BOOT_SIZE - 1 :
               Cell(screen, p)[i] = screen[(p \div COLS) * BOOT_SIZE + i][p % COLS]
        /\ Cell(screen, p)[0] = screen[(p \div COLS) * BOOT_SIZE + 0][p % COLS]
    BY <2>1 DEF Cell
  <2>3. QED BY <2>2 DEF CellAt, CharOf
<1>2. QED BY <1>1 DEF TextOf, Places

LEMMA TextIsPageNext ==
    ASSUME NEW e, Shows(e), glyph_size = BOOT_SIZE
    PROVE  [p \in 0..rows * COLS - 1 |-> CellAt(p)]' = TextOf(e.screen)
<1>0. screen' = e.screen BY DEF Shows
<1>1. ASSUME NEW p \in Places PROVE CellAt(p)' = CharOf(Cell(e.screen, p))
  <2>1. 0 \in 0..BOOT_SIZE - 1 BY RowsFit
  <2>2. /\ \A i \in 0..BOOT_SIZE - 1 :
               Cell(e.screen, p)[i] = screen'[(p \div COLS) * BOOT_SIZE + i][p % COLS]
        /\ Cell(e.screen, p)[0] = screen'[(p \div COLS) * BOOT_SIZE + 0][p % COLS]
    BY <1>0, <2>1 DEF Cell
  <2>3. QED BY <2>2 DEF CellAt, CharOf
<1>2. QED BY <1>1 DEF TextOf, Places, rows

\* Where a call arrives, and on which page.
LEMMA ArrivedMaps ==
    ASSUME NEW e, NEW s, NEW p \in 0..Size + COLS - 1,
           Shows(e), Arrived(e, s, p), glyph_size = BOOT_SIZE, Below(s)
    PROVE  Page!Arrive(TextOf(s), p)
<1> DEFINE t == TextOf(s)
           up == [i \in Places |-> IF i + COLS < Size THEN t[i + COLS] ELSE " "]
<1>0. Page!Cells = Places /\ Page!Size = Size BY DEF Page!Cells, Page!Size, Places, Size
<1>1. cursor_y' * COLS + cursor_x' = Place(e) BY DEF Shows, Place
<1>2. [q \in 0..rows * COLS - 1 |-> CellAt(q)]' = TextOf(e.screen) BY TextIsPageNext
<1>3. Size \in Nat /\ Places = 0..Size - 1 /\ COLS \in Nat /\ COLS >= 1 /\ COLS <= Size
  BY SizeOfPage
<1>4. CASE p < Size
  <2>1. Place(e) = p /\ \A q \in Places : Cell(e.screen, q)
                            = IF q = p THEN Glyph("block") ELSE Cell(s, q)
    BY <1>4 DEF Arrived
  <2>2. TextOf(e.screen) = [t EXCEPT ![p] = "block"] BY <2>1, CharOfGlyph DEF TextOf
  <2> HIDE DEF t
  <2>3. QED BY <1>0, <1>1, <1>2, <1>4, <2>1, <2>2 DEF Page!Arrive, t
<1>5. CASE ~(p < Size)
  <2>1. Place(e) = p - COLS /\ \A q \in Places : Cell(e.screen, q)
                                  = IF q = p - COLS THEN Glyph("block") ELSE Up(s, q)
    BY <1>5 DEF Arrived
  <2>2. ASSUME NEW q \in Places PROVE CharOf(Up(s, q)) = up[q]
    <3>1. CASE q + COLS < Size
      <4>1. q + COLS \in Places BY <1>3, <3>1
      <4>2. QED BY <3>1, <4>1 DEF Up, TextOf
    <3>2. CASE ~(q + COLS < Size)
      <4>1. q + COLS \notin Places BY <1>3, <3>2
      <4>2. QED BY <3>2, <4>1, CharOfGlyph DEF Up
    <3>3. QED BY <3>1, <3>2
  <2>3. TextOf(e.screen) = [up EXCEPT ![p - COLS] = "block"]
    BY <2>1, <2>2, CharOfGlyph DEF TextOf
  <2> HIDE DEF t
  <2>4. QED BY <1>0, <1>1, <1>2, <1>5, <2>1, <2>3 DEF Page!Arrive, t
<1>6. QED BY <1>4, <1>5

\* What holds of a state as long as fonts are of one height.
LEMMA SameFontState ==
    ASSUME IInv, resized = 0
    PROVE  /\ glyph_size = BOOT_SIZE /\ glyph_size \in 1..BOOT_SIZE /\ Below(screen)
           /\ This \in Terminals /\ This.screen = screen
           /\ Place(This) = cursor_y * COLS + cursor_x /\ Place(This) \in Places
           /\ Place(This) \div COLS = cursor_y
           /\ [p \in 0..rows * COLS - 1 |-> CellAt(p)] = TextOf(screen)
<1>1. glyph_size = BOOT_SIZE /\ glyph_size \in 1..BOOT_SIZE /\ Below(screen)
  BY DEF IInv, TypeOK, SameFont, NothingBelow, Below, rows
<1>2. This \in Terminals /\ This.screen = screen BY ThisIsATerminal
<1>3. Place(This) = cursor_y * COLS + cursor_x BY DEF Place, This
<1>4. cursor_x \in Columns /\ cursor_y \in 0..rows - 1 BY DEF IInv, TypeOK
<1>5. QED BY <1>1, <1>2, <1>3, <1>4, PlaceOfCursor, TextIsPage

\* A call that writes ch at the cursor and arrives at p.
LEMMA WritesMaps ==
    ASSUME IInv, resized = 0, NEW e, Shows(e), NEW ch, NEW p \in 0..Size + COLS - 1,
           Writes(This, ch, e, p)
    PROVE  Page!Arrive([[q \in 0..rows * COLS - 1 |-> CellAt(q)]
                            EXCEPT ![cursor_y * COLS + cursor_x] = ch], p)
<1>1. PICK s \in Screens : /\ Keeps(screen, s) /\ Redrawn(s, screen, Place(This), ch)
                           /\ Arrived(e, s, p)
  BY SameFontState DEF Writes
<1>2. glyph_size = BOOT_SIZE /\ Below(screen) BY SameFontState
<1>3. Below(s) BY <1>1, <1>2 DEF Keeps
<1>4. TextOf(s) = [TextOf(screen) EXCEPT ![Place(This)] = ch]
  BY <1>1, <1>2, CharOfGlyph DEF TextOf, Redrawn
<1>5. Page!Arrive(TextOf(s), p) BY <1>1, <1>2, <1>3, ArrivedMaps
<1>6. Place(This) = cursor_y * COLS + cursor_x
      /\ [q \in 0..rows * COLS - 1 |-> CellAt(q)] = TextOf(screen)
  BY SameFontState
<1>7. QED BY <1>4, <1>5, <1>6

LEMMA PageSizes == Page!Cells = Places /\ Page!Size = Size /\ Places = 0..Size - 1
BY SizeOfPage DEF Page!Cells, Page!Size, Places, Size

LEMMA WriteMaps ==
    ASSUME IInv, resized = 0, NEW ch \in Chars, Shows(PutGlyph(This, ch))
    PROVE  Page!Write(ch)
<1>1. Writes(This, ch, PutGlyph(This, ch), Place(This) + 1) BY SameFontState, GlyphPage
<1>2. Place(This) + 1 \in 0..Size + COLS - 1 BY SameFontState, SizeOfPage
<1>3. Place(This) = cursor_y * COLS + cursor_x BY SameFontState
<1>4. QED BY <1>1, <1>2, <1>3, WritesMaps DEF Page!Write

LEMMA NewLineMaps ==
    ASSUME IInv, resized = 0, Shows(PutNewline(This))
    PROVE  Page!NewLine
<1>1. Writes(This, " ", PutNewline(This), (cursor_y + 1) * COLS)
  BY SameFontState, NewlinePage DEF This
<1>2. (cursor_y + 1) * COLS \in 0..Size + COLS - 1
  <2>1. cursor_y \in Nat /\ cursor_y + 1 <= rows /\ COLS \in Nat /\ COLS >= 1 /\ rows \in Nat
    BY SizeOfPage DEF IInv, TypeOK
  <2>2. (cursor_y + 1) * COLS <= rows * COLS BY <2>1, RowsOrdered
  <2>3. (cursor_y + 1) * COLS \in Nat /\ rows * COLS \in Nat BY <2>1
  <2>4. QED BY <2>1, <2>2, <2>3 DEF Size
<1>3. Page!RowOf(cursor_y * COLS + cursor_x) = cursor_y BY SameFontState DEF Page!RowOf
<1>4. QED BY <1>1, <1>2, <1>3, WritesMaps DEF Page!NewLine, Page!Erased

LEMMA BackspaceMaps ==
    ASSUME IInv, resized = 0, Shows(PutBackspace(This))
    PROVE  Page!Backspace
<1>1. Writes(This, " ", PutBackspace(This), Before(Place(This)))
  BY SameFontState, BackspacePage
<1>2. Before(Place(This)) \in 0..Size + COLS - 1 BY SameFontState, SizeOfPage DEF Before
<1>3. Before(Place(This)) = Page!Before BY SameFontState DEF Before, Page!Before
<1>4. QED BY <1>1, <1>2, <1>3, WritesMaps DEF Page!Backspace, Page!Erased

LEMMA PlacesInReach == \A p \in Places : p \in 0..Size + COLS - 1
<1>1. Places = 0..Size - 1 /\ Size \in Nat /\ COLS \in Nat /\ COLS >= 1 BY SizeOfPage
<1> DEFINE n == Size
           m == COLS
<1>2. n \in Nat /\ m \in Nat /\ m >= 1 BY <1>1
<1> HIDE DEF n, m
<1>3. \A p \in 0..n - 1 : p \in 0..n + m - 1 BY <1>2
<1>4. QED BY <1>1, <1>3 DEF n, m

\* The cursor is moved, by itself or behind a space.
LEMMA MoveMaps ==
    ASSUME IInv, resized = 0, NEW e, Shows(e), NEW p \in Places, Writes(This, " ", e, p)
    PROVE  Page!MoveTo(p)
<1>1. p \in 0..Size + COLS - 1 BY PlacesInReach
<1>2. QED BY <1>1, WritesMaps DEF Page!MoveTo, Page!Erased

LEMMA SpaceMaps ==
    ASSUME IInv, resized = 0, Shows(PutSpace(This))
    PROVE  Page!NewLine \/ \E p \in Page!Cells : Page!MoveTo(p)
<1> DEFINE p == Place(This)
<1>1. Writes(This, " ", PutSpace(This), p + 1) BY SameFontState, SpacePage
<1>2. p \in 0..Size - 1 /\ Size \in Nat /\ COLS \in Nat /\ COLS >= 1
  BY SameFontState, SizeOfPage
<1>3. CASE p + 1 < Size
  <2>1. p + 1 \in Places BY <1>2, <1>3, SizeOfPage
  <2>2. Page!MoveTo(p + 1) BY <1>1, <2>1, MoveMaps
  <2>3. QED BY <2>1, <2>2, PageSizes
<1>4. CASE ~(p + 1 < Size)
  <2>1. p = Size - 1 BY <1>2, <1>4
  <2>2. (cursor_y + 1) * COLS = Size
    <3>1. cursor_y \in 0..rows - 1 /\ cursor_x \in 0..COLS - 1 /\ rows \in Nat
      BY SizeOfPage DEF IInv, TypeOK, Columns
    <3>2. cursor_y * COLS + cursor_x = rows * COLS - 1 BY <2>1, SameFontState DEF Size
    <3>3. ASSUME cursor_y + 1 <= rows - 1 PROVE FALSE
      <4>1. (cursor_y + 1) * COLS <= (rows - 1) * COLS BY <1>2, <3>1, <3>3, RowsOrdered
      <4>2. /\ (cursor_y + 1) * COLS = cursor_y * COLS + COLS
            /\ (rows - 1) * COLS = rows * COLS - COLS
            /\ cursor_y * COLS \in Nat /\ rows * COLS \in Nat
        BY <1>2, <3>1
      <4>3. QED BY <1>2, <3>1, <3>2, <4>1, <4>2
    <3>4. cursor_y + 1 = rows BY <3>1, <3>3
    <3>5. QED BY <3>4 DEF Size
  <2>3. Page!RowOf(cursor_y * COLS + cursor_x) = cursor_y BY SameFontState DEF Page!RowOf
  <2>4. p + 1 = (cursor_y + 1) * COLS /\ p + 1 \in 0..Size + COLS - 1 BY <1>2, <2>1, <2>2
  <2> HIDE DEF p
  <2>5. QED BY <1>1, <2>3, <2>4, WritesMaps DEF Page!NewLine, Page!Erased
<1>5. QED BY <1>3, <1>4

LEMMA RubOutMaps ==
    ASSUME IInv, resized = 0, Shows(PutBackspace(PutSpace(PutBackspace(This))))
    PROVE  Page!RubOut
<1> DEFINE e == PutBackspace(PutSpace(PutBackspace(This)))
           b == Before(Place(This))
           t == [TextOf(screen) EXCEPT ![b + 1] = " "]
<1>1. b \in Places /\ b < Size BY SameFontState, SizeOfPage DEF Before
<1>2. Page!Before = b BY SameFontState DEF Before, Page!Before
<1>3. Place(e) = b /\ \A q \in Places : Cell(e.screen, q) = IF q = b THEN Glyph("block")
                                                            ELSE IF q = b + 1 THEN Glyph(" ")
                                                            ELSE Cell(screen, q)
  BY SameFontState, RubOutPage
<1>4. glyph_size = BOOT_SIZE /\ [q \in 0..rows * COLS - 1 |-> CellAt(q)] = TextOf(screen)
  BY SameFontState
<1> HIDE DEF e, b
<1>5. TextOf(e.screen) = [t EXCEPT ![b] = "block"]
  <2>1. \A q \in Places : CharOf(Cell(e.screen, q))
                              = IF q = b THEN "block" ELSE IF q = b + 1 THEN " "
                                ELSE CharOf(Cell(screen, q))
    BY <1>3, <1>4, CharOfGlyph
  <2>2. QED BY <2>1 DEF TextOf
<1>6. [q \in 0..rows * COLS - 1 |-> CellAt(q)]' = TextOf(e.screen) BY <1>4, TextIsPageNext DEF e
<1>7. cursor_y' * COLS + cursor_x' = b BY <1>3 DEF Shows, Place, e
<1>8. Page!Arrive(t, b) BY <1>1, <1>5, <1>6, <1>7, PageSizes DEF Page!Arrive
<1>9. QED BY <1>2, <1>4, <1>8 DEF Page!RubOut

LEMMA ClearMaps ==
    ASSUME IInv, resized = 0, Shows(Cleared)
    PROVE  Page!Clear
<1>1. glyph_size = BOOT_SIZE /\ glyph_size \in 1..BOOT_SIZE BY SameFontState
<1>2. ASSUME NEW q \in Places PROVE Cell(Cleared.screen, q) = Glyph(" ")
  <2>1. q \div COLS \in 0..rows - 1 /\ q % COLS \in Columns BY PlaceInPage
  <2> DEFINE z == q \div COLS
             c == q % COLS
  <2> HIDE DEF z, c
  <2>2. ASSUME NEW i \in 0..glyph_size - 1 PROVE Cleared.screen[z * glyph_size + i][c] = Blank
    <3>1. z * glyph_size + i \in Lines BY <1>1, <2>1, LinesOfRow DEF z
    <3>2. c \in Columns BY <2>1 DEF c
    <3>3. QED BY <3>1, <3>2 DEF Cleared
  <2>3. Cell(Cleared.screen, q) = [i \in 0..glyph_size - 1 |-> Cleared.screen[z * glyph_size + i][c]]
    BY DEF Cell, z, c
  <2>4. QED BY <2>2, <2>3, PlainGlyphs
<1>3. TextOf(Cleared.screen) = [q \in Places |-> " "] BY <1>1, <1>2, CharOfGlyph DEF TextOf
<1>4. [q \in 0..rows * COLS - 1 |-> CellAt(q)]' = TextOf(Cleared.screen)
  BY <1>1, TextIsPageNext
<1>5. cursor_y' * COLS + cursor_x' = 0
  <2>1. cursor_y' = 0 /\ cursor_x' = 0 BY DEF Shows, Cleared
  <2>2. 0 * COLS + 0 = 0 BY SizeOfPage
  <2>3. QED BY <2>1, <2>2
<1>6. QED BY <1>3, <1>4, <1>5, PageSizes DEF Page!Clear

LEMMA MoveCursorMaps ==
    ASSUME IInv, resized = 0, NEW row \in Int, NEW col \in Int, MoveCursor(row, col)
    PROVE  \E p \in Page!Cells : Page!MoveTo(p)
<1> DEFINE x == Clamp(col, COLS)
           y == Clamp(row, rows)
           e == DrawCursor(At(HideCursor(This), x, y))
<1>1. x \in Columns /\ y \in 0..rows - 1 BY ClampIn, RowsFit DEF Columns
<1>2. Shows(e) BY DEF MoveCursor
<1> HIDE DEF x, y
<1>3. Writes(This, " ", e, y * COLS + x) BY <1>1, SameFontState, MovePage
<1>4. y * COLS + x \in Places BY <1>1, PlaceOfCursor
<1> HIDE DEF e
<1>5. Page!MoveTo(y * COLS + x) BY <1>2, <1>3, <1>4, MoveMaps
<1>6. QED BY <1>4, <1>5, PageSizes

LEMMA ClearLineFromMaps ==
    ASSUME IInv, resized = 0, NEW col \in Int, ClearLineFrom(col)
    PROVE  \E p \in Page!Cells : Page!ClearFrom(p)
<1> DEFINE from == IF col < 0 THEN 0 ELSE col
           left == [l \in Lines |-> [c \in Columns |->
                       IF c >= from /\ InRow(l, cursor_y) THEN Blank ELSE screen[l][c]]]
           m    == [screen |-> left, x |-> from, y |-> cursor_y]
           p    == cursor_y * COLS + from
<1>0. glyph_size = BOOT_SIZE /\ glyph_size \in 1..BOOT_SIZE /\ Below(screen) BY SameFontState
<1>1. from \in Columns /\ cursor_y \in 0..rows - 1
  BY RowsFit DEF ClearLineFrom, Columns, IInv, TypeOK
<1>2. screen \in [Lines -> [Columns -> Parts]] BY DEF IInv, TypeOK
<1>3. left \in Screens BY <1>2, RowsFit DEF Screens
<1>4. Below(left) BY <1>0 DEF Below
<1>5. Shows(DrawCursor(m)) BY DEF ClearLineFrom
<1> HIDE DEF from, left
<1>6. m \in Terminals /\ m.screen = left /\ Place(m) = p BY <1>1, <1>3 DEF Terminals, Place
<1>7. p \in Places /\ p \div COLS = cursor_y BY <1>1, PlaceOfCursor
<1>8. Arrived(DrawCursor(m), left, p) BY <1>0, <1>6, ArrivedInPage
<1>9. Page!Arrive(TextOf(left), p)
  <2>1. p \in 0..Size + COLS - 1 BY <1>7, SizeOfPage
  <2> HIDE DEF p, m
  <2>2. QED BY <1>0, <1>4, <1>5, <1>8, <2>1, ArrivedMaps
<1>10. ASSUME NEW q \in Places
       PROVE  CharOf(Cell(left, q)) = IF q \div COLS = cursor_y /\ q >= p THEN " "
                                      ELSE CharOf(Cell(screen, q))
  <2> DEFINE z == q \div COLS
             c == q % COLS
  <2>1. z \in 0..rows - 1 /\ c \in Columns /\ q = z * COLS + c BY PlaceInPage
  <2>2. Cell(left, q) = [i \in 0..glyph_size - 1 |-> left[z * glyph_size + i][c]]
        /\ Cell(screen, q) = [i \in 0..glyph_size - 1 |-> screen[z * glyph_size + i][c]]
    BY DEF Cell
  <2> HIDE DEF z, c
  <2>3. z = cursor_y => (q >= p <=> c >= from)
    <3>1. COLS \in Nat /\ cursor_y \in Nat /\ cursor_y * COLS \in Nat /\ c \in Nat /\ from \in Nat
      BY <1>1, <2>1, RowsFit DEF Columns
    <3>2. QED BY <2>1, <3>1
  <2>4. ASSUME NEW i \in 0..glyph_size - 1
        PROVE  left[z * glyph_size + i][c] = IF c >= from /\ z = cursor_y THEN Blank
                                             ELSE screen[z * glyph_size + i][c]
    <3> DEFINE l == z * glyph_size + i
    <3>1. l \in Lines /\ (InRow(l, cursor_y) <=> z = cursor_y) BY <1>0, <1>1, <2>1, LinesOfRow
    <3> HIDE DEF l
    <3>2. left[l][c] = IF c >= from /\ InRow(l, cursor_y) THEN Blank ELSE screen[l][c]
      BY <2>1, <3>1 DEF left
    <3>3. QED BY <3>1, <3>2 DEF l
  <2>5. Cell(left, q) = IF c >= from /\ z = cursor_y THEN Glyph(" ") ELSE Cell(screen, q)
    BY <2>2, <2>4, PlainGlyphs
  <2>6. CharOf(Glyph(" ")) = " " BY <1>0, CharOfGlyph
  <2>7. QED BY <2>3, <2>5, <2>6 DEF z
<1> HIDE DEF p
<1>11. TextOf(left) = [q \in Places |-> IF q \div COLS = cursor_y /\ q >= p THEN " "
                                        ELSE TextOf(screen)[q]]
  BY <1>10 DEF TextOf
<1>12. [q \in 0..rows * COLS - 1 |-> CellAt(q)] = TextOf(screen)
       /\ (cursor_y * COLS + cursor_x) \div COLS = cursor_y
  BY SameFontState
<1>13. Page!ClearFrom(p)
  BY <1>7, <1>9, <1>11, <1>12, PageSizes DEF Page!ClearFrom, Page!RowOf
<1>14. QED BY <1>7, <1>13, PageSizes

-----------------------------------------------------------------------------
LEMMA StepMaps ==
    ASSUME IInv, [Next]_vars
    PROVE  [Page!Next]_<<[p \in 0..rows * COLS - 1 |-> CellAt(p)],
                         cursor_y * COLS + cursor_x, resized = 0>>
<1> DEFINE v == <<[p \in 0..rows * COLS - 1 |-> CellAt(p)],
                  cursor_y * COLS + cursor_x, resized = 0>>
           One == \/ \E c \in Chars : Page!Write(c)
                  \/ Page!NewLine \/ Page!Backspace \/ Page!RubOut \/ Page!Clear
                  \/ \E p \in Page!Cells : Page!MoveTo(p) \/ Page!ClearFrom(p)
<1>1. ASSUME screen' = screen, cursor_x' = cursor_x, cursor_y' = cursor_y, resized' = resized
      PROVE  v' = v
  <2>1. ASSUME NEW p PROVE CellAt(p)' = CellAt(p) BY <1>1 DEF CellAt
  <2>2. [p \in 0..rows * COLS - 1 |-> CellAt(p)]' = [p \in 0..rows * COLS - 1 |-> CellAt(p)]
    BY <2>1 DEF rows
  <2>3. QED BY <1>1, <2>2
<1>2. ASSUME resized' # 0 PROVE Page!Next BY <1>2 DEF Page!Next
<1>3. ASSUME resized = 0, resized' = resized, One PROVE Page!Next BY <1>3 DEF Page!Next
<1> HIDE DEF One, v
<1>4. ASSUME NEW size, ChangeFont(size) PROVE Page!Next \/ v' = v
  <2>1. CASE size = glyph_size
    <3>1. screen' = screen /\ cursor_x' = cursor_x /\ cursor_y' = cursor_y /\ resized' = resized
      BY <1>4, <2>1 DEF ChangeFont
    <3>2. QED BY <1>1, <3>1
  <2>2. CASE size # glyph_size
    <3>1. resized' # 0 BY <1>4, <2>2 DEF ChangeFont, IInv, TypeOK
    <3>2. QED BY <1>2, <3>1
  <2>3. QED BY <2>1, <2>2
<1>5. ASSUME StartLine PROVE v' = v BY <1>1, <1>5 DEF StartLine
<1>6. ASSUME UNCHANGED vars PROVE v' = v BY <1>1, <1>6 DEF vars
<1>7. ASSUME NEW ch \in Chars, WriteChar(ch) \/ Type(ch) PROVE Page!Next
  <2>1. resized' = resized /\ Shows(PutGlyph(This, ch))
    BY <1>7 DEF WriteChar, OtherCall, Type, Typing
  <2>2. resized = 0 => One BY <2>1, WriteMaps DEF One
  <2>3. QED BY <1>2, <1>3, <2>1, <2>2
<1>8. ASSUME WriteSpace PROVE Page!Next
  <2>1. resized' = resized /\ Shows(PutSpace(This)) BY <1>8 DEF WriteSpace, OtherCall
  <2>2. resized = 0 => One BY <2>1, SpaceMaps DEF One
  <2>3. QED BY <1>2, <1>3, <2>1, <2>2
<1>9. ASSUME WriteNewline \/ Enter PROVE Page!Next
  <2>1. resized' = resized /\ Shows(PutNewline(This))
    BY <1>9 DEF WriteNewline, OtherCall, Enter, Typing
  <2>2. resized = 0 => One BY <2>1, NewLineMaps DEF One
  <2>3. QED BY <1>2, <1>3, <2>1, <2>2
<1>10. ASSUME WriteBackspace PROVE Page!Next
  <2>1. resized' = resized /\ Shows(PutBackspace(This)) BY <1>10 DEF WriteBackspace, OtherCall
  <2>2. resized = 0 => One BY <2>1, BackspaceMaps DEF One
  <2>3. QED BY <1>2, <1>3, <2>1, <2>2
<1>11. ASSUME Clear \/ \E file \in ThemeFiles : ChangeTheme(file) PROVE Page!Next
  <2>1. resized' = resized /\ Shows(Cleared) BY <1>11 DEF Clear, OtherCall, ChangeTheme
  <2>2. resized = 0 => One BY <2>1, ClearMaps DEF One
  <2>3. QED BY <1>2, <1>3, <2>1, <2>2
<1>12. ASSUME NEW row \in -1..rows, NEW col \in -1..COLS, MoveCursor(row, col) PROVE Page!Next
  <2>1. resized' = resized /\ row \in Int /\ col \in Int
    BY <1>12, RowsFit DEF MoveCursor, OtherCall
  <2>2. resized = 0 => One BY <1>12, <2>1, MoveCursorMaps DEF One
  <2>3. QED BY <1>2, <1>3, <2>1, <2>2
<1>13. ASSUME NEW col \in -1..COLS, ClearLineFrom(col) PROVE Page!Next
  <2>1. resized' = resized /\ col \in Int BY <1>13, RowsFit DEF ClearLineFrom, OtherCall
  <2>2. resized = 0 => One BY <1>13, <2>1, ClearLineFromMaps DEF One
  <2>3. QED BY <1>2, <1>3, <2>1, <2>2
<1>14. ASSUME RubOut PROVE Page!Next
  <2>1. resized' = resized /\ Shows(PutBackspace(PutSpace(PutBackspace(This))))
    BY <1>14 DEF RubOut, Typing
  <2>2. resized = 0 => One BY <2>1, RubOutMaps DEF One
  <2>3. QED BY <1>2, <1>3, <2>1, <2>2
<1>15. Page!Next \/ v' = v
  BY <1>4, <1>5, <1>6, <1>7, <1>8, <1>9, <1>10, <1>11, <1>12, <1>13, <1>14 DEF Next
<1>16. QED BY <1>15 DEF v

LEMMA InitMaps == Init => Page!Init
<1> SUFFICES ASSUME Init PROVE Page!Init OBVIOUS
<1>1. cursor_y = 0 /\ cursor_x = 0 /\ resized = 0 BY DEF Init
<1>2. 0 * COLS + 0 = 0 BY SizeOfPage
<1>3. QED BY <1>1, <1>2 DEF Page!Init

\* As long as fonts are of one height, every call and every key typed does to the pixels
\* what CharScreen promises of the page: a glyph in its cell and no other, the cursor one
\* place on, the page up by a row at its end, and nothing left behind (gterminal.c).
THEOREM TerminalImplementsCharScreen == Spec => ImplementsCharScreen
<1>1. IInv /\ [Next]_vars
          => [Page!Next]_<<[p \in 0..rows * COLS - 1 |-> CellAt(p)],
                           cursor_y * COLS + cursor_x, resized = 0>>
  BY StepMaps
<1>2. QED BY <1>1, InitMaps, InductiveInvariant, PTL DEF Spec, ImplementsCharScreen, Page!Spec

-----------------------------------------------------------------------------
(***************************************************************************)
(* The settings.  For every file: the theme that load_theme makes of a     *)
(* theme file, and the system calls that init makes for /shellrc, are what *)
(* the lines of the file mean.  The parsers are loops over the bytes and   *)
(* over the lines; an induction over the rounds (Induct) relates what they *)
(* have in their variables to the part of the file that lies behind them.  *)
(***************************************************************************)

\* Where the line begins that is being read after i bytes.
LineBegin(file, i) == Max({0} \cup {q \in 1..i : file[q] \in LineEnds})

\* What is kept of a line.
Kept(s) == SubSeq(s, 1, Min({Len(s), LINE_MAX}))

\* The line ends among the first i bytes whose line names the colour.
EndsOf(file, name, i) ==
    {p \in 1..i : /\ file[p] \in LineEnds
                  /\ LineAt(file, p) # <<>>
                  /\ LineAt(file, p)[1] = name}

\* The colour that the first i bytes mean.
MeantBy(file, name, i) ==
    IF EndsOf(file, name, i) = {} THEN DefaultColor[name]
    ELSE HexToUint32(Tail(LineAt(file, Max(EndsOf(file, name, i)))))

Start == [line |-> <<>>, theme |-> DefaultColor]

-----------------------------------------------------------------------------
(* Numbers *)

LEMMA LeastOf ==
    ASSUME NEW S, S \subseteq Nat, S # {}
    PROVE  \E m \in S : \A k \in S : m <= k
<1> DEFINE R == OpToRel(<, Nat)
<1>1. IsWellFoundedOn(R, Nat)
  BY NatLessThanWellFounded
<1>2. \A m \in Nat, k \in Nat : k < m => <<k, m>> \in R
  BY DEF OpToRel
<1> HIDE DEF R
<1>3. \E m \in S : \A k \in S : ~(<<k, m>> \in R)
  BY <1>1, WFMin
<1>4. PICK m \in S : \A k \in S : ~(<<k, m>> \in R)
  BY <1>3
<1>5. ASSUME NEW k \in S PROVE m <= k
  <2>1. k \in Nat /\ m \in Nat
    OBVIOUS
  <2>2. ~(k < m)
    BY <1>2, <1>4, <2>1
  <2>3. QED BY <2>1, <2>2
<1>6. QED BY <1>5

\* Induction over a range, with a set in the place of a formula.
LEMMA Induct ==
    ASSUME NEW n \in Nat, NEW S, 0 \in S, \A k \in 0..n : k < n /\ k \in S => k + 1 \in S
    PROVE  0..n \subseteq S
<1> DEFINE U == {k \in 0..n : k \notin S}
<1>1. SUFFICES ASSUME U # {} PROVE FALSE
  OBVIOUS
<1>2. PICK m \in U : \A k \in U : m <= k
  <2>1. U \subseteq Nat
    OBVIOUS
  <2> HIDE DEF U
  <2>2. QED BY <1>1, <2>1, LeastOf
<1>3. m - 1 \in 0..n /\ m - 1 \notin U
  BY <1>2
<1>4. m - 1 \in S /\ m - 1 < n
  BY <1>3, <1>2
<1>5. (m - 1) + 1 = m
  BY <1>2
<1>6. m \in S
  BY <1>3, <1>4, <1>5
<1>7. QED BY <1>2, <1>6

LEMMA MaxIs ==
    ASSUME NEW S, NEW m \in S, S \subseteq Int, \A y \in S : m >= y
    PROVE  Max(S) = m
<1>1. \A x \in S : (\A y \in S : x >= y) => x = m
  OBVIOUS
<1>2. QED BY <1>1 DEF Max

LEMMA MaxOf ==
    ASSUME NEW n \in Nat, NEW S, S \subseteq 0..n, S # {}
    PROVE  Max(S) \in S /\ \A y \in S : Max(S) >= y
<1> DEFINE B == {b \in Nat : \A y \in S : b >= y}
<1>1. n \in B
  OBVIOUS
<1>2. PICK m \in B : \A k \in B : m <= k
  BY <1>1, LeastOf
<1>3. m \in S
  <2>1. SUFFICES ASSUME m \notin S PROVE FALSE
    OBVIOUS
  <2>2. \A y \in S : m > y /\ y \in Nat
    BY <2>1, <1>2
  <2>3. m > 0
    <3>1. PICK y \in S : TRUE
      OBVIOUS
    <3>2. QED BY <2>2, <3>1
  <2>4. m - 1 \in B
    BY <2>2, <2>3
  <2>5. QED BY <2>4, <1>2
<1>4. Max(S) = m
  <2>1. S \subseteq Int /\ \A y \in S : m >= y
    BY <1>2
  <2>2. QED BY <1>3, <2>1, MaxIs
<1>5. QED BY <1>2, <1>3, <1>4

LEMMA MinIs ==
    ASSUME NEW a \in Nat, NEW b \in Nat
    PROVE  Min({a, b}) = IF a <= b THEN a ELSE b
<1>1. \A x \in {a, b} : (\A y \in {a, b} : x =< y) => x = IF a <= b THEN a ELSE b
  OBVIOUS
<1>2. (IF a <= b THEN a ELSE b) \in {a, b} /\ \A y \in {a, b} : (IF a <= b THEN a ELSE b) =< y
  OBVIOUS
<1>3. QED BY <1>1, <1>2 DEF Min

-----------------------------------------------------------------------------
(* The line that is being read *)

LEMMA BytesFrom ==
    ASSUME NEW Byte, NEW file \in Seq(Byte), NEW i \in 0..Len(file), NEW b \in 0..i
    PROVE  /\ SubSeq(file, b + 1, i) \in Seq(Byte)
           /\ Len(SubSeq(file, b + 1, i)) = i - b
           /\ \A k \in 1..(i - b) : SubSeq(file, b + 1, i)[k] = file[b + k]
OBVIOUS

LEMMA BeginType ==
    ASSUME NEW Byte, NEW file \in Seq(Byte), NEW i \in 0..Len(file)
    PROVE  LineBegin(file, i) \in 0..i
<1> DEFINE S == {0} \cup {q \in 1..i : file[q] \in LineEnds}
<1>1. S \subseteq 0..i /\ S # {} /\ i \in Nat
  OBVIOUS
<1> HIDE DEF S
<1>2. Max(S) \in S
  BY <1>1, MaxOf
<1>3. QED BY <1>1, <1>2 DEF LineBegin, S

\* A line end begins a line; any other byte goes on with it.
LEMMA BeginStep ==
    ASSUME NEW Byte, NEW file \in Seq(Byte), NEW i \in 0..Len(file), i < Len(file)
    PROVE  LineBegin(file, i + 1) = IF file[i + 1] \in LineEnds THEN i + 1 ELSE LineBegin(file, i)
<1> DEFINE S(k) == {0} \cup {q \in 1..k : file[q] \in LineEnds}
<1>1. CASE file[i + 1] \in LineEnds
  <2>1. i + 1 \in S(i + 1) /\ S(i + 1) \subseteq Int /\ \A y \in S(i + 1) : i + 1 >= y
    BY <1>1
  <2>2. Max(S(i + 1)) = i + 1
    BY <2>1, MaxIs
  <2>3. QED BY <1>1, <2>2 DEF LineBegin
<1>2. CASE file[i + 1] \notin LineEnds
  <2>1. S(i + 1) = S(i)
    BY <1>2
  <2>2. QED BY <1>2, <2>1 DEF LineBegin
<1>3. QED BY <1>1, <1>2

LEMMA KeptIs ==
    ASSUME NEW Byte, NEW s \in Seq(Byte), LINE_MAX \in Nat
    PROVE  /\ Kept(s) \in Seq(Byte)
           /\ Len(Kept(s)) = IF Len(s) <= LINE_MAX THEN Len(s) ELSE LINE_MAX
           /\ \A k \in 1..Len(Kept(s)) : Kept(s)[k] = s[k]
<1> DEFINE m == Min({Len(s), LINE_MAX})
<1>1. Len(s) \in Nat
  OBVIOUS
<1>2. m = IF Len(s) <= LINE_MAX THEN Len(s) ELSE LINE_MAX
  BY <1>1, MinIs
<1>3. m \in 0..Len(s)
  BY <1>1, <1>2
<1> HIDE DEF m
<1>4. /\ SubSeq(s, 1, m) \in Seq(Byte)
      /\ Len(SubSeq(s, 1, m)) = m
      /\ \A k \in 1..m : SubSeq(s, 1, m)[k] = s[k]
  BY <1>1, <1>3
<1>5. QED BY <1>2, <1>4 DEF Kept, m

LEMMA KeptEmpty ==
    ASSUME NEW Byte, NEW s \in Seq(Byte), Len(s) = 0, LINE_MAX \in Nat
    PROVE  Kept(s) = <<>>
<1>1. Kept(s) \in Seq(Byte) /\ Len(Kept(s)) = IF Len(s) <= LINE_MAX THEN Len(s) ELSE LINE_MAX
  BY KeptIs
<1>3. Len(Kept(s)) = 0
  BY <1>1
<1>2. QED BY <1>1, <1>3, EmptySeq

LEMMA LineAtIs ==
    ASSUME NEW Byte, NEW file \in Seq(Byte), NEW i \in 0..Len(file)
    PROVE  LineAt(file, i + 1) = Kept(SubSeq(file, LineBegin(file, i) + 1, i))
<1>1. (i + 1) - 1 = i
  OBVIOUS
<1>2. QED BY <1>1 DEF LineAt, Kept, LineBegin

\* The line before the first byte is empty.
LEMMA LineAtStart ==
    ASSUME NEW Byte, NEW file \in Seq(Byte), LINE_MAX \in Nat
    PROVE  LineAt(file, 1) = <<>>
<1>1. 0 \in 0..Len(file) /\ 0 + 1 = 1
  OBVIOUS
<1>2. LineBegin(file, 0) = 0
  BY <1>1, BeginType
<1>3. SubSeq(file, 1, 0) = <<>>
  OBVIOUS
<1>4. Kept(<<>>) = <<>>
  <2>1. SubSeq(file, 1, 0) \in Seq(Byte) /\ Len(SubSeq(file, 1, 0)) = 0
    BY <1>3
  <2>2. QED BY <1>3, <2>1, KeptEmpty
<1>5. LineAt(file, 0 + 1) = Kept(SubSeq(file, LineBegin(file, 0) + 1, 0))
  BY <1>1, LineAtIs
<1>6. QED BY <1>1, <1>2, <1>3, <1>4, <1>5

\* A byte is kept as long as there is room, a line end empties the line.
LEMMA LineAtStep ==
    ASSUME NEW Byte, NEW file \in Seq(Byte), LINE_MAX \in Nat,
           NEW i \in 0..Len(file), i < Len(file)
    PROVE  /\ LineAt(file, i + 1) \in Seq(Byte)
           /\ LineAt(file, (i + 1) + 1) =
                 CASE file[i + 1] \in LineEnds -> <<>>
                   [] OTHER -> IF Len(LineAt(file, i + 1)) < LINE_MAX
                               THEN Append(LineAt(file, i + 1), file[i + 1])
                               ELSE LineAt(file, i + 1)
<1> DEFINE b == LineBegin(file, i)
           s == SubSeq(file, b + 1, i)
           t == SubSeq(file, LineBegin(file, i + 1) + 1, i + 1)
<1>1. b \in 0..i /\ Len(file) \in Nat /\ i + 1 \in 0..Len(file) /\ i \in Nat
  BY BeginType
<1>2. LineAt(file, i + 1) = Kept(s) /\ LineAt(file, (i + 1) + 1) = Kept(t)
  BY <1>1, LineAtIs
<1>3. LineBegin(file, i + 1) = IF file[i + 1] \in LineEnds THEN i + 1 ELSE b
  BY BeginStep
<1> HIDE DEF b
<1>4. /\ s \in Seq(Byte) /\ Len(s) = i - b
      /\ \A k \in 1..(i - b) : s[k] = file[b + k]
  BY <1>1, BytesFrom
<1>5. Kept(s) \in Seq(Byte)
  BY <1>4, KeptIs
<1>6. CASE file[i + 1] \in LineEnds
  <2>1. t = SubSeq(file, (i + 1) + 1, i + 1)
    BY <1>3, <1>6
  <2>2. t \in Seq(Byte) /\ Len(t) = 0
    <3>1. i + 1 \in 0..Len(file) /\ i + 1 \in 0..(i + 1) /\ (i + 1) - (i + 1) = 0
      BY <1>1
    <3> HIDE DEF t
    <3>2. QED BY <2>1, <3>1, BytesFrom
  <2> HIDE DEF t
  <2>3. Kept(t) = <<>>
    BY <2>2, KeptEmpty
  <2>4. QED BY <1>2, <1>5, <1>6, <2>3
<1>7. CASE file[i + 1] \notin LineEnds
  <2>1. t = SubSeq(file, b + 1, i + 1)
    BY <1>3, <1>7
  <2>2. /\ t \in Seq(Byte) /\ Len(t) = Len(s) + 1
        /\ \A k \in 1..(i + 1 - b) : t[k] = file[b + k]
    <3>1. b \in 0..(i + 1) /\ (i + 1) - b = (i - b) + 1
      BY <1>1
    <3>2. /\ t \in Seq(Byte) /\ Len(t) = (i + 1) - b
          /\ \A k \in 1..((i + 1) - b) : t[k] = file[b + k]
      <4> HIDE DEF t
      <4>1. QED BY <1>1, <2>1, <3>1, BytesFrom
    <3> HIDE DEF s, t
    <3>3. QED BY <1>4, <3>1, <3>2
  <2>3. /\ \A k \in 1..Len(s) : t[k] = s[k]
        /\ t[Len(s) + 1] = file[i + 1]
    <3>1. Len(s) \in Nat /\ i + 1 - b = Len(s) + 1 /\ b + (Len(s) + 1) = i + 1
      BY <1>1, <1>4
    <3> HIDE DEF s, t
    <3>2. QED BY <1>4, <2>2, <3>1
  <2> HIDE DEF s, t
  <2>4. /\ Len(Kept(s)) = IF Len(s) <= LINE_MAX THEN Len(s) ELSE LINE_MAX
        /\ \A k \in 1..Len(Kept(s)) : Kept(s)[k] = s[k]
        /\ Kept(t) \in Seq(Byte)
        /\ Len(Kept(t)) = IF Len(t) <= LINE_MAX THEN Len(t) ELSE LINE_MAX
        /\ \A k \in 1..Len(Kept(t)) : Kept(t)[k] = t[k]
    BY <1>4, <2>2, KeptIs
  <2>5. Len(s) \in Nat /\ file[i + 1] \in Byte
    BY <1>1, <1>4
  <2>6. ASSUME Len(Kept(s)) < LINE_MAX PROVE Kept(t) = Append(Kept(s), file[i + 1])
    <3>1. Len(Kept(s)) = Len(s) /\ Len(Kept(t)) = Len(s) + 1
      BY <2>4, <2>5, <2>2, <2>6
    <3>2. /\ Append(Kept(s), file[i + 1]) \in Seq(Byte)
          /\ Len(Append(Kept(s), file[i + 1])) = Len(s) + 1
          /\ \A k \in 1..Len(s) : Append(Kept(s), file[i + 1])[k] = Kept(s)[k]
          /\ Append(Kept(s), file[i + 1])[Len(s) + 1] = file[i + 1]
      BY <1>5, <2>5, <3>1
    <3>3. \A k \in 1..Len(s) + 1 : Kept(t)[k] = Append(Kept(s), file[i + 1])[k]
      BY <2>3, <2>4, <2>5, <3>1, <3>2
    <3> HIDE DEF s
    <3>4. QED BY <2>4, <3>1, <3>2, <3>3, SeqEqual
  <2>7. ASSUME ~ Len(Kept(s)) < LINE_MAX PROVE Kept(t) = Kept(s)
    <3>1. Len(Kept(s)) = LINE_MAX /\ Len(Kept(t)) = LINE_MAX /\ LINE_MAX <= Len(s)
      BY <2>4, <2>5, <2>2, <2>7
    <3>2. \A k \in 1..LINE_MAX : Kept(t)[k] = Kept(s)[k]
      BY <2>3, <2>4, <2>5, <3>1
    <3>3. QED BY <1>5, <2>4, <3>1, <3>2, SeqEqual
  <2>8. QED BY <1>2, <1>5, <1>7, <2>6, <2>7
<1>8. QED BY <1>6, <1>7

-----------------------------------------------------------------------------
(* The theme after each byte *)

\* What load_theme has in its variables after i bytes.
StateAfter(file, i) ==
    [line |-> LineAt(file, i + 1), theme |-> [n \in Names |-> MeantBy(file, n, i)]]

LEMMA EndsStep ==
    ASSUME NEW Byte, NEW file \in Seq(Byte), NEW i \in 0..Len(file), i < Len(file), NEW name
    PROVE  EndsOf(file, name, i + 1) =
              EndsOf(file, name, i) \cup
                 (IF /\ file[i + 1] \in LineEnds
                     /\ LineAt(file, i + 1) # <<>>
                     /\ LineAt(file, i + 1)[1] = name
                  THEN {i + 1} ELSE {})
<1>1. 1..(i + 1) = 1..i \cup {i + 1}
  OBVIOUS
<1>2. QED BY <1>1 DEF EndsOf

\* A line that names a colour sets it, and no other byte sets one.
LEMMA MeantStep ==
    ASSUME NEW Byte, NEW file \in Seq(Byte), NEW i \in 0..Len(file), i < Len(file), NEW name
    PROVE  MeantBy(file, name, i + 1) =
              IF /\ file[i + 1] \in LineEnds
                 /\ LineAt(file, i + 1) # <<>>
                 /\ LineAt(file, i + 1)[1] = name
              THEN HexToUint32(Tail(LineAt(file, i + 1)))
              ELSE MeantBy(file, name, i)
<1> DEFINE sets == /\ file[i + 1] \in LineEnds
                   /\ LineAt(file, i + 1) # <<>>
                   /\ LineAt(file, i + 1)[1] = name
<1>1. CASE sets
  <2>1. EndsOf(file, name, i + 1) = EndsOf(file, name, i) \cup {i + 1}
    BY <1>1, EndsStep
  <2>2. EndsOf(file, name, i) \subseteq 1..i
    BY DEF EndsOf
  <2>3. /\ i + 1 \in EndsOf(file, name, i + 1) /\ EndsOf(file, name, i + 1) \subseteq Int
        /\ \A y \in EndsOf(file, name, i + 1) : i + 1 >= y
    BY <2>1, <2>2
  <2>4. Max(EndsOf(file, name, i + 1)) = i + 1
    BY <2>3, MaxIs
  <2>5. QED BY <1>1, <2>3, <2>4 DEF MeantBy
<1>2. CASE ~ sets
  <2>1. EndsOf(file, name, i + 1) = EndsOf(file, name, i) \cup {}
    BY <1>2, EndsStep
  <2>2. QED BY <1>2, <2>1 DEF MeantBy
<1>3. QED BY <1>1, <1>2

LEMMA ParseStep ==
    ASSUME NEW Byte, NEW file \in Seq(Byte), LINE_MAX \in Nat,
           NEW i \in 0..Len(file), i < Len(file)
    PROVE  ParseByte(StateAfter(file, i), file[i + 1]) = StateAfter(file, i + 1)
<1> DEFINE s == StateAfter(file, i)
           b == file[i + 1]
           ln == LineAt(file, i + 1)
<1>1. /\ s.line = ln
      /\ s.theme = [n \in Names |-> MeantBy(file, n, i)]
      /\ s = [line |-> s.line, theme |-> s.theme]
  BY DEF StateAfter
<1>2. /\ ln \in Seq(Byte)
      /\ LineAt(file, (i + 1) + 1) =
           CASE b \in LineEnds -> <<>>
             [] OTHER -> IF Len(ln) < LINE_MAX THEN Append(ln, b) ELSE ln
  BY LineAtStep
<1>3. \A n \in Names :
        MeantBy(file, n, i + 1) =
           IF b \in LineEnds /\ ln # <<>> /\ ln[1] = n THEN HexToUint32(Tail(ln))
           ELSE MeantBy(file, n, i)
  BY MeantStep
<1> DEFINE after == [n \in Names |-> MeantBy(file, n, i + 1)]
<1>4. StateAfter(file, i + 1) = [line |-> LineAt(file, (i + 1) + 1), theme |-> after]
  BY DEF StateAfter
<1>5. CASE b \in LineEnds /\ ln # <<>>
  <2>1. Assign(s.theme, ln) = after
    <3>1. CASE ln[1] \in Names
      BY <1>1, <1>3, <1>5, <3>1 DEF Assign
    <3>2. CASE ln[1] \notin Names
      BY <1>1, <1>3, <1>5, <3>2 DEF Assign
    <3>3. QED BY <3>1, <3>2
  <2>2. ParseByte(s, b) = [line |-> <<>>, theme |-> Assign(s.theme, ln)]
    BY <1>1, <1>5 DEF ParseByte
  <2>3. LineAt(file, (i + 1) + 1) = <<>>
    BY <1>2, <1>5
  <2>4. QED BY <1>4, <2>1, <2>2, <2>3
<1>6. CASE ~ (b \in LineEnds /\ ln # <<>>)
  <2>1. after = s.theme
    BY <1>1, <1>3, <1>6
  <2>2. CASE b \in LineEnds
    <3>1. ParseByte(s, b) = s
      BY <1>1, <1>6, <2>2 DEF ParseByte
    <3>2. LineAt(file, (i + 1) + 1) = ln
      BY <1>2, <1>6, <2>2
    <3>3. QED BY <1>1, <1>4, <2>1, <3>1, <3>2
  <2>3. CASE b \notin LineEnds
    <3>1. ParseByte(s, b) = IF Len(ln) < LINE_MAX THEN [s EXCEPT !.line = Append(@, b)] ELSE s
      BY <1>1, <2>3 DEF ParseByte
    <3>2. ParseByte(s, b) =
            [line |-> IF Len(ln) < LINE_MAX THEN Append(ln, b) ELSE ln, theme |-> s.theme]
      BY <1>1, <3>1
    <3>3. LineAt(file, (i + 1) + 1) = IF Len(ln) < LINE_MAX THEN Append(ln, b) ELSE ln
      BY <1>2, <2>3
    <3>4. QED BY <1>4, <2>1, <3>2, <3>3
  <2>4. QED BY <2>2, <2>3
<1>7. QED BY <1>5, <1>6

\* There is a run over the file: the recursive function of LoadTheme is defined.
LEMMA RunExists ==
    ASSUME NEW Byte, NEW file \in Seq(Byte)
    PROVE  \E run : run = [i \in 0..Len(file) |->
                             IF i = 0 THEN Start ELSE ParseByte(run[i-1], file[i])]
<1> DEFINE IsRun(run, n) ==
             run = [i \in 0..n |-> IF i = 0 THEN Start ELSE ParseByte(run[i-1], file[i])]
           S == {n \in 0..Len(file) : \E run : IsRun(run, n)}
<1>1. Len(file) \in Nat
  OBVIOUS
<1>2. 0 \in S
  <2>1. IsRun([i \in 0..0 |-> Start], 0)
    OBVIOUS
  <2>2. 0 \in 0..Len(file)
    BY <1>1
  <2> HIDE DEF IsRun
  <2>3. QED BY <2>1, <2>2
<1>3. ASSUME NEW n \in 0..Len(file), n < Len(file), n \in S PROVE n + 1 \in S
  <2>1. PICK run : IsRun(run, n)
    BY <1>3
  <2> DEFINE longer == [i \in 0..(n + 1) |->
                          IF i = n + 1 THEN ParseByte(run[n], file[n + 1]) ELSE run[i]]
  <2>2. ASSUME NEW i \in 0..(n + 1)
        PROVE  longer[i] = IF i = 0 THEN Start ELSE ParseByte(longer[i-1], file[i])
    <3>1. CASE i = n + 1
      <4>1. i # 0 /\ i - 1 = n /\ n \in 0..(n + 1) /\ n # n + 1
        BY <3>1
      <4>2. longer[i - 1] = run[n]
        BY <4>1
      <4>3. QED BY <3>1, <4>1, <4>2
    <3>2. CASE i = 0
      <4>1. i # n + 1 /\ i \in 0..n
        BY <3>2
      <4>2. longer[i] = run[i] /\ run[i] = Start
        BY <2>1, <3>2, <4>1
      <4>3. QED BY <3>2, <4>2
    <3>3. CASE i \in 1..n
      <4>1. i # n + 1 /\ i # 0 /\ i - 1 \in 0..(n + 1) /\ i - 1 # n + 1 /\ i \in 0..n
        BY <3>3
      <4>2. longer[i] = run[i] /\ longer[i - 1] = run[i - 1]
        BY <4>1
      <4>3. run[i] = ParseByte(run[i - 1], file[i])
        BY <2>1, <4>1
      <4>4. QED BY <4>1, <4>2, <4>3
    <3>4. QED BY <3>1, <3>2, <3>3
  <2>3. longer = [i \in 0..(n + 1) |-> longer[i]]
    OBVIOUS
  <2> HIDE DEF longer
  <2>4. IsRun(longer, n + 1)
    BY <2>2, <2>3
  <2>5. n + 1 \in 0..Len(file)
    BY <1>3
  <2>6. QED BY <2>4, <2>5
<1>4. 0..Len(file) \subseteq S
  <2> HIDE DEF S
  <2>1. QED BY <1>1, <1>2, <1>3, Induct
<1>5. Len(file) \in S
  BY <1>1, <1>4
<1>6. QED BY <1>5

\* The parser and the reader of the file agree after every byte.
LEMMA LoadIsMeant ==
    ASSUME NEW Byte, NEW file \in Seq(Byte), LINE_MAX \in Nat,
           DefaultColor = [n \in Names |-> DefaultColor[n]]
    PROVE  LoadTheme(file) = [n \in Names |-> MeantBy(file, n, Len(file))]
<1> DEFINE run == CHOOSE run : run = [i \in 0..Len(file) |->
                                  IF i = 0 THEN Start ELSE ParseByte(run[i-1], file[i])]
           S == {i \in 0..Len(file) : run[i] = StateAfter(file, i)}
<1>1. run = [i \in 0..Len(file) |-> IF i = 0 THEN Start ELSE ParseByte(run[i-1], file[i])]
  BY RunExists
<1>2. LoadTheme(file) = run[Len(file)].theme
  BY DEF LoadTheme, Start
<1> HIDE DEF run
<1>3. Len(file) \in Nat
  OBVIOUS
<1>4. StateAfter(file, 0) = Start
  <2>1. LineAt(file, 0 + 1) = <<>>
    BY LineAtStart
  <2>2. \A n \in Names : EndsOf(file, n, 0) = {}
    BY DEF EndsOf
  <2>3. \A n \in Names : MeantBy(file, n, 0) = DefaultColor[n]
    BY <2>2 DEF MeantBy
  <2>4. QED BY <2>1, <2>3 DEF StateAfter, Start
<1>5. 0 \in S
  BY <1>1, <1>3, <1>4
<1>6. ASSUME NEW i \in 0..Len(file), i < Len(file), i \in S PROVE i + 1 \in S
  <2>1. i + 1 \in 0..Len(file) /\ i + 1 # 0 /\ (i + 1) - 1 = i
    BY <1>6
  <2>2. run[i + 1] = ParseByte(run[i], file[i + 1])
    BY <1>1, <2>1
  <2>3. run[i + 1] = StateAfter(file, i + 1)
    BY <1>6, <2>2, ParseStep
  <2>4. QED BY <2>1, <2>3
<1>7. 0..Len(file) \subseteq S
  <2> HIDE DEF S
  <2>1. QED BY <1>3, <1>5, <1>6, Induct
<1>8. run[Len(file)] = StateAfter(file, Len(file))
  BY <1>3, <1>7
<1>9. QED BY <1>2, <1>8 DEF StateAfter

LEMMA MeantIs ==
    ASSUME NEW Byte, NEW file \in Seq(Byte), NEW name
    PROVE  Meant(file, name) = MeantBy(file, name, Len(file))
<1>1. DOMAIN file = 1..Len(file)
  OBVIOUS
<1>2. EndsOf(file, name, Len(file)) = {p \in DOMAIN file : /\ file[p] \in LineEnds
                                     /\ LineAt(file, p) # <<>>
                                     /\ LineAt(file, p)[1] = name}
  BY <1>1 DEF EndsOf
<1> DEFINE ends == EndsOf(file, name, Len(file))
           text == Tail(LineAt(file, Max(ends)))
           number == CHOOSE number : number = [k \in 0..DIGITS |->
                        IF k = 0 THEN 0 ELSE number[k-1] * 16 + HexDigit[text[k+1]]]
<1>3. Meant(file, name) = CASE ends = {} -> DefaultColor[name]
          [] ends # {} /\ Len(text) = DIGITS + 1 /\ text[1] = "#" -> number[DIGITS]
          [] OTHER -> 0
  BY <1>2 DEF Meant
<1>4. HexToUint32(text) = IF Len(text) = DIGITS + 1 /\ text[1] = "#" THEN number[DIGITS] ELSE 0
  BY DEF HexToUint32
<1> HIDE DEF number, text
<1>5. MeantBy(file, name, Len(file)) = IF ends = {} THEN DefaultColor[name] ELSE HexToUint32(text)
  BY DEF MeantBy, text
<1>6. QED BY <1>3, <1>4, <1>5

\* For any file, load_theme leaves in the theme what the file means.
THEOREM LoadThemeIsMeant ==
    ASSUME NEW Byte, NEW file \in Seq(Byte), LINE_MAX \in Nat,
           DefaultColor = [n \in Names |-> DefaultColor[n]]
    PROVE  LoadTheme(file) = ThemeMeant(file)
BY LoadIsMeant, MeantIs DEF ThemeMeant

-----------------------------------------------------------------------------
(* ShellRc: what is stripped from a key and a value *)

\* Where s has something other than a space, and where it has something to keep.
Shown(s) == {i \in 1..Len(s) : s[i] # SPACE}
Solid(s) == {i \in 1..Len(s) : s[i] \notin Blanks}

\* What trim leaves of the string s, and the system call that a line leads to.
Trimmed(s) ==
    IF Shown(s) = {} THEN <<>>
    ELSE SubSeq(s, Min(Shown(s)), Max({Min(Shown(s))} \cup Solid(s)))

CallOf(ln) ==
    LET equals == {i \in 2..Len(ln) : ln[i] = "="}
        key    == Trimmed(SubSeq(ln, 2, Min(equals) - 1))
        value  == Trimmed(SubSeq(ln, Min(equals) + 1, Len(ln)))
    IN  IF ln # <<>> /\ ln[1] = "set " /\ equals # {} /\ Len(key) = 1 /\ key[1] \in Keys
        THEN <<[key |-> key[1], value |-> value]>> ELSE <<>>

LEMMA MinOf ==
    ASSUME NEW S, S \subseteq Nat, S # {}
    PROVE  Min(S) \in S /\ \A y \in S : Min(S) <= y
<1>1. \E m \in S : \A k \in S : m =< k
  BY LeastOf
<1>2. QED BY <1>1 DEF Min

\* t is a piece of s: it stands there behind the first n bytes.
PieceAt(t, s, n) ==
    /\ n \in Nat /\ n + Len(t) <= Len(s)
    /\ \A i \in 1..Len(t) : t[i] = s[n + i]

Piece(t, s) == \E n \in Nat : PieceAt(t, s, n)

\* Where Trim ends.
LastOf(s) == Max({Min(Shown(s))} \cup Solid(s))

LEMMA ShownIs ==
    ASSUME NEW B, NEW s \in Seq(B), Shown(s) # {}
    PROVE  /\ Min(Shown(s)) \in 1..Len(s) /\ s[Min(Shown(s))] # SPACE
           /\ \A i \in 1..Min(Shown(s)) - 1 : s[i] = SPACE
<1> DEFINE m == Min(Shown(s))
<1>1. Shown(s) \subseteq Nat
  BY DEF Shown
<1>2. m \in Shown(s) /\ \A y \in Shown(s) : m <= y
  BY <1>1, MinOf
<1> HIDE DEF m
<1>3. m \in 1..Len(s) /\ s[m] # SPACE /\ Len(s) \in Nat
  BY <1>2 DEF Shown
<1>4. ASSUME NEW i \in 1..(m - 1) PROVE s[i] = SPACE
  <2>1. i \in 1..Len(s) /\ ~ (m <= i)
    BY <1>3
  <2>2. i \notin Shown(s)
    BY <1>2, <2>1
  <2>3. QED BY <2>1, <2>2 DEF Shown
<1>5. QED BY <1>3, <1>4 DEF m

LEMMA LastIs ==
    ASSUME NEW B, NEW s \in Seq(B), Shown(s) # {}
    PROVE  /\ LastOf(s) \in Min(Shown(s))..Len(s)
           /\ LastOf(s) > Min(Shown(s)) => s[LastOf(s)] \notin Blanks
           /\ \A i \in LastOf(s) + 1..Len(s) : s[i] \in Blanks
<1> DEFINE m == Min(Shown(s))
           S == {m} \cup Solid(s)
           l == Max(S)
<1>1. m \in 1..Len(s) /\ Len(s) \in Nat
  BY ShownIs
<1>2. S \subseteq 0..Len(s) /\ S # {}
  BY <1>1 DEF Solid
<1>3. l \in S /\ \A y \in S : l >= y
  <2> HIDE DEF S
  <2>1. QED BY <1>1, <1>2, MaxOf
<1>4. l = LastOf(s)
  BY DEF LastOf
<1> HIDE DEF l, m
<1>5. l \in m..Len(s)
  BY <1>1, <1>2, <1>3
<1>6. l > m => s[l] \notin Blanks
  BY <1>3, <1>1 DEF Solid
<1>7. ASSUME NEW i \in (l + 1)..Len(s) PROVE s[i] \in Blanks
  <2>1. i \in 1..Len(s) /\ ~ (l >= i)
    BY <1>1, <1>5
  <2>2. i \notin Solid(s)
    BY <1>3, <2>1
  <2>3. QED BY <2>1, <2>2 DEF Solid
<1>8. QED BY <1>4, <1>5, <1>6, <1>7 DEF m

LEMMA Cut ==
    ASSUME NEW B, NEW s \in Seq(B), NEW f \in 1..Len(s) + 1, NEW l \in f - 1..Len(s)
    PROVE  /\ SubSeq(s, f, l) \in Seq(B)
           /\ Len(SubSeq(s, f, l)) = l - f + 1
           /\ \A i \in 1..(l - f + 1) : SubSeq(s, f, l)[i] = s[(f - 1) + i]
           /\ PieceAt(SubSeq(s, f, l), s, f - 1)
<1>1. /\ SubSeq(s, f, l) \in Seq(B)
      /\ Len(SubSeq(s, f, l)) = l - f + 1
      /\ \A i \in 1..(l - f + 1) : SubSeq(s, f, l)[i] = s[(f - 1) + i]
  OBVIOUS
<1> DEFINE t == SubSeq(s, f, l)
<1> HIDE DEF t
<1>2. (f - 1) + (l - f + 1) <= Len(s) /\ f - 1 \in Nat
  OBVIOUS
<1>3. PieceAt(t, s, f - 1)
  BY <1>1, <1>2 DEF PieceAt, t
<1>4. QED BY <1>1, <1>3 DEF t

\* trim takes the padding away and nothing else.
LEMMA TrimStrips ==
    ASSUME NEW B, NEW s \in Seq(B)
    PROVE  Stripped(s, Trimmed(s)) /\ Trimmed(s) \in Seq(B) /\ Piece(Trimmed(s), s)
<1>0. Len(s) \in Nat
  OBVIOUS
<1>1. CASE Shown(s) = {}
  <2>1. \A i \in 1..Len(s) : s[i] = SPACE
    BY <1>1 DEF Shown
  <2>2. Trimmed(s) = <<>>
    BY <1>1 DEF Trimmed
  <2>3. SubSeq(s, Len(s) + 1, Len(s)) = <<>>
    <3>1. Len(s) + 1 \in 1..Len(s) + 1 /\ Len(s) \in (Len(s) + 1) - 1..Len(s)
      BY <1>0
    <3> DEFINE t == SubSeq(s, Len(s) + 1, Len(s))
    <3>2. t \in Seq(B) /\ Len(t) = Len(s) - (Len(s) + 1) + 1
      BY <3>1, Cut
    <3> HIDE DEF t
    <3>3. Len(t) = 0
      BY <3>2, <1>0
    <3>4. t = <<>>
      BY <3>2, <3>3, EmptySeq
    <3>5. QED BY <3>4 DEF t
  <2>4. Stripped(s, <<>>)
    <3>1. /\ Len(s) + 1 \in 1..Len(s) + 1 /\ Len(s) \in (Len(s) + 1) - 1..Len(s)
          /\ Len(s) < Len(s) + 1 /\ (Len(s) + 1) - 1 = Len(s)
          /\ \A i \in Len(s) + 1..Len(s) : FALSE
      BY <1>0
    <3>2. QED BY <2>1, <2>3, <3>1 DEF Stripped
  <2>5. Piece(<<>>, s)
    <3>1. Len(<<>>) = 0 /\ 0 + 0 <= Len(s)
      BY <1>0
    <3>2. PieceAt(<<>>, s, 0)
      BY <3>1 DEF PieceAt
    <3>3. QED BY <3>2 DEF Piece
  <2>6. <<>> \in Seq(B)
    OBVIOUS
  <2>7. QED BY <2>2, <2>4, <2>5, <2>6
<1>2. CASE Shown(s) # {}
  <2> DEFINE f == Min(Shown(s))
             l == LastOf(s)
  <2>1. f \in 1..Len(s) /\ s[f] # SPACE /\ \A i \in 1..f - 1 : s[i] = SPACE
    BY <1>2, ShownIs
  <2>2. l \in f..Len(s) /\ (l > f => s[l] \notin Blanks) /\ \A i \in l + 1..Len(s) : s[i] \in Blanks
    BY <1>2, LastIs
  <2>3. Trimmed(s) = SubSeq(s, f, l)
    BY <1>2 DEF Trimmed, LastOf
  <2> HIDE DEF f, l
  <2>4. f \in 1..Len(s) + 1 /\ l \in f - 1..Len(s) /\ ~ (l < f) /\ f - 1 \in Nat
    BY <1>0, <2>1, <2>2
  <2>5. SubSeq(s, f, l) \in Seq(B) /\ PieceAt(SubSeq(s, f, l), s, f - 1)
    BY <2>4, Cut
  <2>6. Stripped(s, SubSeq(s, f, l))
    BY <2>1, <2>2, <2>4 DEF Stripped
  <2>7. QED BY <2>3, <2>4, <2>5, <2>6 DEF Piece
<1>3. QED BY <1>1, <1>2

\* A key is what is left when it is all that is left.
LEMMA KeyIsTrimmed ==
    ASSUME NEW B, NEW s \in Seq(B), NEW key, key \notin Blanks, Stripped(s, <<key>>)
    PROVE  /\ Trimmed(s) = <<key>>
           /\ \A i \in 1..Len(s) : s[i] = key \/ s[i] \in Blanks
<1>0. Len(s) \in Nat
  OBVIOUS
<1>1. PICK f \in 1..Len(s) + 1 : \E l \in f - 1..Len(s) :
        /\ <<key>> = SubSeq(s, f, l)
        /\ \A i \in 1..f - 1 : s[i] = SPACE
        /\ \A i \in l + 1..Len(s) : s[i] \in Blanks
        /\ IF l < f THEN f = Len(s) + 1 ELSE s[f] # SPACE /\ (l > f => s[l] \notin Blanks)
  BY DEF Stripped
<1>2. PICK l \in f - 1..Len(s) :
        /\ <<key>> = SubSeq(s, f, l)
        /\ \A i \in 1..f - 1 : s[i] = SPACE
        /\ \A i \in l + 1..Len(s) : s[i] \in Blanks
        /\ IF l < f THEN f = Len(s) + 1 ELSE s[f] # SPACE /\ (l > f => s[l] \notin Blanks)
  BY <1>1
<1>3. /\ Len(SubSeq(s, f, l)) = l - f + 1
      /\ \A i \in 1..(l - f + 1) : SubSeq(s, f, l)[i] = s[(f - 1) + i]
  BY Cut
<1>4. Len(<<key>>) = 1 /\ <<key>>[1] = key
  OBVIOUS
<1>5. l = f /\ (f - 1) + 1 = f /\ f \in 1..Len(s)
  <2>1. l - f + 1 = 1
    BY <1>2, <1>3, <1>4
  <2>2. QED BY <1>0, <2>1
<1>6. s[f] = key
  BY <1>2, <1>3, <1>4, <1>5
<1>7. SPACE \in Blanks
  BY DEF Blanks
<1>8. f \in Shown(s)
  BY <1>5, <1>6, <1>7 DEF Shown
<1> DEFINE m == Min(Shown(s))
           e == LastOf(s)
<1>9. m \in 1..Len(s) /\ s[m] # SPACE /\ \A i \in 1..m - 1 : s[i] = SPACE
  BY <1>8, ShownIs
<1>10. e \in m..Len(s) /\ (e > m => s[e] \notin Blanks) /\ \A i \in e + 1..Len(s) : s[i] \in Blanks
  BY <1>8, LastIs
<1>11. Trimmed(s) = SubSeq(s, m, e)
  BY <1>8 DEF Trimmed, LastOf
<1> HIDE DEF m, e
<1>12. m = f
  <2>1. ~ (m < f)
    BY <1>2, <1>5, <1>9
  <2>2. ~ (f < m)
    BY <1>5, <1>6, <1>7, <1>9
  <2>3. QED BY <1>5, <1>9, <2>1, <2>2
<1>13. e = f
  <2>1. ~ (e > f)
    BY <1>2, <1>5, <1>10, <1>12
  <2>2. QED BY <1>5, <1>10, <1>12, <2>1
<1>14. ASSUME NEW i \in 1..Len(s) PROVE s[i] = key \/ s[i] \in Blanks
  <2>1. CASE i = f
    BY <1>6, <2>1
  <2>2. CASE i \in 1..f - 1
    BY <1>2, <1>7, <2>2
  <2>3. CASE i \in l + 1..Len(s)
    BY <1>2, <2>3
  <2>4. i = f \/ i \in 1..f - 1 \/ i \in l + 1..Len(s)
    BY <1>0, <1>5
  <2>5. QED BY <2>1, <2>2, <2>3, <2>4
<1>15. QED BY <1>2, <1>5, <1>11, <1>12, <1>13, <1>14

-----------------------------------------------------------------------------
(* ShellRc: one line *)

Equals(ln) == {i \in 2..Len(ln) : ln[i] = "="}

LEMMA PieceOfPiece ==
    ASSUME NEW B, NEW s \in Seq(B), NEW t \in Seq(B), NEW u \in Seq(B), Piece(t, s), Piece(u, t)
    PROVE  Piece(u, s)
<1>1. PICK n \in Nat : PieceAt(t, s, n)
  BY DEF Piece
<1>2. PICK m \in Nat : PieceAt(u, t, m)
  BY DEF Piece
<1>3. Len(u) \in Nat /\ Len(t) \in Nat /\ Len(s) \in Nat
  OBVIOUS
<1>4. n + Len(t) <= Len(s) /\ m + Len(u) <= Len(t)
  BY <1>1, <1>2 DEF PieceAt
<1>5. n + m \in Nat /\ (n + m) + Len(u) <= Len(s)
  BY <1>3, <1>4
<1>6. ASSUME NEW i \in 1..Len(u) PROVE u[i] = s[(n + m) + i]
  <2>1. m + i \in 1..Len(t) /\ n + (m + i) = (n + m) + i
    BY <1>3, <1>4
  <2>2. u[i] = t[m + i] /\ t[m + i] = s[n + (m + i)]
    BY <1>1, <1>2, <2>1 DEF PieceAt
  <2>3. QED BY <2>1, <2>2
<1>7. PieceAt(u, s, n + m)
  BY <1>5, <1>6 DEF PieceAt
<1>8. QED BY <1>5, <1>7 DEF Piece

LEMMA PieceIsCut ==
    ASSUME NEW B, NEW s \in Seq(B), NEW t \in Seq(B), Piece(t, s)
    PROVE  \E a \in 1..Len(s) + 1, b \in 0..Len(s) : t = SubSeq(s, a, b)
<1>1. PICK n \in Nat : PieceAt(t, s, n)
  BY DEF Piece
<1>2. /\ Len(t) \in Nat /\ Len(s) \in Nat /\ n + Len(t) <= Len(s)
      /\ \A i \in 1..Len(t) : t[i] = s[n + i]
  BY <1>1 DEF PieceAt
<1>3. /\ n + 1 \in 1..Len(s) + 1 /\ n + Len(t) \in (n + 1) - 1..Len(s)
      /\ (n + Len(t)) - (n + 1) + 1 = Len(t) /\ n + Len(t) \in 0..Len(s)
  BY <1>2
<1> DEFINE u == SubSeq(s, n + 1, n + Len(t))
<1>4. /\ u \in Seq(B) /\ Len(u) = Len(t)
      /\ \A i \in 1..Len(t) : u[i] = s[((n + 1) - 1) + i]
  BY <1>3, Cut
<1> HIDE DEF u
<1>5. \A i \in 1..Len(t) : u[i] = t[i]
  BY <1>2, <1>4
<1>6. u = t
  BY <1>4, <1>5, SeqEqual
<1>7. QED BY <1>3, <1>6 DEF u

\* A line leads to a call exactly if it means one, and to the one it means.
LEMMA CallIsMeant ==
    ASSUME NEW B, NEW ln \in Seq(B)
    PROVE  \/ /\ CallOf(ln) = <<>>
              /\ \A key \in Keys : \A value : ~ Means(ln, key, value)
           \/ \E key \in Keys, value \in Seq(B) :
                 /\ CallOf(ln) = <<[key |-> key, value |-> value]>>
                 /\ Means(ln, key, value) /\ Piece(value, ln)
<1>0. Len(ln) \in Nat
  OBVIOUS
<1>1. CASE Equals(ln) = {} \/ ln = <<>> \/ ln[1] # "set "
  <2>1. CallOf(ln) = <<>>
    BY <1>1 DEF CallOf, Equals
  <2>2. ASSUME NEW key \in Keys, NEW value, Means(ln, key, value) PROVE FALSE
    <3>1. PICK e \in 2..Len(ln) : ln[1] = "set " /\ ln[e] = "="
      BY <2>2 DEF Means
    <3>2. e \in Equals(ln)
      BY <3>1 DEF Equals
    <3>3. ln # <<>>
      <4>1. Len(ln) >= 2 /\ Len(<<>>) = 0
        BY <1>0
      <4>2. QED BY <4>1
    <3>4. QED BY <1>1, <3>1, <3>2, <3>3
  <2>3. QED BY <2>1, <2>2
<1>2. CASE Equals(ln) # {} /\ ln # <<>> /\ ln[1] = "set "
  <2> DEFINE e     == Min(Equals(ln))
             left  == SubSeq(ln, 2, e - 1)
             right == SubSeq(ln, e + 1, Len(ln))
  <2>1. e \in Equals(ln) /\ \A y \in Equals(ln) : e <= y
    <3>1. Equals(ln) \subseteq Nat
      BY DEF Equals
    <3>2. QED BY <1>2, <3>1, MinOf
  <2>2. CallOf(ln) = IF Len(Trimmed(left)) = 1 /\ Trimmed(left)[1] \in Keys
                     THEN <<[key |-> Trimmed(left)[1], value |-> Trimmed(right)]>> ELSE <<>>
    BY <1>2 DEF CallOf, Equals
  <2> HIDE DEF e
  <2>3. e \in 2..Len(ln) /\ ln[e] = "="
    BY <2>1 DEF Equals
  <2>4. /\ left \in Seq(B) /\ Len(left) = e - 2
        /\ \A i \in 1..(e - 2) : left[i] = ln[1 + i]
    <3>1. 2 \in 1..Len(ln) + 1 /\ e - 1 \in 2 - 1..Len(ln) /\ (e - 1) - 2 + 1 = e - 2 /\ 2 - 1 = 1
      BY <1>0, <2>3
    <3>2. QED BY <3>1, Cut
  <2>5. right \in Seq(B) /\ Piece(right, ln)
    <3>1. e + 1 \in 1..Len(ln) + 1 /\ Len(ln) \in (e + 1) - 1..Len(ln) /\ (e + 1) - 1 \in Nat
      BY <1>0, <2>3
    <3>2. right \in Seq(B) /\ PieceAt(right, ln, (e + 1) - 1)
      BY <3>1, Cut
    <3>3. QED BY <3>1, <3>2 DEF Piece
  <2>6. /\ Stripped(left, Trimmed(left)) /\ Trimmed(left) \in Seq(B)
        /\ Stripped(right, Trimmed(right)) /\ Trimmed(right) \in Seq(B)
        /\ Piece(Trimmed(right), ln)
    <3> HIDE DEF left, right
    <3>1. /\ Stripped(left, Trimmed(left)) /\ Trimmed(left) \in Seq(B)
          /\ Stripped(right, Trimmed(right)) /\ Trimmed(right) \in Seq(B) /\ Piece(Trimmed(right), right)
      BY <2>4, <2>5, TrimStrips
    <3>2. QED BY <2>5, <3>1, PieceOfPiece
  <2>7. CASE Len(Trimmed(left)) = 1 /\ Trimmed(left)[1] \in Keys
    <3> DEFINE key == Trimmed(left)[1]
    <3>1. <<key>> = Trimmed(left)
      <4> HIDE DEF left
      <4>1. QED BY <2>6, <2>7
    <3>2. Means(ln, key, Trimmed(right))
      BY <1>2, <2>3, <2>6, <3>1 DEF Means
    <3>3. CallOf(ln) = <<[key |-> key, value |-> Trimmed(right)]>>
      BY <2>2, <2>7
    <3> HIDE DEF left, right
    <3>4. QED BY <2>6, <2>7, <3>2, <3>3
  <2>8. CASE ~ (Len(Trimmed(left)) = 1 /\ Trimmed(left)[1] \in Keys)
    <3>1. CallOf(ln) = <<>>
      BY <2>2, <2>8
    <3>2. ASSUME NEW key \in Keys, NEW value, Means(ln, key, value) PROVE FALSE
      <4>1. PICK g \in 2..Len(ln) : /\ ln[g] = "="
                                    /\ Stripped(SubSeq(ln, 2, g - 1), <<key>>)
        BY <3>2 DEF Means
      <4> DEFINE s == SubSeq(ln, 2, g - 1)
      <4>2. key \notin Blanks /\ key # "=" /\ "=" \notin Blanks
        BY RcAssumption DEF Blanks
      <4>3. /\ s \in Seq(B) /\ Len(s) = g - 2
            /\ \A i \in 1..(g - 2) : s[i] = ln[1 + i]
        <5>1. 2 \in 1..Len(ln) + 1 /\ g - 1 \in 2 - 1..Len(ln) /\ (g - 1) - 2 + 1 = g - 2 /\ 2 - 1 = 1
          BY <1>0
        <5>2. QED BY <5>1, Cut
      <4>4. Trimmed(s) = <<key>> /\ \A i \in 1..Len(s) : s[i] = key \/ s[i] \in Blanks
        <5>1. Stripped(s, <<key>>)
          BY <4>1
        <5> HIDE DEF s
        <5>2. QED BY <4>2, <4>3, <5>1, KeyIsTrimmed
      <4>5. e <= g
        <5>1. g \in Equals(ln)
          BY <4>1 DEF Equals
        <5>2. QED BY <2>1, <5>1
      <4>6. ~ (e < g)
        <5>1. SUFFICES ASSUME e < g PROVE FALSE
          OBVIOUS
        <5>2. e - 1 \in 1..(g - 2) /\ 1 + (e - 1) = e
          BY <2>3, <5>1
        <5> HIDE DEF s
        <5>3. s[e - 1] = "="
          BY <2>3, <4>3, <5>2
        <5>4. s[e - 1] = key \/ s[e - 1] \in Blanks
          BY <4>3, <4>4, <5>2
        <5>5. QED BY <4>2, <5>3, <5>4
      <4>7. e = g
        BY <2>3, <4>5, <4>6
      <4>8. Trimmed(left) = <<key>>
        BY <4>4, <4>7
      <4> HIDE DEF left
      <4>9. Len(Trimmed(left)) = 1 /\ Trimmed(left)[1] = key
        BY <4>8
      <4>10. QED BY <2>8, <4>9
    <3>3. QED BY <3>1, <3>2
  <2>9. QED BY <2>7, <2>8
<1>3. QED BY <1>1, <1>2

-----------------------------------------------------------------------------
(* ShellRc: the loop over the lines *)

Upto(p)  == {q \in Settings(Text) : q <= p}

\* Where the line ends that begins at the cursor c.
EndFrom(c) == Min({Len(Text) + 1} \cup {p \in c..Len(Text) : Text[p] = NL})

\* Once round the loop as it is meant: a line is cut out, nothing is written.
LineRound(s) ==
    IF s.cursor > Len(Text) THEN s
    ELSE [cursor |-> EndFrom(s.cursor) + 1,
          calls  |-> s.calls \o CallOf(SubSeq(Text, s.cursor, EndFrom(s.cursor) - 1))]

LEMMA UptoIs ==
    ASSUME Text \in Seq(Bytes), NEW p \in Nat
    PROVE  IsFiniteSet(Upto(p)) /\ Cardinality(Upto(p)) \in Nat
<1>1. Upto(p) \in SUBSET Nat /\ \A q \in Upto(p) : q <= p
  BY DEF Upto, Settings, Ends
<1>2. IsFiniteSet(Upto(p))
  BY <1>1, FS_BoundedSetOfNaturals
<1>3. QED BY <1>2, FS_CardinalityType

LEMMA EndIs ==
    ASSUME Text \in Seq(Bytes), NEW c \in 1..Len(Text)
    PROVE  /\ EndFrom(c) \in c..Len(Text) + 1 /\ EndFrom(c) \in Ends(Text)
           /\ \A p \in Ends(Text) : p >= c => EndFrom(c) <= p
<1> DEFINE S == {Len(Text) + 1} \cup {p \in c..Len(Text) : Text[p] = NL}
           e == EndFrom(c)
<1>1. S \subseteq Nat /\ S # {} /\ Len(Text) \in Nat
  OBVIOUS
<1>2. e \in S /\ \A y \in S : e <= y
  <2>1. e = Min(S)
    BY DEF EndFrom
  <2> HIDE DEF S, e
  <2>2. QED BY <1>1, <2>1, MinOf
<1>3. S = {p \in Ends(Text) : p >= c}
  BY <1>1 DEF Ends
<1> HIDE DEF S, e
<1>4. e \in Ends(Text) /\ e >= c /\ e \in 1..Len(Text) + 1
  BY <1>2, <1>3 DEF Ends
<1>5. \A p \in Ends(Text) : p >= c => e <= p
  BY <1>2, <1>3
<1>6. QED BY <1>1, <1>4, <1>5 DEF e

\* The line before an end begins behind the end before it.
LEMMA LineFrom ==
    ASSUME Text \in Seq(Bytes), NEW c \in 1..Len(Text) + 1, c = 1 \/ c - 1 \in Ends(Text),
           NEW e \in Ends(Text), e >= c, \A p \in Ends(Text) : p >= c => e <= p
    PROVE  Line(Text, e) = SubSeq(Text, c, e - 1)
<1> DEFINE S == {0} \cup {q \in Ends(Text) : q < e}
<1>1. Ends(Text) \subseteq Nat \ {0} /\ c - 1 \in Nat
  BY DEF Ends
<1>2. c - 1 \in S
  BY <1>1
<1>3. \A q \in S : c - 1 >= q
  <2>1. ASSUME NEW q \in Ends(Text), q < e PROVE c - 1 >= q
    <3>1. ~ (q >= c)
      BY <1>1, <2>1
    <3>2. QED BY <1>1, <3>1
  <2>2. QED BY <1>1, <2>1
<1>4. S \subseteq Int
  <2>1. \A q \in Ends(Text) : q \in Int
    BY <1>1
  <2>2. QED BY <2>1
<1>5. Max(S) = c - 1
  <2> HIDE DEF S
  <2>1. QED BY <1>2, <1>3, <1>4, MaxIs
<1>6. 1 + (c - 1) = c
  OBVIOUS
<1>7. S = {0} \cup {q \in 1..e - 1 : Text[q] = NL}
  <2>1. Len(Text) \in Nat /\ e \in 1..Len(Text) + 1
    BY DEF Ends
  <2>2. ASSUME NEW q \in 1..e - 1, Text[q] = NL PROVE q \in Ends(Text) /\ q < e
    BY <2>1, <2>2 DEF Ends
  <2>3. ASSUME NEW q \in Ends(Text), q < e PROVE q \in 1..e - 1 /\ Text[q] = NL
    BY <2>1, <2>3 DEF Ends
  <2>4. QED BY <2>2, <2>3
<1>8. Line(Text, e) = SubSeq(Text, 1 + Max(S), e - 1)
  BY <1>7 DEF Line
<1> HIDE DEF S
<1>9. QED BY <1>5, <1>6, <1>8

\* What the calls made so far are, when the cursor is at c.
MadeSoFar(c, calls) ==
    /\ calls \in Seq([key : Keys, value : Seq(Bytes)])
    /\ Len(calls) = Cardinality(Upto(c - 1))
    /\ \A p \in Upto(c - 1) :
          LET call == calls[Cardinality(Upto(p))] IN Means(Line(Text, p), call.key, call.value)

\* Between two rounds.
Loop(s) ==
    /\ s.cursor \in 1..Len(Text) + 2
    /\ s.cursor = 1 \/ s.cursor - 1 \in Ends(Text)
    /\ MadeSoFar(s.cursor, s.calls)

LEMMA RoundKeeps ==
    ASSUME Text \in Seq(Bytes), NEW s, Loop(s), s.cursor <= Len(Text)
    PROVE  Loop(LineRound(s)) /\ LineRound(s).cursor > s.cursor
<1> DEFINE c  == s.cursor
           e  == EndFrom(c)
           ln == SubSeq(Text, c, e - 1)
           r  == [cursor |-> e + 1, calls |-> s.calls \o CallOf(ln)]
<1>0. Len(Text) \in Nat
  OBVIOUS
<1>1. c \in 1..Len(Text) /\ (c = 1 \/ c - 1 \in Ends(Text)) /\ MadeSoFar(c, s.calls)
  BY <1>0 DEF Loop
<1>2. LineRound(s) = r
  BY <1>0, <1>1 DEF LineRound
<1>3. /\ e \in c..Len(Text) + 1 /\ e \in Ends(Text)
      /\ \A p \in Ends(Text) : p >= c => e <= p
  BY <1>1, EndIs
<1>4. r.cursor = e + 1 /\ r.calls = s.calls \o CallOf(ln)
  OBVIOUS
<1> HIDE DEF c, e, r
<1>5. Line(Text, e) = ln
  <2>1. c \in 1..Len(Text) + 1 /\ e >= c
    BY <1>0, <1>1, <1>3
  <2>2. QED BY <1>1, <1>3, <2>1, LineFrom
<1>6. ln \in Seq(Bytes) /\ Piece(ln, Text)
  <2>1. c \in 1..Len(Text) + 1 /\ e - 1 \in c - 1..Len(Text) /\ c - 1 \in Nat
    BY <1>0, <1>1, <1>3
  <2>2. ln \in Seq(Bytes) /\ PieceAt(ln, Text, c - 1)
    BY <2>1, Cut
  <2>3. QED BY <2>1, <2>2 DEF Piece
<1> HIDE DEF ln
<1>7. /\ c - 1 \in Nat /\ e \in Nat /\ e > c - 1 /\ (e + 1) - 1 = e
      /\ e + 1 \in 1..Len(Text) + 2 /\ e + 1 > c
  BY <1>0, <1>1, <1>3
<1>8. Upto(e) = Upto(c - 1) \cup (IF e \in Settings(Text) THEN {e} ELSE {})
  <2>1. ASSUME NEW q \in Settings(Text), q <= e, q # e PROVE q <= c - 1
    <3>1. q \in Ends(Text) /\ q \in Nat
      BY DEF Settings, Ends
    <3>2. ~ (q >= c)
      BY <1>3, <1>7, <2>1, <3>1
    <3>3. QED BY <1>1, <3>1, <3>2
  <2>2. ASSUME NEW q \in Settings(Text), q <= c - 1 PROVE q <= e
    <3>1. q \in Nat
      BY DEF Settings, Ends
    <3>2. QED BY <1>7, <2>2, <3>1
  <2>3. QED BY <1>7, <2>1, <2>2 DEF Upto
<1>9. e \notin Upto(c - 1)
  BY <1>7 DEF Upto
<1>10. /\ IsFiniteSet(Upto(c - 1)) /\ Cardinality(Upto(c - 1)) \in Nat
  BY <1>7, UptoIs
<1> DEFINE C == [key : Keys, value : Seq(Bytes)]
           n == Cardinality(Upto(c - 1))
<1>11. /\ s.calls \in Seq(C) /\ Len(s.calls) = n
       /\ \A p \in Upto(c - 1) : LET call == s.calls[Cardinality(Upto(p))]
                                 IN  Means(Line(Text, p), call.key, call.value)
  BY <1>1 DEF MadeSoFar
<1>12. \A p \in Upto(c - 1) : Cardinality(Upto(p)) \in 1..n
  <2>1. TAKE p \in Upto(c - 1)
  <2>2. p \in Nat /\ p <= c - 1 /\ p \in Settings(Text)
    BY DEF Upto, Settings, Ends
  <2>3. Upto(p) \subseteq Upto(c - 1)
    <3>1. \A q \in Settings(Text) : q \in Nat
      BY DEF Settings, Ends
    <3>2. ASSUME NEW q \in Settings(Text), q <= p PROVE q <= c - 1
      BY <1>7, <2>2, <3>1, <3>2
    <3>3. QED BY <3>2 DEF Upto
  <2>4. Cardinality(Upto(p)) <= n
    BY <1>10, <2>3, FS_Subset
  <2>5. IsFiniteSet(Upto(p)) /\ Cardinality(Upto(p)) \in Nat
    BY <2>2, UptoIs
  <2>6. p \in Upto(p)
    BY <2>2 DEF Upto
  <2>7. Cardinality(Upto(p)) # 0
    BY <2>5, <2>6, FS_EmptySet
  <2>8. QED BY <1>10, <2>4, <2>5, <2>7
<1>13. MadeSoFar(e + 1, r.calls)
  <2>1. CASE /\ CallOf(ln) = <<>>
             /\ \A key \in Keys : \A value : ~ Means(ln, key, value)
    <3>1. e \notin Settings(Text)
      BY <1>5, <2>1 DEF Settings
    <3>2. Upto(e) = Upto(c - 1)
      BY <1>8, <3>1
    <3>3. r.calls = s.calls
      <4> HIDE DEF C, n
      <4>1. s.calls \o <<>> = s.calls
        BY <1>11
      <4>2. QED BY <1>4, <2>1, <4>1
    <3>4. QED BY <1>7, <1>11, <3>2, <3>3 DEF MadeSoFar
  <2>2. ASSUME NEW key \in Keys, NEW value \in Seq(Bytes),
               CallOf(ln) = <<[key |-> key, value |-> value]>>,
               Means(ln, key, value), Piece(value, ln)
        PROVE  MadeSoFar(e + 1, r.calls)
    <3> DEFINE call == [key |-> key, value |-> value]
    <3>1. \E i \in 1..Len(ln) + 1, k \in 0..Len(ln) : value = SubSeq(ln, i, k)
      BY <1>6, <2>2, PieceIsCut
    <3>2. e \in Settings(Text)
      BY <1>3, <1>5, <2>2, <3>1 DEF Settings
    <3>3. Upto(e) = Upto(c - 1) \cup {e}
      BY <1>8, <3>2
    <3>4. Cardinality(Upto(e)) = n + 1
      BY <1>9, <1>10, <3>3, FS_AddElement
    <3>5. call \in C /\ call.key = key /\ call.value = value
      OBVIOUS
    <3>6. r.calls = s.calls \o <<call>>
      BY <1>4, <2>2
    <3> HIDE DEF C, n, call
    <3>7. /\ r.calls \in Seq(C) /\ Len(r.calls) = n + 1
          /\ \A i \in 1..n : r.calls[i] = s.calls[i]
          /\ r.calls[n + 1] = call
      <4>1. s.calls \in Seq(C) /\ Len(s.calls) = n /\ call \in C BY <1>11, <3>5
      <4> DEFINE calls == s.calls
      <4> HIDE DEF calls
      <4>2. /\ Append(calls, call) \in Seq(C) /\ Len(Append(calls, call)) = n + 1
            /\ \A i \in 1..n : Append(calls, call)[i] = calls[i]
            /\ Append(calls, call)[n + 1] = call
        BY <4>1 DEF calls
      <4>3. r.calls = Append(calls, call) BY <3>6, <4>1 DEF calls
      <4>4. QED BY <4>2, <4>3 DEF calls
    <3>8. ASSUME NEW p \in Upto(e)
          PROVE  LET d == r.calls[Cardinality(Upto(p))] IN Means(Line(Text, p), d.key, d.value)
      <4>1. CASE p \in Upto(c - 1)
        <5>1. r.calls[Cardinality(Upto(p))] = s.calls[Cardinality(Upto(p))]
          BY <1>12, <3>7, <4>1
        <5>2. QED BY <1>11, <4>1, <5>1
      <4>2. CASE p = e
        BY <1>5, <2>2, <3>4, <3>5, <3>7, <4>2
      <4>3. QED BY <3>3, <4>1, <4>2
    <3>9. QED BY <1>7, <3>4, <3>7, <3>8 DEF MadeSoFar, C
  <2>3. QED BY <1>6, <2>1, <2>2, CallIsMeant
<1>14. Loop(r)
  BY <1>3, <1>4, <1>7, <1>13 DEF Loop
<1>15. QED BY <1>2, <1>4, <1>7, <1>14 DEF c

-----------------------------------------------------------------------------
(* ShellRc: the buffer that is cut up in place *)

\* The string at p in the buffer b is t.
Holds(b, p, t) ==
    /\ p \in 1..Len(b) /\ p + Len(t) \in 1..Len(b) /\ b[p + Len(t)] = NUL
    /\ \A i \in 1..Len(t) : b[(p - 1) + i] = t[i] /\ t[i] # NUL

\* Where a string ends of which the bytes are known.
LEMMA StopIs ==
    ASSUME NEW B, NEW b \in Seq(B), NEW p \in Nat \ {0},
           NEW q \in p..Len(b), b[q] = NUL, \A i \in p..q - 1 : b[i] # NUL
    PROVE  Stop(b, p) = q
<1> DEFINE S == {i \in p..Len(b) : b[i] = NUL}
<1>1. q \in S /\ S \subseteq Nat
  OBVIOUS
<1>2. Min(S) \in S /\ \A y \in S : Min(S) <= y
  <2> HIDE DEF S
  <2>1. QED BY <1>1, MinOf
<1>3. Min(S) = Stop(b, p)
  BY DEF Stop
<1> DEFINE m == Min(S)
<1>4. m <= q /\ m \in p..Len(b) /\ b[m] = NUL
  <2> HIDE DEF m
  <2>1. m \in S /\ m <= q BY <1>1, <1>2 DEF m
  <2>2. QED BY <2>1
<1> HIDE DEF m
<1>5. ~ (m < q)
  BY <1>4
<1>6. QED BY <1>3, <1>4, <1>5 DEF m

LEMMA HoldsString ==
    ASSUME NEW B, NEW b \in Seq(B), NEW D, NEW t \in Seq(D), NEW p, Holds(b, p, t)
    PROVE  Stop(b, p) = p + Len(t) /\ String(b, p) = t
<1>1. /\ p \in 1..Len(b) /\ p + Len(t) \in 1..Len(b) /\ b[p + Len(t)] = NUL
      /\ \A i \in 1..Len(t) : b[(p - 1) + i] = t[i] /\ t[i] # NUL
      /\ Len(t) \in Nat /\ Len(b) \in Nat
  BY DEF Holds
<1>2. \A i \in p..(p + Len(t)) - 1 : b[i] # NUL
  <2>1. TAKE i \in p..(p + Len(t)) - 1
  <2>2. i - (p - 1) \in 1..Len(t) /\ (p - 1) + (i - (p - 1)) = i
    BY <1>1
  <2>3. QED BY <1>1, <2>2
<1>3. p \in Nat \ {0} /\ p + Len(t) \in p..Len(b)
  BY <1>1
<1>4. Stop(b, p) = p + Len(t)
  BY <1>1, <1>2, <1>3, StopIs
<1> DEFINE e == (p + Len(t)) - 1
           u == SubSeq(b, p, e)
<1>5. p \in 1..Len(b) + 1 /\ e \in p - 1..Len(b) /\ e - p + 1 = Len(t)
  BY <1>1
<1>6. u \in Seq(B) /\ Len(u) = Len(t) /\ \A i \in 1..Len(t) : u[i] = b[(p - 1) + i]
  <2> HIDE DEF e
  <2>1. QED BY <1>5, Cut
<1>7. String(b, p) = u
  BY <1>4 DEF String
<1> HIDE DEF u
<1>8. u = t
  BY <1>1, <1>6, SeqEqual
<1>9. QED BY <1>4, <1>7, <1>8

\* The buffer b, its bytes behind l and up to e written over with NULs.
Blanking(b, l, e) == SubSeq(b, 1, l) \o [q \in 1..e - l |-> NUL] \o SubSeq(b, e + 1, Len(b))

LEMMA Blanked ==
    ASSUME NEW B, NEW b \in Seq(B), NUL \in B, NEW l \in 0..Len(b), NEW e \in l..Len(b)
    PROVE  /\ Blanking(b, l, e) \in Seq(B) /\ Len(Blanking(b, l, e)) = Len(b)
           /\ \A q \in 1..Len(b) : Blanking(b, l, e)[q] = IF q \in l + 1..e THEN NUL ELSE b[q]
<1> DEFINE u == SubSeq(b, 1, l)
           n == [q \in 1..e - l |-> NUL]
           v == SubSeq(b, e + 1, Len(b))
<1>0. Len(b) \in Nat /\ l \in Nat /\ e \in Nat /\ e - l \in Nat
  OBVIOUS
<1>1. u \in Seq(B) /\ Len(u) = l /\ \A q \in 1..l : u[q] = b[q]
  <2>1. 1 \in 1..Len(b) + 1 /\ l \in 1 - 1..Len(b) /\ l - 1 + 1 = l /\ \A q \in 1..l : (1 - 1) + q = q
    BY <1>0
  <2>2. u \in Seq(B) /\ Len(u) = l - 1 + 1 /\ \A q \in 1..l - 1 + 1 : u[q] = b[(1 - 1) + q]
    BY <2>1, Cut
  <2> HIDE DEF u
  <2>3. QED BY <2>1, <2>2
<1>2. n \in Seq(B) /\ Len(n) = e - l /\ \A q \in 1..e - l : n[q] = NUL
  <2>1. n \in Seq(B)
    BY <1>0
  <2>2. QED BY <1>0, <2>1
<1>3. v \in Seq(B) /\ Len(v) = Len(b) - e /\ \A q \in 1..Len(b) - e : v[q] = b[e + q]
  <2> DEFINE f == e + 1
  <2>1. f \in 1..Len(b) + 1 /\ Len(b) \in f - 1..Len(b) /\ Len(b) - f + 1 = Len(b) - e /\ f - 1 = e
    BY <1>0
  <2>2. v = SubSeq(b, f, Len(b))
    OBVIOUS
  <2> HIDE DEF f, v
  <2>3. /\ v \in Seq(B) /\ Len(v) = Len(b) - f + 1
        /\ \A q \in 1..(Len(b) - f + 1) : v[q] = b[(f - 1) + q]
    BY <2>1, <2>2, Cut
  <2>4. QED BY <2>1, <2>3
<1> HIDE DEF u, n, v
<1> DEFINE x == u \o n
           w == x \o v
<1>4. x \in Seq(B) /\ Len(x) = e /\ \A q \in 1..e : x[q] = IF q <= l THEN u[q] ELSE n[q - l]
  <2>1. x \in Seq(B) /\ Len(x) = Len(u) + Len(n)
    BY <1>1, <1>2, ConcatProperties
  <2>2. \A q \in 1..Len(u) + Len(n) : x[q] = IF q <= Len(u) THEN u[q] ELSE n[q - Len(u)]
    BY <1>1, <1>2, ConcatProperties
  <2> HIDE DEF x
  <2>3. Len(u) + Len(n) = e
    BY <1>0, <1>1, <1>2
  <2>4. QED BY <1>1, <2>1, <2>2, <2>3
<1> HIDE DEF x
<1>5. w \in Seq(B) /\ Len(w) = Len(b) /\ \A q \in 1..Len(b) : w[q] = IF q <= e THEN x[q] ELSE v[q - e]
  BY <1>0, <1>3, <1>4
<1>6. ASSUME NEW q \in 1..Len(b) PROVE w[q] = IF q \in l + 1..e THEN NUL ELSE b[q]
  <2> HIDE DEF w
  <2>1. CASE q <= l
    BY <1>0, <1>1, <1>4, <1>5, <2>1
  <2>2. CASE q \in l + 1..e
    <3>1. q <= e /\ ~ (q <= l) /\ q - l \in 1..e - l /\ q \in 1..e
      BY <1>0, <2>2
    <3>2. QED BY <1>2, <1>4, <1>5, <2>2, <3>1
  <2>3. CASE q > e
    <3>1. ~ (q <= e) /\ q - e \in 1..Len(b) - e /\ e + (q - e) = q /\ q \notin l + 1..e
      BY <1>0, <2>3
    <3>2. QED BY <1>3, <1>5, <3>1
  <2>4. QED BY <1>0, <2>1, <2>2, <2>3
<1>7. Blanking(b, l, e) = w
  BY DEF Blanking, u, n, v, x
<1> HIDE DEF w
<1>8. QED BY <1>5, <1>6, <1>7

\* Trimmed where it stands, a string is Trimmed, and no byte behind it changes.
LEMMA TrimInPlace ==
    ASSUME NEW B, NUL \in B, NEW b \in Seq(B), NEW D, NEW t \in Seq(D), NEW p, Holds(b, p, t)
    PROVE  /\ Trim(b, p).buf \in Seq(B) /\ Len(Trim(b, p).buf) = Len(b)
           /\ Trim(b, p).at \in p..p + Len(t)
           /\ Trim(b, p).at + Len(Trimmed(t)) <= p + Len(t)
           /\ Holds(Trim(b, p).buf, Trim(b, p).at, Trimmed(t))
           /\ \A q \in 1..Len(b) : q \notin p..p + Len(t) - 1 => Trim(b, p).buf[q] = b[q]
<1> DEFINE stop == Stop(b, p)
           S    == {q \in p..stop : b[q] # SPACE}
           at   == Min(S)
           L    == {at} \cup {q \in at..stop - 1 : b[q] \notin Blanks}
           last == Max(L)
           w    == Blanking(b, last, stop)
<1>1. /\ p \in 1..Len(b) /\ p + Len(t) \in 1..Len(b) /\ b[p + Len(t)] = NUL
      /\ \A i \in 1..Len(t) : b[(p - 1) + i] = t[i] /\ t[i] # NUL
      /\ Len(t) \in Nat /\ Len(b) \in Nat
  BY DEF Holds
<1>2. stop = p + Len(t)
  BY HoldsString
<1>3. Trim(b, p) = [at |-> at, buf |-> w]
  BY DEF Trim, Blanking
<1>4. Trim(b, p).at = at /\ Trim(b, p).buf = w
  BY <1>3
<1> HIDE DEF stop
<1>5. NUL # SPACE /\ NUL \notin Blanks /\ SPACE \in Blanks
  BY RcAssumption DEF Blanks
<1>6. stop \in S /\ S \subseteq Nat
  BY <1>1, <1>2, <1>5
<1>7. at \in S /\ \A y \in S : at <= y
  <2> HIDE DEF S
  <2>1. QED BY <1>6, MinOf
<1>8. at \in p..stop /\ b[at] # SPACE /\ (\A q \in p..at - 1 : b[q] = SPACE)
  <2>1. at \in p..stop /\ b[at] # SPACE
    BY <1>7
  <2>2. ASSUME NEW q \in p..at - 1 PROVE b[q] = SPACE
    <3> HIDE DEF at
    <3>1. q \in p..stop /\ ~ (at <= q)
      BY <1>1, <1>2, <2>1
    <3>2. q \notin S
      <4> HIDE DEF S
      <4>1. QED BY <1>7, <3>1
    <3>3. QED BY <3>1, <3>2
  <2>3. QED BY <2>1, <2>2
<1> HIDE DEF at, S
<1>9. last \in L /\ \A y \in L : last >= y
  <2>1. L \subseteq 0..stop /\ L # {} /\ stop \in Nat
    BY <1>1, <1>2, <1>8
  <2> HIDE DEF L
  <2>2. QED BY <2>1, MaxOf
<1>10. /\ last \in at..stop /\ (last > at => b[last] \notin Blanks)
       /\ last = stop => at = stop
       /\ \A q \in last + 1..stop - 1 : b[q] \in Blanks
  <2> DEFINE m == last
  <2>1. m \in L /\ \A y \in L : m >= y
    BY <1>9
  <2> HIDE DEF m
  <2>2. /\ m \in at..stop /\ (m > at => b[m] \notin Blanks)
        /\ m = stop => at = stop
    BY <1>1, <1>2, <1>8, <2>1
  <2>3. ASSUME NEW q \in m + 1..stop - 1 PROVE b[q] \in Blanks
    <3>1. q \in at..stop - 1 /\ ~ (m >= q)
      BY <1>1, <1>2, <1>8, <2>2
    <3>2. q \notin L
      <4> HIDE DEF L
      <4>1. QED BY <2>1, <3>1
    <3>3. QED BY <3>1, <3>2
  <2>4. QED BY <2>2, <2>3 DEF m
<1> HIDE DEF L, last
<1>11. /\ w \in Seq(B) /\ Len(w) = Len(b)
       /\ \A q \in 1..Len(b) : w[q] = IF q \in last + 1..stop THEN NUL ELSE b[q]
  <2>1. last \in 0..Len(b) /\ stop \in last..Len(b)
    BY <1>1, <1>2, <1>8, <1>10
  <2> HIDE DEF w
  <2>2. /\ Blanking(b, last, stop) \in Seq(B) /\ Len(Blanking(b, last, stop)) = Len(b)
        /\ \A q \in 1..Len(b) : Blanking(b, last, stop)[q] = IF q \in last + 1..stop THEN NUL ELSE b[q]
    BY <2>1, Blanked
  <2>3. QED BY <2>2 DEF w
<1> HIDE DEF w
<1>12. \A q \in 1..Len(b) : q \notin p..p + Len(t) - 1 => w[q] = b[q]
  <2>1. TAKE q \in 1..Len(b)
  <2>2. HAVE q \notin p..p + Len(t) - 1
  <2>3. CASE q \in last + 1..stop
    <3>1. q = p + Len(t)
      BY <1>1, <1>2, <1>8, <1>10, <2>2, <2>3
    <3>2. QED BY <1>1, <1>11, <2>3, <3>1
  <2>4. QED BY <1>11, <2>3
<1>13. Holds(w, at, Trimmed(t)) /\ at + Len(Trimmed(t)) <= p + Len(t)
  <2>1. CASE Shown(t) = {}
    <3>1. at = stop
      <4>1. SUFFICES ASSUME at # stop PROVE FALSE
        OBVIOUS
      <4>2. at - (p - 1) \in 1..Len(t) /\ (p - 1) + (at - (p - 1)) = at
        BY <1>1, <1>2, <1>8, <4>1
      <4>3. at - (p - 1) \in Shown(t)
        BY <1>1, <1>8, <4>2 DEF Shown
      <4>4. QED BY <2>1, <4>3
    <3>2. Trimmed(t) = <<>> /\ Len(<<>>) = 0
      BY <2>1 DEF Trimmed
    <3>3. at \in 1..Len(b) /\ at + 0 = at /\ w[at] = NUL
      BY <1>1, <1>2, <1>11, <3>1
    <3>4. Holds(w, at, <<>>)
      BY <1>11, <3>2, <3>3 DEF Holds
    <3>5. QED BY <1>1, <1>2, <3>1, <3>2, <3>3, <3>4
  <2>2. CASE Shown(t) # {}
    <3> DEFINE f == Min(Shown(t))
               l == LastOf(t)
    <3>1. f \in 1..Len(t) /\ t[f] # SPACE /\ \A i \in 1..f - 1 : t[i] = SPACE
      BY <2>2, ShownIs
    <3>2. l \in f..Len(t) /\ (l > f => t[l] \notin Blanks) /\ \A i \in l + 1..Len(t) : t[i] \in Blanks
      BY <2>2, LastIs
    <3>3. Trimmed(t) = SubSeq(t, f, l)
      BY <2>2 DEF Trimmed, LastOf
    <3> HIDE DEF f, l
    <3>4. at = (p - 1) + f
      <4>1. ~ (at < (p - 1) + f)
        <5>1. SUFFICES ASSUME at < (p - 1) + f PROVE FALSE
          OBVIOUS
        <5>2. at - (p - 1) \in 1..f - 1 /\ at - (p - 1) \in 1..Len(t) /\ (p - 1) + (at - (p - 1)) = at
          BY <1>1, <1>2, <1>8, <3>1, <5>1
        <5>3. QED BY <1>1, <1>8, <3>1, <5>2
      <4>2. ~ ((p - 1) + f < at)
        <5>1. SUFFICES ASSUME (p - 1) + f < at PROVE FALSE
          OBVIOUS
        <5>2. (p - 1) + f \in p..at - 1
          BY <1>1, <1>2, <1>8, <3>1, <5>1
        <5>3. QED BY <1>1, <1>8, <3>1, <5>2
      <4>3. QED BY <1>1, <1>2, <1>8, <3>1, <4>1, <4>2
    <3>5. last = (p - 1) + l
      <4>1. ~ ((p - 1) + l < last)
        <5>1. SUFFICES ASSUME (p - 1) + l < last PROVE FALSE
          OBVIOUS
        <5>2. last # stop /\ last > at
          BY <1>1, <1>2, <1>8, <1>10, <3>1, <3>2, <3>4, <5>1
        <5>3. last - (p - 1) \in l + 1..Len(t) /\ last - (p - 1) \in 1..Len(t)
              /\ (p - 1) + (last - (p - 1)) = last
          BY <1>1, <1>2, <1>8, <1>10, <3>1, <3>2, <5>1, <5>2
        <5>4. QED BY <1>1, <1>10, <3>2, <5>2, <5>3
      <4>2. ~ (last < (p - 1) + l)
        <5>1. SUFFICES ASSUME last < (p - 1) + l PROVE FALSE
          OBVIOUS
        <5>2. l > f /\ (p - 1) + l \in last + 1..stop - 1 /\ l \in 1..Len(t)
          BY <1>1, <1>2, <1>8, <1>10, <3>1, <3>2, <3>4, <5>1
        <5>3. QED BY <1>1, <1>10, <3>2, <5>2
      <4>3. QED BY <1>1, <1>2, <1>8, <1>10, <3>1, <3>2, <4>1, <4>2
    <3> DEFINE u == SubSeq(t, f, l)
    <3>6. Len(u) = l - f + 1 /\ \A i \in 1..(l - f + 1) : u[i] = t[(f - 1) + i]
      <4>1. f \in 1..Len(t) + 1 /\ l \in f - 1..Len(t)
        BY <1>1, <3>1, <3>2
      <4>2. QED BY <4>1, Cut
    <3> HIDE DEF u
    <3>7. at \in 1..Len(w) /\ at + Len(u) \in 1..Len(w) /\ at + Len(u) = last + 1 /\ last + 1 \in last + 1..stop
      BY <1>1, <1>2, <1>11, <3>1, <3>2, <3>4, <3>5, <3>6
    <3>8. w[at + Len(u)] = NUL
      BY <1>11, <3>7
    <3>9. ASSUME NEW i \in 1..Len(u) PROVE w[(at - 1) + i] = u[i] /\ u[i] # NUL
      <4>1. /\ (f - 1) + i \in 1..Len(t) /\ (at - 1) + i = (p - 1) + ((f - 1) + i)
            /\ (at - 1) + i \in 1..Len(b) /\ (at - 1) + i \notin last + 1..stop
        BY <1>1, <1>2, <3>1, <3>2, <3>4, <3>5, <3>6
      <4>2. w[(at - 1) + i] = b[(at - 1) + i]
        BY <1>11, <4>1
      <4>3. QED BY <1>1, <3>6, <4>1, <4>2
    <3>10. Holds(w, at, u)
      BY <3>7, <3>8, <3>9 DEF Holds
    <3>11. at + Len(u) <= p + Len(t)
      BY <1>2, <1>10, <3>7
    <3>12. QED BY <3>3, <3>10, <3>11 DEF u
  <2>3. QED BY <2>1, <2>2
<1>14. at \in p..p + Len(t)
  BY <1>2, <1>8
<1>15. QED BY <1>4, <1>11, <1>12, <1>13, <1>14

LEMMA HoldsStill ==
    ASSUME NEW b, NEW w, NEW D, NEW t \in Seq(D), NEW p, Holds(b, p, t), Len(b) \in Nat,
           Len(w) = Len(b), \A q \in p..p + Len(t) : w[q] = b[q]
    PROVE  Holds(w, p, t)
<1>1. /\ p \in 1..Len(b) /\ p + Len(t) \in 1..Len(b) /\ b[p + Len(t)] = NUL
      /\ \A i \in 1..Len(t) : b[(p - 1) + i] = t[i] /\ t[i] # NUL
      /\ Len(t) \in Nat
  BY DEF Holds
<1>2. p + Len(t) \in p..p + Len(t) /\ \A i \in 1..Len(t) : (p - 1) + i \in p..p + Len(t)
  BY <1>1
<1>3. w[p + Len(t)] = NUL /\ \A i \in 1..Len(t) : w[(p - 1) + i] = t[i] /\ t[i] # NUL
  BY <1>1, <1>2
<1>4. QED BY <1>1, <1>3 DEF Holds

SystemCalls == [key : Keys, value : Seq(Bytes)]

\* Between two rounds, s is a record of these.
IsState(s) ==
    /\ s = [buf |-> s.buf, cursor |-> s.cursor, calls |-> s.calls]
    /\ s.calls \in Seq(SystemCalls)

\* A piece of what the buffer holds, ended by a NUL, is held.
LEMMA HoldsPiece ==
    ASSUME NEW B, NEW b \in Seq(B), NEW D, NEW t \in Seq(D), NEW p, Holds(b, p, t),
           NEW f \in 1..Len(t) + 1, NEW l \in f - 1..Len(t),
           NEW w, Len(w) = Len(b), w[p + l] = NUL,
           \A q \in (p - 1) + f..(p - 1) + l : w[q] = b[q]
    PROVE  /\ SubSeq(t, f, l) \in Seq(D) /\ Len(SubSeq(t, f, l)) = l - f + 1
           /\ Holds(w, (p - 1) + f, SubSeq(t, f, l))
<1> DEFINE u == SubSeq(t, f, l)
<1>1. /\ p \in 1..Len(b) /\ p + Len(t) \in 1..Len(b)
      /\ \A i \in 1..Len(t) : b[(p - 1) + i] = t[i] /\ t[i] # NUL
      /\ Len(t) \in Nat /\ Len(b) \in Nat
  BY DEF Holds
<1>2. /\ u \in Seq(D) /\ Len(u) = l - f + 1
      /\ \A i \in 1..(l - f + 1) : u[i] = t[(f - 1) + i]
  BY Cut
<1> HIDE DEF u
<1> DEFINE a == (p - 1) + f
<1>3. a \in 1..Len(w) /\ a + Len(u) \in 1..Len(w) /\ a + Len(u) = p + l
  BY <1>1, <1>2
<1>4. ASSUME NEW i \in 1..Len(u) PROVE w[(a - 1) + i] = u[i] /\ u[i] # NUL
  <2>1. /\ (f - 1) + i \in 1..Len(t) /\ (a - 1) + i = (p - 1) + ((f - 1) + i)
        /\ (a - 1) + i \in a..(p - 1) + l
    BY <1>1, <1>2
  <2>2. w[(a - 1) + i] = b[(p - 1) + ((f - 1) + i)]
    BY <2>1
  <2>3. QED BY <1>1, <1>2, <2>1, <2>2
<1> HIDE DEF a
<1>5. Holds(w, a, u)
  BY <1>3, <1>4 DEF Holds
<1>6. QED BY <1>2, <1>5 DEF u, a

IsSetting(ln) == ln # <<>> /\ ln[1] = "set " /\ Equals(ln) # {}

\* r is s after the line ln at c was read: no byte behind the line has changed.
ReadOut(s, c, ln, r) ==
    /\ r = [buf |-> r.buf, cursor |-> s.cursor, calls |-> s.calls \o CallOf(ln)]
    /\ Len(r.buf) = Len(s.buf)
    /\ \A q \in 1..Len(s.buf) : q >= c + Len(ln) => r.buf[q] = s.buf[q]

\* A setting is read out of the buffer after both its sides were trimmed there.
LEMMA SettingIs ==
    ASSUME NEW B, NUL \in B, NEW s, IsState(s), s.buf \in Seq(B),
           NEW ln \in Seq(Bytes), NEW c, Holds(s.buf, c, ln), IsSetting(ln)
    PROVE  /\ Setting(s, c, (c - 1) + Min(Equals(ln))).buf \in Seq(B)
           /\ ReadOut(s, c, ln, Setting(s, c, (c - 1) + Min(Equals(ln))))
<1> DEFINE e     == Min(Equals(ln))
           b     == s.buf
           q0    == (c - 1) + e
           b2    == [b EXCEPT ![q0] = NUL]
           key   == Trim(b2, c + 1)
           b3    == key.buf
           value == Trim(b3, q0 + 1)
           b4    == value.buf
           left  == SubSeq(ln, 2, e - 1)
           right == SubSeq(ln, e + 1, Len(ln))
           name  == String(b4, key.at)
           call  == [key |-> name[1], value |-> String(b4, value.at)]
           calls == IF Len(name) = 1 /\ name[1] \in Keys THEN Append(s.calls, call) ELSE s.calls
           r     == Setting(s, c, q0)
<1>1. r = [buf |-> b4, cursor |-> s.cursor, calls |-> calls]
  <2>1. r = [s EXCEPT !.buf = b4, !.calls = calls]
    BY DEF Setting
  <2> HIDE DEF b4, calls, r
  <2>2. QED BY <2>1 DEF IsState
<1>2. e \in Equals(ln)
  <2>1. Equals(ln) \subseteq Nat
    BY DEF Equals
  <2>2. QED BY <2>1, MinOf DEF IsSetting
<1> HIDE DEF e
<1>3. e \in 2..Len(ln) /\ ln[e] = "=" /\ Len(ln) \in Nat
  BY <1>2 DEF Equals
<1>4. /\ c \in 1..Len(b) /\ c + Len(ln) \in 1..Len(b) /\ b[c + Len(ln)] = NUL
      /\ Len(b) \in Nat
  BY DEF Holds
<1>5. b \in Seq(B) /\ Holds(b, c, ln)
  OBVIOUS
<1> HIDE DEF b
<1>6. q0 \in c + 1..c + Len(ln) - 1 /\ q0 \in 1..Len(b)
  BY <1>3, <1>4
<1>7. b2 \in Seq(B) /\ Len(b2) = Len(b) /\ \A q \in 1..Len(b) : b2[q] = IF q = q0 THEN NUL ELSE b[q]
  BY <1>5, <1>6
<1> HIDE DEF b2
<1>8. left \in Seq(Bytes) /\ Len(left) = e - 2 /\ Holds(b2, c + 1, left)
  <2>1. 2 \in 1..Len(ln) + 1 /\ e - 1 \in 2 - 1..Len(ln) /\ (e - 1) - 2 + 1 = e - 2
        /\ (c - 1) + 2 = c + 1 /\ c + (e - 1) = q0
    BY <1>3, <1>4
  <2>2. b2[c + (e - 1)] = NUL /\ \A q \in (c - 1) + 2..(c - 1) + (e - 1) : b2[q] = b[q]
    <3>1. \A q \in (c - 1) + 2..(c - 1) + (e - 1) : q \in 1..Len(b) /\ q # q0
      BY <1>3, <1>4, <1>6
    <3>2. c + (e - 1) = q0 /\ q0 \in 1..Len(b)
      BY <1>6, <2>1
    <3> HIDE DEF q0
    <3>3. QED BY <1>7, <3>1, <3>2
  <2>3. /\ left \in Seq(Bytes) /\ Len(left) = (e - 1) - 2 + 1
        /\ Holds(b2, (c - 1) + 2, left)
    BY <1>5, <1>7, <2>1, <2>2, HoldsPiece
  <2> HIDE DEF left
  <2>4. QED BY <2>1, <2>3
<1>9. right \in Seq(Bytes) /\ Len(right) = Len(ln) - e /\ Holds(b2, q0 + 1, right)
  <2> DEFINE f == e + 1
  <2>1. /\ f \in 1..Len(ln) + 1 /\ Len(ln) \in f - 1..Len(ln) /\ Len(ln) - f + 1 = Len(ln) - e
        /\ (c - 1) + f = q0 + 1
    BY <1>3, <1>4
  <2>2. b2[c + Len(ln)] = NUL /\ \A q \in (c - 1) + f..(c - 1) + Len(ln) : b2[q] = b[q]
    <3>1. \A q \in (c - 1) + f..(c - 1) + Len(ln) : q \in 1..Len(b) /\ q # q0
      BY <1>3, <1>4, <1>6
    <3>2. c + Len(ln) # q0
      BY <1>3, <1>4, <1>6
    <3> HIDE DEF q0
    <3>3. QED BY <1>4, <1>7, <3>1, <3>2
  <2>3. right = SubSeq(ln, f, Len(ln)) /\ Len(b2) = Len(b)
    BY <1>7
  <2> HIDE DEF f, right
  <2>4. right \in Seq(Bytes) /\ Len(right) = Len(ln) - f + 1 /\ Holds(b2, (c - 1) + f, right)
    BY <1>5, <2>1, <2>2, <2>3, HoldsPiece
  <2>5. QED BY <2>1, <2>4
<1> HIDE DEF left, right
<1>10. /\ b3 \in Seq(B) /\ Len(b3) = Len(b2)
       /\ key.at \in c + 1..c + 1 + Len(left) /\ key.at + Len(Trimmed(left)) <= c + 1 + Len(left)
       /\ Holds(b3, key.at, Trimmed(left))
       /\ \A q \in 1..Len(b2) : q \notin c + 1..c + 1 + Len(left) - 1 => b3[q] = b2[q]
  BY <1>7, <1>8, TrimInPlace
<1> HIDE DEF key
<1>11. Trimmed(left) \in Seq(Bytes) /\ Trimmed(right) \in Seq(Bytes)
  BY <1>8, <1>9, TrimStrips
<1>12. Holds(b3, q0 + 1, right)
  <2>1. \A q \in q0 + 1..q0 + 1 + Len(right) : b3[q] = b2[q]
    BY <1>3, <1>4, <1>7, <1>8, <1>9, <1>10
  <2>2. Len(b2) \in Nat /\ Len(b3) = Len(b2)
    BY <1>4, <1>7, <1>10
  <2>3. QED BY <1>9, <2>1, <2>2, HoldsStill
<1>13. b3 \in Seq(B)
  BY <1>10
<1> HIDE DEF b3
<1>14. /\ b4 \in Seq(B) /\ Len(b4) = Len(b3)
       /\ Holds(b4, value.at, Trimmed(right))
       /\ \A q \in 1..Len(b3) : q \notin q0 + 1..q0 + 1 + Len(right) - 1 => b4[q] = b3[q]
  BY <1>9, <1>12, <1>13, TrimInPlace
<1> HIDE DEF value
<1>15. Holds(b4, key.at, Trimmed(left))
  <2>1. Len(Trimmed(left)) \in Nat
    BY <1>11
  <2>2. \A q \in key.at..key.at + Len(Trimmed(left)) : q \in 1..Len(b3) /\ q \notin q0 + 1..q0 + 1 + Len(right) - 1
    <3>1. c + 1 + Len(left) = q0 /\ Len(b3) = Len(b) /\ q0 \in 1..Len(b) /\ c \in Nat /\ Len(b) \in Nat
      BY <1>3, <1>4, <1>6, <1>7, <1>8, <1>10
    <3>2. /\ key.at \in c + 1..c + 1 + Len(left)
          /\ key.at + Len(Trimmed(left)) <= c + 1 + Len(left)
      BY <1>10
    <3> HIDE DEF q0
    <3>3. \A q \in key.at..key.at + Len(Trimmed(left)) : q \in 1..q0
      BY <2>1, <3>1, <3>2
    <3>4. QED BY <3>1, <3>3
  <2>3. \A q \in key.at..key.at + Len(Trimmed(left)) : b4[q] = b3[q]
    BY <1>14, <2>2
  <2>4. Len(b3) \in Nat
    BY <1>4, <1>7, <1>10
  <2> HIDE DEF b4
  <2>5. QED BY <1>10, <1>11, <1>14, <2>3, <2>4, HoldsStill
<1>16. b4 \in Seq(B)
  BY <1>14
<1> HIDE DEF b4
<1>17. name = Trimmed(left) /\ String(b4, value.at) = Trimmed(right)
  BY <1>11, <1>14, <1>15, <1>16, HoldsString
<1>18. CallOf(ln) = IF Len(Trimmed(left)) = 1 /\ Trimmed(left)[1] \in Keys
                    THEN <<[key |-> Trimmed(left)[1], value |-> Trimmed(right)]>> ELSE <<>>
  BY DEF CallOf, Equals, IsSetting, e, left, right
<1> HIDE DEF name
<1>19. calls = s.calls \o CallOf(ln)
  <2>1. CASE Len(Trimmed(left)) = 1 /\ Trimmed(left)[1] \in Keys
    <3>1. calls = Append(s.calls, call) /\ CallOf(ln) = <<call>>
      BY <1>17, <1>18, <2>1
    <3>2. call \in SystemCalls /\ s.calls \in Seq(SystemCalls)
      BY <1>11, <1>17, <2>1 DEF SystemCalls, IsState
    <3> HIDE DEF calls, call
    <3>3. Append(s.calls, call) = s.calls \o <<call>>
      BY <3>2, AppendIsConcat
    <3>4. QED BY <3>1, <3>3
  <2>2. CASE ~ (Len(Trimmed(left)) = 1 /\ Trimmed(left)[1] \in Keys)
    <3>1. calls = s.calls /\ CallOf(ln) = <<>>
      BY <1>17, <1>18, <2>2
    <3>2. s.calls \o <<>> = s.calls
      BY ConcatEmptySeq DEF IsState
    <3>3. QED BY <3>1, <3>2
  <2>3. QED BY <2>1, <2>2
<1>20. \A q \in 1..Len(b) : q >= c + Len(ln) => b4[q] = b[q]
  <2>1. TAKE q \in 1..Len(b)
  <2>2. HAVE q >= c + Len(ln)
  <2>3. /\ q # q0 /\ q \notin c + 1..c + 1 + Len(left) - 1 /\ q \notin q0 + 1..q0 + 1 + Len(right) - 1
    BY <1>3, <1>4, <1>6, <1>8, <1>9, <2>2
  <2>4. QED BY <1>7, <1>10, <1>14, <2>3
<1> HIDE DEF calls, r
<1>21. r.buf = b4 /\ r = [buf |-> r.buf, cursor |-> s.cursor, calls |-> s.calls \o CallOf(ln)]
  BY <1>1, <1>19
<1>22. Len(b4) = Len(b)
  BY <1>7, <1>10, <1>14
<1>23. r.buf \in Seq(B) /\ ReadOut(s, c, ln, r)
  BY <1>16, <1>20, <1>21, <1>22 DEF ReadOut, b
<1>24. QED BY <1>23 DEF r, q0, e

\* What was read begins with the text and a NUL.
TextFits ==
    /\ Text \in Seq(Bytes) /\ Read \in Seq(Bytes \cup {NUL})
    /\ Len(Text) \in Nat /\ Len(Read) \in Nat /\ Len(Text) + 1 <= Len(Read)
    /\ Read[Len(Text) + 1] = NUL
    /\ \A p \in 1..Len(Text) : Read[p] = Text[p] /\ Text[p] # NUL

\* The calls of s are those of t, and from the cursor on the buffer is as it was read.
Follows(s, t) ==
    /\ Loop(t) /\ IsState(s) /\ s.buf \in Seq(Bytes \cup {NUL})
    /\ s.calls = t.calls
    /\ s.cursor = IF t.cursor > Len(Text) THEN Len(Text) + 1 ELSE t.cursor
    /\ Len(s.buf) = Len(Read) /\ s.buf[Len(Text) + 1] = NUL
    /\ \A p \in s.cursor..Len(Text) : s.buf[p] = Text[p]

\* Both loops begin alike.
LEMMA LoopBegins ==
    ASSUME TextFits
    PROVE  Follows([buf |-> Read, cursor |-> 1, calls |-> <<>>], [cursor |-> 1, calls |-> <<>>])
<1> DEFINE s == [buf |-> Read, cursor |-> 1, calls |-> <<>>]
           t == [cursor |-> 1, calls |-> <<>>]
<1>1. /\ s.buf = Read /\ s.cursor = 1 /\ s.calls = <<>> /\ t.cursor = 1 /\ t.calls = <<>>
      /\ s = [buf |-> s.buf, cursor |-> s.cursor, calls |-> s.calls]
  OBVIOUS
<1> HIDE DEF s, t
<1>2. Upto(0) = {} /\ 1 - 1 = 0
  BY DEF Upto, Settings, Ends
<1>3. /\ <<>> \in Seq(SystemCalls) /\ <<>> \in Seq([key : Keys, value : Seq(Bytes)])
      /\ Len(<<>>) = 0
  OBVIOUS
<1>4. MadeSoFar(1, <<>>)
  <2>1. Cardinality({}) = 0
    BY FS_EmptySet
  <2>2. QED BY <1>2, <1>3, <2>1 DEF MadeSoFar
<1>5. Len(Text) \in Nat /\ 1 \in 1..Len(Text) + 2
  BY DEF TextFits
<1>6. Loop(t)
  BY <1>1, <1>4, <1>5 DEF Loop
<1>7. IsState(s)
  BY <1>1, <1>3 DEF IsState
<1>8. /\ s.cursor = IF t.cursor > Len(Text) THEN Len(Text) + 1 ELSE t.cursor
      /\ \A p \in s.cursor..Len(Text) : s.buf[p] = Text[p]
  BY <1>1, <1>5 DEF TextFits
<1>9. Follows(s, t)
  BY <1>1, <1>6, <1>7, <1>8 DEF Follows, TextFits
<1>10. QED BY <1>9 DEF s, t

\* Behind the text there is nothing left to do.
LEMMA RoundStays ==
    ASSUME TextFits, NEW s, NEW t, Follows(s, t), t.cursor > Len(Text)
    PROVE  Follows(Round(s), t)
<1>1. s.cursor = Len(Text) + 1 /\ s.buf[Len(Text) + 1] = NUL
  BY DEF Follows
<1>2. Round(s) = s
  BY <1>1 DEF Round
<1>3. QED BY <1>2

\* The end of the line, found in the buffer.
LEMMA LineEndIs ==
    ASSUME TextFits, NEW s, NEW t, Follows(s, t), t.cursor <= Len(Text)
    PROVE  /\ s.cursor = t.cursor /\ t.cursor \in 1..Len(Text)
           /\ LineEnd(s) = EndFrom(t.cursor)
           /\ EndFrom(t.cursor) \in t.cursor..Len(Text) + 1
           /\ s.buf[EndFrom(t.cursor)] = IF EndFrom(t.cursor) = Len(Text) + 1 THEN NUL ELSE NL
<1> DEFINE c == t.cursor
           e == EndFrom(c)
           S == {p \in s.cursor..Len(s.buf) : s.buf[p] \in {NUL, NL}}
           m == Min(S)
<1>1. /\ Text \in Seq(Bytes) /\ Len(Text) \in Nat /\ Len(s.buf) \in Nat /\ Len(Text) + 1 <= Len(s.buf)
      /\ \A p \in 1..Len(Text) : Text[p] # NUL
  BY DEF TextFits, Follows
<1>2. c \in 1..Len(Text) /\ s.cursor = c
  BY <1>1 DEF Follows, Loop
<1>3. s.buf[Len(Text) + 1] = NUL /\ \A p \in c..Len(Text) : s.buf[p] = Text[p]
  BY <1>2 DEF Follows
<1>4. e \in c..Len(Text) + 1 /\ e \in Ends(Text) /\ \A p \in Ends(Text) : p >= c => e <= p
  BY <1>1, <1>2, EndIs
<1> HIDE DEF c, e
<1>5. s.buf[e] = IF e = Len(Text) + 1 THEN NUL ELSE NL
  BY <1>1, <1>2, <1>3, <1>4 DEF Ends
<1>6. e \in S
  BY <1>1, <1>2, <1>4, <1>5
<1>7. \A p \in S : e <= p
  <2>1. TAKE p \in S
  <2>2. p \in c..Len(s.buf) /\ s.buf[p] \in {NUL, NL}
    BY <1>2
  <2>3. CASE p <= Len(Text)
    <3>1. p \in Ends(Text)
      BY <1>1, <1>2, <1>3, <2>2, <2>3 DEF Ends
    <3>2. QED BY <1>2, <1>4, <2>2, <3>1
  <2>4. CASE p > Len(Text)
    BY <1>1, <1>2, <1>4, <2>2, <2>4
  <2>5. QED BY <1>1, <1>2, <2>2, <2>3, <2>4
<1>8. m \in S /\ \A y \in S : m <= y
  <2>1. S \subseteq Nat /\ S # {}
    BY <1>1, <1>2, <1>6
  <2> HIDE DEF S
  <2>2. QED BY <2>1, MinOf
<1>9. m = e
  <2>1. m <= e /\ e <= m /\ m \in Nat
    <3>1. m <= e /\ e <= m
      <4> HIDE DEF S, m
      <4>1. QED BY <1>6, <1>7, <1>8
    <3>2. \A y \in S : y \in Nat
      BY <1>1, <1>2
    <3> HIDE DEF S, m
    <3>3. QED BY <1>8, <3>1, <3>2
  <2> HIDE DEF S, m
  <2>2. QED BY <1>1, <1>2, <1>4, <2>1
<1>10. LineEnd(s) = m
  BY DEF LineEnd
<1> HIDE DEF m
<1>11. QED BY <1>2, <1>4, <1>5, <1>9, <1>10 DEF c, e

\* Writing one byte changes that byte.
LEMMA OneWritten ==
    ASSUME NEW B, NEW b \in Seq(B), NEW x \in B, NEW e \in 1..Len(b),
           NEW w, w = [b EXCEPT ![e] = x]
    PROVE  /\ w \in Seq(B) /\ Len(w) = Len(b)
           /\ \A p \in 1..Len(b) : w[p] = IF p = e THEN x ELSE b[p]
OBVIOUS

\* A round in the buffer follows a round on the line alone.
LEMMA RoundFollows ==
    ASSUME TextFits, NEW s, NEW t, Follows(s, t), t.cursor <= Len(Text)
    PROVE  Follows(Round(s), LineRound(t))
<1> DEFINE B   == Bytes \cup {NUL}
           c   == t.cursor
           e   == EndFrom(c)
           ln  == SubSeq(Text, c, e - 1)
           b   == [s.buf EXCEPT ![e] = NUL]
           nx  == IF e = Len(Text) + 1 THEN e ELSE e + 1
           cut == [buf |-> b, cursor |-> nx, calls |-> s.calls]
           E   == {p \in c + 1..Stop(b, c) : b[p] = "="}
           r   == Round(s)
<1>1. /\ Text \in Seq(Bytes) /\ Len(Text) \in Nat /\ Len(s.buf) \in Nat /\ Len(Text) + 1 <= Len(s.buf)
      /\ s.buf \in Seq(B) /\ Len(s.buf) = Len(Read)
      /\ \A p \in 1..Len(Text) : Text[p] # NUL
  BY DEF TextFits, Follows
<1>2. /\ s.cursor = c /\ c \in 1..Len(Text) /\ LineEnd(s) = e /\ e \in c..Len(Text) + 1
      /\ s.buf[e] = IF e = Len(Text) + 1 THEN NUL ELSE NL
  BY LineEndIs
<1>3. s.calls = t.calls /\ IsState(s) /\ s.buf[Len(Text) + 1] = NUL /\ \A p \in c..Len(Text) : s.buf[p] = Text[p]
  BY <1>2 DEF Follows
<1>4. Loop(LineRound(t))
  BY <1>1, RoundKeeps DEF Follows
<1>5. LineRound(t) = [cursor |-> e + 1, calls |-> t.calls \o CallOf(ln)]
  BY <1>1, <1>2 DEF LineRound
<1> HIDE DEF c, e
<1>6. "=" # NUL /\ NUL # "set " /\ NUL # NL /\ NUL \in B
  BY RcAssumption
<1>7. CutLine(s) = cut
  <2>1. CutLine(s) = [buf |-> b, cursor |-> IF s.buf[e] = NL THEN e + 1 ELSE e, calls |-> s.calls]
    BY <1>2 DEF CutLine
  <2>2. (IF s.buf[e] = NL THEN e + 1 ELSE e) = nx
    BY <1>2, <1>6
  <2> HIDE DEF b, nx
  <2>3. QED BY <2>1, <2>2
<1>8. b \in Seq(B) /\ Len(b) = Len(s.buf) /\ \A p \in 1..Len(s.buf) : b[p] = IF p = e THEN NUL ELSE s.buf[p]
  <2>1. e \in 1..Len(s.buf)
    BY <1>1, <1>2
  <2> DEFINE f == s.buf
  <2>2. b = [f EXCEPT ![e] = NUL] /\ f \in Seq(B) /\ NUL \in B /\ e \in 1..Len(f)
    BY <1>1, <1>6, <2>1
  <2> HIDE DEF B, b, f
  <2>3. /\ b \in Seq(B) /\ Len(b) = Len(f)
        /\ \A p \in 1..Len(f) : b[p] = IF p = e THEN NUL ELSE f[p]
    BY <2>2, OneWritten
  <2>4. QED BY <2>3 DEF f
<1> HIDE DEF b
<1>9. ln \in Seq(Bytes) /\ Len(ln) = e - c /\ \A i \in 1..e - c : ln[i] = Text[(c - 1) + i]
  <2>1. c \in 1..Len(Text) + 1 /\ e - 1 \in c - 1..Len(Text) /\ (e - 1) - c + 1 = e - c
    BY <1>1, <1>2
  <2>2. /\ ln \in Seq(Bytes) /\ Len(ln) = (e - 1) - c + 1
        /\ \A i \in 1..((e - 1) - c + 1) : ln[i] = Text[(c - 1) + i]
    BY <1>1, <2>1, Cut
  <2> HIDE DEF ln
  <2>3. QED BY <2>1, <2>2
<1> HIDE DEF ln
<1>10. \A i \in 1..Len(ln) : b[(c - 1) + i] = ln[i] /\ ln[i] # NUL
  <2>1. TAKE i \in 1..Len(ln)
  <2>2. /\ (c - 1) + i \in c..Len(Text) /\ (c - 1) + i \in 1..Len(Text) /\ (c - 1) + i # e
        /\ (c - 1) + i \in 1..Len(s.buf)
    BY <1>1, <1>2, <1>9
  <2>3. QED BY <1>1, <1>3, <1>8, <1>9, <2>2
<1>11. Holds(b, c, ln) /\ c + Len(ln) = e
  <2>1. c \in 1..Len(b) /\ c + Len(ln) = e /\ e \in 1..Len(b) /\ b[e] = NUL
    BY <1>1, <1>2, <1>8, <1>9
  <2>2. QED BY <1>10, <2>1 DEF Holds
<1>12. Stop(b, c) = e
  BY <1>8, <1>9, <1>11, HoldsString
<1>13. E = {(c - 1) + i : i \in Equals(ln)}
  <2>1. ASSUME NEW p \in E PROVE \E i \in Equals(ln) : p = (c - 1) + i
    <3>1. p \in c + 1..e /\ b[p] = "=" /\ p # e
      <4>1. p \in c + 1..e /\ b[p] = "="
        BY <1>12
      <4>2. b[e] = NUL
        BY <1>1, <1>2, <1>8
      <4>3. p # e
        BY <1>6, <4>1, <4>2
      <4>4. QED BY <4>1, <4>3
    <3>2. p - (c - 1) \in 2..Len(ln) /\ p - (c - 1) \in 1..Len(ln) /\ (c - 1) + (p - (c - 1)) = p
      BY <1>1, <1>2, <1>11, <1>9, <3>1
    <3>3. p - (c - 1) \in Equals(ln)
      BY <1>10, <3>1, <3>2 DEF Equals
    <3>4. QED BY <3>2, <3>3
  <2>2. ASSUME NEW i \in Equals(ln) PROVE (c - 1) + i \in E
    <3>1. i \in 2..Len(ln) /\ ln[i] = "="
      BY DEF Equals
    <3>2. i \in 1..Len(ln) /\ (c - 1) + i \in c + 1..e
      BY <1>1, <1>2, <1>9, <3>1
    <3>3. QED BY <1>10, <1>12, <3>1, <3>2
  <2> HIDE DEF E
  <2>3. QED BY <2>1, <2>2
<1> HIDE DEF E
<1>14. s.buf[c] # NUL
  BY <1>1, <1>2, <1>3
<1>15. r = IF b[c] # "set " \/ E = {} THEN cut ELSE Setting(cut, c, Min(E))
  <2>1. cut.buf = b
    OBVIOUS
  <2> HIDE DEF cut
  <2>2. QED BY <1>2, <1>7, <1>14, <2>1 DEF Round, E
<1>16. cut.buf = b /\ cut.cursor = nx /\ cut.calls = s.calls /\ IsState(cut)
  <2>1. cut.buf = b /\ cut.cursor = nx /\ cut.calls = s.calls
    OBVIOUS
  <2> HIDE DEF cut
  <2>2. cut = [buf |-> cut.buf, cursor |-> cut.cursor, calls |-> cut.calls]
    BY <2>1 DEF cut
  <2>3. QED BY <1>3, <2>1, <2>2 DEF IsState
<1> HIDE DEF cut, r
<1>17. /\ IsState(r) /\ r.buf \in Seq(B) /\ Len(r.buf) = Len(b) /\ r.cursor = nx
       /\ r.calls = s.calls \o CallOf(ln)
       /\ \A p \in 1..Len(b) : p >= e => r.buf[p] = b[p]
  <2>1. CASE b[c] = "set " /\ E # {}
    <3>1. IsSetting(ln)
      <4>1. Equals(ln) # {}
        BY <1>13, <2>1
      <4>2. Len(ln) \in Nat /\ Len(ln) >= 2
        BY <1>9, <4>1 DEF Equals
      <4>3. ln # <<>>
        BY <4>2
      <4>4. 1 \in 1..Len(ln) /\ (c - 1) + 1 = c
        BY <1>2, <4>2
      <4>5. ln[1] = "set "
        BY <1>10, <2>1, <4>4
      <4>6. QED BY <4>1, <4>3, <4>5 DEF IsSetting
    <3>2. Min(E) = (c - 1) + Min(Equals(ln))
      <4> DEFINE k == Min(Equals(ln))
                 m == Min(E)
      <4>1. Equals(ln) \subseteq Nat /\ Equals(ln) # {}
        <5>1. Equals(ln) \subseteq Nat
          BY DEF Equals
        <5>2. Equals(ln) # {}
          BY <3>1 DEF IsSetting
        <5>3. QED BY <5>1, <5>2
      <4>2. k \in Equals(ln) /\ \A y \in Equals(ln) : k <= y
        BY <4>1, MinOf
      <4>3. E \subseteq Nat
        BY <1>2, <1>13, <4>1
      <4>4. m \in E /\ \A y \in E : m <= y
        BY <2>1, <4>3, MinOf
      <4> HIDE DEF k, m
      <4>5. PICK i \in Equals(ln) : m = (c - 1) + i
        BY <1>13, <4>4
      <4>6. m <= (c - 1) + k /\ k <= i /\ k \in Nat /\ i \in Nat
        BY <1>13, <4>1, <4>2, <4>4
      <4>7. m = (c - 1) + k
        BY <1>2, <4>5, <4>6
      <4>8. QED BY <4>7 DEF k, m
    <3>3. r = Setting(cut, c, (c - 1) + Min(Equals(ln)))
      BY <1>15, <2>1, <3>2
    <3>4. /\ r = [buf |-> r.buf, cursor |-> nx, calls |-> s.calls \o CallOf(ln)]
          /\ r.buf \in Seq(B) /\ Len(r.buf) = Len(b)
          /\ \A q \in 1..Len(b) : q >= c + Len(ln) => r.buf[q] = b[q]
      <4>1. cut.buf \in Seq(B) /\ Holds(cut.buf, c, ln)
        BY <1>8, <1>11, <1>16
      <4> DEFINE v == Setting(cut, c, (c - 1) + Min(Equals(ln)))
      <4>2. /\ v = [buf |-> v.buf, cursor |-> cut.cursor, calls |-> cut.calls \o CallOf(ln)]
            /\ v.buf \in Seq(B) /\ Len(v.buf) = Len(cut.buf)
            /\ \A q \in 1..Len(cut.buf) : q >= c + Len(ln) => v.buf[q] = cut.buf[q]
        <5> HIDE DEF B, v
        <5>1. v.buf \in Seq(B) /\ ReadOut(cut, c, ln, v)
          BY <1>6, <1>9, <1>16, <3>1, <4>1, SettingIs DEF v
        <5>2. QED BY <5>1 DEF ReadOut
      <4> HIDE DEF v
      <4>3. r = v
        BY <3>3 DEF v
      <4>4. QED BY <1>16, <4>2, <4>3
    <3> DEFINE calls == s.calls \o CallOf(ln)
    <3>5. calls \in Seq(SystemCalls)
      BY <1>3, <1>4, <1>5 DEF Loop, MadeSoFar, SystemCalls
    <3>6. r = [buf |-> r.buf, cursor |-> nx, calls |-> calls]
      BY <3>4
    <3> HIDE DEF calls, nx
    <3>7. r.cursor = nx /\ r.calls = calls
      BY <3>6
    <3>8. IsState(r)
      BY <3>5, <3>6, <3>7 DEF IsState
    <3>9. QED BY <1>11, <3>4, <3>7, <3>8 DEF calls
  <2>2. CASE ~ (b[c] = "set " /\ E # {})
    <3>1. r = cut
      BY <1>15, <2>2
    <3>2. CallOf(ln) = <<>>
      <4>1. CASE Equals(ln) = {} \/ ln = <<>>
        BY <4>1 DEF CallOf, Equals
      <4>2. CASE Equals(ln) # {} /\ ln # <<>>
        <5>1. E # {}
          BY <1>13, <4>2
        <5>2. 1 \in 1..Len(ln) /\ (c - 1) + 1 = c
          BY <1>2, <1>9, <4>2 DEF Equals
        <5>3. ln[1] # "set "
          BY <1>10, <2>2, <5>1, <5>2
        <5>4. QED BY <5>3 DEF CallOf
      <4>3. QED BY <4>1, <4>2
    <3>3. s.calls \o <<>> = s.calls
      BY <1>3, ConcatEmptySeq DEF IsState
    <3>4. QED BY <1>8, <1>16, <3>1, <3>2, <3>3
  <2>3. QED BY <2>1, <2>2
<1>18. /\ LineRound(t).calls = r.calls /\ LineRound(t).cursor = e + 1
  BY <1>3, <1>5, <1>17
<1>19. r.cursor = IF e + 1 > Len(Text) THEN Len(Text) + 1 ELSE e + 1
  <2>1. r.cursor = nx
    BY <1>17
  <2>2. e \in 1..Len(Text) + 1 /\ Len(Text) \in Nat
    BY <1>1, <1>2
  <2>3. nx = IF e + 1 > Len(Text) THEN Len(Text) + 1 ELSE e + 1
    BY <2>2
  <2>4. QED BY <2>1, <2>3
<1>20. r.buf[Len(Text) + 1] = NUL /\ \A p \in r.cursor..Len(Text) : r.buf[p] = Text[p]
  <2>1. Len(Text) + 1 \in 1..Len(b) /\ Len(Text) + 1 >= e
    BY <1>1, <1>2, <1>8
  <2>2. r.buf[Len(Text) + 1] = NUL
    BY <1>1, <1>3, <1>8, <1>17, <2>1
  <2>3. ASSUME NEW p \in r.cursor..Len(Text) PROVE r.buf[p] = Text[p]
    <3>1. p \in 1..Len(b) /\ p > e /\ p \in c..Len(Text)
      BY <1>1, <1>2, <1>8, <1>19
    <3>2. QED BY <1>1, <1>2, <1>3, <1>8, <1>17, <3>1
  <2>4. QED BY <2>2, <2>3
<1>21. Follows(r, LineRound(t))
  BY <1>1, <1>4, <1>8, <1>17, <1>18, <1>19, <1>20 DEF Follows
<1>22. QED BY <1>21 DEF r

\* The loop is a function of the number of rounds.
LEMMA LoopExists ==
    ASSUME NEW N \in Nat
    PROVE  \E loop : loop = [n \in 0..N |->
                        IF n = 0 THEN [buf |-> Read, cursor |-> 1, calls |-> <<>>] ELSE Round(loop[n-1])]
<1> DEFINE Begin == [buf |-> Read, cursor |-> 1, calls |-> <<>>]
           IsLoop(loop, m) == loop = [n \in 0..m |-> IF n = 0 THEN Begin ELSE Round(loop[n-1])]
           S == {m \in 0..N : \E loop : IsLoop(loop, m)}
<1>2. 0 \in S
  <2>1. IsLoop([n \in 0..0 |-> Begin], 0)
    OBVIOUS
  <2>2. 0 \in 0..N
    OBVIOUS
  <2> HIDE DEF IsLoop
  <2>3. QED BY <2>1, <2>2
<1>3. ASSUME NEW m \in 0..N, m < N, m \in S PROVE m + 1 \in S
  <2>1. PICK loop : IsLoop(loop, m)
    BY <1>3
  <2> DEFINE longer == [n \in 0..(m + 1) |-> IF n = m + 1 THEN Round(loop[m]) ELSE loop[n]]
  <2>2. ASSUME NEW n \in 0..(m + 1)
        PROVE  longer[n] = IF n = 0 THEN Begin ELSE Round(longer[n-1])
    <3>1. CASE n = m + 1
      <4>1. n # 0 /\ n - 1 = m /\ m \in 0..(m + 1) /\ m # m + 1
        BY <3>1
      <4>2. longer[n - 1] = loop[m]
        BY <4>1
      <4>3. QED BY <3>1, <4>1, <4>2
    <3>2. CASE n = 0
      <4>1. n # m + 1 /\ n \in 0..m
        BY <3>2
      <4>2. longer[n] = loop[n] /\ loop[n] = Begin
        BY <2>1, <3>2, <4>1
      <4>3. QED BY <3>2, <4>2
    <3>3. CASE n \in 1..m
      <4>1. n # m + 1 /\ n # 0 /\ n - 1 \in 0..(m + 1) /\ n - 1 # m + 1 /\ n \in 0..m
        BY <3>3
      <4>2. longer[n] = loop[n] /\ longer[n - 1] = loop[n - 1]
        BY <4>1
      <4>3. loop[n] = Round(loop[n - 1])
        BY <2>1, <4>1
      <4>4. QED BY <4>1, <4>2, <4>3
    <3>4. QED BY <3>1, <3>2, <3>3
  <2>3. longer = [n \in 0..(m + 1) |-> longer[n]]
    OBVIOUS
  <2> HIDE DEF longer
  <2>4. IsLoop(longer, m + 1)
    BY <2>2, <2>3
  <2>5. m + 1 \in 0..N
    BY <1>3
  <2>6. QED BY <2>4, <2>5
<1>4. 0..N \subseteq S
  <2> HIDE DEF S
  <2>1. QED BY <1>2, <1>3, Induct
<1>5. N \in S
  BY <1>4
<1>6. QED BY <1>5

\* After the rounds the cursor is at the end, and the calls are those of all lines.
LEMMA CallsAreMeant ==
    ASSUME TextFits
    PROVE  SettingsAreMeant
<1> DEFINE N    == Len(Read)
           loop == CHOOSE loop : loop = [n \in 0..N |->
                      IF n = 0 THEN [buf |-> Read, cursor |-> 1, calls |-> <<>>] ELSE Round(loop[n-1])]
           S == {n \in 0..N : \E t : Follows(loop[n], t) /\ (t.cursor > Len(Text) \/ t.cursor > n)}
<1>0. Text \in Seq(Bytes) /\ Len(Text) \in Nat /\ N \in Nat /\ Len(Text) <= N
  BY DEF TextFits
<1>1. loop = [n \in 0..N |->
                IF n = 0 THEN [buf |-> Read, cursor |-> 1, calls |-> <<>>] ELSE Round(loop[n-1])]
  <2>1. \E l : l = [n \in 0..N |->
                     IF n = 0 THEN [buf |-> Read, cursor |-> 1, calls |-> <<>>] ELSE Round(l[n-1])]
    BY <1>0, LoopExists
  <2>2. QED BY <2>1
<1>2. Calls = loop[N].calls
  BY DEF Calls
<1> HIDE DEF loop
<1>4. 0 \in S
  <2>1. 0 \in 0..N
    BY <1>0
  <2>2. loop[0] = [buf |-> Read, cursor |-> 1, calls |-> <<>>]
    BY <1>1, <2>1
  <2>3. Follows(loop[0], [cursor |-> 1, calls |-> <<>>])
    BY <2>2, LoopBegins
  <2>4. [cursor |-> 1, calls |-> <<>>].cursor > 0
    OBVIOUS
  <2>5. QED BY <2>1, <2>3, <2>4
<1>5. ASSUME NEW n \in 0..N, n < N, n \in S PROVE n + 1 \in S
  <2>1. n + 1 \in 0..N /\ n + 1 # 0 /\ (n + 1) - 1 = n /\ n \in Nat
    BY <1>0, <1>5
  <2>2. loop[n + 1] = Round(loop[n])
    BY <1>1, <2>1
  <2>3. PICK t : Follows(loop[n], t) /\ (t.cursor > Len(Text) \/ t.cursor > n)
    BY <1>5
  <2>4. t.cursor \in Nat /\ Loop(t)
    BY <2>3 DEF Follows, Loop
  <2>5. CASE t.cursor > Len(Text)
    <3>1. Follows(loop[n + 1], t)
      BY <2>2, <2>3, <2>5, RoundStays
    <3>2. QED BY <2>1, <2>5, <3>1
  <2>6. CASE t.cursor <= Len(Text)
    <3>1. Follows(loop[n + 1], LineRound(t)) /\ LineRound(t).cursor > t.cursor
      BY <1>0, <2>2, <2>3, <2>4, <2>6, RoundFollows, RoundKeeps
    <3>2. LineRound(t).cursor \in Nat /\ t.cursor > n
      BY <1>0, <2>1, <2>3, <2>4, <2>6, <3>1 DEF Follows, Loop
    <3>3. LineRound(t).cursor > n + 1
      BY <2>1, <2>4, <3>1, <3>2
    <3>4. QED BY <2>1, <3>1, <3>3
  <2>7. QED BY <1>0, <2>4, <2>5, <2>6
<1>6. 0..N \subseteq S
  <2> HIDE DEF S
  <2>1. QED BY <1>0, <1>4, <1>5, Induct
<1>7. PICK t : Follows(loop[N], t) /\ (t.cursor > Len(Text) \/ t.cursor > N)
  <2>1. N \in 0..N
    BY <1>0
  <2> HIDE DEF N
  <2>2. QED BY <1>6, <2>1
<1> DEFINE c == t.cursor
<1>8. /\ c \in 1..Len(Text) + 2 /\ (c = 1 \/ c - 1 \in Ends(Text)) /\ MadeSoFar(c, Calls)
      /\ c > Len(Text)
  BY <1>0, <1>2, <1>7 DEF Follows, Loop
<1>9. Settings(Text) = Upto(c - 1)
  <2> HIDE DEF c
  <2>1. ASSUME NEW p \in Settings(Text) PROVE p <= c - 1
    <3>1. p \in Ends(Text) /\ p \in 1..Len(Text) + 1
      BY DEF Settings, Ends
    <3>2. SUFFICES ASSUME p > c - 1 PROVE FALSE
      BY <1>8, <3>1
    <3>3. c = Len(Text) + 1 /\ p = c
      BY <1>0, <1>8, <3>1, <3>2
    <3>4. Line(Text, p) = SubSeq(Text, c, c - 1)
      <4>1. c \in 1..Len(Text) + 1 /\ c >= c /\ c \in Ends(Text)
        BY <1>0, <3>1, <3>3
      <4>2. \A q \in Ends(Text) : q >= c => c <= q
        OBVIOUS
      <4>3. QED BY <1>0, <1>8, <3>3, <4>1, <4>2, LineFrom
    <3>5. Len(Line(Text, p)) = 0
      <4>1. c \in 1..Len(Text) + 1 /\ c - 1 \in c - 1..Len(Text) /\ (c - 1) - c + 1 = 0
        BY <1>0, <3>3
      <4>2. QED BY <1>0, <3>4, <4>1, Cut
    <3>6. PICK key \in Keys, i \in 1..Len(Line(Text, p)) + 1, k \in 0..Len(Line(Text, p)) :
              Means(Line(Text, p), key, SubSeq(Line(Text, p), i, k))
      BY DEF Settings
    <3>7. PICK e \in 2..Len(Line(Text, p)) : TRUE
      BY <3>6 DEF Means
    <3>8. QED BY <3>5, <3>7
  <2>2. QED BY <2>1 DEF Upto
<1>10. SettingsAreMeant <=>
         /\ Len(Calls) = Cardinality(Settings(Text))
         /\ \A p \in Settings(Text) : LET call == Calls[Cardinality(Upto(p))]
                                IN  Means(Line(Text, p), call.key, call.value)
  BY DEF SettingsAreMeant, Upto
<1>11. QED BY <1>8, <1>9, <1>10 DEF MadeSoFar

\* The text, and the buffer it was read to.
LEMMA TextType ==
    ASSUME shellrc \in Seq(Bytes)
    PROVE  TextFits
<1> DEFINE m == Min({Len(shellrc), BUF - 2})
           u == SubSeq(shellrc, 1, m)
           q == Stop(Read, 1)
<1>1. Len(shellrc) \in Nat /\ BUF - 2 \in Nat
  <2>1. BUF \in Nat \ {0, 1}
    BY RcAssumption
  <2>2. QED BY <2>1
<1>2. m \in 0..Len(shellrc)
  BY <1>1, MinIs
<1>3. Read = u \o <<NUL>>
  BY DEF Read
<1> HIDE DEF m
<1>4. u \in Seq(Bytes) /\ Len(u) = m
  BY <1>1, <1>2
<1> HIDE DEF u
<1>5. /\ Read \in Seq(Bytes \cup {NUL}) /\ Len(Read) = m + 1 /\ Read[m + 1] = NUL
      /\ \A i \in 1..m : Read[i] \in Bytes
  <2> DEFINE B == Bytes \cup {NUL}
  <2>1. u \in Seq(B) /\ <<NUL>> \in Seq(B) /\ Len(<<NUL>>) = 1 /\ <<NUL>>[1] = NUL
    BY <1>4
  <2>2. \A i \in 1..m : u[i] \in Bytes
    BY <1>2, <1>4
  <2> DEFINE w == <<NUL>>
  <2> HIDE DEF B, w
  <2>3. u \in Seq(B) /\ w \in Seq(B) /\ Len(w) = 1 /\ w[1] = NUL
    BY <2>1 DEF w
  <2>4. /\ u \o w \in Seq(B) /\ Len(u \o w) = Len(u) + Len(w)
        /\ \A i \in 1..Len(u) + Len(w) : (u \o w)[i] = IF i <= Len(u) THEN u[i] ELSE w[i - Len(u)]
    BY <2>3, ConcatProperties
  <2>5. Read = u \o w
    BY <1>3 DEF w
  <2>6. m \in Nat /\ Len(u) + Len(w) = m + 1 /\ ~ (m + 1 <= m) /\ (m + 1) - m = 1
    BY <1>2, <1>4, <2>3
  <2>7. Read[m + 1] = NUL
    BY <1>4, <2>3, <2>4, <2>5, <2>6
  <2>8. \A i \in 1..m : Read[i] = u[i]
    BY <1>4, <2>4, <2>5, <2>6
  <2>9. QED BY <2>2, <2>4, <2>5, <2>6, <2>7, <2>8 DEF B
<1>6. q \in 1..m + 1 /\ Read[q] = NUL /\ \A i \in 1..q - 1 : Read[i] # NUL
  <2> DEFINE S == {i \in 1..Len(Read) : Read[i] = NUL}
  <2>1. S \subseteq Nat /\ m + 1 \in S
    BY <1>2, <1>5
  <2>2. Min(S) \in S /\ \A y \in S : Min(S) <= y
    <3> HIDE DEF S
    <3>1. QED BY <2>1, MinOf
  <2>3. q = Min(S)
    BY DEF Stop
  <2> HIDE DEF q
  <2>4. q \in S /\ \A y \in S : q <= y
    BY <2>2, <2>3
  <2>5. q \in 1..m + 1 /\ Read[q] = NUL
    BY <1>5, <2>4
  <2>6. ASSUME NEW i \in 1..q - 1 PROVE Read[i] # NUL
    BY <1>2, <1>5, <2>4, <2>5
  <2>7. QED BY <2>5, <2>6
<1>7. Text = SubSeq(Read, 1, q - 1)
  BY DEF Text, String
<1> HIDE DEF q
<1>8. /\ Text \in Seq(Bytes \cup {NUL}) /\ Len(Text) = q - 1
      /\ \A i \in 1..q - 1 : Text[i] = Read[i]
  <2>1. 1 \in 1..Len(Read) + 1 /\ q - 1 \in 1 - 1..Len(Read) /\ (q - 1) - 1 + 1 = q - 1
        /\ \A i \in 1..q - 1 : (1 - 1) + i = i
    BY <1>2, <1>5, <1>6
  <2> DEFINE v == SubSeq(Read, 1, q - 1)
  <2>2. /\ v \in Seq(Bytes \cup {NUL}) /\ Len(v) = (q - 1) - 1 + 1
        /\ \A i \in 1..((q - 1) - 1 + 1) : v[i] = Read[(1 - 1) + i]
    BY <1>5, <2>1, Cut
  <2> HIDE DEF v
  <2>3. Text = v
    BY <1>7 DEF v
  <2>4. QED BY <2>1, <2>2, <2>3
<1>9. \A i \in 1..Len(Text) : Text[i] \in Bytes
  BY <1>2, <1>5, <1>6, <1>8
<1>10. Text \in Seq(Bytes)
  BY <1>8, <1>9
<1>11. QED BY <1>2, <1>5, <1>6, <1>8, <1>10 DEF TextFits

(* Whatever is in /shellrc, init makes the calls that its lines mean, in their
   order and no other (shell_load_rc, trim): what it writes into the buffer for
   one line is never read for another.                                        *)
THEOREM InitReadsSettings == RcSpec => []SettingsAreMeant
<1>1. RcInit => shellrc \in Seq(Bytes)
  BY DEF RcInit
<1>2. shellrc \in Seq(Bytes) /\ [RcNext]_rcvars => (shellrc \in Seq(Bytes))'
  <2>1. CASE RcNext
    <3>1. PICK piece \in Pieces : shellrc' = shellrc \o piece
      BY <2>1 DEF RcNext
    <3>2. piece \in Seq(Bytes)
      BY <3>1, RcAssumption
    <3>3. QED BY <3>1, <3>2, ConcatProperties
  <2>2. QED BY <2>1 DEF rcvars
<1>3. shellrc \in Seq(Bytes) => SettingsAreMeant
  BY TextType, CallsAreMeant
<1>4. QED BY <1>1, <1>2, <1>3, PTL DEF RcSpec

(* A theme file sets the colours that its complete lines name, each to the number
   of the last line that names it, and no other (load_theme, hex_to_uint32).  *)
THEOREM ThemesAreMeant == Spec => ThemeIsMeant
<1>1. ASSUME NEW file \in ThemeFiles, ChangeTheme(file) PROVE theme' = ThemeMeant(file)
  <2>1. file \in Seq({file[i] : i \in DOMAIN file})
    BY ThemesAssumption
  <2>2. theme' = LoadTheme(file)
    BY <1>1 DEF ChangeTheme
  <2>3. QED BY <2>1, <2>2, LoadThemeIsMeant, ThemesAssumption
<1>2. [Next]_vars => [\A file \in ThemeFiles : ChangeTheme(file) => theme' = ThemeMeant(file)]_vars
  BY <1>1
<1>3. QED BY <1>2, PTL DEF Spec, ThemeIsMeant

=============================================================================
