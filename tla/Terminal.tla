------------------------------ MODULE Terminal -------------------------------
(***************************************************************************)
(* The graphical terminal (drivers/video/gterminal.c) on its frame buffer, *)
(* reached through the console (kernel/console.c) by the system calls that *)
(* write, clear and move the cursor, and readline of the programs          *)
(* (user_programs/syscall.h), which echoes what is typed through it.       *)
(* The screen is a stack of pixel lines; of a line we keep, for every      *)
(* eight pixels, which part of which glyph they show.  Colours are left    *)
(* out but for the theme: a cell is painted, whatever the paint.           *)
(***************************************************************************)
EXTENDS Theme

CONSTANTS
  HEIGHT, COLS,   \* fb->height; fb->width / 8
  BOOT_SIZE,      \* the height of the font that ui_init loads
  Sizes,          \* the heights of the fonts that may be loaded later
  Chars,          \* bytes that are drawn as a glyph
  ThemeFiles,     \* contents of theme files
  INPUT_MAX,      \* readline's max_len - 1
  MAX_RESIZES     \* bound: fonts of another height loaded in a behaviour

\* ui_init would divide by zero without a font, and there is a row to write in.
ASSUME ScreenAssumption ==
    /\ HEIGHT \in Nat /\ BOOT_SIZE \in 1..HEIGHT
    /\ COLS \in Nat \ {0} /\ INPUT_MAX \in Nat \ {0} /\ MAX_RESIZES \in Nat

\* The disk image of the repository has fonts of 8 and 16 lines, and boots with 16.
ASSUME SizesAssumption == Sizes \subseteq 1..BOOT_SIZE

\* A theme file is a sequence of bytes, and DefaultColor has a colour for each name.
ASSUME ThemesAssumption ==
    /\ LINE_MAX \in Nat
    /\ DefaultColor = [n \in Names |-> DefaultColor[n]]
    /\ \A file \in ThemeFiles : file \in Seq({file[i] : i \in DOMAIN file})

ASSUME CharsAssumption == Chars \cap {" ", "block", "mess"} = {}

VARIABLES
  screen,         \* what the pixels show: screen[line][column]
  cursor_x, cursor_y,
  glyph_size,     \* of the font in use
  theme,          \* ui.theme
  reading, line,  \* is a program in readline, and what it has in its buffer
  resized         \* how often the font's height has changed: for the properties only

vars == <<screen, cursor_x, cursor_y, glyph_size, theme, reading, line, resized>>

\* Mutant: a last row that does not fit is counted too.
rowsCeil == (HEIGHT + BOOT_SIZE - 1) \div BOOT_SIZE

\* gterm->rows: computed by gterminal_init, and never again.
rows == HEIGHT \div BOOT_SIZE

Lines   == 0..HEIGHT - 1
Columns == 0..COLS - 1

\* Line i of the glyph of ch; of a blank, a full block, or an overlay, all lines are alike.
Part(ch, i) == <<ch, IF ch \in Chars THEN i ELSE 0>>
Blank == Part(" ", 0)
Block == Part("block", 0)
Mess  == Part("mess", 0)
Parts == {Blank, Block, Mess} \cup {<<ch, i>> : ch \in Chars, i \in 0..BOOT_SIZE - 1}

-----------------------------------------------------------------------------
(* Drawing, at row y and column x of the grid of the font in use.  What lies
   off the screen is left out (fb_putpixel).                                 *)

InRow(l, y) == y * glyph_size <= l /\ l < (y + 1) * glyph_size

\* A cell filled with the colour of the paper, or with that of the pen.
Fill(s, x, y, p) ==
    [l \in Lines |-> [c \in Columns |-> IF c = x /\ InRow(l, y) THEN p ELSE s[l][c]]]

\* draw_char_psf: draws the set bits of the glyph only, over what is there
DrawChar(s, x, y, ch) ==
    [l \in Lines |-> [c \in Columns |->
        IF c = x /\ InRow(l, y)
        THEN IF s[l][c] = Blank THEN Part(ch, l - y * glyph_size) ELSE Mess
        ELSE s[l][c]]]

\* A terminal is where its cursor is, and what is on its screen.
This == [screen |-> screen, x |-> cursor_x, y |-> cursor_y]

\* cursor_char_under is a blank whenever a call begins, so there is nothing to redraw.
HideCursor(t) == [screen |-> Fill(t.screen, t.x, t.y, Blank), x |-> t.x, y |-> t.y]
DrawCursor(t) == [screen |-> Fill(t.screen, t.x, t.y, Block), x |-> t.x, y |-> t.y]

\* Mutant: the lines the page has left are not cleared.
ScrollKeeps(t) ==
    [screen |-> [l \in Lines |-> IF l < HEIGHT - glyph_size THEN t.screen[l + glyph_size]
                                 ELSE t.screen[l]],
     x |-> t.x, y |-> t.y - 1]

Scroll(t) ==
    [screen |-> [l \in Lines |-> IF l < HEIGHT - glyph_size THEN t.screen[l + glyph_size]
                                 ELSE [c \in Columns |-> Blank]],
     x |-> t.x, y |-> t.y - 1]

At(t, x, y) == [screen |-> t.screen, x |-> x, y |-> y]
ScrollIfBelow(t) == IF t.y >= rows THEN Scroll(t) ELSE t
Advance(t) == IF t.x + 1 >= COLS THEN ScrollIfBelow(At(t, 0, t.y + 1)) ELSE At(t, t.x + 1, t.y)

\* gterminal_putchar, of a newline, of a backspace, and of another byte
PutNewline(t) == DrawCursor(ScrollIfBelow(At(HideCursor(t), 0, t.y + 1)))

PutBackspace(t) ==
    LET x == IF t.x > 0 THEN t.x - 1 ELSE IF t.y > 0 THEN COLS - 1 ELSE 0
        y == IF t.x = 0 /\ t.y > 0 THEN t.y - 1 ELSE t.y
        h == HideCursor(t)
    IN  DrawCursor([screen |-> Fill(h.screen, x, y, Blank), x |-> x, y |-> y])

PutGlyph(t, ch) ==
    LET drawn == DrawChar(HideCursor(t).screen, t.x, t.y, ch)
    IN  DrawCursor(Advance([screen |-> drawn, x |-> t.x, y |-> t.y]))

\* A space is a glyph without set bits.
PutSpace(t) == DrawCursor(Advance(HideCursor(t)))

\* What a call leaves of the terminal.
Shows(t) == screen' = t.screen /\ cursor_x' = t.x /\ cursor_y' = t.y

-----------------------------------------------------------------------------
Init ==
    /\ screen = [l \in Lines |-> [c \in Columns |-> Blank]]
    /\ cursor_x = 0 /\ cursor_y = 0
    /\ glyph_size = BOOT_SIZE
    /\ theme = [n \in Names |-> 0]
    /\ reading = FALSE /\ line = <<>>
    /\ resized = 0

OtherCall == ~reading /\ UNCHANGED <<glyph_size, theme, reading, line, resized>>

\* SYSCALL_WRITE, a byte at a time, and console_write of the kernel.
WriteChar(ch)  == OtherCall /\ Shows(PutGlyph(This, ch))
WriteSpace     == OtherCall /\ Shows(PutSpace(This))
WriteNewline   == OtherCall /\ Shows(PutNewline(This))
WriteBackspace == OtherCall /\ Shows(PutBackspace(This))

\* SYSCALL_TERMCLEAR: the cursor is not drawn until something is written.
Cleared == [screen |-> [l \in Lines |-> [c \in Columns |-> Blank]], x |-> 0, y |-> 0]
Clear   == OtherCall /\ Shows(Cleared)

\* Mutant: a row is not kept on the screen.
ClampBelowOnly(i, n) == IF i < 0 THEN 0 ELSE i

\* Into 0..n-1; rows and columns are unsigned, a negative one is made 0 first.
Clamp(i, n) == IF i < 0 THEN 0 ELSE IF i >= n THEN n - 1 ELSE i

\* SYSCALL_MOVECURSOR
MoveCursor(row, col) ==
    /\ OtherCall
    /\ Shows(DrawCursor(At(HideCursor(This), Clamp(col, COLS), Clamp(row, rows))))

(* SYSCALL_CLEARLINEFROM.  The old cursor is not hidden: left of col it stays
   on the screen.                                                            *)
ClearLineFrom(col) ==
    LET from == IF col < 0 THEN 0 ELSE col
        left == [l \in Lines |-> [c \in Columns |->
                    IF c >= from /\ InRow(l, cursor_y) THEN Blank ELSE screen[l][c]]]
    IN  /\ col < COLS
        /\ OtherCall
        /\ Shows(DrawCursor([screen |-> left, x |-> from, y |-> cursor_y]))

(* SYSCALL_TERMFONT, of a file that is a font: the size alone is replaced.
   Of another file, or without memory, nothing is.                           *)
ChangeFont(size) ==
    /\ ~reading
    /\ glyph_size' = size
    /\ resized' = IF size = glyph_size THEN resized ELSE resized + 1
    /\ resized' <= MAX_RESIZES
    /\ UNCHANGED <<screen, cursor_x, cursor_y, theme, reading, line>>

\* SYSCALL_TERMLDTHEME: what load_theme writes is cleared with the rest.
ChangeTheme(file) ==
    /\ ~reading
    /\ Shows(Cleared)
    /\ theme' = LoadTheme(file)
    /\ UNCHANGED <<glyph_size, reading, line, resized>>

(* readline, one byte typed at a time, with its echo.                        *)
StartLine ==
    /\ ~reading
    /\ reading' = TRUE /\ line' = <<>>
    /\ UNCHANGED <<screen, cursor_x, cursor_y, glyph_size, theme, resized>>

Typing == reading /\ UNCHANGED <<glyph_size, theme, resized>>

\* Without room for another byte, readline returns.
Type(ch) ==
    /\ Typing
    /\ line' = Append(line, ch)
    /\ reading' = (Len(line) + 1 < INPUT_MAX)
    /\ Shows(PutGlyph(This, ch))

\* Mutant: the echo is "\b ".
RubOutHalf ==
    /\ Typing
    /\ line # <<>>
    /\ line' = SubSeq(line, 1, Len(line) - 1)
    /\ Shows(PutSpace(PutBackspace(This)))
    /\ UNCHANGED reading

\* The echo is "\b \b".
RubOut ==
    /\ Typing
    /\ line # <<>>
    /\ line' = SubSeq(line, 1, Len(line) - 1)
    /\ Shows(PutBackspace(PutSpace(PutBackspace(This))))
    /\ UNCHANGED reading

Enter ==
    /\ Typing
    /\ line' = <<>> /\ reading' = FALSE
    /\ Shows(PutNewline(This))

Next ==
    \/ \E ch \in Chars : WriteChar(ch) \/ Type(ch)
    \/ WriteSpace \/ WriteNewline \/ WriteBackspace \/ Clear
    \/ \E row \in -1..rows, col \in -1..COLS : MoveCursor(row, col)
    \/ \E col \in -1..COLS : ClearLineFrom(col)
    \/ \E size \in Sizes : ChangeFont(size)
    \/ \E file \in ThemeFiles : ChangeTheme(file)
    \/ StartLine \/ RubOut \/ Enter

Spec == Init /\ [][Next]_vars
-----------------------------------------------------------------------------
TypeOK ==
    /\ screen \in [Lines -> [Columns -> Parts]]
    /\ cursor_x \in Columns /\ cursor_y \in 0..rows - 1
    /\ glyph_size \in 1..BOOT_SIZE
    /\ reading \in BOOLEAN /\ line \in Seq(Chars) /\ Len(line) <= INPUT_MAX
    /\ resized \in 0..MAX_RESIZES

(* The cursor is in a column, also after backspaces at the start of a row, and
   its row is on the screen, and so is all that is written, as long as no font
   is higher than the one the rows were computed with (gterminal_putchar,
   gterminal_init, console_changefont).                                       *)
CursorOnScreen == cursor_x \in Columns /\ (cursor_y + 1) * glyph_size <= HEIGHT

(* Where no whole row fits nothing is ever drawn, though the screen need not be
   a multiple of the glyph's height: gterminal_scroll takes those lines into the
   last row, and clears only as many lines as a row has.                      *)
NothingBelow ==
    resized = 0 => \A l \in Lines :
        l >= (HEIGHT \div BOOT_SIZE) * BOOT_SIZE => \A c \in Columns : screen[l][c] = Blank

(* What will be given to the program is what is on the screen before the
   cursor, byte by byte, as far as the screen goes back: over ends of rows,
   scrolling, and backspaces (readline and gterminal_putchar).                *)
EchoIsLine ==
    reading =>
        LET place == cursor_y * COLS + cursor_x
            Seen(p) == [i \in 0..glyph_size - 1 |->
                           screen[(p \div COLS) * glyph_size + i][p % COLS]]
        IN  \A k \in 1..(IF Len(line) < place THEN Len(line) ELSE place) :
               Seen(place - k) = [i \in 0..glyph_size - 1 |-> Part(line[Len(line) - k + 1], i)]

(* A theme is read as it was meant: the last line for a colour decides, a line
   that is none changes nothing, and nothing of a line is taken into the next
   (load_theme and hex_to_uint32).                                            *)
ThemeIsMeant == [][\A file \in ThemeFiles : ChangeTheme(file) => theme' = ThemeMeant(file)]_vars

(* The pixels are the page that CharScreen promises, while fonts are of one
   height: no glyph is drawn over another, moved by part of a row, or left
   behind by scrolling.                                                       *)
CellAt(p) ==
    LET part(i) == screen[(p \div COLS) * BOOT_SIZE + i][p % COLS]
        ch      == part(0)[1]
    IN  IF \A i \in 0..BOOT_SIZE - 1 : part(i) = Part(ch, i) THEN ch ELSE "mess"

Page == INSTANCE CharScreen WITH
            ROWS <- rows, Blank <- " ", Block <- "block",
            text <- [p \in 0..rows * COLS - 1 |-> CellAt(p)],
            at <- cursor_y * COLS + cursor_x,
            same <- resized = 0
ImplementsCharScreen == Page!Spec
=============================================================================
