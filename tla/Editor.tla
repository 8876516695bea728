------------------------------- MODULE Editor --------------------------------
(***************************************************************************)
(* The editor (user_programs/xedit.c): its buffer and cursor, the part of  *)
(* it that is on the screen, and its file.  A key is one step, with the    *)
(* redrawing that follows it, which draws only the lines that it takes to  *)
(* have changed.  A line is drawn in one row of the screen: lines are      *)
(* taken to be shorter than the screen is wide.  Saving and loading do     *)
(* what FileStore promises of SYSCALL_WRITEFILE and SYSCALL_READFILE.      *)
(***************************************************************************)
EXTENDS Integers, Sequences, FiniteSets

CONSTANTS
  NL,             \* '\n'
  Chars,          \* the other bytes that are typed
  MAX_BUFFER, SCREEN_HEIGHT,
  Contents        \* what the file may hold when the editor is first run

ASSUME EditorAssumption ==
    /\ MAX_BUFFER \in Nat /\ MAX_BUFFER >= 1
    /\ SCREEN_HEIGHT \in Nat /\ SCREEN_HEIGHT >= 2
    /\ Contents \subseteq Seq(Chars \cup {NL})

VARIABLES
  buffer,         \* buffer[0..buffer_len-1]
  modified, cursor_pos, scroll_line, last_cursor_pos, last_scroll_line,
  file,           \* the content of the file; without one, nothing
  shown,          \* what the rows of the screen show of the buffer
  lost            \* has saving failed with nothing modified: for the properties only

vars == <<buffer, modified, cursor_pos, scroll_line, last_cursor_pos, last_scroll_line,
          file, shown, lost>>

Least(a, b) == IF a < b THEN a ELSE b
Prefix(s, n) == SubSeq(s, 1, Least(Len(s), n))

-----------------------------------------------------------------------------
(* Lines of a buffer.  Line n begins behind the n-th newline.                *)

\* compute_cursor_line_col: a place behind the end counts as the end
LineOf(buf, pos) == Cardinality({i \in 1..Least(pos, Len(buf)) : buf[i] = NL})

\* find_line_start: as many bytes as there are in the lines before; all, if there is no such line
LineStart(buf, n) == Cardinality({i \in 1..Len(buf) : LineOf(buf, i - 1) < n})

\* find_line_end_from_start: up to the next newline
LineEnd(buf, start) ==
    start + Cardinality({i \in start + 1..Len(buf) : \A j \in start + 1..i : buf[j] # NL})

ColumnOf(buf, pos) == pos - LineStart(buf, LineOf(buf, pos))

\* Mutant: the column is kept in a shorter line too.
SameColumnBeyond(buf, n, pos) == Least(LineStart(buf, n) + ColumnOf(buf, pos), Len(buf))

\* The place in line n at the column of pos, or at the end of a shorter line.
SameColumn(buf, n, pos) ==
    LET start == LineStart(buf, n)
    IN  start + Least(ColumnOf(buf, pos), LineEnd(buf, start) - start)

-----------------------------------------------------------------------------
(* Drawing.  There is a row for each of max_lines lines, above the status.   *)

max_lines == SCREEN_HEIGHT - 1
Rows      == 0..max_lines - 1

\* What redraw_line draws of line n.  Every line behind the last one is like its end.
Drawn(buf, pos, n) ==
    LET start == LineStart(buf, n)
        end   == LineEnd(buf, start)
    IN  [number |-> n + 1,
         text   |-> SubSeq(buf, start + 1, end),
         cursor |-> IF pos \in start..end THEN pos - start ELSE -1]

\* Mutant: a line in the row of the status is taken for visible.
VisibleBelow(line, scroll) ==
    IF line < scroll THEN line
    ELSE IF line > scroll + max_lines THEN line - (max_lines - 1)
    ELSE scroll

\* ensure_cursor_visible
Visible(line, scroll) ==
    IF line < scroll THEN line
    ELSE IF line >= scroll + max_lines THEN line - (max_lines - 1)
    ELSE scroll

\* Mutant: the row that the cursor has left is not drawn again.
RedrawnHere(buf, pos, scroll) ==
    IF last_cursor_pos < 0 \/ last_scroll_line < 0 \/ scroll # last_scroll_line
    THEN {scroll + r : r \in Rows}
    ELSE {LineOf(buf, pos)}

(* The lines that redraw_screen_partial draws: when the screen has not
   scrolled, that of the cursor, and that of the old place of the cursor - as
   the buffer is now.                                                        *)
Redrawn(buf, pos, scroll) ==
    IF last_cursor_pos < 0 \/ last_scroll_line < 0 \/ scroll # last_scroll_line
    THEN {scroll + r : r \in Rows}
    ELSE {LineOf(buf, pos), LineOf(buf, last_cursor_pos)}

\* A line that is not in one of the rows is drawn where the status is drawn next.
RedrawPartial ==
    /\ shown' = [r \in Rows |-> IF scroll_line' + r \in Redrawn(buffer', cursor_pos', scroll_line')
                                THEN Drawn(buffer', cursor_pos', scroll_line' + r) ELSE shown[r]]
    /\ last_cursor_pos' = cursor_pos' /\ last_scroll_line' = scroll_line'

-----------------------------------------------------------------------------
(* Keys.  After each but saving and leaving, the cursor is made visible.     *)

Redraw ==
    /\ scroll_line' = Visible(LineOf(buffer', cursor_pos'), scroll_line)
    /\ RedrawPartial
    /\ UNCHANGED <<file, lost>>

\* Mutant: the last byte of the buffer is used too.
InsertAtCursorFull(c) ==
    /\ buffer' = SubSeq(buffer, 1, cursor_pos) \o <<c>> \o SubSeq(buffer, cursor_pos + 1, Len(buffer))
    /\ cursor_pos' = cursor_pos + 1
    /\ Len(buffer) < MAX_BUFFER
    /\ modified' = TRUE
    /\ Redraw

\* Refused without a word when the buffer is full.
InsertAtCursor(c) ==
    /\ IF Len(buffer) + 1 >= MAX_BUFFER THEN UNCHANGED <<buffer, cursor_pos, modified>>
       ELSE /\ buffer' = SubSeq(buffer, 1, cursor_pos) \o <<c>>
                           \o SubSeq(buffer, cursor_pos + 1, Len(buffer))
            /\ cursor_pos' = cursor_pos + 1
            /\ modified' = TRUE
    /\ Redraw

BackspaceAtCursor ==
    /\ IF cursor_pos = 0 THEN UNCHANGED <<buffer, cursor_pos, modified>>
       ELSE /\ buffer' = SubSeq(buffer, 1, cursor_pos - 1)
                           \o SubSeq(buffer, cursor_pos + 1, Len(buffer))
            /\ cursor_pos' = cursor_pos - 1
            /\ modified' = TRUE
    /\ Redraw

Moving == UNCHANGED <<buffer, modified>> /\ Redraw

MoveCursorLeft ==
    /\ cursor_pos' = IF cursor_pos > 0 THEN cursor_pos - 1 ELSE cursor_pos
    /\ Moving

MoveCursorRight ==
    /\ cursor_pos' = IF cursor_pos < Len(buffer) THEN cursor_pos + 1 ELSE cursor_pos
    /\ Moving

MoveCursorUp ==
    LET line == LineOf(buffer, cursor_pos)
    IN  /\ cursor_pos' = IF line = 0 THEN 0 ELSE SameColumn(buffer, line - 1, cursor_pos)
        /\ Moving

MoveCursorDown ==
    LET next == LineOf(buffer, cursor_pos) + 1
    IN  /\ cursor_pos' = IF LineStart(buffer, next) >= Len(buffer) THEN Len(buffer)
                         ELSE SameColumn(buffer, next, cursor_pos)
        /\ Moving

\* Mutant: the text counts as saved whether it was or not.
SaveBufferAnyway ==
    /\ \/ file' = buffer /\ lost' = FALSE
       \/ /\ \/ file' = file
             \/ \E k \in 0..Len(buffer) : k < Len(buffer) /\ file' = Prefix(buffer, k)
          /\ lost' = (lost \/ ~modified)
    /\ modified' = FALSE
    /\ UNCHANGED <<buffer, cursor_pos, scroll_line>>
    /\ RedrawPartial

(* Ctrl-S.  A save that fails leaves the file as it was, or with a beginning
   of the text (FileStore).                                                  *)
SaveBufferToFile ==
    /\ \/ file' = buffer /\ modified' = FALSE /\ lost' = FALSE
       \/ /\ \/ file' = file
             \/ \E k \in 0..Len(buffer) : k < Len(buffer) /\ file' = Prefix(buffer, k)
          /\ lost' = (lost \/ ~modified)
          /\ UNCHANGED modified
    /\ UNCHANGED <<buffer, cursor_pos, scroll_line>>
    /\ RedrawPartial

(* load_file_into_buffer: what does not fit is left out.  Then everything is
   drawn.                                                                    *)
Loaded(content) == Prefix(content, MAX_BUFFER - 1)

Init ==
    /\ file \in Contents
    /\ buffer = Loaded(file)
    /\ modified = FALSE /\ cursor_pos = 0 /\ scroll_line = 0
    /\ last_cursor_pos = 0 /\ last_scroll_line = 0
    /\ shown = [r \in Rows |-> Drawn(buffer, 0, r)]
    /\ lost = FALSE

\* Ctrl-Q, without a question, and the editor is run on the file again.
QuitAndOpen ==
    /\ buffer' = Loaded(file)
    /\ modified' = FALSE /\ cursor_pos' = 0 /\ scroll_line' = 0
    /\ last_cursor_pos' = 0 /\ last_scroll_line' = 0
    /\ shown' = [r \in Rows |-> Drawn(buffer', 0, r)]
    /\ lost' = FALSE
    /\ UNCHANGED file

Next ==
    \/ \E c \in Chars \cup {NL} : InsertAtCursor(c)
    \/ BackspaceAtCursor
    \/ MoveCursorLeft \/ MoveCursorRight \/ MoveCursorUp \/ MoveCursorDown
    \/ SaveBufferToFile \/ QuitAndOpen

Spec == Init /\ [][Next]_vars
-----------------------------------------------------------------------------
(* The cursor is within the text, and there is always a byte behind it.      *)
TypeOK ==
    /\ buffer \in Seq(Chars \cup {NL}) /\ Len(buffer) < MAX_BUFFER
    /\ cursor_pos \in 0..Len(buffer) /\ scroll_line \in Nat
    /\ modified \in BOOLEAN /\ lost \in BOOLEAN

(* The line of the cursor is in one of the rows above the status, also after
   keys that join lines or do not scroll (ensure_cursor_visible; a save does
   not call it).                                                             *)
CursorVisible ==
    LET line == LineOf(buffer, cursor_pos)
    IN  scroll_line <= line /\ line < scroll_line + max_lines

(* Though only two rows are drawn after most keys, the rows from the top down
   to the cursor's show the text as it is, with the cursor where it is and
   nowhere else.  Rows below it may be out of date (redraw_screen_partial).   *)
FreshToCursor ==
    \A r \in 0..LineOf(buffer, cursor_pos) - scroll_line :
        shown[r] = Drawn(buffer, cursor_pos, scroll_line + r)

(* Text that is not marked as modified is what the file holds, as much of it as
   fits: a failed save does not unmark it.  Only a failed save of text that was
   not modified breaks that (save_buffer_to_file).                            *)
UnmodifiedIsSaved == (~modified /\ ~lost) => buffer = Loaded(file)

(* Keys do to the text what TextBuffer promises: nothing but the place of the
   cursor is touched, and up and down find their column; and whatever was typed
   before, opening shows the file from its begin, and only saving changes it.  *)
Text == INSTANCE TextBuffer WITH
            before <- SubSeq(buffer, 1, cursor_pos),
            after  <- SubSeq(buffer, cursor_pos + 1, Len(buffer)),
            stored <- file,
            LIMIT  <- MAX_BUFFER - 1
ImplementsTextBuffer == Text!Spec
=============================================================================
