--------------------------------- MODULE Console ---------------------------------
(***************************************************************************)
(* The text console of arch/board/x86/src/vga_text.c, which kernel output  *)
(* and keyboard input reach through io/src/graphic.c.  A character is put  *)
(* in one step, whoever puts it; colors are left out.                      *)
(***************************************************************************)
EXTENDS Integers, Sequences

CONSTANTS
    Columns, Lines,   \* VGA_TEXT_SCREEN_COL_SIZE, VGA_TEXT_SCREEN_LINE_SIZE
    TabStop,          \* the distance of tabs, 8
    Letter            \* characters that are printed as they are

ConsoleAssumption ==
    /\ Columns \in Nat \ {0} /\ Lines \in Nat \ {0} /\ TabStop \in Nat \ {0}

Blank   == " "
Control == {"backspace", "tab", "newline", "clear", "return"}
Unknown == <<>>          \* no lines: the screen is not followed

Rows == 0 .. Lines - 1
Cols == 0 .. Columns - 1
At(y, x) == [y |-> y, x |-> x]

VARIABLES
    screen,    \* the characters of the framebuffer
    cursor,    \* screen_cursor
    printed,   \* last_printed_cursor
    columns,   \* last_columns
    overrun,   \* last_columns was written behind its end
    text       \* the last of the lines that were put, or Unknown

consoleVars == <<screen, cursor, printed, columns, overrun, text>>

BlankRow == [x \in Cols |-> Blank]

\* vga_init, a clear screen and graphic_put_cursor_at(0, 0) (init.c)
Init ==
    /\ screen = [y \in Rows |-> BlankRow]
    /\ cursor = At(0, 0) /\ printed = At(0, 0)
    /\ columns = [y \in Rows |-> 0] /\ overrun = FALSE
    /\ text = <<<<>>>>

--------------------------------------------------------------------------------
\* The driver as functions of its state.
State == [screen |-> screen, cursor |-> cursor, printed |-> printed,
          columns |-> columns, overrun |-> overrun]

\* vga_put_cursor_at lets the cursor be one line below the screen, and one column
\* to its right.
PutCursorAt(s, y, x) == IF x > Columns \/ y > Lines THEN s ELSE [s EXCEPT !.cursor = At(y, x)]

\* last_columns[y] = x
SetColumn(s, y, x) ==
    IF y \in Rows THEN [s EXCEPT !.columns[y] = x] ELSE [s EXCEPT !.overrun = TRUE]

\* last_columns follows the cursor to its new place.
MoveTo(s, y, x) ==
    LET m == PutCursorAt(s, y, x) IN SetColumn(m, m.cursor.y, m.cursor.x)

\* vga_print_char
PrintChar(s, y, x, c) ==
    IF y \in Rows /\ x \in Cols THEN [s EXCEPT !.screen[y][x] = c] ELSE s

\* vga_scroll by n lines, down or just the cursor
Scroll(s, down, n) ==
    LET by == IF n > Lines THEN Lines ELSE n
        up == [s EXCEPT
                !.screen  = [y \in Rows |-> IF y + by \in Rows THEN s.screen[y + by]
                                            ELSE IF y = Lines - 1 THEN BlankRow
                                            ELSE s.screen[Lines - 1]],
                !.columns = [y \in Rows |-> IF y + by \in Rows THEN s.columns[y + by] ELSE 0]]
    IN  [PutCursorAt(IF down THEN up ELSE s, Lines - by, 0) EXCEPT
            !.printed = IF by <= @.y THEN At(@.y - by, @.x) ELSE At(0, 0)]

\* vga_clear_screen leaves the cursor where it is.
Clear(s) == [s EXCEPT !.screen = [y \in Rows |-> BlankRow], !.columns = [y \in Rows |-> 0]]

\* Mutant: the last line is left without a scroll.
Place_NoScroll(s) ==
    LET w == IF s.cursor.x > Columns - 1 THEN MoveTo(s, s.cursor.y + 1, 0) ELSE s
    IN  IF w.cursor.y >= Lines THEN PutCursorAt(w, Lines - 1, 0)
        ELSE MoveTo(w, w.cursor.y, w.cursor.x)

\* Where a letter goes: to a new line behind the last column, and a new last line
\* behind the last.
Place(s) ==
    LET w == IF s.cursor.x > Columns - 1 THEN MoveTo(s, s.cursor.y + 1, 0) ELSE s
    IN  IF w.cursor.y >= Lines THEN Scroll(w, TRUE, 1)
        ELSE MoveTo(w, w.cursor.y, w.cursor.x)

PutLetter(s, c) ==
    LET p == Place(s)
    IN  [PrintChar(p, p.cursor.y, p.cursor.x, c) EXCEPT !.cursor.x = @ + 1]

Erase(s, y, x) ==
    LET m == MoveTo(s, y, x) IN PrintChar(m, m.cursor.y, m.cursor.x, Blank)

\* A backspace takes back what was typed since the last output, line by line.
Backspace(s) ==
    LET y == s.cursor.y
        x == s.cursor.x
        end == IF s.columns[y - 1] >= Columns THEN Columns - 1 ELSE s.columns[y - 1]
    IN  CASE s.printed.y = y /\ x > s.printed.x -> Erase(s, y, x - 1)
          [] s.printed.y < y /\ x > 0           -> Erase(s, y, x - 1)
          [] s.printed.y < y /\ x = 0           ->
                Erase([s EXCEPT !.columns[y - 1] = end], y - 1, end)
          [] OTHER -> s

\* vga_process_char
ProcessChar(s, c) ==
    LET y == s.cursor.y
        x == s.cursor.x
    IN  CASE c \in Letter -> PutLetter(s, c)
          [] c = "backspace" -> Backspace(s)
          [] c = "tab" -> MoveTo(s, y, IF x + TabStop < Columns - 1
                                      THEN x + TabStop - (x % TabStop) ELSE Columns - 1)
          [] c = "newline" -> IF y < Lines - 1 THEN MoveTo(s, y + 1, 0) ELSE Scroll(s, TRUE, 1)
          [] c = "clear" -> Clear(s)
          [] c = "return" -> MoveTo(s, y, 0)

Becomes(s) ==
    /\ screen' = s.screen /\ cursor' = s.cursor /\ printed' = s.printed
    /\ columns' = s.columns /\ overrun' = s.overrun

--------------------------------------------------------------------------------
\* What a terminal shows of the text: lines that wrap, and the last of them.
LastLines(t) == IF Len(t) > Lines THEN SubSeq(t, Len(t) - Lines + 1, Len(t)) ELSE t
OpenLine(t)  == t[Len(t)]
NewText(c) ==
    CASE text = Unknown -> Unknown
      [] text # Unknown /\ c = "newline" -> LastLines(Append(text, <<>>))
      [] text # Unknown /\ c \in Letter ->
            IF Len(OpenLine(text)) = Columns THEN LastLines(Append(text, <<c>>))
            ELSE [text EXCEPT ![Len(text)] = Append(@, c)]
      [] OTHER -> Unknown

\* vga_put_char, of kernel_printf and the like, marks where output ended.
PutChar(c) ==
    /\ LET s == ProcessChar(State, c) IN Becomes([s EXCEPT !.printed = s.cursor])
    /\ text' = NewText(c)

\* vga_console_write_keyboard
WriteKeyboard(c) ==
    /\ Becomes(ProcessChar(State, c))
    /\ text' = NewText(c)

ScrollScreen(down, n) ==
    /\ Becomes(Scroll(State, down, n))
    /\ text' = Unknown

\* vga_restore_cursor of a place on the screen; it does not follow last_columns.
RestoreCursor(y, x) ==
    /\ Becomes(PutCursorAt(State, y, x))
    /\ text' = Unknown

Next ==
    \/ \E c \in Letter \cup Control : PutChar(c) \/ WriteKeyboard(c)
    \/ \E n \in 1 .. Lines + 1, down \in BOOLEAN : ScrollScreen(down, n)
    \/ \E y \in Rows, x \in Cols : RestoreCursor(y, x)

Spec == Init /\ [][Next]_consoleVars

--------------------------------------------------------------------------------
\* The screen shows the text: nothing is lost, doubled or out of place when a line
\* wraps, when a line ends in the last column, or when the screen scrolls.
ShowsText ==
    text # Unknown =>
        /\ cursor = At(Len(text) - 1, Len(OpenLine(text)))
        /\ \A y \in Rows, x \in Cols :
              screen[y][x] = IF y < Len(text) /\ x < Len(text[y + 1]) THEN text[y + 1][x + 1]
                             ELSE Blank

\* The cursor is on the screen, or right of a full line, after any sequence of
\* output, input and scrolls.
CursorOnScreen ==
    \A c \in {cursor, printed} : c.y \in Rows /\ c.x \in 0 .. Columns

================================================================================
