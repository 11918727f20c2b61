------------------------------ MODULE Console ------------------------------
(***************************************************************************)
(* The text console of drivers/console/bochs.c, once the framebuffer is    *)
(* configured.  A text cell is eight pixel rows: up stands for the first   *)
(* seven, low for the last, where the cursor is drawn.  The cells of row   *)
(* MAX_ROWS are the framebuffer below the screen, which scroll reads; what *)
(* is further down is only written.  One action handles one character, as  *)
(* console_write does in a system call, with interrupts masked.            *)
(***************************************************************************)
EXTENDS Integers, Sequences

CONSTANTS
  MAX_ROWS, MAX_COLS,
  FbSizes,         \* the sizes BAR 0 may have, in text rows: QEMU's is 16 Mbytes unless vgamem says more
  TabStop,         \* 8
  Glyphs,          \* the printable characters that draw something
  Descenders,      \* those that draw in the last pixel row
  Blank, Line,     \* a cell part with no glyph, and the cursor
  Banners          \* the texts console_display_top_right is given

ASSUME ConsoleAssumption ==
  /\ MAX_ROWS \in Nat \ {0, 1} /\ MAX_COLS \in Nat \ {0} /\ TabStop \in Nat \ {0}
  /\ FbSizes \subseteq Nat /\ \A n \in FbSizes : n > MAX_ROWS
  /\ Descenders \subseteq Glyphs
  /\ {Blank, Line} \cap Glyphs = {} /\ Blank # Line
  /\ Banners \subseteq Seq(Glyphs \cup {Blank})

Rows == 0..(MAX_ROWS - 1)
Cols == 0..(MAX_COLS - 1)

VARIABLES
  screen, cursor_row, cursor_col,
  fb_rows,         \* the text rows that BAR 0, and so the kernel's map, has room for
  halted,          \* kerneltrap met a page fault of the kernel, and panicked
  text             \* history: what a terminal of that size shows

consolevars == <<screen, cursor_row, cursor_col, fb_rows, halted, text>>

Cell(c) == [up |-> c, low |-> IF c \in Descenders THEN c ELSE Blank]

\* write_char; the caller's position is on the screen
write_char(s, r, k, c) == [s EXCEPT ![r][k] = Cell(c)]

draw_line(s, r, k, color) == [s EXCEPT ![r][k].low = color]

\* Faulty set_cursor: the cursor is drawn and never undrawn
undraw_nothing(s, r, k) == s

undraw_cursor(s, r, k) == draw_line(s, r, k, Blank)

\* The memmove of scroll moves DISPLAY_HEIGHT - 1 pixel rows up by eight: the
\* last pixel row keeps its content.
scroll(s) ==
  [r \in 0..MAX_ROWS |->
     CASE r < MAX_ROWS - 1 -> s[r + 1]
       [] r = MAX_ROWS - 1 -> [k \in Cols |-> [s[r][k] EXCEPT !.up = s[MAX_ROWS][k].up]]
       [] r = MAX_ROWS     -> s[r]]

\* Its memset takes the text row of index DISPLAY_HEIGHT - 1, not the pixel row.
PixelRows == 8
ScrollFaults == PixelRows * MAX_ROWS - 1 >= fb_rows

\* A terminal's text, one row up
ScrolledText(t) ==
  [i \in Rows |-> IF i < MAX_ROWS - 1 THEN t[i + 1] ELSE [k \in Cols |-> Blank]]

\* The callers' row is at most MAX_ROWS: the loop runs at most once.
MoveCursor(s, t, row, col) ==
  LET undrawn == undraw_cursor(s, cursor_row, cursor_col)
      past    == row >= MAX_ROWS
      r       == IF past THEN MAX_ROWS - 1 ELSE row
  IN  \/ /\ past /\ ScrollFaults
         /\ halted' = TRUE /\ screen' = scroll(undrawn)
         /\ UNCHANGED <<cursor_row, cursor_col, fb_rows, text>>
      \/ /\ past => ~ScrollFaults
         /\ screen' = draw_line(IF past THEN scroll(undrawn) ELSE undrawn, r, col, Line)
         /\ cursor_row' = r /\ cursor_col' = col
         /\ text' = IF past THEN ScrolledText(t) ELSE t
         /\ UNCHANGED <<fb_rows, halted>>

set_cursor(row, col) == MoveCursor(screen, text, row, col)

put_char(c) ==
  LET s == write_char(screen, cursor_row, cursor_col, c)
      t == [text EXCEPT ![cursor_row][cursor_col] = c]
  IN  IF cursor_col + 1 < MAX_COLS
        THEN MoveCursor(s, t, cursor_row, cursor_col + 1)
        ELSE MoveCursor(s, t, cursor_row + 1, 0)

clear_screen ==
  MoveCursor([r \in 0..MAX_ROWS |-> IF r < MAX_ROWS THEN [k \in Cols |-> Cell(Blank)]
                                    ELSE screen[r]],
             [r \in Rows |-> [k \in Cols |-> Blank]], 1, 0)

tab ==
  LET distance == (-cursor_col) % TabStop
  IN  IF distance + cursor_col >= MAX_COLS
        THEN set_cursor(cursor_row + 1, 0)
        ELSE set_cursor(cursor_row, cursor_col + distance)

backspace == cursor_col > 0 /\ set_cursor(cursor_row, cursor_col - 1)

newline == set_cursor(cursor_row + 1, 0)

carriage_return == set_cursor(cursor_row, 0)

handle_char ==
  \/ \E c \in Glyphs \cup {Blank} : put_char(c)
  \/ backspace \/ tab \/ newline \/ clear_screen \/ carriage_return

\* The last MAX_COLS characters, against the right border of row 0
console_display_top_right(b) ==
  LET len == IF Len(b) > MAX_COLS THEN MAX_COLS ELSE Len(b)
      Char(k) == b[k - MAX_COLS + Len(b) + 1]
      Covered(k) == k >= MAX_COLS - len
  IN  /\ screen' = [screen EXCEPT ![0] =
                      [k \in Cols |-> IF Covered(k) THEN Cell(Char(k)) ELSE @[k]]]
      /\ text' = [text EXCEPT ![0] = [k \in Cols |-> IF Covered(k) THEN Char(k) ELSE @[k]]]
      /\ UNCHANGED <<cursor_row, cursor_col, fb_rows, halted>>

ConsoleInit ==
  /\ screen = [r \in 0..MAX_ROWS |-> [k \in Cols |-> Cell(Blank)]]
  /\ cursor_row = 1 /\ cursor_col = 0 /\ fb_rows \in FbSizes /\ halted = FALSE
  /\ text = [r \in Rows |-> [k \in Cols |-> Blank]]

ConsoleNext ==
  /\ ~halted
  /\ handle_char \/ \E b \in Banners : console_display_top_right(b)

ConsoleSpec == ConsoleInit /\ [][ConsoleNext]_consolevars
-----------------------------------------------------------------------------
\* Until the kernel halts, the screen shows, above the last pixel row of each
\* cell, the text of a terminal of its size, through any mix of printing,
\* wrapping, scrolling, clearing and of the clock's banner in the top row; the
\* cursor stays on the screen and below that row, and no cursor line is left
\* behind anywhere else.  (In the last pixel row of the last line scroll leaves
\* what was there.)  The kernel halts only where scroll leaves the framebuffer.
ScreenShowsText ==
  /\ halted => ScrollFaults
  /\ cursor_row \in Rows \ {0} /\ cursor_col \in Cols
  /\ ~halted => \A r \in Rows, k \in Cols :
       /\ screen[r][k].up = text[r][k]
       /\ screen[r][k].low = Line => r = cursor_row /\ k = cursor_col
=============================================================================
