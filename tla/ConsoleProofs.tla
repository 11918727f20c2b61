--------------------------- MODULE ConsoleProofs ---------------------------
(***************************************************************************)
(* The console shows what a terminal of its size shows, for every size of  *)
(* the screen and of the framebuffer, every distance of tab stops and      *)
(* every set of glyphs, until a scroll leaves the framebuffer.             *)
(***************************************************************************)
EXTENDS Console, TLAPS

Chars == Glyphs \cup {Blank}

CellType == [up : Chars, low : Chars \cup {Line}]
ScreenType == [0..MAX_ROWS -> [Cols -> CellType]]
TextType == [Rows -> [Cols -> Chars]]

\* A screen s and a text t agree, and the only cursor line of s is at the cursor.
Agree(s, t) ==
  \A r \in Rows, k \in Cols :
    /\ s[r][k].up = t[r][k]
    /\ s[r][k].low = Line => r = cursor_row /\ k = cursor_col

BelowIsBlank(s) == \A k \in Cols : s[MAX_ROWS][k] = Cell(Blank)

\* Strengthens what ScreenShowsText says of a kernel that runs: scroll brings in
\* the row below the screen, which nothing may have drawn on.
Shows ==
  /\ ~halted
  /\ screen \in ScreenType /\ text \in TextType
  /\ cursor_row \in Rows \ {0} /\ cursor_col \in Cols
  /\ BelowIsBlank(screen)
  /\ Agree(screen, text)

\* scroll left the framebuffer.
Stopped ==
  /\ halted /\ ScrollFaults
  /\ cursor_row \in Rows \ {0} /\ cursor_col \in Cols

ConsoleInv == Shows \/ Stopped
-----------------------------------------------------------------------------
\* A cell that write_char fills has a glyph, and no cursor line.
LEMMA CellOfChar ==
  ASSUME NEW c \in Chars
  PROVE  Cell(c) \in CellType /\ Cell(c).up = c /\ Cell(c).low # Line
  BY ConsoleAssumption DEF Cell, Chars, CellType

\* Drawing on one part of a cell leaves the other one.
LEMMA CellPart ==
  ASSUME NEW x \in CellType, NEW l \in Chars \cup {Line}, NEW g \in Chars
  PROVE  /\ [x EXCEPT !.low = l] \in CellType
         /\ [x EXCEPT !.low = l].low = l /\ [x EXCEPT !.low = l].up = x.up
         /\ [x EXCEPT !.up = g] \in CellType
         /\ [x EXCEPT !.up = g].up = g /\ [x EXCEPT !.up = g].low = x.low
  BY DEF CellType

\* undraw_cursor leaves no cursor line on the screen, and every glyph in place.
LEMMA Undrawn ==
  ASSUME NEW s \in ScreenType, NEW t, BelowIsBlank(s), Agree(s, t),
         cursor_row \in Rows, cursor_col \in Cols
  PROVE  LET u == undraw_cursor(s, cursor_row, cursor_col)
         IN  /\ u \in ScreenType /\ BelowIsBlank(u)
             /\ \A r \in Rows, k \in Cols : u[r][k].up = t[r][k] /\ u[r][k].low # Line
  <1> DEFINE u == undraw_cursor(s, cursor_row, cursor_col)
  <1>1. cursor_row \in 0..MAX_ROWS /\ cursor_row # MAX_ROWS /\ MAX_ROWS \in 0..MAX_ROWS
    BY ConsoleAssumption DEF Rows
  <1>2. u = [s EXCEPT ![cursor_row] = [s[cursor_row] EXCEPT ![cursor_col] =
               [s[cursor_row][cursor_col] EXCEPT !.low = Blank]]]
    BY DEF undraw_cursor, draw_line
  <1> HIDE DEF u
  <1>3. u \in ScreenType
    <2>1. [s[cursor_row][cursor_col] EXCEPT !.low = Blank] \in CellType
      <3>1. s[cursor_row][cursor_col] \in CellType /\ Blank \in Chars
        BY <1>1 DEF ScreenType, Chars
      <3> QED BY <3>1, CellPart, Zenon
    <2> QED BY <1>1, <1>2, <2>1 DEF ScreenType
  <1>4. BelowIsBlank(u)
    BY <1>1, <1>2 DEF ScreenType, BelowIsBlank
  <1>5. ASSUME NEW r \in Rows, NEW k \in Cols
        PROVE  u[r][k].up = t[r][k] /\ u[r][k].low # Line
    <2>1. r \in 0..MAX_ROWS
      BY ConsoleAssumption DEF Rows
    <2>2. CASE r = cursor_row /\ k = cursor_col
      BY <1>1, <1>2, <2>1, <2>2, ConsoleAssumption DEF ScreenType, CellType, Agree
    <2>3. CASE ~ (r = cursor_row /\ k = cursor_col)
      BY <1>1, <1>2, <2>1, <2>3 DEF ScreenType, CellType, Agree
    <2> QED BY <2>2, <2>3
  <1> QED BY <1>3, <1>4, <1>5 DEF u

\* scroll moves the text up by a line and brings in a blank one.
LEMMA Scrolled ==
  ASSUME NEW u \in ScreenType, NEW t \in TextType, BelowIsBlank(u),
         \A r \in Rows, k \in Cols : u[r][k].up = t[r][k] /\ u[r][k].low # Line
  PROVE  LET w == scroll(u)
             v == ScrolledText(t)
         IN  /\ w \in ScreenType /\ BelowIsBlank(w) /\ v \in TextType
             /\ \A r \in Rows, k \in Cols : w[r][k].up = v[r][k] /\ w[r][k].low # Line
  <1> DEFINE w == scroll(u)
             v == ScrolledText(t)
             last == [k \in Cols |-> [u[MAX_ROWS - 1][k] EXCEPT !.up = u[MAX_ROWS][k].up]]
  <1>1. /\ MAX_ROWS \in Nat /\ MAX_ROWS >= 2 /\ Rows = 0..(MAX_ROWS - 1)
        /\ MAX_ROWS - 1 \in Rows
    BY ConsoleAssumption DEF Rows
  <1>2. /\ \A r \in 0..MAX_ROWS : r < MAX_ROWS - 1 => w[r] = u[r + 1]
        /\ w[MAX_ROWS - 1] = last
        /\ w[MAX_ROWS] = u[MAX_ROWS]
        /\ w = [r \in 0..MAX_ROWS |-> w[r]]
    <2> DEFINE Row(r) == CASE r < MAX_ROWS - 1 -> u[r + 1]
                           [] r = MAX_ROWS - 1 -> [k \in Cols |-> [u[r][k] EXCEPT !.up = u[MAX_ROWS][k].up]]
                           [] r = MAX_ROWS     -> u[r]
    <2>1. w = [r \in 0..MAX_ROWS |-> Row(r)]
      BY DEF scroll
    <2>2. ASSUME NEW r \in 0..MAX_ROWS, r < MAX_ROWS - 1 PROVE Row(r) = u[r + 1]
      BY <1>1, <2>2
    <2>3. Row(MAX_ROWS - 1) = last
      BY <1>1
    <2>4. Row(MAX_ROWS) = u[MAX_ROWS]
      BY <1>1
    <2>5. MAX_ROWS - 1 \in 0..MAX_ROWS /\ MAX_ROWS \in 0..MAX_ROWS
      BY <1>1
    <2> HIDE DEF w, last, Row
    <2> QED BY <2>1, <2>2, <2>3, <2>4, <2>5
  <1>3. last \in [Cols -> CellType]
    <2>1. ASSUME NEW k \in Cols
          PROVE  [u[MAX_ROWS - 1][k] EXCEPT !.up = u[MAX_ROWS][k].up] \in CellType
      <3>1. u[MAX_ROWS - 1][k] \in CellType /\ u[MAX_ROWS][k].up \in Chars
        BY <1>1 DEF ScreenType, CellType
      <3> QED BY <3>1, CellPart, Zenon
    <2> QED BY <2>1, Zenon
  <1> HIDE DEF w, last
  <1>4. w \in ScreenType
    <2>1. ASSUME NEW r \in 0..MAX_ROWS
          PROVE  w[r] \in [Cols -> CellType]
      <3>1. CASE r < MAX_ROWS - 1
        BY <1>1, <1>2, <3>1 DEF ScreenType
      <3>2. CASE r = MAX_ROWS - 1
        BY <1>2, <1>3, <3>2
      <3>3. CASE r = MAX_ROWS
        BY <1>2, <3>3 DEF ScreenType
      <3> QED BY <1>1, <3>1, <3>2, <3>3
    <2> QED BY <1>2, <2>1 DEF ScreenType
  <1>5. BelowIsBlank(w)
    BY <1>2 DEF BelowIsBlank
  <1>6. v \in TextType
    BY <1>1 DEF TextType, Chars, ScrolledText
  <1>7. ASSUME NEW r \in Rows, NEW k \in Cols
        PROVE  w[r][k].up = v[r][k] /\ w[r][k].low # Line
    <2>1. CASE r < MAX_ROWS - 1
      BY <1>1, <1>2, <2>1, SMTT(30) DEF ScrolledText
    <2>2. CASE r = MAX_ROWS - 1
      <3>1. w[r][k] = [u[MAX_ROWS - 1][k] EXCEPT !.up = u[MAX_ROWS][k].up]
        BY <1>2, <2>2 DEF last
      <3>2. u[MAX_ROWS - 1][k] \in CellType
        BY <1>1 DEF ScreenType
      <3>3. u[MAX_ROWS][k].up = Blank
        BY DEF BelowIsBlank, Cell
      <3> QED BY <1>1, <2>2, <3>1, <3>2, <3>3 DEF CellType, ScrolledText
    <2> QED BY <1>1, <2>1, <2>2
  <1> QED BY <1>4, <1>5, <1>6, <1>7 DEF w

\* set_cursor on a screen that shows the text, for a position at most one line
\* below the screen: it undraws, scrolls when it has to, and draws; or scroll
\* leaves the framebuffer.
LEMMA MoveCursorShows ==
  ASSUME NEW s \in ScreenType, NEW t \in TextType, BelowIsBlank(s), Agree(s, t),
         cursor_row \in Rows \ {0}, cursor_col \in Cols, ~halted,
         NEW row \in 1..MAX_ROWS, NEW col \in Cols, MoveCursor(s, t, row, col)
  PROVE  ConsoleInv'
  <1> DEFINE u == undraw_cursor(s, cursor_row, cursor_col)
             past == row >= MAX_ROWS
             r0 == IF past THEN MAX_ROWS - 1 ELSE row
             w == IF past THEN scroll(u) ELSE u
             v == ScrolledText(t)
  <1>1. /\ u \in ScreenType /\ BelowIsBlank(u)
        /\ \A r \in Rows, k \in Cols : u[r][k].up = t[r][k] /\ u[r][k].low # Line
    BY Undrawn
  <1> SUFFICES ASSUME ~halted' PROVE Shows'
    BY DEF MoveCursor, ConsoleInv, Stopped, ScrollFaults, Rows, Cols
  <1>2. /\ screen' = draw_line(w, r0, col, Line)
        /\ cursor_row' = r0 /\ cursor_col' = col
        /\ text' = IF past THEN v ELSE t
    BY DEF MoveCursor
  <1> HIDE DEF u
  <1>3. LET x == scroll(u)
        IN  /\ x \in ScreenType /\ BelowIsBlank(x) /\ v \in TextType
            /\ \A r \in Rows, k \in Cols : x[r][k].up = v[r][k] /\ x[r][k].low # Line
    BY <1>1, Scrolled
  <1>4. /\ w \in ScreenType /\ BelowIsBlank(w) /\ text' \in TextType
        /\ \A r \in Rows, k \in Cols : w[r][k].up = text'[r][k] /\ w[r][k].low # Line
    BY <1>1, <1>2, <1>3
  <1>5. /\ r0 \in Rows \ {0} /\ r0 \in 0..MAX_ROWS /\ r0 # MAX_ROWS
        /\ MAX_ROWS \in 0..MAX_ROWS /\ Rows \subseteq 0..MAX_ROWS
    BY ConsoleAssumption DEF Rows
  <1> HIDE DEF w, v, r0
  <1>6. screen' = [w EXCEPT ![r0] = [w[r0] EXCEPT ![col] = [w[r0][col] EXCEPT !.low = Line]]]
    BY <1>2 DEF draw_line
  <1>7. screen' \in ScreenType
    <2>1. [w[r0][col] EXCEPT !.low = Line] \in CellType
      <3>1. w[r0][col] \in CellType /\ Blank \in Chars
        BY <1>4, <1>5 DEF ScreenType, Chars
      <3> QED BY <3>1, CellPart, Zenon
    <2> QED BY <1>4, <1>5, <1>6, <2>1 DEF ScreenType
  <1>8. BelowIsBlank(screen')
    BY <1>4, <1>5, <1>6 DEF BelowIsBlank, ScreenType
  <1>9. ASSUME NEW r \in Rows, NEW k \in Cols
        PROVE  /\ screen'[r][k].up = text'[r][k]
               /\ screen'[r][k].low = Line => r = cursor_row' /\ k = cursor_col'
    BY <1>2, <1>4, <1>5, <1>6 DEF ScreenType, CellType
  <1> QED
    BY <1>2, <1>4, <1>5, <1>7, <1>8, <1>9
    DEF Shows, Agree, BelowIsBlank, Cell, CellType, ScreenType, TextType, Chars, Cols, Rows
-----------------------------------------------------------------------------
\* put_char writes the character in the cell of the cursor, then moves on.
LEMMA PutCharShows ==
  ASSUME Shows, NEW c \in Chars, put_char(c)
  PROVE  ConsoleInv'
  <1> DEFINE s == write_char(screen, cursor_row, cursor_col, c)
             t == [text EXCEPT ![cursor_row][cursor_col] = c]
  <1> USE DEF Shows
  <1>1. /\ cursor_row \in 1..(MAX_ROWS - 1) /\ cursor_row \in 0..MAX_ROWS
        /\ MAX_ROWS \in Nat \ {0, 1} /\ MAX_ROWS \in 0..MAX_ROWS
        /\ MAX_COLS \in Nat \ {0} /\ Rows \subseteq 0..MAX_ROWS
    BY ConsoleAssumption DEF Rows
  <1>2. s = [screen EXCEPT ![cursor_row] = [screen[cursor_row] EXCEPT ![cursor_col] = Cell(c)]]
    BY DEF write_char
  <1>3. t = [text EXCEPT ![cursor_row] = [text[cursor_row] EXCEPT ![cursor_col] = c]]
    OBVIOUS
  <1>4. Cell(c) \in CellType /\ Cell(c).up = c /\ Cell(c).low # Line
    BY CellOfChar
  <1>5. \/ cursor_col + 1 < MAX_COLS /\ MoveCursor(s, t, cursor_row, cursor_col + 1)
        \/ MoveCursor(s, t, cursor_row + 1, 0)
    BY DEF put_char
  <1> HIDE DEF s, t
  <1>6. s \in ScreenType
    BY <1>1, <1>2, <1>4 DEF ScreenType
  <1>7. t \in TextType
    BY <1>3 DEF TextType
  <1>8. BelowIsBlank(s)
    BY <1>1, <1>2 DEF BelowIsBlank, ScreenType
  <1>9. Agree(s, t)
    <2> SUFFICES ASSUME NEW r \in Rows, NEW k \in Cols
                 PROVE  /\ s[r][k].up = t[r][k]
                        /\ s[r][k].low = Line => r = cursor_row /\ k = cursor_col
      BY DEF Agree
    <2>1. CASE r = cursor_row /\ k = cursor_col
      BY <1>1, <1>2, <1>3, <1>4, <2>1 DEF ScreenType, TextType
    <2>2. CASE ~ (r = cursor_row /\ k = cursor_col)
      BY <1>1, <1>2, <1>3, <2>2 DEF ScreenType, TextType, Agree
    <2> QED BY <2>1, <2>2
  <1>10. CASE cursor_col + 1 < MAX_COLS /\ MoveCursor(s, t, cursor_row, cursor_col + 1)
    <2>1. cursor_row \in 1..MAX_ROWS /\ cursor_col + 1 \in Cols
      BY <1>1, <1>10 DEF Cols
    <2> QED BY <1>6, <1>7, <1>8, <1>9, <1>10, <2>1, MoveCursorShows
  <1>11. CASE MoveCursor(s, t, cursor_row + 1, 0)
    <2>1. cursor_row + 1 \in 1..MAX_ROWS /\ 0 \in Cols
      BY <1>1 DEF Cols
    <2> QED BY <1>6, <1>7, <1>8, <1>9, <1>11, <2>1, MoveCursorShows
  <1> QED BY <1>5, <1>10, <1>11

\* The other characters move the cursor by set_cursor; a tab that would leave the
\* line goes to the next one.
LEMMA SetCursorShows ==
  ASSUME Shows, backspace \/ tab \/ newline \/ carriage_return
  PROVE  ConsoleInv'
  <1> USE DEF Shows
  <1>1. /\ cursor_row \in 1..(MAX_ROWS - 1) /\ cursor_col \in 0..(MAX_COLS - 1)
        /\ MAX_ROWS \in Nat \ {0, 1} /\ MAX_COLS \in Nat \ {0} /\ TabStop \in Nat \ {0}
    BY ConsoleAssumption DEF Rows, Cols
  <1>2. ASSUME NEW row \in 1..MAX_ROWS, NEW col \in Cols, set_cursor(row, col)
        PROVE  ConsoleInv'
    BY <1>2, MoveCursorShows DEF set_cursor
  <1>3. cursor_row \in 1..MAX_ROWS /\ cursor_row + 1 \in 1..MAX_ROWS /\ 0 \in Cols
    BY <1>1 DEF Cols
  <1>4. CASE backspace
    <2>1. cursor_col - 1 \in Cols
      BY <1>1, <1>4 DEF backspace, Cols
    <2> QED BY <1>2, <1>3, <1>4, <2>1 DEF backspace
  <1>5. CASE tab
    <2> DEFINE distance == (-cursor_col) % TabStop
    <2>1. distance \in Nat
      BY <1>1
    <2>2. \/ set_cursor(cursor_row + 1, 0)
          \/ ~ (distance + cursor_col >= MAX_COLS) /\ set_cursor(cursor_row, cursor_col + distance)
      BY <1>5 DEF tab
    <2> HIDE DEF distance
    <2>3. ~ (distance + cursor_col >= MAX_COLS) => cursor_col + distance \in Cols
      BY <1>1, <2>1 DEF Cols
    <2> QED BY <1>2, <1>3, <2>2, <2>3
  <1>6. CASE newline
    BY <1>2, <1>3, <1>6 DEF newline
  <1>7. CASE carriage_return
    BY <1>2, <1>3, <1>7 DEF carriage_return
  <1> QED BY <1>4, <1>5, <1>6, <1>7

\* clear_screen blanks every row of the screen and goes to row 1.
LEMMA ClearShows ==
  ASSUME Shows, clear_screen
  PROVE  ConsoleInv'
  <1> DEFINE s == [r \in 0..MAX_ROWS |-> IF r < MAX_ROWS THEN [k \in Cols |-> Cell(Blank)]
                                         ELSE screen[r]]
             t == [r \in Rows |-> [k \in Cols |-> Blank]]
  <1> USE DEF Shows
  <1>1. /\ MAX_ROWS \in Nat \ {0, 1} /\ MAX_ROWS \in 0..MAX_ROWS /\ 1 \in 1..MAX_ROWS
        /\ Rows = 0..(MAX_ROWS - 1) /\ 0 \in Cols
    BY ConsoleAssumption DEF Rows, Cols
  <1>2. Blank \in Chars /\ Cell(Blank) \in CellType /\ Cell(Blank).up = Blank
        /\ Cell(Blank).low # Line
    BY CellOfChar DEF Chars
  <1>3. s \in ScreenType
    BY <1>1, <1>2 DEF ScreenType
  <1>4. t \in TextType
    BY <1>2 DEF TextType
  <1>5. BelowIsBlank(s)
    BY <1>1 DEF BelowIsBlank
  <1>6. Agree(s, t)
    BY <1>1, <1>2 DEF Agree
  <1>7. MoveCursor(s, t, 1, 0)
    BY DEF clear_screen
  <1> HIDE DEF s, t
  <1> QED BY <1>1, <1>3, <1>4, <1>5, <1>6, <1>7, MoveCursorShows

\* console_display_top_right writes in row 0, where the cursor never is.
LEMMA BannerShows ==
  ASSUME Shows, NEW b \in Banners, console_display_top_right(b)
  PROVE  ConsoleInv'
  <1> DEFINE len == IF Len(b) > MAX_COLS THEN MAX_COLS ELSE Len(b)
             Char(k) == b[k - MAX_COLS + Len(b) + 1]
             Covered(k) == k >= MAX_COLS - len
             top == [k \in Cols |-> IF Covered(k) THEN Cell(Char(k)) ELSE screen[0][k]]
             line == [k \in Cols |-> IF Covered(k) THEN Char(k) ELSE text[0][k]]
  <1> USE DEF Shows
  <1>1. /\ MAX_ROWS \in Nat \ {0, 1} /\ MAX_COLS \in Nat \ {0}
        /\ MAX_ROWS \in 0..MAX_ROWS /\ 0 \in Rows /\ 0 \in 0..MAX_ROWS
        /\ Rows \subseteq 0..MAX_ROWS /\ cursor_row # 0 /\ MAX_ROWS # 0
    BY ConsoleAssumption DEF Rows
  <1>2. /\ screen' = [screen EXCEPT ![0] = top] /\ text' = [text EXCEPT ![0] = line]
        /\ cursor_row' = cursor_row /\ cursor_col' = cursor_col
    <2>1. screen' = [screen EXCEPT ![0] = top]
      BY <1>1 DEF console_display_top_right, ScreenType
    <2>2. text' = [text EXCEPT ![0] = line]
      BY <1>1 DEF console_display_top_right, TextType
    <2> QED BY <2>1, <2>2 DEF console_display_top_right
  <1>3. ASSUME NEW k \in Cols, Covered(k) PROVE Char(k) \in Chars
    <2>1. b \in Seq(Chars)
      BY ConsoleAssumption DEF Chars
    <2>2. k - MAX_COLS + Len(b) + 1 \in 1..Len(b)
      BY <1>1, <1>3, <2>1 DEF Cols
    <2> QED BY <2>1, <2>2
  <1> HIDE DEF Char, Covered
  <1>4. ASSUME NEW k \in Cols
        PROVE  /\ top[k] \in CellType /\ line[k] \in Chars
               /\ top[k].up = line[k] /\ top[k].low # Line
    <2>1. CASE Covered(k)
      BY <1>3, <2>1, CellOfChar
    <2>2. CASE ~ Covered(k)
      BY <1>1, <2>2 DEF ScreenType, TextType, Agree
    <2> QED BY <2>1, <2>2
  <1>5. top \in [Cols -> CellType] /\ line \in [Cols -> Chars]
    BY <1>4
  <1> HIDE DEF top, line
  <1>6. screen' \in ScreenType /\ text' \in TextType
    BY <1>1, <1>2, <1>5 DEF ScreenType, TextType
  <1>7. \A k \in Cols : screen'[MAX_ROWS][k] = Cell(Blank)
    BY <1>1, <1>2 DEF ScreenType, BelowIsBlank
  <1>8. ASSUME NEW r \in Rows, NEW k \in Cols
        PROVE  /\ screen'[r][k].up = text'[r][k]
               /\ screen'[r][k].low = Line => r = cursor_row' /\ k = cursor_col'
    <2>1. CASE r = 0
      BY <1>1, <1>2, <1>4, <2>1 DEF ScreenType, TextType
    <2>2. CASE r # 0
      BY <1>1, <1>2, <2>2 DEF ScreenType, TextType, Agree
    <2> QED BY <2>1, <2>2
  <1>9. ~halted'
    BY DEF console_display_top_right
  <1> QED
    BY <1>2, <1>6, <1>7, <1>8, <1>9
    DEF ConsoleInv, Agree, BelowIsBlank, Cell, CellType, ScreenType, TextType, Chars, Cols, Rows
-----------------------------------------------------------------------------
\* The console's screen shows the text of a terminal of its size, whatever is
\* printed on it (handle_char and console_display_top_right of bochs.c), until
\* the memset of scroll stops the kernel; that happens only with a framebuffer of
\* fewer than DISPLAY_HEIGHT text rows.
THEOREM ConsoleCorrect == ConsoleSpec => []ScreenShowsText
  <1>1. ConsoleInit => ConsoleInv
    <2> SUFFICES ASSUME ConsoleInit PROVE ConsoleInv
      OBVIOUS
    <2>1. Blank \in Chars /\ Cell(Blank) \in CellType /\ Cell(Blank).up = Blank
          /\ Cell(Blank).low # Line
      BY CellOfChar DEF Chars
    <2>2. /\ MAX_ROWS \in 0..MAX_ROWS /\ 1 \in Rows \ {0} /\ 0 \in Cols
          /\ Rows \subseteq 0..MAX_ROWS
      BY ConsoleAssumption DEF Rows, Cols
    <2>3. screen \in ScreenType /\ text \in TextType
      BY <2>1 DEF ConsoleInit, ScreenType, TextType
    <2>4. BelowIsBlank(screen) /\ Agree(screen, text)
      BY <2>1, <2>2 DEF ConsoleInit, BelowIsBlank, Agree
    <2> QED BY <2>2, <2>3, <2>4 DEF ConsoleInit, ConsoleInv, Shows
  <1>2. ConsoleInv /\ [ConsoleNext]_consolevars => ConsoleInv'
    <2> SUFFICES ASSUME ConsoleInv, [ConsoleNext]_consolevars PROVE ConsoleInv'
      OBVIOUS
    <2>1. ASSUME NEW c \in Glyphs \cup {Blank}, Shows, put_char(c) PROVE ConsoleInv'
      BY <2>1, PutCharShows DEF Chars
    <2>2. CASE Shows /\ (backspace \/ tab \/ newline \/ carriage_return)
      BY <2>2, SetCursorShows
    <2>3. CASE Shows /\ clear_screen
      BY <2>3, ClearShows
    <2>4. ASSUME NEW b \in Banners, Shows, console_display_top_right(b) PROVE ConsoleInv'
      BY <2>4, BannerShows
    <2>5. CASE UNCHANGED consolevars
      BY <2>5
      DEF consolevars, ConsoleInv, Shows, Stopped, ScrollFaults, Agree, BelowIsBlank, Cell,
          CellType, ScreenType, TextType, Chars, Cols, Rows
    <2>6. ConsoleNext => Shows
      BY DEF ConsoleNext, ConsoleInv, Stopped
    <2> QED BY <2>1, <2>2, <2>3, <2>4, <2>5, <2>6 DEF ConsoleNext, handle_char
  <1>3. ConsoleInv => ScreenShowsText
    BY DEF ConsoleInv, Shows, Stopped, ScreenShowsText, Agree
  <1> QED BY <1>1, <1>2, <1>3, PTL DEF ConsoleSpec
=============================================================================
