----------------------------- MODULE TerminalProofs -----------------------------
(***************************************************************************)
(* What the terminal's screen model guarantees for every size, history,    *)
(* input and number of calls: no index leaves the screen unless something  *)
(* saved before a resize is restored after it, scrolling stays in its      *)
(* region, and the primary screen comes back as it was left.  What the     *)
(* byte parser in front of it guarantees for every text and every limit:   *)
(* nothing of a sequence that was broken off reaches the next one.  What   *)
(* the attributes are after any list of codes, and that the bytes of every *)
(* special key are told from those of any other.                           *)
(***************************************************************************)
EXTENDS Terminal, VtParser, Sgr, TerminalInput, Induction, SequenceTheorems, TLAPS

Fields == {"cols", "rows", "screen", "savedScreen", "savedCursor", "scrollback", "row", "col",
           "modes", "top", "bottom", "wrapPending", "title", "dirty", "bells", "fits"}

Row == Seq(Glyphs)

(* A screen of r rows, each at least c columns wide. *)
Wide(screen, r, c) == screen \in Seq(Row) /\ Len(screen) = r /\ \A i \in 1..r : Len(screen[i]) >= c

(* A terminal on which every method finds what it indexes. *)
Sound(t) ==
    /\ DOMAIN t = Fields /\ t.fits
    /\ t.cols \in Nat \ {0} /\ t.rows \in Nat \ {0}
    /\ Wide(t.screen, t.rows, t.cols)
    /\ t.row \in Nat /\ t.row < t.rows /\ t.col \in Nat /\ t.col <= t.cols
    /\ t.top \in Nat /\ t.bottom \in Nat /\ t.top < t.bottom /\ t.bottom <= t.rows

Alternate(t) == Has(t, "alternate_screen")

(* What no method touches but those that save, restore, switch and resize. *)
Same(t, u) ==
    /\ u.cols = t.cols /\ u.rows = t.rows
    /\ u.savedScreen = t.savedScreen /\ u.savedCursor = t.savedCursor
    /\ Alternate(u) <=> Alternate(t)

Keeps(t, u) == Sound(u) /\ Same(t, u)

(* The rows outside from..to-1, and those outside the scroll region. *)
Outside(t, u, from, to) ==
    \A i \in 1..t.rows : i \notin from + 1..to => u.screen[i] = t.screen[i]
Confined(t, u) == Outside(t, u, t.top, t.bottom)

-------------------------------------------------------------------------------
(* Methods that move the cursor or set a flag. *)

LEMMA KeepsComposes ==
    ASSUME NEW t, NEW u, NEW v, Keeps(t, u), Keeps(u, v)
    PROVE  Keeps(t, v)
  BY DEF Keeps, Same

LEMMA KeepsItself == ASSUME NEW t, Sound(t) PROVE Keeps(t, t)
  BY DEF Keeps, Same

(* The cursor goes anywhere on the screen or just behind its right margin. *)
LEMMA CursorMoves ==
    ASSUME NEW t, Sound(t), NEW r \in Nat, r < t.rows, NEW c \in Nat, c <= t.cols
    PROVE  /\ Keeps(t, [t EXCEPT !.row = r, !.col = c])
           /\ Keeps(t, [t EXCEPT !.row = r])
           /\ Keeps(t, [t EXCEPT !.col = c])
  BY DEF Keeps, Same, Sound, Fields, Alternate, Has

LEMMA FlagsKeep ==
    ASSUME NEW t, Sound(t), NEW x
    PROVE  /\ Keeps(t, [t EXCEPT !.dirty = x])
           /\ Keeps(t, [t EXCEPT !.wrapPending = x])
           /\ Keeps(t, [t EXCEPT !.bells = x])
           /\ Keeps(t, [t EXCEPT !.title = x])
           /\ Keeps(t, [t EXCEPT !.scrollback = x])
           /\ Keeps(t, Dirty(t)) /\ Keeps(t, Stop(t))
  BY DEF Keeps, Same, Sound, Fields, Alternate, Has, Dirty, Stop

LEMMA ModesKeep ==
    ASSUME NEW t, Sound(t), NEW mode, mode # "alternate_screen", NEW on
    PROVE  Keeps(t, SetMode(t, mode, on))
  BY DEF Keeps, Same, Sound, Fields, Alternate, Has, SetMode

(* Another screen of the same shape. *)
LEMMA ScreenKeeps ==
    ASSUME NEW t, Sound(t), NEW screen, Wide(screen, t.rows, t.cols)
    PROVE  Keeps(t, [t EXCEPT !.screen = screen]) /\ ([t EXCEPT !.screen = screen]).screen = screen
  BY DEF Keeps, Same, Sound, Fields, Alternate, Has

-------------------------------------------------------------------------------
(* Sequences given by what stands at each place. *)
LEMMA FunctionIsSeq ==
    ASSUME NEW S, NEW n \in Nat, NEW f \in [1..n -> S]
    PROVE  f \in Seq(S) /\ Len(f) = n
  <1>1. f \in Seq(S)
    BY SeqDef
  <1>2. DOMAIN f = 1..Len(f) /\ DOMAIN f = 1..n /\ Len(f) \in Nat
    BY <1>1, LenProperties
  <1>3. Len(f) = n
    BY <1>2
  <1> QED
    BY <1>1, <1>3

LEMMA BlankRowIsRow ==
    ASSUME NEW c \in Nat
    PROVE  BlankRow(c) \in Row /\ Len(BlankRow(c)) = c
  <1>1. BlankRow(c) \in [1..c -> Glyphs]
    BY DEF BlankRow, Glyphs
  <1> QED
    BY <1>1, FunctionIsSeq DEF Row

LEMMA BlankScreenIsWide ==
    ASSUME NEW c \in Nat, NEW r \in Nat
    PROVE  BlankScreen(c, r) \in Seq(Row) /\ Len(BlankScreen(c, r)) = r
           /\ Wide(BlankScreen(c, r), r, c)
  <1>1. BlankScreen(c, r) \in [1..r -> Row] /\ \A i \in 1..r : BlankScreen(c, r)[i] = BlankRow(c)
    BY BlankRowIsRow DEF BlankScreen
  <1>2. BlankScreen(c, r) \in Seq(Row) /\ Len(BlankScreen(c, r)) = r
    BY <1>1, FunctionIsSeq
  <1> QED
    BY <1>1, <1>2, BlankRowIsRow DEF Wide

(* A screen whose rows are all wide enough, given by its rows. *)
LEMMA RowsAreWide ==
    ASSUME NEW r \in Nat, NEW c \in Nat, NEW screen, DOMAIN screen = 1..r,
           screen = [i \in 1..r |-> screen[i]],
           \A i \in 1..r : screen[i] \in Row /\ Len(screen[i]) >= c
    PROVE  Wide(screen, r, c)
  <1>1. screen \in [1..r -> Row]
    OBVIOUS
  <1>2. screen \in Seq(Row) /\ Len(screen) = r
    BY <1>1, FunctionIsSeq
  <1> QED
    BY <1>2 DEF Wide

LEMMA WideRows ==
    ASSUME NEW r \in Nat, NEW c \in Nat, NEW screen, Wide(screen, r, c)
    PROVE  DOMAIN screen = 1..r /\ \A i \in 1..r : screen[i] \in Row /\ Len(screen[i]) >= c
  BY DEF Wide

-------------------------------------------------------------------------------
(* Rows that move. *)
LEMMA RowsMove ==
    ASSUME NEW t, Sound(t), NEW from \in Nat, NEW to \in Nat, to <= t.rows, NEW n \in Nat
    PROVE  /\ Keeps(t, RowsUp(t, from, to, n)) /\ Keeps(t, RowsDown(t, from, to, n))
           /\ Outside(t, RowsUp(t, from, to, n), from, to)
           /\ Outside(t, RowsDown(t, from, to, n), from, to)
           /\ RowsUp(t, from, to, n).row = t.row /\ RowsDown(t, from, to, n).row = t.row
  <1> DEFINE up == [i \in DOMAIN t.screen |->
                        IF i <= from \/ i > to THEN t.screen[i]
                        ELSE IF i + n <= to THEN t.screen[i + n] ELSE BlankRow(t.cols)]
             down == [i \in DOMAIN t.screen |->
                        IF i <= from \/ i > to THEN t.screen[i]
                        ELSE IF i - n > from THEN t.screen[i - n] ELSE BlankRow(t.cols)]
  <1>1. /\ t.rows \in Nat /\ t.cols \in Nat /\ DOMAIN t = Fields
        /\ Wide(t.screen, t.rows, t.cols)
    BY DEF Sound
  <1>2. /\ DOMAIN t.screen = 1..t.rows
        /\ \A i \in 1..t.rows : t.screen[i] \in Row /\ Len(t.screen[i]) >= t.cols
    BY <1>1, WideRows
  <1>3. BlankRow(t.cols) \in Row /\ Len(BlankRow(t.cols)) = t.cols
    BY <1>1, BlankRowIsRow
  <1> DEFINE blank == BlankRow(t.cols)
  <1> HIDE DEF blank
  <1>4. Wide(up, t.rows, t.cols)
    <2>1. \A i \in 1..t.rows : up[i] \in Row /\ Len(up[i]) >= t.cols
      BY <1>1, <1>2, <1>3
    <2> QED
      BY <1>1, <1>2, <2>1, RowsAreWide
  <1>5. Wide(down, t.rows, t.cols)
    <2>1. \A i \in 1..t.rows : down[i] \in Row /\ Len(down[i]) >= t.cols
      BY <1>1, <1>2, <1>3
    <2> QED
      BY <1>1, <1>2, <2>1, RowsAreWide
  <1>6. RowsUp(t, from, to, n) = [t EXCEPT !.screen = up]
    BY DEF RowsUp
  <1>7. RowsDown(t, from, to, n) = [t EXCEPT !.screen = down]
    BY DEF RowsDown
  <1>8. \A i \in 1..t.rows : i \notin from + 1..to => up[i] = t.screen[i] /\ down[i] = t.screen[i]
    BY <1>1, <1>2
  <1> HIDE DEF up, down
  <1>9. \A screen : ([t EXCEPT !.screen = screen]).row = t.row
    BY <1>1 DEF Fields
  <1>10. \A screen : Wide(screen, t.rows, t.cols) =>
            Keeps(t, [t EXCEPT !.screen = screen]) /\ ([t EXCEPT !.screen = screen]).screen = screen
    BY ScreenKeeps
  <1> QED
    BY <1>4, <1>5, <1>6, <1>7, <1>8, <1>9, <1>10 DEF Outside

(* A flag, a title or the history changes nothing of the screen. *)
Shows(t, u) ==
    /\ u.screen = t.screen /\ u.top = t.top /\ u.bottom = t.bottom
    /\ u.row = t.row /\ u.col = t.col

LEMMA FlagsShow ==
    ASSUME NEW t, Sound(t), NEW x
    PROVE  /\ Shows(t, [t EXCEPT !.wrapPending = x]) /\ Shows(t, [t EXCEPT !.scrollback = x])
           /\ Shows(t, [t EXCEPT !.bells = x]) /\ Shows(t, Dirty(t))
  BY DEF Sound, Fields, Shows, Dirty

LEMMA ScrollMoves ==
    ASSUME NEW t, Sound(t), NEW n \in Nat
    PROVE  /\ Keeps(t, ScrollUp(t, n)) /\ Confined(t, ScrollUp(t, n))
           /\ Keeps(t, ScrollDown(t, n)) /\ Confined(t, ScrollDown(t, n))
           /\ ScrollUp(t, n).row = t.row /\ ScrollDown(t, n).row = t.row
  <1>1. t.top \in Nat /\ t.bottom \in Nat /\ t.bottom <= t.rows
    BY DEF Sound
  <1> DEFINE up == RowsUp(t, t.top, t.bottom, n)
             down == RowsDown(t, t.top, t.bottom, n)
  <1>2. /\ Keeps(t, up) /\ Confined(t, up) /\ up.row = t.row
        /\ Keeps(t, down) /\ Confined(t, down) /\ down.row = t.row
    BY <1>1, RowsMove DEF Confined
  <1> HIDE DEF up, down
  <1>3. Sound(up) /\ Sound(down)
    BY <1>2 DEF Keeps
  <1>4. PICK x : ScrollUp(t, n) = Dirty([up EXCEPT !.scrollback = x])
    BY DEF ScrollUp, up
  <1> DEFINE v == [up EXCEPT !.scrollback = x]
  <1>5. Keeps(up, v) /\ Shows(up, v)
    BY <1>3, FlagsKeep, FlagsShow
  <1> HIDE DEF v
  <1>6. Sound(v)
    BY <1>5 DEF Keeps
  <1>7. Keeps(v, Dirty(v)) /\ Shows(v, Dirty(v))
    BY <1>6, FlagsKeep, FlagsShow
  <1>8. Keeps(t, Dirty(v))
    BY <1>2, <1>5, <1>7, KeepsComposes
  <1>9. Confined(t, Dirty(v)) /\ Dirty(v).row = t.row
    BY <1>2, <1>5, <1>7 DEF Confined, Outside, Shows
  <1>10. Keeps(down, Dirty(down)) /\ Shows(down, Dirty(down))
    BY <1>3, FlagsKeep, FlagsShow
  <1>11. Keeps(t, Dirty(down))
    BY <1>2, <1>10, KeepsComposes
  <1>12. Confined(t, Dirty(down)) /\ Dirty(down).row = t.row
    BY <1>2, <1>10 DEF Confined, Outside, Shows
  <1> QED
    BY <1>4, <1>8, <1>9, <1>11, <1>12 DEF ScrollDown, down, v

LEMMA LinesMove ==
    ASSUME NEW t, Sound(t), NEW n \in Nat
    PROVE  /\ Keeps(t, InsertLines(t, n)) /\ Confined(t, InsertLines(t, n))
           /\ Keeps(t, DeleteLines(t, n)) /\ Confined(t, DeleteLines(t, n))
  <1>1. Keeps(t, t) /\ Confined(t, t)
    BY KeepsItself DEF Confined, Outside
  <1>2. CASE ~InRegion(t)
    BY <1>1, <1>2 DEF InsertLines, DeleteLines
  <1>3. CASE InRegion(t)
    <2> DEFINE down == RowsDown(t, t.row, t.bottom, n)
               up == RowsUp(t, t.row, t.bottom, n)
    <2>1. /\ t.row \in Nat /\ t.bottom \in Nat /\ t.top \in Nat /\ t.bottom <= t.rows
          /\ t.top <= t.row /\ t.rows \in Nat
      BY <1>3 DEF Sound, InRegion
    <2>2. /\ Keeps(t, up) /\ Keeps(t, down)
          /\ Outside(t, up, t.row, t.bottom) /\ Outside(t, down, t.row, t.bottom)
      BY <2>1, RowsMove
    <2>3. \A i \in 1..t.rows : i \notin t.top + 1..t.bottom => i \notin t.row + 1..t.bottom
      BY <2>1
    <2> HIDE DEF up, down
    <2>4. Confined(t, up) /\ Confined(t, down)
      BY <2>2, <2>3 DEF Confined, Outside
    <2>5. ASSUME NEW u, Keeps(t, u), Confined(t, u)
          PROVE  Keeps(t, [u EXCEPT !.col = 0]) /\ Confined(t, [u EXCEPT !.col = 0])
      <3>1. Sound(u) /\ DOMAIN u = Fields
        BY <2>5 DEF Keeps, Sound
      <3>2. 0 \in Nat /\ 0 <= u.cols
        BY <3>1 DEF Sound
      <3>3. u.row \in Nat /\ u.row < u.rows
        BY <3>1 DEF Sound
      <3>4. Keeps(u, [u EXCEPT !.col = 0])
        BY <3>1, <3>2, <3>3, CursorMoves
      <3>5. ([u EXCEPT !.col = 0]).screen = u.screen
        BY <3>1 DEF Fields
      <3>6. Confined(t, [u EXCEPT !.col = 0])
        BY <2>5, <3>5 DEF Confined, Outside
      <3> QED
        BY <2>5, <3>4, <3>6, KeepsComposes
    <2>6. /\ Keeps(t, [up EXCEPT !.col = 0]) /\ Confined(t, [up EXCEPT !.col = 0])
          /\ Keeps(t, [down EXCEPT !.col = 0]) /\ Confined(t, [down EXCEPT !.col = 0])
      BY <2>2, <2>4, <2>5
    <2> QED
      BY <1>3, <2>6 DEF InsertLines, DeleteLines, up, down
  <1> QED
    BY <1>2, <1>3

LEMMA LineFeedMoves ==
    ASSUME NEW t, Sound(t)
    PROVE  Keeps(t, LineFeed(t)) /\ Confined(t, LineFeed(t))
  <1> DEFINE u == [t EXCEPT !.wrapPending = FALSE]
  <1>1. Keeps(t, u) /\ Shows(t, u)
    BY FlagsKeep, FlagsShow
  <1> HIDE DEF u
  <1>2. Sound(u) /\ Confined(t, u) /\ u.rows = t.rows
    BY <1>1 DEF Keeps, Same, Shows, Confined, Outside
  <1>3. CASE t.row + 1 = t.bottom
    <2>1. Keeps(u, ScrollUp(u, 1)) /\ Confined(u, ScrollUp(u, 1))
      BY <1>2, ScrollMoves
    <2>2. Keeps(t, ScrollUp(u, 1))
      BY <1>1, <2>1, KeepsComposes
    <2>3. Confined(t, ScrollUp(u, 1))
      BY <1>1, <1>2, <2>1 DEF Confined, Outside, Shows
    <2> QED
      BY <1>3, <2>2, <2>3 DEF LineFeed, u
  <1>4. CASE t.row + 1 # t.bottom /\ t.row + 1 < t.rows
    <2>1. u.row + 1 \in Nat /\ u.row + 1 < u.rows
      BY <1>1, <1>2, <1>4 DEF Shows, Sound
    <2>2. Keeps(u, [u EXCEPT !.row = u.row + 1])
      <3>1. u.col \in Nat /\ u.col <= u.cols
        BY <1>2 DEF Sound
      <3> QED
        BY <1>2, <2>1, <3>1, CursorMoves
    <2>3. ([u EXCEPT !.row = u.row + 1]).screen = u.screen
      BY <1>2 DEF Sound, Fields
    <2>4. Confined(t, [u EXCEPT !.row = u.row + 1])
      BY <1>2, <2>3 DEF Confined, Outside
    <2>5. Keeps(t, [u EXCEPT !.row = u.row + 1])
      BY <1>1, <2>2, KeepsComposes
    <2> QED
      BY <1>4, <2>4, <2>5 DEF LineFeed, u
  <1>5. CASE t.row + 1 # t.bottom /\ ~(t.row + 1 < t.rows)
    BY <1>1, <1>2, <1>5 DEF LineFeed, u
  <1> QED
    BY <1>3, <1>4, <1>5

LEMMA ReverseIndexMoves ==
    ASSUME NEW t, Sound(t)
    PROVE  Keeps(t, ReverseIndex(t)) /\ Confined(t, ReverseIndex(t))
  <1>1. CASE t.row = t.top
    BY <1>1, ScrollMoves DEF ReverseIndex
  <1>2. CASE t.row # t.top
    <2>1. /\ Minus(t.row, 1) \in Nat /\ Minus(t.row, 1) < t.rows
          /\ t.col \in Nat /\ t.col <= t.cols
      BY DEF Sound, Minus, AtLeast
    <2>2. Keeps(t, [t EXCEPT !.row = Minus(t.row, 1)])
      BY <2>1, CursorMoves
    <2>3. ([t EXCEPT !.row = Minus(t.row, 1)]).screen = t.screen
      BY DEF Sound, Fields
    <2> QED
      BY <1>2, <2>2, <2>3 DEF ReverseIndex, Confined, Outside
  <1> QED
    BY <1>1, <1>2

-------------------------------------------------------------------------------
(* The cursor's row. *)
LEMMA LineIsRow ==
    ASSUME NEW t, Sound(t)
    PROVE  /\ t.row + 1 \in 1..t.rows /\ Line(t) \in Row /\ Len(Line(t)) \in Nat
           /\ Len(Line(t)) >= t.cols /\ DOMAIN Line(t) = 1..Len(Line(t))
           /\ \A i \in 1..Len(Line(t)) : Line(t)[i] \in Glyphs
  <1>1. t.row + 1 \in 1..t.rows /\ Wide(t.screen, t.rows, t.cols)
    BY DEF Sound
  <1>2. Line(t) \in Row /\ Len(Line(t)) >= t.cols
    BY <1>1 DEF Wide, Line
  <1>3. Line(t) \in Seq(Glyphs)
    BY <1>2 DEF Row
  <1> QED
    BY <1>1, <1>2, <1>3

LEMMA SetLineKeeps ==
    ASSUME NEW t, Sound(t), NEW cells \in Row, Len(cells) >= t.cols
    PROVE  Keeps(t, SetLine(t, cells))
  <1> DEFINE screen == [t.screen EXCEPT ![t.row + 1] = cells]
  <1>1. /\ Wide(t.screen, t.rows, t.cols) /\ t.rows \in Nat /\ t.cols \in Nat
        /\ DOMAIN t = Fields
    BY DEF Sound
  <1>2. DOMAIN t.screen = 1..t.rows
        /\ \A i \in 1..t.rows : t.screen[i] \in Row /\ Len(t.screen[i]) >= t.cols
    BY <1>1, WideRows
  <1>3. \A i \in 1..t.rows : screen[i] \in Row /\ Len(screen[i]) >= t.cols
    BY <1>2
  <1>4. DOMAIN screen = 1..t.rows /\ screen = [i \in 1..t.rows |-> screen[i]]
    BY <1>2
  <1> HIDE DEF screen
  <1>5. Wide(screen, t.rows, t.cols)
    BY <1>1, <1>3, <1>4, RowsAreWide
  <1>6. SetLine(t, cells) = [t EXCEPT !.screen = screen]
    BY DEF SetLine, screen
  <1> QED
    BY <1>5, <1>6, ScreenKeeps

(* Cells given by what stands at each place. *)
LEMMA CellsAreRow ==
    ASSUME NEW n \in Nat, NEW cells, DOMAIN cells = 1..n, cells = [i \in 1..n |-> cells[i]],
           \A i \in 1..n : cells[i] \in Glyphs
    PROVE  cells \in Row /\ Len(cells) = n
  <1>1. cells \in [1..n -> Glyphs]
    OBVIOUS
  <1> QED
    BY <1>1, FunctionIsSeq DEF Row

LEMMA InsertBlanksKeeps ==
    ASSUME NEW t, Sound(t), NEW at \in Nat, NEW n \in Nat
    PROVE  Keeps(t, InsertBlanks(t, at, n))
  <1> DEFINE line == Line(t)
             cells == [i \in 1..t.cols |-> IF i <= at THEN line[i]
                                           ELSE IF i <= at + n THEN Blank ELSE line[i - n]]
  <1>1. /\ \A i \in 1..Len(line) : line[i] \in Glyphs
        /\ Len(line) \in Nat /\ Len(line) >= t.cols /\ t.cols \in Nat
    BY LineIsRow DEF Sound
  <1>2. Blank \in Glyphs
    BY DEF Glyphs
  <1>3. InsertBlanks(t, at, n) = SetLine(t, cells)
    BY DEF InsertBlanks
  <1> HIDE DEF line
  <1>4. ASSUME NEW i \in 1..t.cols PROVE cells[i] \in Glyphs
    <2>1. CASE i <= at
      BY <1>1, <2>1
    <2>2. CASE i > at /\ i <= at + n
      BY <1>1, <1>2, <2>2
    <2>3. CASE i > at /\ ~(i <= at + n)
      <3>1. i - n \in 1..Len(line)
        BY <1>1, <2>3
      <3>2. cells[i] = line[i - n]
        BY <1>1, <2>3
      <3> QED
        BY <1>1, <3>1, <3>2
    <2> QED
      BY <1>1, <2>1, <2>2, <2>3
  <1>5. DOMAIN cells = 1..t.cols /\ cells = [i \in 1..t.cols |-> cells[i]]
    OBVIOUS
  <1> HIDE DEF cells
  <1>6. cells \in Row /\ Len(cells) = t.cols
    BY <1>1, <1>4, <1>5, CellsAreRow
  <1> QED
    BY <1>1, <1>3, <1>6, SetLineKeeps

LEMMA InsertCharsKeeps ==
    ASSUME NEW t, Sound(t), NEW n \in Nat \ {0}
    PROVE  Keeps(t, InsertChars(t, n))
  <1>1. t.col \in Nat /\ t.cols - 1 \in Nat /\ n - 1 \in Nat
    BY DEF Sound
  <1>2. (IF Len(Line(t)) > t.cols THEN n - 1 ELSE n) \in Nat
    BY <1>1
  <1> QED
    BY <1>1, <1>2, InsertBlanksKeeps DEF InsertChars

LEMMA DeleteCharsKeeps ==
    ASSUME NEW t, Sound(t), NEW n \in Nat
    PROVE  Keeps(t, DeleteChars(t, n))
  <1> DEFINE line == Line(t)
             cells == [i \in DOMAIN line |-> IF i <= t.col THEN line[i]
                                             ELSE IF i + n <= Len(line) THEN line[i + n]
                                             ELSE Blank]
             more == AtMost(n, t.col + 1 - Len(line))
  <1>1. /\ line \in Row /\ DOMAIN line = 1..Len(line)
        /\ \A i \in 1..Len(line) : line[i] \in Glyphs
        /\ Len(line) \in Nat /\ Len(line) >= t.cols /\ t.cols \in Nat /\ t.col \in Nat
    BY LineIsRow DEF Sound
  <1>2. Blank \in Glyphs
    BY DEF Glyphs
  <1>3. DeleteChars(t, n)
            = SetLine(t, IF t.col < Len(line) THEN cells ELSE line \o BlankRow(more))
    BY DEF DeleteChars
  <1> HIDE DEF line
  <1>8. ~(t.col < Len(line)) => more \in Nat
    BY <1>1 DEF AtMost
  <1> HIDE DEF more
  <1>4. \A i \in 1..Len(line) : cells[i] \in Glyphs
    BY <1>1, <1>2
  <1>5. DOMAIN cells = 1..Len(line) /\ cells = [i \in 1..Len(line) |-> cells[i]]
    BY <1>1
  <1> HIDE DEF cells
  <1>6. cells \in Row /\ Len(cells) >= t.cols
    BY <1>1, <1>4, <1>5, CellsAreRow
  <1>7. ASSUME ~(t.col < Len(line))
        PROVE  line \o BlankRow(more) \in Row /\ Len(line \o BlankRow(more)) >= t.cols
    <2>1. BlankRow(more) \in Row /\ Len(BlankRow(more)) = more /\ more \in Nat
      BY <1>7, <1>8, BlankRowIsRow
    <2> DEFINE blanks == BlankRow(more)
    <2> HIDE DEF blanks
    <2>2. line \o blanks \in Row /\ Len(line \o blanks) = Len(line) + Len(blanks)
      BY <1>1, <2>1, ConcatProperties DEF Row, blanks
    <2> QED
      BY <1>1, <2>1, <2>2 DEF blanks
  <1> QED
    BY <1>3, <1>6, <1>7, SetLineKeeps

LEMMA EraseCellsKeeps ==
    ASSUME NEW t, Sound(t), NEW from, NEW to
    PROVE  Keeps(t, EraseCells(t, from, to))
  <1> DEFINE line == Line(t)
             cells == [i \in DOMAIN line |-> IF i > from /\ i <= AtMost(to, t.cols) THEN Blank
                                             ELSE line[i]]
  <1>1. /\ DOMAIN line = 1..Len(line) /\ \A i \in 1..Len(line) : line[i] \in Glyphs
        /\ Len(line) \in Nat /\ Len(line) >= t.cols
    BY LineIsRow
  <1>2. Blank \in Glyphs
    BY DEF Glyphs
  <1>3. EraseCells(t, from, to) = SetLine(t, cells)
    BY DEF EraseCells
  <1> HIDE DEF line
  <1>4. \A i \in 1..Len(line) : cells[i] \in Glyphs
    BY <1>1, <1>2
  <1>5. DOMAIN cells = 1..Len(line) /\ cells = [i \in 1..Len(line) |-> cells[i]]
    BY <1>1
  <1> HIDE DEF cells
  <1>6. cells \in Row /\ Len(cells) >= t.cols
    BY <1>1, <1>4, <1>5, CellsAreRow
  <1> QED
    BY <1>3, <1>6, SetLineKeeps

LEMMA ClearRowsKeeps ==
    ASSUME NEW t, Sound(t), NEW rows
    PROVE  Keeps(t, ClearRows(t, rows))
  <1> DEFINE screen == [i \in DOMAIN t.screen |->
                           IF i - 1 \in rows THEN BlankRow(Len(t.screen[i])) ELSE t.screen[i]]
  <1>1. Wide(t.screen, t.rows, t.cols) /\ t.rows \in Nat /\ t.cols \in Nat
    BY DEF Sound
  <1>2. DOMAIN t.screen = 1..t.rows
        /\ \A i \in 1..t.rows : t.screen[i] \in Row /\ Len(t.screen[i]) >= t.cols
    BY <1>1, WideRows
  <1>3. ClearRows(t, rows) = [t EXCEPT !.screen = screen]
    BY DEF ClearRows
  <1>4. ASSUME NEW i \in 1..t.rows PROVE screen[i] \in Row /\ Len(screen[i]) >= t.cols
    <2>1. Len(t.screen[i]) \in Nat
      BY <1>2 DEF Row
    <2>2. /\ BlankRow(Len(t.screen[i])) \in Row
          /\ Len(BlankRow(Len(t.screen[i]))) = Len(t.screen[i])
      BY <2>1, BlankRowIsRow
    <2>3. screen[i] \in {BlankRow(Len(t.screen[i])), t.screen[i]}
      BY <1>2
    <2> HIDE DEF screen
    <2> QED
      BY <1>2, <2>2, <2>3
  <1>5. DOMAIN screen = 1..t.rows /\ screen = [i \in 1..t.rows |-> screen[i]]
    BY <1>2
  <1> HIDE DEF screen
  <1>6. Wide(screen, t.rows, t.cols)
    BY <1>1, <1>4, <1>5, RowsAreWide
  <1> QED
    BY <1>3, <1>6, ScreenKeeps

LEMMA EraseLineKeeps ==
    ASSUME NEW t, Sound(t), NEW mode
    PROVE  Keeps(t, EraseLine(t, mode))
  BY EraseCellsKeeps DEF EraseLine

LEMMA HomeKeeps == ASSUME NEW t, Sound(t) PROVE Keeps(t, Home(t))
  <1>1. 0 \in Nat /\ 0 < t.rows /\ 0 <= t.cols
    BY DEF Sound
  <1> QED
    BY <1>1, CursorMoves DEF Home

(* Clearing the screen and the history. *)
LEMMA WipeKeeps ==
    ASSUME NEW t, Sound(t), NEW rows, NEW history
    PROVE  Keeps(t, Home([ClearRows(t, rows) EXCEPT !.scrollback = history]))
  <1> DEFINE u == ClearRows(t, rows)
             v == [u EXCEPT !.scrollback = history]
  <1>1. Keeps(t, u)
    BY ClearRowsKeeps
  <1> HIDE DEF u
  <1>2. Keeps(u, v)
    BY <1>1, FlagsKeep DEF Keeps
  <1> HIDE DEF v
  <1>3. Keeps(v, Home(v))
    BY <1>2, HomeKeeps DEF Keeps
  <1>4. Keeps(t, v)
    BY <1>1, <1>2, KeepsComposes
  <1>5. Keeps(t, Home(v))
    BY <1>3, <1>4, KeepsComposes
  <1> QED
    BY <1>5 DEF u, v

LEMMA EraseDisplayKeeps ==
    ASSUME NEW t, Sound(t), NEW mode
    PROVE  Keeps(t, EraseDisplay(t, mode))
  <1>1. CASE mode = 0
    <2> DEFINE u == EraseLine(t, 0)
    <2>1. Keeps(t, u)
      BY EraseLineKeeps
    <2> HIDE DEF u
    <2>2. Keeps(u, ClearRows(u, t.row + 1..t.rows - 1))
      BY <2>1, ClearRowsKeeps DEF Keeps
    <2>3. Keeps(t, ClearRows(u, t.row + 1..t.rows - 1))
      BY <2>1, <2>2, KeepsComposes
    <2> QED
      BY <1>1, <2>3 DEF EraseDisplay, u
  <1>2. CASE mode = 1
    <2> DEFINE u == ClearRows(t, 0..t.row - 1)
    <2>1. Keeps(t, u)
      BY ClearRowsKeeps
    <2> HIDE DEF u
    <2>2. Keeps(u, EraseLine(u, 1))
      BY <2>1, EraseLineKeeps DEF Keeps
    <2>3. Keeps(t, EraseLine(u, 1))
      BY <2>1, <2>2, KeepsComposes
    <2> QED
      BY <1>2, <2>3 DEF EraseDisplay, u
  <1>3. CASE mode # 0 /\ mode # 1
    BY <1>3, WipeKeeps DEF EraseDisplay
  <1> QED
    BY <1>1, <1>2, <1>3

-------------------------------------------------------------------------------
(* Printing and control codes. *)
LEMMA PutCharKeeps ==
    ASSUME NEW t, Sound(t), NEW ch \in Chars \cup WideChars
    PROVE  Keeps(t, PutChar(t, ch))
  <1>1. CASE t.col >= t.cols
    BY <1>1, KeepsItself DEF PutChar
  <1>2. CASE ~(t.col >= t.cols)
    <2> DEFINE line == Line(t)
               cells == [i \in DOMAIN line |->
                           IF i = t.col + 1 THEN ch
                           ELSE IF Width(ch) = 2 /\ i = t.col + 2 /\ i <= t.cols THEN Blank
                           ELSE line[i]]
               next == t.col + Width(ch)
               wraps == next >= t.cols /\ Has(t, "auto_wrap")
               col == IF next < t.cols THEN next ELSE IF wraps THEN t.cols ELSE t.cols - 1
               u == SetLine(t, cells)
               v == [u EXCEPT !.col = col]
    <2>1. /\ DOMAIN line = 1..Len(line) /\ \A i \in 1..Len(line) : line[i] \in Glyphs
          /\ Len(line) \in Nat /\ Len(line) >= t.cols
      BY LineIsRow
    <2>2. Blank \in Glyphs /\ ch \in Glyphs
      BY DEF Glyphs
    <2>3. PutChar(t, ch) = Dirty([u EXCEPT !.col = col, !.wrapPending = @ \/ wraps])
      BY <1>2 DEF PutChar
    <2> HIDE DEF line
    <2>4. \A i \in 1..Len(line) : cells[i] \in Glyphs
      BY <2>1, <2>2
    <2>5. DOMAIN cells = 1..Len(line) /\ cells = [i \in 1..Len(line) |-> cells[i]]
      BY <2>1
    <2> HIDE DEF cells
    <2>6. cells \in Row /\ Len(cells) >= t.cols
      BY <2>1, <2>4, <2>5, CellsAreRow
    <2>7. Keeps(t, u)
      BY <2>6, SetLineKeeps
    <2>8. col \in Nat /\ col <= t.cols
      <3>1. t.col \in Nat /\ t.cols \in Nat \ {0} /\ Width(ch) \in {1, 2}
        BY DEF Sound, Width
      <3> HIDE DEF wraps
      <3>2. CASE next < t.cols
        BY <3>1, <3>2
      <3>3. CASE ~(next < t.cols)
        BY <3>1, <3>3
      <3> QED
        BY <3>2, <3>3
    <2> HIDE DEF u, col, wraps
    <2>9. Sound(u) /\ u.cols = t.cols /\ DOMAIN u = Fields
      BY <2>7 DEF Keeps, Same, Sound
    <2>10. Keeps(u, v)
      <3>1. u.row \in Nat /\ u.row < u.rows /\ col <= u.cols
        BY <2>8, <2>9 DEF Sound
      <3> QED
        BY <2>8, <2>9, <3>1, CursorMoves
    <2>11. [u EXCEPT !.col = col, !.wrapPending = @ \/ wraps]
              = [v EXCEPT !.wrapPending = u.wrapPending \/ wraps]
      BY <2>9 DEF Fields
    <2> HIDE DEF v
    <2>12. Keeps(v, [v EXCEPT !.wrapPending = u.wrapPending \/ wraps])
      BY <2>10, FlagsKeep DEF Keeps
    <2> DEFINE w == [v EXCEPT !.wrapPending = u.wrapPending \/ wraps]
    <2>13. Keeps(w, Dirty(w))
      BY <2>12, FlagsKeep DEF Keeps
    <2> HIDE DEF w
    <2>14. Keeps(t, v)
      BY <2>7, <2>10, KeepsComposes
    <2>15. Keeps(t, w)
      BY <2>12, <2>14, KeepsComposes DEF w
    <2>16. Keeps(t, Dirty(w))
      BY <2>13, <2>15, KeepsComposes
    <2> QED
      BY <2>3, <2>11, <2>16 DEF w
  <1> QED
    BY <1>1, <1>2

LEMMA ColumnKeeps ==
    ASSUME NEW t, Sound(t), NEW c \in Nat, c <= t.cols
    PROVE  /\ Keeps(t, [t EXCEPT !.col = c])
           /\ ([t EXCEPT !.col = c]).screen = t.screen
           /\ ([t EXCEPT !.col = c]).top = t.top /\ ([t EXCEPT !.col = c]).bottom = t.bottom
  <1>1. t.row \in Nat /\ t.row < t.rows /\ DOMAIN t = Fields
    BY DEF Sound
  <1>2. Keeps(t, [t EXCEPT !.col = c])
    BY <1>1, CursorMoves
  <1> QED
    BY <1>1, <1>2 DEF Fields

LEMMA PrintCharKeeps ==
    ASSUME NEW t, Sound(t), NEW ch \in Chars \cup WideChars
    PROVE  Keeps(t, PrintChar(t, ch))
  <1> DEFINE u == IF t.wrapPending THEN [LineFeed(t) EXCEPT !.col = 0] ELSE t
             v == IF Has(u, "insert") THEN InsertBlanks(u, u.col, Width(ch)) ELSE u
  <1>1. Keeps(t, u)
    <2>1. Keeps(t, LineFeed(t)) /\ Sound(LineFeed(t))
      BY LineFeedMoves DEF Keeps
    <2>2. 0 \in Nat /\ 0 <= LineFeed(t).cols
      BY <2>1 DEF Sound
    <2>3. Keeps(LineFeed(t), [LineFeed(t) EXCEPT !.col = 0])
      BY <2>1, <2>2, ColumnKeeps
    <2>4. Keeps(t, [LineFeed(t) EXCEPT !.col = 0])
      BY <2>1, <2>3, KeepsComposes
    <2> QED
      BY <2>4, KeepsItself
  <1>2. Sound(u)
    BY <1>1 DEF Keeps
  <1> HIDE DEF u
  <1>3. Keeps(u, v)
    <2>1. u.col \in Nat /\ Width(ch) \in Nat
      BY <1>2 DEF Sound, Width
    <2> QED
      BY <1>2, <2>1, InsertBlanksKeeps, KeepsItself
  <1>4. Sound(v)
    BY <1>3 DEF Keeps
  <1>5. PrintChar(t, ch) = PutChar(v, ch)
    BY DEF PrintChar, u
  <1> HIDE DEF v
  <1>6. Keeps(v, PutChar(v, ch))
    BY <1>4, PutCharKeeps
  <1>7. Keeps(t, v)
    BY <1>1, <1>3, KeepsComposes
  <1> QED
    BY <1>5, <1>6, <1>7, KeepsComposes

LEMMA DirtyKeeps ==
    ASSUME NEW t, NEW u, Keeps(t, u)
    PROVE  Keeps(t, Dirty(u)) /\ (Confined(t, u) => Confined(t, Dirty(u)))
  <1>1. Sound(u)
    BY DEF Keeps
  <1>2. Keeps(u, Dirty(u)) /\ Shows(u, Dirty(u))
    BY <1>1, FlagsKeep, FlagsShow
  <1>3. Keeps(t, Dirty(u))
    BY <1>2, KeepsComposes
  <1>4. Confined(t, u) => Confined(t, Dirty(u))
    BY <1>2 DEF Shows, Confined, Outside
  <1> QED
    BY <1>3, <1>4

(* A change of the column and of flags. *)
LEMMA ColumnStops ==
    ASSUME NEW t, Sound(t), NEW c \in Nat, c <= t.cols
    PROVE  /\ Keeps(t, [t EXCEPT !.col = c, !.wrapPending = FALSE])
           /\ Confined(t, [t EXCEPT !.col = c, !.wrapPending = FALSE])
           /\ Confined(t, [t EXCEPT !.col = c])
  <1> DEFINE u == [t EXCEPT !.col = c]
             v == [u EXCEPT !.wrapPending = FALSE]
  <1>1. Keeps(t, u) /\ u.screen = t.screen
    BY ColumnKeeps
  <1>2. DOMAIN t = Fields
    BY DEF Sound
  <1>3. [t EXCEPT !.col = c, !.wrapPending = FALSE] = v
    BY <1>2 DEF Fields
  <1> HIDE DEF u
  <1>4. Keeps(u, v) /\ v.screen = u.screen
    BY <1>1, FlagsKeep, FlagsShow DEF Keeps, Shows
  <1> HIDE DEF v
  <1>5. Keeps(t, v)
    BY <1>1, <1>4, KeepsComposes
  <1>6. Confined(t, v) /\ Confined(t, u)
    BY <1>1, <1>4 DEF Confined, Outside
  <1> QED
    BY <1>3, <1>5, <1>6 DEF u

LEMMA ExecuteCodeKeeps ==
    ASSUME NEW t, Sound(t), NEW code
    PROVE  Keeps(t, ExecuteCode(t, code)) /\ Confined(t, ExecuteCode(t, code))
  <1> DEFINE u == IF code = 7 THEN [t EXCEPT !.bells = @ + 1]
                  ELSE IF code = 8 THEN [t EXCEPT !.col = Minus(@, 1), !.wrapPending = FALSE]
                  ELSE IF code = 9 THEN Tab(t)
                  ELSE IF code \in 10..12 THEN LineFeed(t)
                  ELSE IF code = 13 THEN ReturnCarriage(t)
                  ELSE t
  <1>1. t.col \in Nat /\ t.cols \in Nat \ {0} /\ t.col <= t.cols
    BY DEF Sound
  <1>2. /\ Keeps(t, [t EXCEPT !.bells = t.bells + 1])
        /\ Confined(t, [t EXCEPT !.bells = t.bells + 1])
    BY FlagsKeep, FlagsShow DEF Shows, Confined, Outside
  <1>3. /\ Keeps(t, [t EXCEPT !.col = Minus(t.col, 1), !.wrapPending = FALSE])
        /\ Confined(t, [t EXCEPT !.col = Minus(t.col, 1), !.wrapPending = FALSE])
    <2>1. Minus(t.col, 1) \in Nat /\ Minus(t.col, 1) <= t.cols
      BY <1>1 DEF Minus, AtLeast
    <2> QED
      BY <2>1, ColumnStops
  <1>4. Keeps(t, Tab(t)) /\ Confined(t, Tab(t))
    <2> DEFINE stop == (t.col \div 8 + 1) * 8
    <2>1. stop \in Nat
      BY <1>1
    <2> HIDE DEF stop
    <2>2. AtMost(stop, t.cols - 1) \in Nat /\ AtMost(stop, t.cols - 1) <= t.cols
      BY <1>1, <2>1 DEF AtMost
    <2> QED
      BY <2>2, ColumnKeeps, ColumnStops DEF Tab, stop
  <1>5. Keeps(t, ReturnCarriage(t)) /\ Confined(t, ReturnCarriage(t))
    <2>1. 0 \in Nat /\ 0 <= t.cols
      BY <1>1
    <2> QED
      BY <2>1, ColumnStops DEF ReturnCarriage
  <1>6. Keeps(t, t) /\ Confined(t, t)
    BY KeepsItself DEF Confined, Outside
  <1>7. Keeps(t, u) /\ Confined(t, u)
    BY <1>2, <1>3, <1>4, <1>5, <1>6, LineFeedMoves
  <1>8. ExecuteCode(t, code) = Dirty(u)
    BY DEF ExecuteCode
  <1> HIDE DEF u
  <1> QED
    BY <1>7, <1>8, DirtyKeeps

-------------------------------------------------------------------------------
(* Cursor movement and the scroll region. *)
LEMMA StopKeeps ==
    ASSUME NEW t, NEW u, Keeps(t, u)
    PROVE  Keeps(t, Stop(u))
  <1>1. Keeps(u, Stop(u))
    BY FlagsKeep DEF Keeps
  <1> QED
    BY <1>1, KeepsComposes

LEMMA RowKeeps ==
    ASSUME NEW t, Sound(t), NEW r \in Nat, r < t.rows
    PROVE  Keeps(t, [t EXCEPT !.row = r])
  <1>1. t.col \in Nat /\ t.col <= t.cols
    BY DEF Sound
  <1> QED
    BY <1>1, CursorMoves

LEMMA MovesKeep ==
    ASSUME NEW t, Sound(t), NEW n \in Nat
    PROVE  /\ Keeps(t, MoveUp(t, n)) /\ Keeps(t, MoveDown(t, n))
           /\ Keeps(t, MoveLeft(t, n)) /\ Keeps(t, MoveRight(t, n))
           /\ Keeps(t, ToColumn(t, n)) /\ Keeps(t, ToRow(t, n))
  <1>1. /\ t.row \in Nat /\ t.rows \in Nat \ {0} /\ t.row < t.rows
        /\ t.col \in Nat /\ t.cols \in Nat \ {0} /\ t.col <= t.cols
        /\ t.top \in Nat /\ t.top < t.rows
    BY DEF Sound
  <1>2. Keeps(t, MoveUp(t, n))
    <2>1. AtLeast(Minus(t.row, n), t.top) \in Nat /\ AtLeast(Minus(t.row, n), t.top) < t.rows
      BY <1>1 DEF AtLeast, Minus
    <2> QED
      BY <2>1, RowKeeps, StopKeeps DEF MoveUp
  <1>3. Keeps(t, MoveDown(t, n))
    <2>1. AtMost(t.row + n, t.rows - 1) \in Nat /\ AtMost(t.row + n, t.rows - 1) < t.rows
      BY <1>1 DEF AtMost
    <2> QED
      BY <2>1, RowKeeps, StopKeeps DEF MoveDown
  <1>4. Keeps(t, MoveLeft(t, n))
    <2>1. Minus(t.col, n) \in Nat /\ Minus(t.col, n) <= t.cols
      BY <1>1 DEF AtLeast, Minus
    <2> QED
      BY <2>1, ColumnKeeps, StopKeeps DEF MoveLeft
  <1>5. Keeps(t, MoveRight(t, n))
    <2>1. AtMost(t.col + n, t.cols - 1) \in Nat /\ AtMost(t.col + n, t.cols - 1) <= t.cols
      BY <1>1 DEF AtMost
    <2> QED
      BY <2>1, ColumnKeeps, StopKeeps DEF MoveRight
  <1>6. Keeps(t, ToColumn(t, n))
    <2>1. /\ AtMost(Minus(n, 1), t.cols - 1) \in Nat
          /\ AtMost(Minus(n, 1), t.cols - 1) <= t.cols
      BY <1>1 DEF AtMost, Minus, AtLeast
    <2> QED
      BY <2>1, ColumnKeeps DEF ToColumn
  <1>7. Keeps(t, ToRow(t, n))
    <2> DEFINE base == IF Has(t, "origin") THEN t.top ELSE 0
    <2>1. base \in Nat
      BY <1>1
    <2> HIDE DEF base
    <2>2. /\ AtMost(Minus(n, 1) + base, t.rows - 1) \in Nat
          /\ AtMost(Minus(n, 1) + base, t.rows - 1) < t.rows
      BY <1>1, <2>1 DEF AtMost, Minus, AtLeast
    <2> QED
      BY <2>2, RowKeeps DEF ToRow, base
  <1> QED
    BY <1>2, <1>3, <1>4, <1>5, <1>6, <1>7

LEMMA MoveToKeeps ==
    ASSUME NEW t, Sound(t), NEW r \in Nat, NEW c \in Nat
    PROVE  Keeps(t, MoveTo(t, r, c))
  <1>1. Keeps(t, ToRow(t, r)) /\ Sound(ToRow(t, r))
    BY MovesKeep DEF Keeps
  <1>2. Keeps(ToRow(t, r), ToColumn(ToRow(t, r), c))
    BY <1>1, MovesKeep
  <1>3. Keeps(t, ToColumn(ToRow(t, r), c))
    BY <1>1, <1>2, KeepsComposes
  <1> QED
    BY <1>3, StopKeeps DEF MoveTo

LEMMA SetRegionKeeps ==
    ASSUME NEW t, Sound(t), NEW from \in Nat \ {0}, NEW to \in Nat
    PROVE  Keeps(t, SetRegion(t, from, to))
  <1>1. CASE from - 1 < to /\ to <= t.rows
    <2> DEFINE row == IF Has(t, "origin") THEN from - 1 ELSE 0
    <2>1. /\ from - 1 \in Nat /\ row \in Nat /\ t.rows \in Nat /\ row < t.rows
          /\ DOMAIN t = Fields
      BY <1>1 DEF Sound
    <2>2. SetRegion(t, from, to)
            = [t EXCEPT !.top = from - 1, !.bottom = to, !.col = 0, !.row = row]
      BY <1>1 DEF SetRegion
    <2> HIDE DEF row
    <2>3. Keeps(t, [t EXCEPT !.top = from - 1, !.bottom = to, !.col = 0, !.row = row])
      BY <1>1, <2>1 DEF Keeps, Same, Sound, Fields, Alternate, Has
    <2> QED
      BY <2>2, <2>3
  <1>2. CASE ~(from - 1 < to /\ to <= t.rows)
    BY <1>2, KeepsItself DEF SetRegion
  <1> QED
    BY <1>1, <1>2

-------------------------------------------------------------------------------
(* Saving, restoring, changing screens and resizing. *)

(* What is saved is a cursor and a screen, of this size or of another. *)
SavedTypes(t) ==
    /\ Alternate(t) => t.savedScreen \in Seq(Row)
    /\ t.savedCursor # None => t.savedCursor.row \in Nat /\ t.savedCursor.col \in Nat

SavedFits(t) ==
    /\ Alternate(t) => ScreenFits(t, t.savedScreen)
    /\ t.savedCursor # None => CursorFits(t, t.savedCursor)

LEMMA KeepsSaved ==
    ASSUME NEW t, NEW u, Keeps(t, u), SavedTypes(t)
    PROVE  SavedTypes(u) /\ (SavedFits(t) => SavedFits(u))
  BY DEF Keeps, Same, SavedTypes, SavedFits, ScreenFits, CursorFits

LEMMA SaveCursorSaves ==
    ASSUME NEW t, Sound(t), SavedTypes(t)
    PROVE  /\ Sound(SaveCursor(t)) /\ SavedTypes(SaveCursor(t))
           /\ SavedFits(t) => SavedFits(SaveCursor(t))
           /\ SaveCursor(t).savedScreen = t.savedScreen /\ SaveCursor(t).screen = t.screen
           /\ SaveCursor(t).cols = t.cols /\ SaveCursor(t).rows = t.rows
           /\ Alternate(SaveCursor(t)) <=> Alternate(t)
           /\ CursorFits(t, SaveCursor(t).savedCursor)
  <1> DEFINE u == SaveCursor(t)
  <1>1. DOMAIN t = Fields
    BY DEF Sound
  <1>2. /\ DOMAIN u = Fields /\ u.savedCursor = [row |-> t.row, col |-> t.col]
        /\ u.cols = t.cols /\ u.rows = t.rows /\ u.screen = t.screen
        /\ u.savedScreen = t.savedScreen /\ u.modes = t.modes
        /\ u.row = t.row /\ u.col = t.col /\ u.top = t.top /\ u.bottom = t.bottom
        /\ u.fits = t.fits
    BY <1>1 DEF SaveCursor, Fields
  <1> HIDE DEF u
  <1>3. Sound(u)
    BY <1>2 DEF Sound
  <1>4. Alternate(u) <=> Alternate(t)
    BY <1>2 DEF Alternate, Has
  <1>5. u.savedCursor.row = t.row /\ u.savedCursor.col = t.col
    BY <1>2
  <1>6. SavedTypes(u)
    BY <1>2, <1>4, <1>5 DEF SavedTypes, Sound
  <1>7. CursorFits(t, u.savedCursor)
    BY <1>5 DEF CursorFits, Sound
  <1>8. CursorFits(u, u.savedCursor)
    BY <1>2, <1>7 DEF CursorFits
  <1>9. SavedFits(t) => SavedFits(u)
    BY <1>2, <1>4, <1>8 DEF SavedFits, ScreenFits
  <1> QED
    BY <1>2, <1>3, <1>4, <1>6, <1>7, <1>9 DEF u

(* A restored cursor is on the screen, or it is one of another size. *)
LEMMA RestoreCursorRestores ==
    ASSUME NEW t, Sound(t), SavedTypes(t)
    PROVE  LET u == RestoreCursor(t)
           IN /\ u.fits => Keeps(t, u)
              /\ ~u.fits => ~SavedFits(t)
              /\ u.screen = t.screen
  <1> DEFINE u == RestoreCursor(t)
  <1>1. DOMAIN t = Fields /\ t.fits
    BY DEF Sound
  <1>2. CASE t.savedCursor = None
    <2>1. u = t
      BY <1>2 DEF RestoreCursor
    <2> HIDE DEF u
    <2> QED
      BY <1>1, <2>1, KeepsItself DEF u
  <1>3. CASE t.savedCursor # None
    <2> DEFINE r == t.savedCursor.row
               c == t.savedCursor.col
               v == [t EXCEPT !.row = r, !.col = c]
    <2>1. u = [t EXCEPT !.row = r, !.col = c, !.fits = @ /\ CursorFits(t, t.savedCursor)]
      BY <1>3 DEF RestoreCursor
    <2>2. r \in Nat /\ c \in Nat
      BY <1>3 DEF SavedTypes
    <2>3. u.fits <=> CursorFits(t, t.savedCursor)
      BY <1>1, <2>1 DEF Fields
    <2>4. /\ DOMAIN u = Fields /\ u.row = r /\ u.col = c /\ u.screen = t.screen
          /\ u.cols = t.cols /\ u.rows = t.rows /\ u.top = t.top /\ u.bottom = t.bottom
          /\ u.savedScreen = t.savedScreen /\ u.savedCursor = t.savedCursor /\ u.modes = t.modes
      BY <1>1, <2>1 DEF Fields
    <2> HIDE DEF u
    <2>5. ASSUME u.fits PROVE Keeps(t, u)
      <3>1. r < t.rows /\ c <= t.cols
        BY <2>3, <2>5 DEF CursorFits
      <3>2. Sound(u)
        BY <2>2, <2>4, <2>5, <3>1 DEF Sound
      <3>3. Same(t, u)
        BY <2>4 DEF Same, Alternate, Has
      <3> QED
        BY <3>2, <3>3 DEF Keeps
    <2>6. ASSUME ~u.fits PROVE ~SavedFits(t)
      BY <1>3, <2>3, <2>6 DEF SavedFits
    <2> QED
      BY <2>4, <2>5, <2>6 DEF u
  <1> QED
    BY <1>2, <1>3

(* The alternate screen is entered blank, with the primary screen and the
   cursor saved. *)
LEMMA EnterAlternate ==
    ASSUME NEW t, Sound(t), SavedTypes(t), ~Alternate(t)
    PROVE  LET u == SwitchScreen(t, TRUE)
           IN /\ Sound(u) /\ SavedTypes(u) /\ SavedFits(u)
              /\ Alternate(u) /\ u.savedScreen = t.screen
  <1> DEFINE blank == BlankScreen(t.cols, t.rows)
             saved == SaveCursor(t)
             v == [saved EXCEPT !.savedScreen = t.screen, !.screen = blank]
             u == Dirty(SetMode(Home(v), "alternate_screen", TRUE))
  <1>1. SwitchScreen(t, TRUE) = u
    BY DEF SwitchScreen, Alternate
  <1>2. /\ Sound(saved) /\ SavedTypes(saved) /\ CursorFits(t, saved.savedCursor)
        /\ saved.cols = t.cols /\ saved.rows = t.rows /\ DOMAIN saved = Fields
    BY SaveCursorSaves DEF Sound
  <1>3. Wide(blank, t.rows, t.cols) /\ Wide(t.screen, t.rows, t.cols)
    BY BlankScreenIsWide DEF Sound
  <1> HIDE DEF saved, blank
  <1>4. /\ DOMAIN u = Fields /\ u.fits = saved.fits /\ u.cols = t.cols /\ u.rows = t.rows
        /\ u.screen = blank /\ u.row = 0 /\ u.col = 0
        /\ u.top = saved.top /\ u.bottom = saved.bottom
        /\ u.savedScreen = t.screen /\ u.savedCursor = saved.savedCursor
        /\ u.modes = saved.modes \cup {"alternate_screen"}
    BY <1>2 DEF Dirty, SetMode, Home, Fields
  <1> HIDE DEF u
  <1>5. Sound(u)
    BY <1>2, <1>3, <1>4 DEF Sound
  <1>6. Alternate(u)
    BY <1>4 DEF Alternate, Has
  <1>7. SavedTypes(u)
    BY <1>2, <1>3, <1>4 DEF SavedTypes, Wide
  <1>8. SavedFits(u)
    <2>1. t.rows \in Nat /\ DOMAIN t.screen = 1..t.rows
      BY <1>3, WideRows DEF Sound
    <2>2. ScreenFits(u, u.savedScreen)
      BY <1>3, <1>4, <2>1 DEF ScreenFits, Wide
    <2>3. CursorFits(u, u.savedCursor)
      BY <1>2, <1>4 DEF CursorFits
    <2> QED
      BY <2>2, <2>3 DEF SavedFits
  <1> QED
    BY <1>1, <1>4, <1>5, <1>6, <1>7, <1>8

(* The primary screen comes back with the cursor, or one of them is of
   another size. *)
LEMMA LeaveAlternate ==
    ASSUME NEW t, Sound(t), SavedTypes(t), Alternate(t)
    PROVE  LET u == SwitchScreen(t, FALSE)
           IN /\ u.fits => Sound(u) /\ SavedTypes(u) /\ (SavedFits(t) => SavedFits(u))
              /\ ~u.fits => ~SavedFits(t)
              /\ ~Alternate(u) /\ u.screen = t.savedScreen /\ DOMAIN u = Fields
  <1> DEFINE back == t.savedScreen
             v == [t EXCEPT !.screen = back, !.savedScreen = None, !.fits = @ /\ ScreenFits(t, back)]
             r == RestoreCursor(v)
             u == Dirty(SetMode(r, "alternate_screen", FALSE))
  <1>1. SwitchScreen(t, FALSE) = u
    BY DEF SwitchScreen, Alternate
  <1>2. DOMAIN t = Fields /\ t.fits /\ back \in Seq(Row)
    BY DEF Sound, SavedTypes
  <1>3. /\ DOMAIN v = Fields /\ v.screen = back /\ (v.fits <=> ScreenFits(t, back))
        /\ v.cols = t.cols /\ v.rows = t.rows /\ v.row = t.row /\ v.col = t.col
        /\ v.top = t.top /\ v.bottom = t.bottom /\ v.modes = t.modes
        /\ v.savedCursor = t.savedCursor
    BY <1>2 DEF Fields
  <1> HIDE DEF v, back
  <1>4. /\ DOMAIN r = Fields /\ r.screen = v.screen /\ r.cols = v.cols /\ r.rows = v.rows
        /\ r.modes = v.modes /\ r.savedCursor = v.savedCursor
        /\ r.top = v.top /\ r.bottom = v.bottom /\ (r.fits => v.fits)
        /\ v.savedCursor = None => r.row = v.row /\ r.col = v.col /\ (r.fits <=> v.fits)
        /\ v.savedCursor # None =>
              /\ r.row = v.savedCursor.row /\ r.col = v.savedCursor.col
              /\ r.fits <=> v.fits /\ CursorFits(v, v.savedCursor)
    BY <1>3 DEF RestoreCursor, Fields
  <1> HIDE DEF r
  <1>5. /\ DOMAIN u = Fields /\ u.screen = r.screen /\ u.cols = r.cols /\ u.rows = r.rows
        /\ u.row = r.row /\ u.col = r.col /\ u.top = r.top /\ u.bottom = r.bottom
        /\ (u.fits <=> r.fits) /\ u.savedCursor = r.savedCursor
        /\ u.modes = r.modes \ {"alternate_screen"}
    BY <1>4 DEF Dirty, SetMode, Fields
  <1> HIDE DEF u
  <1>6. ~Alternate(u)
    BY <1>5 DEF Alternate, Has
  <1>7. ScreenFits(t, back) => Wide(back, t.rows, t.cols)
    <2>1. DOMAIN back = 1..Len(back)
      BY <1>2
    <2> QED
      BY <1>2, <2>1 DEF ScreenFits, Wide
  <1>8. ASSUME u.fits PROVE Sound(u)
    <2>1. Wide(u.screen, t.rows, t.cols)
      BY <1>3, <1>4, <1>5, <1>7, <1>8
    <2>2. CASE t.savedCursor = None
      BY <1>3, <1>4, <1>5, <1>8, <2>1, <2>2 DEF Sound
    <2>3. CASE t.savedCursor # None
      <3>1. u.row = t.savedCursor.row /\ u.col = t.savedCursor.col /\ CursorFits(v, t.savedCursor)
        BY <1>3, <1>4, <1>5, <1>8, <2>3
      <3>2. u.row \in Nat /\ u.col \in Nat /\ u.row < t.rows /\ u.col <= t.cols
        BY <1>3, <2>3, <3>1 DEF SavedTypes, CursorFits
      <3> QED
        BY <1>3, <1>4, <1>5, <1>8, <2>1, <3>2 DEF Sound
    <2> QED
      BY <2>2, <2>3
  <1>9. SavedTypes(u) /\ (SavedFits(t) => SavedFits(u))
    BY <1>3, <1>4, <1>5, <1>6 DEF SavedTypes, SavedFits, CursorFits
  <1>10. ASSUME ~u.fits PROVE ~SavedFits(t)
    BY <1>3, <1>4, <1>5, <1>10 DEF SavedFits, CursorFits, back
  <1>11. u.screen = t.savedScreen
    BY <1>3, <1>4, <1>5 DEF back
  <1> QED
    BY <1>1, <1>5, <1>6, <1>8, <1>9, <1>10, <1>11

(* A resize cuts and fills rows and gives the region back its full height; what
   is saved keeps its size. *)
LEMMA ResizeToSounds ==
    ASSUME NEW t, Sound(t), NEW cols \in Nat \ {0}, NEW rows \in Nat \ {0}
    PROVE  LET u == ResizeTo(t, cols, rows)
           IN /\ Sound(u) /\ u.savedScreen = t.savedScreen /\ u.savedCursor = t.savedCursor
              /\ Alternate(u) <=> Alternate(t)
  <1> DEFINE wide == [i \in DOMAIN t.screen |->
                        [j \in 1..cols |-> IF j <= Len(t.screen[i]) THEN t.screen[i][j] ELSE Blank]]
             removed == Minus(t.rows, rows)
             rest == SubSeq(wide, removed + 1, Len(wide))
             added == BlankScreen(cols, Minus(rows, t.rows))
             u == ResizeTo(t, cols, rows)
  <1>1. /\ t.rows \in Nat \ {0} /\ t.cols \in Nat /\ DOMAIN t = Fields
        /\ Wide(t.screen, t.rows, t.cols)
    BY DEF Sound
  <1>2. DOMAIN t.screen = 1..t.rows /\ \A i \in 1..t.rows : t.screen[i] \in Row
    BY <1>1, WideRows
  <1>3. \A i \in 1..t.rows : wide[i] \in Row /\ Len(wide[i]) = cols
    <2> TAKE i \in 1..t.rows
    <2> DEFINE cells == [j \in 1..cols |-> IF j <= Len(t.screen[i]) THEN t.screen[i][j] ELSE Blank]
    <2>1. t.screen[i] \in Seq(Glyphs)
      BY <1>2 DEF Row
    <2>2. \A j \in 1..Len(t.screen[i]) : t.screen[i][j] \in Glyphs
      BY <2>1
    <2>3. \A j \in 1..cols : cells[j] \in Glyphs
      BY <2>1, <2>2 DEF Glyphs
    <2>4. DOMAIN cells = 1..cols /\ cells = [j \in 1..cols |-> cells[j]]
      OBVIOUS
    <2>5. wide[i] = cells
      BY <1>2
    <2> HIDE DEF cells, wide
    <2> QED
      BY <2>3, <2>4, <2>5, CellsAreRow
  <1>4. DOMAIN wide = 1..t.rows /\ wide = [i \in 1..t.rows |-> wide[i]]
    BY <1>2
  <1>5. u = [t EXCEPT !.cols = cols, !.rows = rows, !.screen = rest \o added,
                      !.scrollback = PushHistory(@, SubSeq(wide, 1, removed)),
                      !.top = 0, !.bottom = rows, !.dirty = TRUE,
                      !.row = AtMost(@, rows - 1), !.col = AtMost(@, cols - 1)]
    BY DEF ResizeTo
  <1> HIDE DEF wide
  <1>6. Wide(wide, t.rows, cols)
    <2>1. t.rows \in Nat /\ cols \in Nat
      BY <1>1
    <2>2. \A i \in 1..t.rows : wide[i] \in Row /\ Len(wide[i]) >= cols
      BY <1>3
    <2> QED
      BY <1>4, <2>1, <2>2, RowsAreWide
  <1>7. Len(wide) = t.rows /\ \A i \in 1..t.rows : wide[i] \in Row
    BY <1>3, <1>6 DEF Wide
  <1>8. /\ removed \in Nat /\ removed < t.rows
        /\ Minus(rows, t.rows) \in Nat
        /\ t.rows - removed + Minus(rows, t.rows) = rows
    BY <1>1 DEF Minus, AtLeast
  <1>9. Wide(added, Minus(rows, t.rows), cols)
    BY <1>8, BlankScreenIsWide
  <1> DEFINE gone == removed + 1
             all == t.rows
  <1>10. gone \in Int /\ all \in Int /\ gone <= all /\ all - gone + 1 = all - removed
         /\ \A i \in gone..all : wide[i] \in Row
    BY <1>1, <1>7, <1>8
  <1>11. /\ SubSeq(wide, gone, all) \in Seq(Row)
         /\ Len(SubSeq(wide, gone, all)) = t.rows - removed
         /\ \A i \in 1..t.rows - removed : SubSeq(wide, gone, all)[i] = wide[gone + i - 1]
    <2> HIDE DEF gone, all
    <2>1. /\ SubSeq(wide, gone, all) \in Seq(Row)
          /\ Len(SubSeq(wide, gone, all)) = all - gone + 1
          /\ \A i \in 1..all - gone + 1 : SubSeq(wide, gone, all)[i] = wide[gone + i - 1]
      BY <1>10, SubSeqProperties
    <2> QED
      BY <1>10, <2>1 DEF all
  <1>12. rest = SubSeq(wide, gone, all)
    BY <1>7
  <1> HIDE DEF rest
  <1>13. \A i \in 1..t.rows - removed : rest[i] \in Row /\ Len(rest[i]) = cols
    <2> TAKE i \in 1..t.rows - removed
    <2>1. gone + i - 1 \in 1..t.rows
      BY <1>1, <1>8
    <2>2. rest[i] = wide[gone + i - 1]
      BY <1>11, <1>12
    <2> HIDE DEF gone
    <2> QED
      BY <1>3, <2>1, <2>2
  <1>14. rest \in Seq(Row) /\ Len(rest) = t.rows - removed
    BY <1>11, <1>12
  <1> HIDE DEF added, removed, gone, all
  <1>15. Wide(rest \o added, rows, cols)
    <2>1. added \in Seq(Row) /\ Len(added) = Minus(rows, t.rows)
          /\ \A i \in 1..Len(added) : Len(added[i]) >= cols
      BY <1>9 DEF Wide
    <2>2. /\ rest \o added \in Seq(Row)
          /\ Len(rest \o added) = Len(rest) + Len(added)
          /\ \A i \in 1..Len(rest) + Len(added) :
                (rest \o added)[i] = IF i <= Len(rest) THEN rest[i] ELSE added[i - Len(rest)]
      <3>1. rest \in Seq(Row) /\ added \in Seq(Row)
        BY <1>14, <2>1
      <3> QED
        BY <3>1, ConcatProperties
    <2>3. Len(rest) \in Nat /\ Len(added) \in Nat /\ Len(rest) + Len(added) = rows
      BY <1>1, <1>8, <1>14, <2>1
    <2>4. \A i \in 1..rows : Len((rest \o added)[i]) >= cols
      <3> TAKE i \in 1..rows
      <3>1. CASE i <= Len(rest)
        <4>1. i \in 1..t.rows - removed
          BY <1>14, <3>1
        <4>2. (rest \o added)[i] = rest[i]
          BY <2>2, <2>3, <3>1
        <4> QED
          BY <1>13, <4>1, <4>2
      <3>2. CASE ~(i <= Len(rest))
        <4>1. i - Len(rest) \in 1..Len(added)
          BY <2>3, <3>2
        <4>2. (rest \o added)[i] = added[i - Len(rest)]
          BY <2>2, <2>3, <3>2
        <4> QED
          BY <2>1, <4>1, <4>2
      <3> QED
        BY <3>1, <3>2
    <2> QED
      BY <2>2, <2>3, <2>4 DEF Wide
  <1>16. /\ AtMost(t.row, rows - 1) \in Nat /\ AtMost(t.row, rows - 1) < rows
         /\ AtMost(t.col, cols - 1) \in Nat /\ AtMost(t.col, cols - 1) <= cols
    BY DEF Sound, AtMost
  <1> DEFINE screen == rest \o added
  <1> HIDE DEF screen
  <1>17. /\ DOMAIN u = Fields /\ u.cols = cols /\ u.rows = rows /\ u.screen = screen
         /\ u.top = 0 /\ u.bottom = rows /\ u.fits = t.fits
         /\ u.row = AtMost(t.row, rows - 1) /\ u.col = AtMost(t.col, cols - 1)
         /\ u.savedScreen = t.savedScreen /\ u.savedCursor = t.savedCursor /\ u.modes = t.modes
    BY <1>1, <1>5 DEF Fields, screen
  <1> HIDE DEF u
  <1>18. Wide(screen, rows, cols)
    BY <1>15 DEF screen
  <1>19. Sound(u)
    BY <1>16, <1>17, <1>18 DEF Sound
  <1> QED
    BY <1>17, <1>19 DEF Alternate, Has, u

(* A new terminal. *)
LEMMA ClampedSize ==
    ASSUME NEW n \in Nat, NEW max \in Nat \ {0}
    PROVE  Clamp(n, max) \in Nat \ {0}
  BY DEF Clamp, AtLeast, AtMost

LEMMA NewSounds ==
    ASSUME NEW c \in Nat, NEW r \in Nat
    PROVE  /\ Sound(New(c, r)) /\ SavedTypes(New(c, r)) /\ SavedFits(New(c, r))
           /\ ~Alternate(New(c, r))
  <1> DEFINE cols == Clamp(c, MaxCols)
             rows == Clamp(r, MaxRows)
             screen == BlankScreen(cols, rows)
             u == New(c, r)
  <1>1. cols \in Nat \ {0} /\ rows \in Nat \ {0}
    BY ClampedSize, TerminalAssumption
  <1> HIDE DEF cols, rows
  <1>2. Wide(screen, rows, cols)
    BY <1>1, BlankScreenIsWide
  <1> HIDE DEF screen
  <1>3. /\ DOMAIN u = Fields /\ u.cols = cols /\ u.rows = rows /\ u.screen = screen
        /\ u.top = 0 /\ u.bottom = rows /\ u.fits = TRUE /\ u.row = 0 /\ u.col = 0
        /\ u.savedCursor = None /\ u.modes = {"cursor_visible", "auto_wrap"}
    BY DEF New, Fields, cols, rows, screen
  <1> HIDE DEF u
  <1>4. Sound(u)
    BY <1>1, <1>2, <1>3 DEF Sound
  <1>5. ~Alternate(u)
    BY <1>3 DEF Alternate, Has
  <1> QED
    BY <1>3, <1>4, <1>5 DEF SavedTypes, SavedFits, u

-------------------------------------------------------------------------------
(* The calls.  A call that neither resizes nor changes screens goes on with a
   sound terminal and the same saved screen, or restores a cursor of another
   size. *)
Goes(t, u) ==
    /\ DOMAIN u = Fields
    /\ u.fits => /\ Sound(u) /\ SavedTypes(u) /\ (SavedFits(t) => SavedFits(u))
                 /\ u.savedScreen = t.savedScreen /\ (Alternate(u) <=> Alternate(t))
    /\ ~u.fits => ~SavedFits(t)

LEMMA KeepsGoes ==
    ASSUME NEW t, SavedTypes(t), NEW u, Keeps(t, u)
    PROVE  Goes(t, u)
  <1>1. SavedTypes(u) /\ (SavedFits(t) => SavedFits(u))
    BY KeepsSaved
  <1>2. DOMAIN u = Fields /\ u.fits
    BY DEF Keeps, Sound
  <1> QED
    BY <1>1, <1>2 DEF Goes, Keeps, Same

LEMMA GoesDirty ==
    ASSUME NEW t, NEW u, Goes(t, u)
    PROVE  Goes(t, Dirty(u))
  <1>1. DOMAIN u = Fields
    BY DEF Goes
  <1>2. DOMAIN Dirty(u) = Fields /\ Dirty(u).fits = u.fits
    BY <1>1 DEF Dirty, Fields
  <1>3. ASSUME u.fits
        PROVE  /\ Sound(Dirty(u)) /\ SavedTypes(Dirty(u)) /\ (SavedFits(t) => SavedFits(Dirty(u)))
               /\ Dirty(u).savedScreen = t.savedScreen /\ (Alternate(Dirty(u)) <=> Alternate(t))
    <2>1. Sound(u) /\ SavedTypes(u)
      BY <1>3 DEF Goes
    <2>2. Keeps(u, Dirty(u))
      BY <2>1, FlagsKeep
    <2>3. SavedTypes(Dirty(u)) /\ (SavedFits(u) => SavedFits(Dirty(u)))
      BY <2>1, <2>2, KeepsSaved
    <2> QED
      BY <1>3, <2>2, <2>3 DEF Goes, Keeps, Same
  <1> QED
    BY <1>2, <1>3 DEF Goes

LEMMA SaveGoes ==
    ASSUME NEW t, Sound(t), SavedTypes(t)
    PROVE  Goes(t, SaveCursor(t))
  <1>1. SaveCursor(t).fits /\ DOMAIN SaveCursor(t) = Fields
    BY SaveCursorSaves DEF Sound
  <1> QED
    BY <1>1, SaveCursorSaves DEF Goes

LEMMA RestoreGoes ==
    ASSUME NEW t, Sound(t), SavedTypes(t)
    PROVE  Goes(t, RestoreCursor(t))
  <1> DEFINE u == RestoreCursor(t)
  <1>1. DOMAIN t = Fields
    BY DEF Sound
  <1>2. DOMAIN u = Fields
    BY <1>1 DEF RestoreCursor, Fields
  <1>3. (u.fits => Keeps(t, u)) /\ (~u.fits => ~SavedFits(t))
    BY RestoreCursorRestores
  <1> HIDE DEF u
  <1>4. u.fits => Goes(t, u)
    BY <1>3, KeepsGoes
  <1>5. ~u.fits => Goes(t, u)
    BY <1>2, <1>3 DEF Goes
  <1> QED
    BY <1>4, <1>5 DEF u

(* Parameters that are missing or zero are the default. *)
LEMMA ParamIsPositive ==
    ASSUME NEW a \in Inputs, a.kind = "csi", NEW i \in Nat \ {0}, NEW default \in Nat \ {0}
    PROVE  Param(a, i, default) \in Nat \ {0}
  <1>1. a.params \in Seq(Nat)
    BY InputsAssumption
  <1>2. CASE i > Len(a.params)
    BY <1>2 DEF Param
  <1>3. CASE ~(i > Len(a.params))
    <2>1. i \in 1..Len(a.params)
      BY <1>1, <1>3
    <2>2. a.params[i] \in Nat
      BY <1>1, <2>1
    <2> QED
      BY <1>3, <2>2 DEF Param
  <1> QED
    BY <1>2, <1>3

(* What holds before a call. *)
Ready == Sound(term) /\ SavedTypes(term)
Quiet == Goes(term, term') /\ UNCHANGED <<resized, primary>>

LEMMA UpdatesQuiet ==
    ASSUME Ready, NEW u, Goes(term, u), Updates(u) \/ Becomes(u)
    PROVE  Quiet
  <1>1. Goes(term, Dirty(u))
    BY GoesDirty
  <1> QED
    BY <1>1 DEF Updates, Becomes, Quiet

LEMMA KeepsQuiet ==
    ASSUME Ready, NEW u, Keeps(term, u), Updates(u) \/ Becomes(u)
    PROVE  Quiet
  <1>1. Goes(term, u)
    BY KeepsGoes DEF Ready
  <1> QED
    BY <1>1, UpdatesQuiet

LEMMA CursorQuiet ==
    ASSUME Ready, NEW a \in Inputs, a.kind = "csi", CursorSequence(a)
    PROVE  Quiet
  <1> DEFINE n == Count(a)
             m == Param(a, 2, 1)
  <1>1. n \in Nat /\ m \in Nat
    BY ParamIsPositive DEF Count
  <1> HIDE DEF n, m
  <1>2. Sound(term) /\ SavedTypes(term)
    BY DEF Ready
  <1>3. /\ Keeps(term, MoveUp(term, n)) /\ Keeps(term, MoveDown(term, n))
        /\ Keeps(term, MoveLeft(term, n)) /\ Keeps(term, MoveRight(term, n))
        /\ Keeps(term, ToColumn(term, n)) /\ Keeps(term, ToRow(term, n))
    BY <1>1, <1>2, MovesKeep
  <1>4. \A u : Keeps(term, u) => Keeps(term, [u EXCEPT !.col = 0])
    <2> TAKE u
    <2> HAVE Keeps(term, u)
    <2>1. Sound(u)
      BY DEF Keeps
    <2>2. 0 \in Nat /\ 0 <= u.cols
      BY <2>1 DEF Sound
    <2>3. Keeps(u, [u EXCEPT !.col = 0])
      BY <2>1, <2>2, ColumnKeeps
    <2> QED
      BY <2>3, KeepsComposes
  <1>5. Keeps(term, MoveTo(term, n, m))
    BY <1>1, <1>2, MoveToKeeps
  <1>6. \/ Updates(MoveUp(term, n)) \/ Updates(MoveDown(term, n))
        \/ Updates(MoveRight(term, n)) \/ Updates(MoveLeft(term, n))
        \/ Updates([MoveDown(term, n) EXCEPT !.col = 0])
        \/ Updates([MoveUp(term, n) EXCEPT !.col = 0])
        \/ Updates(ToColumn(term, n)) \/ Updates(MoveTo(term, n, m))
        \/ Updates(ToRow(term, n))
        \/ Updates(SaveCursor(term)) \/ Updates(RestoreCursor(term))
    BY DEF CursorSequence, n, m
  <1>7. (Updates(SaveCursor(term)) \/ Updates(RestoreCursor(term))) => Quiet
    BY <1>2, SaveGoes, RestoreGoes, UpdatesQuiet
  <1>8. \A u : Keeps(term, u) /\ Updates(u) => Quiet
    BY KeepsQuiet
  <1> QED
    BY <1>3, <1>4, <1>5, <1>6, <1>7, <1>8

LEMMA EditKeeps ==
    ASSUME Ready, NEW a \in Inputs, a.kind = "csi"
    PROVE  /\ Keeps(term, EraseDisplay(term, Mode(a))) /\ Keeps(term, EraseLine(term, Mode(a)))
           /\ Keeps(term, InsertLines(term, Count(a))) /\ Keeps(term, DeleteLines(term, Count(a)))
           /\ Keeps(term, DeleteChars(term, Count(a))) /\ Keeps(term, InsertChars(term, Count(a)))
           /\ Keeps(term, EraseChars(term, Count(a)))
           /\ Keeps(term, ScrollUp(term, Count(a))) /\ Keeps(term, ScrollDown(term, Count(a)))
           /\ Keeps(term, SetRegion(term, Count(a), Param(a, 2, term.rows)))
           /\ Confined(term, InsertLines(term, Count(a)))
           /\ Confined(term, DeleteLines(term, Count(a)))
           /\ Confined(term, ScrollUp(term, Count(a)))
           /\ Confined(term, ScrollDown(term, Count(a)))
  <1> DEFINE n == Count(a)
             m == Param(a, 2, term.rows)
             mode == Mode(a)
  <1>1. Sound(term) /\ term.rows \in Nat \ {0}
    BY DEF Ready, Sound
  <1>2. n \in Nat \ {0} /\ m \in Nat
    BY <1>1, ParamIsPositive DEF Count
  <1> HIDE DEF n, m, mode
  <1>3. n \in Nat
    BY <1>2
  <1>4. Keeps(term, EraseDisplay(term, mode)) /\ Keeps(term, EraseLine(term, mode))
    BY <1>1, EraseDisplayKeeps, EraseLineKeeps
  <1>5. /\ Keeps(term, InsertLines(term, n)) /\ Confined(term, InsertLines(term, n))
        /\ Keeps(term, DeleteLines(term, n)) /\ Confined(term, DeleteLines(term, n))
        /\ Keeps(term, ScrollUp(term, n)) /\ Confined(term, ScrollUp(term, n))
        /\ Keeps(term, ScrollDown(term, n)) /\ Confined(term, ScrollDown(term, n))
    BY <1>1, <1>3, LinesMove, ScrollMoves
  <1>6. Keeps(term, DeleteChars(term, n)) /\ Keeps(term, InsertChars(term, n))
    BY <1>1, <1>2, <1>3, DeleteCharsKeeps, InsertCharsKeeps
  <1>7. Keeps(term, EraseChars(term, n))
    BY <1>1, EraseCellsKeeps DEF EraseChars
  <1>8. Keeps(term, SetRegion(term, n, m))
    BY <1>1, <1>2, SetRegionKeeps
  <1> QED
    BY <1>4, <1>5, <1>6, <1>7, <1>8 DEF n, m, mode

LEMMA EditQuiet ==
    ASSUME Ready, NEW a \in Inputs, a.kind = "csi", EditSequence(a)
    PROVE  Quiet
  <1>1. PICK u : Keeps(term, u) /\ Updates(u)
    BY EditKeeps DEF EditSequence
  <1> QED
    BY <1>1, KeepsQuiet

LEMMA ModesQuiet ==
    ASSUME Ready, NEW a \in Inputs, ModeSequence(a) \/ OtherSequence(a)
    PROVE  Quiet
  <1>1. Sound(term)
    BY DEF Ready
  <1>2. Keeps(term, term) /\ Keeps(term, SetMode(term, "insert", a.final = "h"))
    BY <1>1, KeepsItself, ModesKeep
  <1>3. PICK u : Keeps(term, u) /\ Updates(u)
    BY <1>2 DEF ModeSequence, OtherSequence
  <1> QED
    BY <1>3, KeepsQuiet

(* A full reset. *)
Resets == term' = New(term.cols, term.rows) /\ resized' = FALSE /\ primary' = None

LEMMA OriginKeeps ==
    ASSUME NEW t, Sound(t), NEW on
    PROVE  Keeps(t, OriginMode(t, on))
  <1> DEFINE u == SetMode(t, "origin", on)
             r == IF on THEN t.top ELSE 0
  <1>1. Keeps(t, u)
    BY ModesKeep
  <1>2. u.top = t.top
    BY DEF SetMode, Sound, Fields
  <1>3. OriginMode(t, on) = [u EXCEPT !.row = r, !.col = 0]
    BY DEF OriginMode
  <1> HIDE DEF u
  <1>4. Sound(u)
    BY <1>1 DEF Keeps
  <1>5. r \in Nat /\ r < u.rows /\ 0 \in Nat /\ 0 <= u.cols
    BY <1>2, <1>4 DEF Sound
  <1> HIDE DEF r
  <1>6. Keeps(u, [u EXCEPT !.row = r, !.col = 0])
    BY <1>4, <1>5, CursorMoves
  <1> QED
    BY <1>1, <1>3, <1>6, KeepsComposes

LEMMA PrivateQuiet ==
    ASSUME Ready, NEW m, NEW on \in BOOLEAN, PrivateMode(m, on)
    PROVE  Quiet \/ Switches(on)
  <1>1. Sound(term) /\ SavedTypes(term)
    BY DEF Ready
  <1>2. CASE \E flag \in FlagModes : m = flag[1] /\ Updates(SetMode(term, flag[2], on))
    <2>1. PICK flag \in FlagModes : Updates(SetMode(term, flag[2], on))
      BY <1>2
    <2>2. flag[2] # "alternate_screen"
      BY DEF FlagModes
    <2>3. Keeps(term, SetMode(term, flag[2], on))
      BY <1>1, <2>2, ModesKeep
    <2> QED
      BY <2>1, <2>3, KeepsQuiet
  <1>3. CASE Updates(OriginMode(term, on))
    <2>1. Keeps(term, OriginMode(term, on))
      BY <1>1, OriginKeeps
    <2> QED
      BY <1>3, <2>1, KeepsQuiet
  <1>4. CASE Updates(IF on THEN SaveCursor(term) ELSE RestoreCursor(term))
    <2>1. Goes(term, SaveCursor(term)) /\ Goes(term, RestoreCursor(term))
      BY <1>1, SaveGoes, RestoreGoes
    <2>2. PICK u : Goes(term, u) /\ Updates(u)
      BY <1>4, <2>1
    <2> QED
      BY <2>2, UpdatesQuiet
  <1>5. CASE Updates(term)
    BY <1>1, <1>5, KeepsItself, KeepsQuiet
  <1> QED
    BY <1>2, <1>3, <1>4, <1>5 DEF PrivateMode

LEMMA EscapeQuiet ==
    ASSUME Ready, NEW a \in Inputs, EscapeSequence(a)
    PROVE  Quiet \/ Resets
  <1> DEFINE keypad == SetMode(term, "application_keypad", a.final = "=")
             start == [term EXCEPT !.col = 0]
  <1>1. Sound(term) /\ SavedTypes(term)
    BY DEF Ready
  <1>2. /\ Keeps(term, LineFeed(term)) /\ Keeps(term, ReverseIndex(term))
        /\ Keeps(term, keypad) /\ Keeps(term, term)
    BY <1>1, LineFeedMoves, ReverseIndexMoves, ModesKeep, KeepsItself
  <1>3. Keeps(term, LineFeed(start))
    <2>1. 0 \in Nat /\ 0 <= term.cols
      BY <1>1 DEF Sound
    <2>2. Keeps(term, start)
      BY <1>1, <2>1, ColumnKeeps
    <2> HIDE DEF start
    <2>3. Sound(start)
      BY <2>2 DEF Keeps
    <2> QED
      BY <2>2, <2>3, LineFeedMoves, KeepsComposes
  <1>4. (Updates(SaveCursor(term)) \/ Updates(RestoreCursor(term))) => Quiet
    BY <1>1, SaveGoes, RestoreGoes, UpdatesQuiet
  <1>5. \A u : Keeps(term, u) /\ Updates(u) => Quiet
    BY KeepsQuiet
  <1>6. \/ Updates(SaveCursor(term)) \/ Updates(RestoreCursor(term))
        \/ Updates(LineFeed(term)) \/ Updates(ReverseIndex(term)) \/ Updates(LineFeed(start))
        \/ Updates(keypad) \/ Updates(term) \/ Resets
    BY DEF EscapeSequence, Resets
  <1> HIDE DEF keypad, start
  <1> QED
    BY <1>2, <1>3, <1>4, <1>5, <1>6

LEMMA ApplyQuiet ==
    ASSUME Ready, NEW a \in Inputs, Apply(a)
    PROVE  Quiet \/ Switches(TRUE) \/ Switches(FALSE) \/ Resets
  <1>1. Sound(term) /\ SavedTypes(term)
    BY DEF Ready
  <1>2. CASE a.kind = "print" /\ Becomes(PrintChar(term, a.char))
    <2>1. a.char \in Chars \cup WideChars
      BY <1>2, InputsAssumption
    <2>2. Keeps(term, PrintChar(term, a.char))
      BY <1>1, <2>1, PrintCharKeeps
    <2> QED
      BY <1>2, <2>2, KeepsQuiet
  <1>3. CASE a.kind = "execute" /\ Becomes(ExecuteCode(term, a.code))
    <2>1. Keeps(term, ExecuteCode(term, a.code))
      BY <1>1, ExecuteCodeKeeps
    <2> QED
      BY <1>3, <2>1, KeepsQuiet
  <1>4. CASE ControlSequence(a)
    <2>1. a.kind = "csi"
      BY <1>4 DEF ControlSequence
    <2>2. Becomes(term) => Quiet
      BY <1>1, KeepsItself, KeepsQuiet
    <2>3. \/ Becomes(term) \/ PrivateSequence(a) \/ CursorSequence(a)
          \/ EditSequence(a) \/ ModeSequence(a) \/ OtherSequence(a)
      BY <1>4 DEF ControlSequence
    <2>4. PrivateSequence(a) => Quiet \/ Switches(TRUE) \/ Switches(FALSE)
      <3> DEFINE on == a.final = "h"
      <3>1. on \in BOOLEAN
        OBVIOUS
      <3>2. PrivateSequence(a) => PrivateMode(Mode(a), on)
        BY DEF PrivateSequence
      <3> HIDE DEF on
      <3>3. PrivateSequence(a) => Quiet \/ Switches(on)
        BY <3>1, <3>2, PrivateQuiet
      <3> QED
        BY <3>1, <3>3
    <2> QED
      BY <2>1, <2>2, <2>3, <2>4, CursorQuiet, EditQuiet, ModesQuiet
  <1>5. CASE EscapeSequence(a)
    BY <1>5, EscapeQuiet
  <1>6. CASE OscSequence(a) \/ DeviceString(a)
    <2>1. Keeps(term, term) /\ Keeps(term, [term EXCEPT !.title = a.text])
      BY <1>1, KeepsItself, FlagsKeep
    <2>2. PICK u : Keeps(term, u) /\ Becomes(u)
      BY <1>6, <2>1 DEF OscSequence, DeviceString
    <2> QED
      BY <2>2, KeepsQuiet
  <1> QED
    BY <1>2, <1>3, <1>4, <1>5, <1>6 DEF Apply

LEMMA WindowQuiet ==
    ASSUME Ready, ClearAll \/ ResetAfterReconnect \/ TakeSnapshot
    PROVE  Quiet
  <1> DEFINE cleared == Home([ClearRows(term, 0..term.rows - 1) EXCEPT !.scrollback = <<>>])
  <1>1. Sound(term)
    BY DEF Ready
  <1>2. Keeps(term, cleared) /\ Keeps(term, Stop(term)) /\ Keeps(term, [term EXCEPT !.dirty = FALSE])
    BY <1>1, WipeKeeps, FlagsKeep
  <1>3. Updates(cleared) \/ Becomes(Stop(term)) \/ Becomes([term EXCEPT !.dirty = FALSE])
    BY DEF ClearAll, ResetAfterReconnect, TakeSnapshot
  <1> HIDE DEF cleared
  <1> QED
    BY <1>2, <1>3, KeepsQuiet

-------------------------------------------------------------------------------
(* The inductive invariant.  While no resize came in between, what is saved
   fits; the saved screen of the alternate screen is the primary one as it was
   left.  IndicesInRange alone is not inductive: it says nothing of what a
   restore brings back. *)
TermInv ==
    /\ resized \in BOOLEAN
    /\ term.fits => /\ Ready
                    /\ ~resized => SavedFits(term)
                    /\ Alternate(term) => term.savedScreen = primary
    /\ ~term.fits => resized

LEMMA TermInvInit == TermInit => TermInv
  <1> SUFFICES ASSUME TermInit PROVE TermInv
    OBVIOUS
  <1>1. InitialSize[1] \in Nat /\ InitialSize[2] \in Nat
    BY TerminalAssumption
  <1>2. /\ Sound(term) /\ SavedTypes(term) /\ SavedFits(term) /\ ~Alternate(term)
    BY <1>1, NewSounds DEF TermInit
  <1>3. term.fits
    BY <1>2 DEF Sound
  <1> QED
    BY <1>2, <1>3 DEF TermInv, TermInit, Ready

LEMMA QuietKeepsInv ==
    ASSUME TermInv, term.fits, Quiet
    PROVE  TermInv' /\ (term'.fits => (Alternate(term') <=> Alternate(term)))
  <1>1. CASE term'.fits
    <2>1. /\ Sound(term') /\ SavedTypes(term') /\ (SavedFits(term) => SavedFits(term'))
          /\ term'.savedScreen = term.savedScreen /\ (Alternate(term') <=> Alternate(term))
      BY <1>1 DEF Quiet, Goes
    <2>2. /\ resized \in BOOLEAN /\ (~resized => SavedFits(term))
          /\ (Alternate(term) => term.savedScreen = primary)
      BY DEF TermInv
    <2>3. resized' = resized /\ primary' = primary
      BY DEF Quiet
    <2>4. /\ resized' \in BOOLEAN /\ Sound(term') /\ SavedTypes(term')
          /\ ~resized' => SavedFits(term')
          /\ Alternate(term') => term'.savedScreen = primary'
      BY <2>1, <2>2, <2>3
    <2> QED
      BY <1>1, <2>1, <2>4 DEF TermInv, Ready
  <1>2. CASE ~term'.fits
    <2>1. ~SavedFits(term)
      BY <1>2 DEF Quiet, Goes
    <2>2. resized /\ resized \in BOOLEAN /\ resized' = resized
      BY <2>1 DEF TermInv, Quiet
    <2> QED
      BY <1>2, <2>2 DEF TermInv
  <1> QED
    BY <1>1, <1>2

LEMMA EnterKeepsInv ==
    ASSUME TermInv, term.fits, Switches(TRUE)
    PROVE  TermInv' /\ Alternate(term')
  <1>1. Sound(term) /\ SavedTypes(term)
    BY DEF TermInv, Ready
  <1>2. CASE Alternate(term)
    <2>1. term' = Dirty(term) /\ primary' = primary /\ resized' = resized
      BY <1>2 DEF Switches, SwitchScreen, Alternate
    <2>2. Goes(term, term')
      BY <1>1, <2>1, FlagsKeep, KeepsGoes
    <2>3. Quiet
      BY <2>1, <2>2 DEF Quiet
    <2>4. term'.fits
      BY <1>1, <2>1, FlagsKeep DEF Keeps, Sound
    <2> QED
      BY <1>2, <2>3, <2>4, QuietKeepsInv
  <1>3. CASE ~Alternate(term)
    <2> DEFINE u == SwitchScreen(term, TRUE)
    <2>1. /\ Sound(u) /\ SavedTypes(u) /\ SavedFits(u) /\ Alternate(u)
          /\ u.savedScreen = term.screen
      BY <1>1, <1>3, EnterAlternate
    <2>2. term' = Dirty(u) /\ primary' = term.screen /\ resized' = resized
      BY <1>3 DEF Switches, Alternate
    <2> HIDE DEF u
    <2>3. Keeps(u, term')
      BY <2>1, <2>2, FlagsKeep
    <2>4. SavedTypes(term') /\ SavedFits(term')
      BY <2>1, <2>3, KeepsSaved
    <2>5. Sound(term') /\ Alternate(term') /\ term'.savedScreen = term.screen /\ term'.fits
      BY <2>1, <2>3 DEF Keeps, Same, Sound
    <2>6. resized' \in BOOLEAN
      BY <2>2 DEF TermInv
    <2> QED
      BY <2>2, <2>4, <2>5, <2>6 DEF TermInv, Ready
  <1> QED
    BY <1>2, <1>3

LEMMA LeaveKeepsInv ==
    ASSUME TermInv, term.fits, Switches(FALSE)
    PROVE  TermInv' /\ (Alternate(term) => term'.screen = primary)
  <1>1. Sound(term) /\ SavedTypes(term) /\ resized \in BOOLEAN /\ (~resized => SavedFits(term))
    BY DEF TermInv, Ready
  <1> DEFINE u == SwitchScreen(term, FALSE)
  <1>2. term' = Dirty(u) /\ resized' = resized
    BY DEF Switches
  <1>3. CASE ~Alternate(term)
    <2>1. u = term
      BY <1>3 DEF SwitchScreen, Alternate
    <2> HIDE DEF u
    <2>2. Keeps(term, term')
      BY <1>1, <1>2, <2>1, FlagsKeep
    <2>3. SavedTypes(term') /\ (SavedFits(term) => SavedFits(term'))
      BY <1>1, <2>2, KeepsSaved
    <2>4. Sound(term') /\ ~Alternate(term') /\ term'.fits
      BY <1>3, <2>2 DEF Keeps, Same, Sound
    <2> QED
      BY <1>1, <1>2, <1>3, <2>3, <2>4 DEF TermInv, Ready
  <1>4. CASE Alternate(term)
    <2>1. /\ u.fits => Sound(u) /\ SavedTypes(u) /\ (SavedFits(term) => SavedFits(u))
          /\ ~u.fits => ~SavedFits(term)
          /\ ~Alternate(u) /\ u.screen = term.savedScreen
          /\ DOMAIN u = Fields
      BY <1>1, <1>4, LeaveAlternate
    <2>2. term.savedScreen = primary
      BY <1>4 DEF TermInv
    <2> HIDE DEF u
    <2>3. /\ term'.fits = u.fits /\ term'.screen = u.screen /\ ~Alternate(term')
      BY <1>2, <2>1 DEF Dirty, Fields, Alternate, Has
    <2>4. CASE u.fits
      <3>1. Sound(u) /\ SavedTypes(u) /\ (SavedFits(term) => SavedFits(u))
        BY <2>1, <2>4
      <3>2. Keeps(u, term')
        BY <1>2, <3>1, FlagsKeep
      <3>3. Sound(term') /\ SavedTypes(term') /\ (SavedFits(u) => SavedFits(term'))
        BY <3>1, <3>2, KeepsSaved DEF Keeps
      <3> QED
        BY <1>1, <1>2, <2>1, <2>2, <2>3, <2>4, <3>1, <3>3 DEF TermInv, Ready
    <2>5. CASE ~u.fits
      BY <1>1, <1>2, <2>1, <2>2, <2>3, <2>5 DEF TermInv
    <2> QED
      BY <2>4, <2>5
  <1> QED
    BY <1>3, <1>4

LEMMA ResetsKeepsInv ==
    ASSUME TermInv, term.fits, Resets
    PROVE  TermInv'
  <1>1. term.cols \in Nat /\ term.rows \in Nat
    BY DEF TermInv, Ready, Sound
  <1>2. Sound(term') /\ SavedTypes(term') /\ SavedFits(term') /\ ~Alternate(term')
    BY <1>1, NewSounds DEF Resets
  <1>3. term'.fits
    BY <1>2 DEF Sound
  <1> QED
    BY <1>2, <1>3 DEF TermInv, Resets, Ready

LEMMA ResizeKeepsInv ==
    ASSUME TermInv, NEW size \in Sizes, Resize(size[1], size[2])
    PROVE  TermInv' /\ (Alternate(term') <=> Alternate(term))
  <1> DEFINE cols == Clamp(size[1], MaxCols)
             rows == Clamp(size[2], MaxRows)
  <1>1. size[1] \in Nat /\ size[2] \in Nat
    BY TerminalAssumption
  <1>2. cols \in Nat \ {0} /\ rows \in Nat \ {0}
    BY <1>1, ClampedSize, TerminalAssumption
  <1>3. /\ term.fits /\ term' = ResizeTo(term, cols, rows)
        /\ resized' = TRUE /\ primary' = primary
    BY DEF Resize, Call
  <1> HIDE DEF cols, rows
  <1>4. Sound(term) /\ SavedTypes(term) /\ (Alternate(term) => term.savedScreen = primary)
    BY <1>3 DEF TermInv, Ready
  <1>5. /\ Sound(term') /\ term'.savedScreen = term.savedScreen
        /\ term'.savedCursor = term.savedCursor /\ (Alternate(term') <=> Alternate(term))
    BY <1>2, <1>3, <1>4, ResizeToSounds
  <1>6. SavedTypes(term')
    BY <1>4, <1>5 DEF SavedTypes
  <1>7. term'.fits
    BY <1>5 DEF Sound
  <1> QED
    BY <1>3, <1>4, <1>5, <1>6, <1>7 DEF TermInv, Ready

(* What one step does to the two screens. *)
Returns ==
    (/\ Has(term, "alternate_screen") /\ ~Has(term', "alternate_screen")
     /\ term'.fits /\ term' # New(term.cols, term.rows))
       => term'.screen = primary

LEMMA TermInvNext == TermInv /\ [TermNext]_termVars => TermInv' /\ Returns
  <1> SUFFICES ASSUME TermInv, [TermNext]_termVars PROVE TermInv' /\ Returns
    OBVIOUS
  <1>1. ASSUME NEW a \in Inputs, Apply(a) PROVE TermInv' /\ Returns
    <2>1. term.fits
      BY <1>1 DEF Apply, Call
    <2>2. Ready
      BY <2>1 DEF TermInv
    <2>3. Quiet \/ Switches(TRUE) \/ Switches(FALSE) \/ Resets
      BY <1>1, <2>2, ApplyQuiet
    <2>4. Quiet => TermInv' /\ Returns
      BY <2>1, QuietKeepsInv DEF Returns, Alternate
    <2>5. Switches(TRUE) => TermInv' /\ Returns
      BY <2>1, EnterKeepsInv DEF Returns, Alternate
    <2>6. Switches(FALSE) => TermInv' /\ Returns
      BY <2>1, LeaveKeepsInv DEF Returns, Alternate
    <2>7. Resets => TermInv' /\ Returns
      BY <2>1, ResetsKeepsInv DEF Returns, Resets
    <2> QED
      BY <2>3, <2>4, <2>5, <2>6, <2>7
  <1>2. ASSUME NEW size \in Sizes, Resize(size[1], size[2]) PROVE TermInv' /\ Returns
    BY <1>2, ResizeKeepsInv DEF Returns, Alternate
  <1>3. ASSUME ClearAll \/ ResetAfterReconnect \/ TakeSnapshot PROVE TermInv' /\ Returns
    <2>1. term.fits
      BY <1>3 DEF ClearAll, ResetAfterReconnect, TakeSnapshot, Call
    <2>2. Ready
      BY <2>1 DEF TermInv
    <2>3. Quiet
      BY <1>3, <2>2, WindowQuiet
    <2> QED
      BY <2>1, <2>3, QuietKeepsInv DEF Returns, Alternate
  <1>4. ASSUME UNCHANGED termVars PROVE TermInv' /\ Returns
    BY <1>4 DEF TermInv, Ready, Returns, termVars
  <1> QED
    BY <1>1, <1>2, <1>3, <1>4 DEF TermNext

LEMMA InvImpliesIndices == TermInv => IndicesInRange
  <1> SUFFICES ASSUME TermInv PROVE IndicesInRange
    OBVIOUS
  <1>1. CASE term.fits
    <2>1. Sound(term)
      BY <1>1 DEF TermInv, Ready
    <2>2. ScreenFits(term, term.screen)
      <3>1. DOMAIN term.screen = 1..term.rows
            /\ \A i \in 1..term.rows : Len(term.screen[i]) >= term.cols
        BY <2>1, WideRows DEF Sound
      <3> QED
        BY <2>1, <3>1 DEF Sound, Wide, ScreenFits
    <2>3. /\ term.row \in 0..term.rows - 1 /\ term.col \in 0..term.cols
          /\ term.top \in 0..term.bottom - 1 /\ term.bottom \in 1..term.rows
      BY <2>1 DEF Sound
    <2> QED
      BY <1>1, <2>2, <2>3 DEF IndicesInRange
  <1>2. CASE ~term.fits
    BY <1>2 DEF TermInv, IndicesInRange
  <1> QED
    BY <1>1, <1>2

(* Every index the terminal's methods use is in range, for every size, input and
   number of calls, unless a cursor or a screen saved before a resize is
   restored after it. *)
THEOREM IndicesTheorem == TermSpec => []IndicesInRange
  <1>1. TermInit => TermInv
    BY TermInvInit
  <1>2. TermInv /\ [TermNext]_termVars => TermInv'
    BY TermInvNext
  <1>3. TermInv => IndicesInRange
    BY InvImpliesIndices
  <1> QED
    BY <1>1, <1>2, <1>3, PTL DEF TermSpec

(* Leaving the alternate screen shows the primary screen as it was left. *)
THEOREM ScreenTheorem == TermSpec => PrimaryScreenReturns
  <1>1. TermInit => TermInv
    BY TermInvInit
  <1>2. TermInv /\ [TermNext]_termVars => TermInv'
    BY TermInvNext
  <1>3. TermInv /\ [TermNext]_termVars => [Returns]_termVars
    BY TermInvNext
  <1>4. TermSpec => [][Returns]_termVars
    BY <1>1, <1>2, <1>3, PTL DEF TermSpec
  <1> QED
    BY <1>4, PTL DEF PrimaryScreenReturns, Returns

-------------------------------------------------------------------------------
(* Scrolling. *)
LEMMA UpdatesConfined ==
    ASSUME Ready, NEW u, Keeps(term, u), Confined(term, u), Updates(u) \/ Becomes(u)
    PROVE  Confined(term, term')
  <1>1. Confined(term, Dirty(u))
    BY DirtyKeeps
  <1> QED
    BY <1>1 DEF Updates, Becomes

LEMMA LinesConfined ==
    ASSUME Ready, NEW a \in Inputs, a.kind = "csi", ~a.private, a.final \in {"L", "M", "S", "T"},
           ControlSequence(a)
    PROVE  Confined(term, term')
  <1> DEFINE n == Count(a)
  <1>1. /\ Keeps(term, InsertLines(term, n)) /\ Confined(term, InsertLines(term, n))
        /\ Keeps(term, DeleteLines(term, n)) /\ Confined(term, DeleteLines(term, n))
        /\ Keeps(term, ScrollUp(term, n)) /\ Confined(term, ScrollUp(term, n))
        /\ Keeps(term, ScrollDown(term, n)) /\ Confined(term, ScrollDown(term, n))
    BY EditKeeps
  <1>2. Keeps(term, term) /\ Confined(term, term)
    BY KeepsItself DEF Ready, Confined, Outside
  <1>3. a.final # "h" /\ a.final # "l" /\ a.final \in Handled
    BY DEF Handled
  <1>4. ~ModeSequence(a) /\ ~OtherSequence(a)
    BY <1>3 DEF ModeSequence, OtherSequence
  <1>5. ~CursorSequence(a)
    BY DEF CursorSequence
  <1>6. EditSequence(a) =>
            \/ Updates(InsertLines(term, n)) \/ Updates(DeleteLines(term, n))
            \/ Updates(ScrollUp(term, n)) \/ Updates(ScrollDown(term, n))
    BY DEF EditSequence
  <1>7. Becomes(term) \/ EditSequence(a)
    BY <1>4, <1>5 DEF ControlSequence
  <1> HIDE DEF n
  <1>8. \A u : Keeps(term, u) /\ Confined(term, u) /\ (Updates(u) \/ Becomes(u))
                 => Confined(term, term')
    BY UpdatesConfined
  <1> QED
    BY <1>1, <1>2, <1>6, <1>7, <1>8

LEMMA FeedsConfined ==
    ASSUME Ready, NEW a \in Inputs, a.final \in {"D", "M", "E"}, EscapeSequence(a)
    PROVE  Confined(term, term')
  <1> DEFINE start == [term EXCEPT !.col = 0]
  <1>1. Sound(term)
    BY DEF Ready
  <1>2. /\ Keeps(term, LineFeed(term)) /\ Confined(term, LineFeed(term))
        /\ Keeps(term, ReverseIndex(term)) /\ Confined(term, ReverseIndex(term))
    BY <1>1, LineFeedMoves, ReverseIndexMoves
  <1>3. Keeps(term, LineFeed(start)) /\ Confined(term, LineFeed(start))
    <2>1. 0 \in Nat /\ 0 <= term.cols
      BY <1>1 DEF Sound
    <2>2. /\ Keeps(term, start) /\ start.screen = term.screen
          /\ start.top = term.top /\ start.bottom = term.bottom
      BY <1>1, <2>1, ColumnKeeps
    <2> HIDE DEF start
    <2>3. Sound(start) /\ start.rows = term.rows
      BY <2>2 DEF Keeps, Same
    <2>4. Keeps(start, LineFeed(start)) /\ Confined(start, LineFeed(start))
      BY <2>3, LineFeedMoves
    <2>5. Keeps(term, LineFeed(start))
      BY <2>2, <2>4, KeepsComposes
    <2>6. Confined(term, LineFeed(start))
      BY <2>2, <2>3, <2>4 DEF Confined, Outside
    <2> QED
      BY <2>5, <2>6
  <1>4. Updates(LineFeed(term)) \/ Updates(ReverseIndex(term)) \/ Updates(LineFeed(start))
    BY DEF EscapeSequence
  <1> HIDE DEF start
  <1>5. \A u : Keeps(term, u) /\ Confined(term, u) /\ Updates(u) => Confined(term, term')
    BY UpdatesConfined
  <1> QED
    BY <1>2, <1>3, <1>4, <1>5

LEMMA ScrollsConfined ==
    ASSUME Ready, NEW a \in Inputs, Scrolls(a), Apply(a)
    PROVE  Confined(term, term')
  <1>1. CASE a.kind = "csi"
    <2>1. ControlSequence(a)
      BY <1>1 DEF Apply, EscapeSequence, OscSequence, DeviceString
    <2>2. a.final \in {"L", "M", "S", "T"} /\ ~a.private
      BY <1>1 DEF Scrolls
    <2> QED
      BY <1>1, <2>1, <2>2, LinesConfined
  <1>2. CASE a.kind = "esc"
    <2>1. EscapeSequence(a)
      BY <1>2 DEF Apply, ControlSequence, OscSequence, DeviceString
    <2>2. a.final \in {"D", "M", "E"}
      BY <1>2 DEF Scrolls
    <2> QED
      BY <2>1, <2>2, FeedsConfined
  <1>3. CASE a.kind = "execute"
    <2>1. Becomes(ExecuteCode(term, a.code))
      BY <1>3 DEF Apply, ControlSequence, EscapeSequence, OscSequence, DeviceString
    <2>2. Keeps(term, ExecuteCode(term, a.code)) /\ Confined(term, ExecuteCode(term, a.code))
      BY ExecuteCodeKeeps DEF Ready
    <2> QED
      BY <2>1, <2>2, UpdatesConfined
  <1> QED
    BY <1>1, <1>2, <1>3 DEF Scrolls

Stays ==
    \A a \in {i \in Inputs : Scrolls(i)} :
        Apply(a) => \A i \in DOMAIN term.screen :
                       i \notin term.top + 1..term.bottom => term'.screen[i] = term.screen[i]

(* Scrolling, line feeds and moved lines leave the rows outside the scroll
   region alone. *)
THEOREM ScrollingTheorem == TermSpec => ScrollingConfined
  <1>1. TermInit => TermInv
    BY TermInvInit
  <1>2. TermInv /\ [TermNext]_termVars => TermInv'
    BY TermInvNext
  <1>3. TermInv /\ [TermNext]_termVars => [Stays]_termVars
    <2> SUFFICES ASSUME TermInv PROVE Stays
      OBVIOUS
    <2> SUFFICES ASSUME NEW a \in Inputs, Scrolls(a), Apply(a),
                        NEW i \in DOMAIN term.screen, i \notin term.top + 1..term.bottom
                 PROVE  term'.screen[i] = term.screen[i]
      BY DEF Stays
    <2>1. Ready
      BY DEF Apply, Call, TermInv
    <2>2. Confined(term, term')
      BY <2>1, ScrollsConfined
    <2>3. DOMAIN term.screen = 1..term.rows
      BY <2>1, WideRows DEF Ready, Sound
    <2> QED
      BY <2>2, <2>3 DEF Confined, Outside
  <1> HIDE DEF Stays
  <1>4. TermSpec => [][Stays]_termVars
    BY <1>1, <1>2, <1>3, PTL DEF TermSpec
  <1> QED
    BY <1>4, PTL DEF ScrollingConfined, Stays

-------------------------------------------------------------------------------
(* The parser. *)

(* A sequence begins with nothing collected, whatever was broken off before. *)
StartsClean ==
    /\ pstate \in {"Escape", "CsiEntry", "DcsEntry", "OscString", "SosPmApcString"} =>
          params = <<>> /\ current = NoParam /\ inter = <<>> /\ ignore = FALSE
    /\ pstate = "EscapeIntermediate" => params = <<>> /\ current = NoParam /\ ignore = FALSE
    /\ pstate \in {"DcsPassthrough", "Ground"} => params = <<>> /\ current = NoParam
    /\ ignore = TRUE => pstate = "CsiIgnore"

(* A string is collected only in its own state, and a character only in the
   ground state, where it is complete before it has the bytes it announced. *)
CollectedInState ==
    /\ osc # <<>> => pstate = "OscString"
    /\ dcs # <<>> => pstate = "DcsPassthrough"
    /\ utf8 # <<>> => pstate = "Ground"
PartialChar == IF utf8 = <<>> THEN expected = 0 ELSE Len(utf8) < expected

ParserInv == ParserTypeOK /\ StartsClean /\ CollectedInState /\ PartialChar

LEMMA ParserInvInit == ParserInit => ParserInv
  <1> SUFFICES ASSUME ParserInit PROVE ParserInv
    OBVIOUS
  <1>1. /\ pstate = "Ground" /\ params = <<>> /\ current = NoParam /\ inter = <<>>
        /\ ignore = FALSE /\ osc = <<>> /\ dcs = <<>> /\ utf8 = <<>> /\ expected = 0
        /\ pendingDcs = FALSE /\ resets = FALSE
    BY DEF ParserInit, Fresh
  <1>2. \A S : <<>> \in Seq(S) /\ Len(<<>>) = 0
    OBVIOUS
  <1>3. ParserTypeOK
    <2>1. pstate \in PStates
      BY <1>1 DEF PStates
    <2>2. params \in Seq(0..ParamMax) /\ current \in 0..ParamMax \cup {NoParam}
      BY <1>1, <1>2
    <2>3. inter \in Seq(Byte) /\ osc \in Seq(Byte) /\ dcs \in Seq(Byte) /\ utf8 \in Seq(Byte)
      BY <1>1, <1>2
    <2>4. expected \in {0, 2, 3, 4} /\ Len(utf8) <= expected
      BY <1>1, <1>2
    <2> QED
      BY <1>1, <2>1, <2>2, <2>3, <2>4 DEF ParserTypeOK
  <1> QED
    BY <1>1, <1>3 DEF ParserInv, StartsClean, CollectedInState, PartialChar

LEMMA CurrentIsParam ==
    ASSUME ParserTypeOK
    PROVE  /\ CurrentOr0 \in 0..ParamMax
           /\ Append(params, CurrentOr0) \in Seq(0..ParamMax)
           /\ \A b \in Digits : Saturate(CurrentOr0 * 10 + (b - 48)) \in 0..ParamMax
  <1>1. CurrentOr0 \in 0..ParamMax
    BY ParserAssumption DEF ParserTypeOK, CurrentOr0, NoParam
  <1>2. params \in Seq(0..ParamMax)
    BY DEF ParserTypeOK
  <1>3. \A b \in Digits : Saturate(CurrentOr0 * 10 + (b - 48)) \in 0..ParamMax
    BY <1>1, ParserAssumption DEF Saturate, Digits
  <1> QED
    BY <1>1, <1>2, <1>3

(* A partial character after a byte in the ground state. *)
LEMMA GroundChar ==
    ASSUME ParserInv, NEW b \in Byte, Ground(b)
    PROVE  /\ utf8' \in Seq(Byte) /\ expected' \in {0, 2, 3, 4}
           /\ IF utf8' = <<>> THEN expected' = 0 ELSE Len(utf8') < expected'
  <1>1. /\ utf8 \in Seq(Byte) /\ expected \in {0, 2, 3, 4}
        /\ IF utf8 = <<>> THEN expected = 0 ELSE Len(utf8) < expected
    BY DEF ParserInv, ParserTypeOK, PartialChar
  <1>2. CASE UNCHANGED utfVars
    BY <1>1, <1>2 DEF utfVars
  <1>3. CASE StartChar(b)
    <2>1. (utf8' = <<b>> /\ expected' \in {2, 3, 4}) \/ (utf8' = <<>> /\ expected' = 0)
      BY <1>3 DEF StartChar, ClearUtf8, Lead
    <2>2. <<b>> \in Seq(Byte) /\ Len(<<b>>) = 1 /\ <<b>> # <<>> /\ <<>> \in Seq(Byte)
      OBVIOUS
    <2>3. CASE utf8' = <<b>> /\ expected' \in {2, 3, 4}
      BY <2>2, <2>3
    <2>4. CASE utf8' = <<>> /\ expected' = 0
      BY <2>2, <2>4
    <2> QED
      BY <2>1, <2>3, <2>4
  <1>4. CASE ClearUtf8
    BY <1>4 DEF ClearUtf8
  <1>5. CASE /\ utf8 # <<>> /\ Len(utf8) + 1 # expected
             /\ utf8' = Append(utf8, b) /\ expected' = expected
    <2>1. utf8' \in Seq(Byte) /\ Len(utf8') = Len(utf8) + 1 /\ utf8' # <<>> /\ Len(utf8) \in Nat
      BY <1>1, <1>5
    <2> QED
      BY <1>1, <1>5, <2>1
  <1> QED
    BY <1>2, <1>3, <1>4, <1>5 DEF Ground

LEMMA GroundKeeps ==
    ASSUME ParserInv, NEW b \in Byte, Ground(b), resets' \in BOOLEAN
    PROVE  ParserInv'
  <1>1. /\ pstate = "Ground"
        /\ UNCHANGED <<pstate, params, current, inter, ignore, osc, dcs, pendingDcs>>
    BY DEF Ground, csiVars, strVars
  <1>2. /\ utf8' \in Seq(Byte) /\ expected' \in {0, 2, 3, 4}
        /\ IF utf8' = <<>> THEN expected' = 0 ELSE Len(utf8') < expected'
    BY GroundChar
  <1>3. utf8' = <<>> => Len(utf8') = 0
    OBVIOUS
  <1>4. Len(utf8') <= expected'
    BY <1>2, <1>3
  <1> QED
    BY <1>1, <1>2, <1>4 DEF ParserInv, ParserTypeOK, StartsClean, CollectedInState, PartialChar

(* What no sequence or string touches: the partial character, of which there is
   none outside the ground state. *)
LEMMA NoChar ==
    ASSUME ParserInv, pstate # "Ground", UNCHANGED utfVars
    PROVE  /\ utf8' = <<>> /\ expected' = 0
           /\ utf8' \in Seq(Byte) /\ expected' \in {0, 2, 3, 4} /\ Len(utf8') <= expected'
           /\ PartialChar'
  <1>1. utf8 = <<>> /\ expected = 0
    BY DEF ParserInv, CollectedInState, PartialChar
  <1>2. utf8' = <<>> /\ expected' = 0
    BY <1>1 DEF utfVars
  <1>3. <<>> \in Seq(Byte) /\ Len(<<>>) = 0
    OBVIOUS
  <1> QED
    BY <1>2, <1>3 DEF PartialChar

LEMMA EscapeKeeps ==
    ASSUME ParserInv, NEW b \in Byte, Escape(b) \/ EscapeIntermediate(b), resets' \in BOOLEAN
    PROVE  ParserInv'
  <1> USE DEF Goto, csiVars, strVars
  <1>1. ParserTypeOK /\ StartsClean /\ CollectedInState
    BY DEF ParserInv
  <1>2. /\ pstate \in {"Escape", "EscapeIntermediate"}
        /\ osc = <<>> /\ dcs = <<>> /\ params = <<>> /\ current = NoParam /\ ignore = FALSE
    BY <1>1 DEF Escape, EscapeIntermediate, StartsClean, CollectedInState
  <1>3. /\ osc' = <<>> /\ dcs' = <<>> /\ params' = <<>> /\ current' = NoParam /\ ignore' = FALSE
        /\ UNCHANGED <<utfVars, pendingDcs>>
    BY <1>2 DEF Escape, EscapeIntermediate, DispatchEsc
  <1>4. inter' \in Seq(Byte)
    <2>1. inter \in Seq(Byte) /\ Append(inter, b) \in Seq(Byte) /\ <<>> \in Seq(Byte)
      BY <1>1 DEF ParserTypeOK
    <2> QED
      BY <2>1 DEF Escape, EscapeIntermediate, DispatchEsc
  <1>5. /\ pstate' \in {"Ground", "EscapeIntermediate", "CsiEntry", "OscString", "DcsEntry",
                        "SosPmApcString"}
        /\ pstate' \in {"CsiEntry", "OscString", "DcsEntry", "SosPmApcString"} => inter' = <<>>
    BY <1>1, <1>2 DEF Escape, EscapeIntermediate, DispatchEsc, Introduces, StartsClean
  <1>6. /\ PartialChar' /\ utf8' = <<>>
        /\ utf8' \in Seq(Byte) /\ expected' \in {0, 2, 3, 4} /\ Len(utf8') <= expected'
    BY <1>2, <1>3, NoChar
  <1>7. ParserTypeOK'
    <2>1. \A S : <<>> \in Seq(S)
      OBVIOUS
    <2>2. pstate' \in PStates
      BY <1>5 DEF PStates, StringStates, CsiStates, DcsStates
    <2> QED
      BY <1>1, <1>3, <1>4, <1>6, <2>1, <2>2 DEF ParserTypeOK
  <1>8. StartsClean'
    BY <1>3, <1>5 DEF StartsClean
  <1>9. CollectedInState'
    BY <1>3, <1>6 DEF CollectedInState
  <1> QED
    BY <1>6, <1>7, <1>8, <1>9 DEF ParserInv

(* A byte in the header of a control sequence or a device control string: what
   it collects is typed, and the next sequence finds nothing of it. *)
LEMMA HeaderCollects ==
    ASSUME ParserInv, NEW b \in Byte, Header(b) \/ CsiIgnore(b)
    PROVE  /\ params' \in Seq(0..ParamMax) /\ current' \in 0..ParamMax \cup {NoParam}
           /\ inter' \in Seq(Byte) /\ ignore' \in BOOLEAN /\ pendingDcs' \in BOOLEAN
           /\ \/ /\ pstate' \in {"Ground", "DcsPassthrough"}
                 /\ params' = <<>> /\ current' = NoParam /\ ignore' = FALSE
              \/ /\ pstate' \in {"CsiParam", "CsiIntermediate", "CsiIgnore", "DcsParam",
                                 "DcsIntermediate", "DcsIgnore"}
                 /\ ignore' = TRUE => pstate' = "CsiIgnore"
              \/ pstate' = pstate /\ UNCHANGED csiVars
  <1> DEFINE Typed == /\ params' \in Seq(0..ParamMax) /\ current' \in 0..ParamMax \cup {NoParam}
                      /\ inter' \in Seq(Byte) /\ ignore' \in BOOLEAN
             Ended == /\ pstate' \in {"Ground", "DcsPassthrough"}
                      /\ params' = <<>> /\ current' = NoParam /\ ignore' = FALSE
             Moves == /\ pstate' \in {"CsiParam", "CsiIntermediate", "CsiIgnore", "DcsParam",
                                      "DcsIntermediate", "DcsIgnore"}
                      /\ ignore' = TRUE => pstate' = "CsiIgnore"
             KeepsHeader == pstate' = pstate /\ UNCHANGED csiVars
  <1>1. /\ params \in Seq(0..ParamMax) /\ current \in 0..ParamMax \cup {NoParam}
        /\ inter \in Seq(Byte) /\ ignore \in BOOLEAN /\ pendingDcs \in BOOLEAN
        /\ <<>> \in Seq(0..ParamMax) /\ <<>> \in Seq(Byte) /\ Append(inter, b) \in Seq(Byte)
        /\ ignore = TRUE => pstate = "CsiIgnore"
        /\ NoParam \in 0..ParamMax \cup {NoParam}
    BY DEF ParserInv, ParserTypeOK, StartsClean
  <1>2. /\ CurrentOr0 \in 0..ParamMax
        /\ Append(params, CurrentOr0) \in Seq(0..ParamMax)
        /\ b \in Digits => Saturate(CurrentOr0 * 10 + (b - 48)) \in 0..ParamMax
    BY CurrentIsParam DEF ParserInv
  <1>3. ASSUME NEW x, NEW y, To(x, y) PROVE pstate' = IF pstate \in CsiStates THEN x ELSE y
    BY <1>3 DEF To, Goto
  <1>4. ASSUME DispatchCsi(b) PROVE Typed /\ Ended /\ pendingDcs' \in BOOLEAN
    BY <1>1, <1>4 DEF DispatchCsi, ClearCsi, Goto
  <1>5. ASSUME DispatchDcs, ignore = FALSE PROVE Typed /\ Ended /\ pendingDcs' \in BOOLEAN
    BY <1>1, <1>5 DEF DispatchDcs, Goto
  <1>6. ASSUME ReadParam(b), ignore = FALSE PROVE Typed /\ Moves
    <2>1. pstate' \in {"CsiParam", "DcsParam"} /\ inter' = inter /\ ignore' = FALSE
      BY <1>3, <1>6 DEF ReadParam
    <2>2. params' \in Seq(0..ParamMax) /\ current' \in 0..ParamMax \cup {NoParam}
      BY <1>1, <1>2, <1>6 DEF ReadParam, AddDigit, PushParam
    <2> QED
      BY <1>1, <2>1, <2>2
  <1>7. ASSUME SubParameter PROVE Typed /\ Moves
    BY <1>1, <1>2, <1>7 DEF SubParameter, PushParam, Goto
  <1>8. ASSUME NEW x \in {"CsiParam", "CsiIntermediate"}, NEW y \in {"DcsParam", "DcsIntermediate"},
               Collect(b), To(x, y), ignore = FALSE
        PROVE  Typed /\ Moves
    <2>1. pstate' \in {x, y}
      BY <1>3, <1>8
    <2> QED
      BY <1>1, <1>8, <2>1 DEF Collect
  <1>9. ASSUME Invalid, ignore = FALSE PROVE Typed /\ Moves
    <2>1. pstate' = (IF pstate \in CsiStates THEN "CsiIgnore" ELSE "DcsIgnore")
      BY <1>3, <1>9 DEF Invalid
    <2>2. UNCHANGED <<params, current, inter>>
      BY <1>9 DEF Invalid
    <2>3. CASE pstate \in CsiStates
      <3>1. ignore' = TRUE /\ pstate' = "CsiIgnore"
        BY <1>9, <2>1, <2>3 DEF Invalid
      <3> QED
        BY <1>1, <2>2, <3>1
    <2>4. CASE pstate \notin CsiStates
      <3>1. ignore' = FALSE /\ pstate' = "DcsIgnore"
        BY <1>9, <2>1, <2>4 DEF Invalid
      <3> QED
        BY <1>1, <2>2, <3>1
    <2> QED
      BY <2>3, <2>4
  <1>10. ASSUME UNCHANGED <<pstate, csiVars>> PROVE Typed /\ KeepsHeader
    BY <1>1, <1>10 DEF csiVars
  <1>11. CASE Header(b)
    <2>1. ignore = FALSE
      BY <1>1, <1>11 DEF Header, IsEntry, IsParam, IsIntermediate
    <2>2. CASE b \in Finals
      <3>1. Dispatch(b)
        BY <1>11, <2>2 DEF Header
      <3> QED
        BY <1>4, <1>5, <2>1, <3>1 DEF Dispatch
    <2>3. CASE b \notin Finals
      <3>1. /\ pendingDcs' \in BOOLEAN
            /\ \/ ReadParam(b) \/ SubParameter \/ Invalid \/ UNCHANGED <<pstate, csiVars>>
               \/ Collect(b) /\ To("CsiParam", "DcsParam")
               \/ Collect(b) /\ To("CsiIntermediate", "DcsIntermediate")
        BY <1>1, <1>11, <2>3 DEF Header
      <3> HIDE DEF Typed, Ended, Moves, KeepsHeader
      <3>2. Typed /\ (Moves \/ KeepsHeader)
        BY <1>6, <1>7, <1>8, <1>9, <1>10, <2>1, <3>1
      <3> QED
        BY <3>1, <3>2 DEF Typed, Moves, KeepsHeader
    <2> QED
      BY <2>2, <2>3
  <1>12. CASE CsiIgnore(b)
    <2>1. CASE b \in Finals
      BY <1>1, <1>12, <2>1 DEF CsiIgnore, ClearCsi, Goto
    <2>2. CASE b \notin Finals
      BY <1>1, <1>12, <2>2, <1>10 DEF CsiIgnore
    <2> QED
      BY <2>1, <2>2
  <1> QED
    BY <1>11, <1>12

LEMMA HeaderKeeps ==
    ASSUME ParserInv, NEW b \in Byte, Header(b) \/ CsiIgnore(b), resets' \in BOOLEAN
    PROVE  ParserInv'
  <1>1. ParserTypeOK /\ StartsClean /\ CollectedInState
    BY DEF ParserInv
  <1>2. /\ pstate \in {"CsiEntry", "CsiParam", "CsiIntermediate", "CsiIgnore", "DcsEntry",
                       "DcsParam", "DcsIntermediate"}
        /\ osc = <<>> /\ dcs = <<>>
    BY <1>1 DEF Header, CsiIgnore, IsEntry, IsParam, IsIntermediate, CollectedInState
  <1>3. UNCHANGED utfVars /\ osc' = <<>> /\ dcs' = <<>>
    BY <1>2 DEF Header, CsiIgnore, Dispatch, DispatchCsi, DispatchDcs, strVars
  <1>4. /\ PartialChar' /\ utf8' = <<>>
        /\ utf8' \in Seq(Byte) /\ expected' \in {0, 2, 3, 4} /\ Len(utf8') <= expected'
    BY <1>2, <1>3, NoChar
  <1>5. /\ params' \in Seq(0..ParamMax) /\ current' \in 0..ParamMax \cup {NoParam}
        /\ inter' \in Seq(Byte) /\ ignore' \in BOOLEAN /\ pendingDcs' \in BOOLEAN
        /\ \/ /\ pstate' \in {"Ground", "DcsPassthrough"}
              /\ params' = <<>> /\ current' = NoParam /\ ignore' = FALSE
           \/ /\ pstate' \in {"CsiParam", "CsiIntermediate", "CsiIgnore", "DcsParam",
                              "DcsIntermediate", "DcsIgnore"}
              /\ ignore' = TRUE => pstate' = "CsiIgnore"
           \/ pstate' = pstate /\ UNCHANGED csiVars
    BY HeaderCollects
  <1>6. pstate' \in PStates
    BY <1>2, <1>5 DEF PStates, CsiStates, DcsStates, StringStates
  <1>7. ParserTypeOK'
    <2>1. \A S : <<>> \in Seq(S)
      OBVIOUS
    <2> QED
      BY <1>3, <1>4, <1>5, <1>6, <2>1 DEF ParserTypeOK
  <1>8. StartsClean'
    <2>1. CASE pstate' = pstate /\ UNCHANGED csiVars
      BY <1>1, <2>1 DEF StartsClean, csiVars
    <2>2. CASE ~(pstate' = pstate /\ UNCHANGED csiVars)
      BY <1>5, <2>2 DEF StartsClean
    <2> QED
      BY <2>1, <2>2
  <1>9. CollectedInState'
    BY <1>3, <1>4 DEF CollectedInState
  <1> QED
    BY <1>4, <1>7, <1>8, <1>9 DEF ParserInv

(* Strings: their end leaves nothing behind, however it comes. *)
LEMMA StringKeeps ==
    ASSUME ParserInv, NEW b \in Byte, resets' \in BOOLEAN,
           DcsPassthrough(b) \/ OscString(b) \/ SosPmApcString(b) \/ DcsIgnore(b)
    PROVE  ParserInv'
  <1> USE DEF csiVars, strVars, utfVars, Goto
  <1>1. ParserTypeOK /\ StartsClean /\ CollectedInState
    BY DEF ParserInv
  <1>2. pstate \in {"DcsPassthrough", "OscString", "SosPmApcString", "DcsIgnore"}
    BY DEF DcsPassthrough, OscString, SosPmApcString, DcsIgnore
  <1>3. utf8 = <<>> /\ expected = 0 /\ (osc # <<>> => pstate = "OscString")
        /\ (dcs # <<>> => pstate = "DcsPassthrough") /\ ignore = FALSE
    BY <1>2 DEF ParserInv, CollectedInState, PartialChar, StartsClean, ParserTypeOK
  <1>4. UNCHANGED utfVars
    BY <1>3 DEF DcsPassthrough, OscString, SosPmApcString, DcsIgnore, ClearUtf8
  <1>5. /\ PartialChar' /\ utf8' = <<>>
        /\ utf8' \in Seq(Byte) /\ expected' \in {0, 2, 3, 4} /\ Len(utf8') <= expected'
    BY <1>2, <1>4, NoChar
  <1>6. /\ osc \in Seq(Byte) /\ dcs \in Seq(Byte) /\ <<>> \in Seq(Byte)
        /\ Append(osc, b) \in Seq(Byte) /\ Append(dcs, b) \in Seq(Byte)
        /\ <<>> \in Seq(0..ParamMax)
    BY <1>1 DEF ParserTypeOK
  <1>7. osc' \in Seq(Byte) /\ dcs' \in Seq(Byte) /\ pendingDcs' \in BOOLEAN
    BY <1>1, <1>6 DEF DcsPassthrough, OscString, SosPmApcString, DcsIgnore, ClearStrings,
                      ParserTypeOK
  <1>8. /\ UNCHANGED csiVars \/ ClearCsi
        /\ pstate' = "Escape" => ClearCsi \/ (pstate = "OscString" /\ UNCHANGED csiVars)
        /\ pstate' \in {pstate, "Ground", "Escape"}
        /\ pstate = "DcsIgnore" => pstate' = "DcsIgnore"
        /\ pstate' # pstate => osc' = <<>> /\ dcs' = <<>>
        /\ pstate' = pstate => (osc' # <<>> => pstate = "OscString")
                               /\ (dcs' # <<>> => pstate = "DcsPassthrough")
    BY <1>3 DEF DcsPassthrough, OscString, SosPmApcString, DcsIgnore, ClearStrings
  <1>9. ParserTypeOK'
    <2>1. pstate' \in PStates
      BY <1>2, <1>8 DEF PStates, StringStates
    <2> QED
      BY <1>1, <1>5, <1>6, <1>7, <1>8, <2>1 DEF ParserTypeOK, ClearCsi
  <1>10. StartsClean'
    BY <1>1, <1>2, <1>3, <1>8 DEF StartsClean, ClearCsi
  <1>11. CollectedInState'
    BY <1>5, <1>8 DEF CollectedInState
  <1> QED
    BY <1>5, <1>9, <1>10, <1>11 DEF ParserInv

(* What clears everything. *)
LEMMA ClearKeeps ==
    ASSUME ParserInv, ClearCsi, ClearStrings, ClearUtf8, pendingDcs' \in BOOLEAN,
           pstate' \in {"Ground", "Escape"}, resets' \in BOOLEAN
    PROVE  ParserInv'
  <1>1. /\ params' = <<>> /\ current' = NoParam /\ inter' = <<>> /\ ignore' = FALSE
        /\ osc' = <<>> /\ dcs' = <<>> /\ utf8' = <<>> /\ expected' = 0
    BY DEF ClearCsi, ClearStrings, ClearUtf8
  <1>2. \A S : <<>> \in Seq(S) /\ Len(<<>>) = 0
    OBVIOUS
  <1>3. ParserTypeOK'
    <2>1. pstate' \in PStates
      BY DEF PStates
    <2>2. params' \in Seq(0..ParamMax) /\ current' \in 0..ParamMax \cup {NoParam}
      BY <1>1, <1>2
    <2>3. /\ inter' \in Seq(Byte) /\ osc' \in Seq(Byte) /\ dcs' \in Seq(Byte)
          /\ utf8' \in Seq(Byte)
      BY <1>1, <1>2
    <2>4. expected' \in {0, 2, 3, 4} /\ Len(utf8') <= expected'
      BY <1>1, <1>2
    <2> QED
      BY <1>1, <2>1, <2>2, <2>3, <2>4 DEF ParserTypeOK
  <1> QED
    BY <1>1, <1>3 DEF ParserInv, StartsClean, CollectedInState, PartialChar

LEMMA ParserInvNext == ParserInv /\ [ParserNext]_parserVars => ParserInv'
  <1> SUFFICES ASSUME ParserInv, [ParserNext]_parserVars PROVE ParserInv'
    OBVIOUS
  <1>1. pendingDcs \in BOOLEAN /\ resets \in BOOLEAN
    BY DEF ParserInv, ParserTypeOK
  <1>2. ASSUME NEW b \in Bytes, ReceiveByte(b) PROVE ParserInv'
    <2>1. b \in Byte /\ Step(b) /\ resets' \in BOOLEAN
      BY <1>1, <1>2, ParserAssumption DEF ReceiveByte, Byte
    <2>2. CASE Abort(b) \/ StartEscape(b)
      BY <1>1, <2>1, <2>2, ClearKeeps DEF Abort, StartEscape, Clear, Goto
    <2>3. CASE Ground(b) \/ Escape(b) \/ EscapeIntermediate(b) \/ Header(b) \/ CsiIgnore(b)
      BY <2>1, <2>3, GroundKeeps, EscapeKeeps, HeaderKeeps
    <2>4. CASE DcsPassthrough(b) \/ DcsIgnore(b) \/ OscString(b) \/ SosPmApcString(b)
      BY <2>1, <2>4, StringKeeps
    <2> QED
      BY <2>1, <2>2, <2>3, <2>4 DEF Step
  <1>3. CASE Renew
    BY <1>3, ClearKeeps DEF Renew, Goto
  <1>4. CASE UNCHANGED parserVars
    BY <1>4 DEF parserVars, csiVars, strVars, utfVars, ParserInv, ParserTypeOK, StartsClean,
                CollectedInState, PartialChar
  <1> QED
    BY <1>2, <1>3, <1>4 DEF ParserNext, EndBatch, ResetParser

(* Whatever bytes arrive and wherever a sequence is broken off: no parameter
   leaves its range, the next sequence begins with nothing of the last one, a
   string and a partial character are collected in their own states only, and
   a character ends with the last byte it announced. *)
THEOREM ParserTheorem == ParserSpec => []ParserInv
  BY ParserInvInit, ParserInvNext, PTL DEF ParserSpec

-------------------------------------------------------------------------------
(* The text of a control sequence.  Which bytes make it, and what one more
   does to a text that is well formed so far. *)
Graphic == 32..126

LEMMA TextGrows ==
    ASSUME NEW s \in Seq(Graphic), NEW b \in Graphic
    PROVE  /\ Append(s, b) \in Seq(Graphic) /\ Append(s, b) # <<>>
           /\ Len(Append(s, b)) = Len(s) + 1
           /\ DOMAIN Append(s, b) = 1..(Len(s) + 1)
           /\ Append(s, b)[Len(s) + 1] = b
           /\ DOMAIN s = 1..Len(s) /\ Len(s) \in Nat
           /\ \A i \in 1..Len(s) : Append(s, b)[i] = s[i]
           /\ s # <<>> => 1 \in 1..Len(s) /\ Len(s) \in 1..Len(s)
  <1>1. /\ Append(s, b) \in Seq(Graphic) /\ Len(Append(s, b)) = Len(s) + 1
        /\ DOMAIN Append(s, b) = 1..(Len(s) + 1) /\ Append(s, b)[Len(s) + 1] = b
        /\ DOMAIN s = 1..Len(s) /\ Len(s) \in Nat
    OBVIOUS
  <1>2. \A i \in 1..Len(s) : Append(s, b)[i] = s[i]
    OBVIOUS
  <1>3. Append(s, b) # <<>>
    <2>1. Len(s) + 1 # 0 /\ Len(<<>>) = 0
      OBVIOUS
    <2> QED BY <1>1, <2>1
  <1>4. s # <<>> => 1 \in 1..Len(s) /\ Len(s) \in 1..Len(s)
    OBVIOUS
  <1> QED BY <1>1, <1>2, <1>3, <1>4

LEMMA EmptyText == TextValid(<<>>) /\ \A i \in DOMAIN <<>> : <<>>[i] \notin Intermediates
  BY DEF TextValid

(* A text without a separator is its own leading part; behind the first
   separator the leading part stays what it was. *)
Bare(s) == Split(s, 58) = <<s>>

LEMMA BareText == Bare(<<>>)
  BY SplitEmpty DEF Bare

LEMMA BareGrows ==
    ASSUME NEW s \in Seq(Graphic), NEW b \in Graphic, b # 58, Bare(s)
    PROVE  Bare(Append(s, b))
  <1> DEFINE t == Append(s, b)
             f == <<s>>
  <1>1. Split(t, 58) = Cut(f, b, 58)
    BY SplitAppend DEF Bare
  <1>2. Len(f) = 1 /\ f[1] = s
    OBVIOUS
  <1>3. Cut(f, b, 58) = [f EXCEPT ![1] = Append(@, b)]
    BY <1>2 DEF Cut
  <1>4. [f EXCEPT ![1] = Append(@, b)] = <<t>>
    OBVIOUS
  <1> QED BY <1>1, <1>3, <1>4 DEF Bare

LEMMA BareIsLeading ==
    ASSUME NEW s, Bare(s)
    PROVE  Leading(s) = s /\ ~HasSubParameters(s)
  <1> DEFINE f == <<s>>
  <1>1. Len(f) = 1 /\ f[1] = s
    OBVIOUS
  <1> QED BY <1>1 DEF Bare, Leading, HasSubParameters

LEMMA LeadingSplits ==
    ASSUME NEW s \in Seq(Graphic), Bare(s)
    PROVE  HasSubParameters(Append(s, 58)) /\ Leading(Append(s, 58)) = s
  <1> DEFINE f == <<s>>
             none == <<>>
             g == Append(f, none)
  <1>1. Split(Append(s, 58), 58) = Cut(f, 58, 58)
    BY SplitAppend DEF Bare, Graphic
  <1>2. Cut(f, 58, 58) = g
    BY DEF Cut
  <1>3. Len(g) = 2 /\ g[1] = s
    OBVIOUS
  <1> QED BY <1>1, <1>2, <1>3 DEF Leading, HasSubParameters

LEMMA LeadingStays ==
    ASSUME NEW s \in Seq(Graphic), NEW b \in Graphic, HasSubParameters(s)
    PROVE  HasSubParameters(Append(s, b)) /\ Leading(Append(s, b)) = Leading(s)
  <1> DEFINE f == Split(s, 58)
             g == Split(Append(s, b), 58)
             n == Len(f)
             none == <<>>
             Texts == Seq(Graphic)
  <1>1. f \in Seq(Texts) /\ g = Cut(f, b, 58) /\ n > 1
    BY SplitAppend DEF Pieces, HasSubParameters
  <1>2. none \in Texts
    OBVIOUS
  <1>6. Leading(s) = f[1] /\ Leading(Append(s, b)) = g[1]
        /\ (HasSubParameters(Append(s, b)) <=> Len(g) > 1)
    BY DEF Leading, HasSubParameters
  <1> HIDE DEF f, g, none, Texts
  <1>7. n \in Nat
    BY <1>1, LenProperties
  <1>3. 1 \in 1..n /\ n # 1
    <2>1. \A k \in Nat : k > 1 => 1 \in 1..k /\ k # 1
      OBVIOUS
    <2> HIDE DEF n
    <2> QED BY <1>1, <1>7, <2>1
  <1>4. CASE b = 58
    <2>1. g = Append(f, none)
      BY <1>1, <1>4 DEF Cut, none
    <2>2. Len(g) = n + 1 /\ g[1] = f[1]
      BY <1>1, <1>2, <1>3, <1>7, <2>1
    <2> QED BY <1>3, <1>6, <1>7, <2>2
  <1>5. CASE b # 58
    <2>1. g = [f EXCEPT ![n] = Append(@, b)]
      BY <1>1, <1>5 DEF Cut
    <2>2. Len(g) = n /\ g[1] = f[1]
      BY <1>1, <1>3, <1>7, <2>1
    <2> QED BY <1>1, <1>6, <2>2
  <1> QED BY <1>4, <1>5

(* A text that is malformed stays so. *)
LEMMA Malformed ==
    ASSUME NEW s \in Seq(Graphic), NEW b \in Graphic, TextValid(Append(s, b))
    PROVE  TextValid(s)
  <1> DEFINE t == Append(s, b)
  <1>1. /\ Len(t) = Len(s) + 1 /\ DOMAIN t = 1..(Len(s) + 1) /\ DOMAIN s = 1..Len(s)
        /\ Len(s) \in Nat /\ \A i \in 1..Len(s) : t[i] = s[i]
    BY TextGrows
  <1>2. TextValid(t)
    OBVIOUS
  <1> HIDE DEF t
  <1>3. ASSUME NEW i \in 1..Len(s)
        PROVE  /\ s[i] \in Markers => i = 1
               /\ s[i] \in Intermediates => \A j \in i..Len(s) : s[j] \in Intermediates
    <2>1. i \in DOMAIN t /\ t[i] = s[i]
      BY <1>1
    <2>2. \A j \in i..Len(s) : j \in i..Len(t) /\ t[j] = s[j]
      BY <1>1
    <2> QED BY <1>2, <2>1, <2>2 DEF TextValid
  <1> QED BY <1>1, <1>3 DEF TextValid

(* A parameter byte before any intermediate one. *)
NoneBetween(s) == \A i \in DOMAIN s : s[i] \notin Intermediates

LEMMA ParameterText ==
    ASSUME NEW s \in Seq(Graphic), NEW b \in Graphic, TextValid(s), NoneBetween(s),
           b \in Digits \cup {58, 59} \/ (b \in Markers /\ Len(s) = 0)
    PROVE  TextValid(Append(s, b)) /\ NoneBetween(Append(s, b))
  <1> DEFINE t == Append(s, b)
  <1>1. /\ Len(t) = Len(s) + 1 /\ DOMAIN t = 1..(Len(s) + 1) /\ DOMAIN s = 1..Len(s)
        /\ Len(s) \in Nat /\ \A i \in 1..Len(s) : t[i] = s[i]
        /\ t[Len(s) + 1] = b
    BY TextGrows
  <1>2. b \notin Intermediates /\ (b \in Markers => Len(s) = 0)
    <2>1. b \in 48..57 \/ b \in 58..59 \/ (b \in 60..63 /\ Len(s) = 0)
      BY DEF Digits, Markers
    <2>2. \A c \in Nat : /\ c \in 48..57 \/ c \in 58..59 => c \notin 32..47 /\ c \notin 60..63
                         /\ c \in 60..63 => c \notin 32..47
      OBVIOUS
    <2>3. b \in Nat
      BY DEF Graphic
    <2> QED BY <2>1, <2>2, <2>3 DEF Intermediates, Markers
  <1> HIDE DEF t
  <1>3. ASSUME NEW i \in DOMAIN t
        PROVE  (t[i] \in Markers => i = 1) /\ t[i] \notin Intermediates
    <2>1. CASE i \in 1..Len(s)
      BY <1>1, <2>1 DEF TextValid, NoneBetween
    <2>2. CASE i = Len(s) + 1
      BY <1>1, <1>2, <2>2
    <2> QED BY <1>1, <2>1, <2>2
  <1> QED BY <1>3 DEF TextValid, NoneBetween, t

(* An intermediate byte. *)
LEMMA IntermediateText ==
    ASSUME NEW s \in Seq(Graphic), NEW b \in Intermediates, TextValid(s)
    PROVE  TextValid(Append(s, b))
  <1> DEFINE t == Append(s, b)
  <1>0. b \in Graphic /\ b \notin Markers
    BY DEF Intermediates, Graphic, Markers
  <1>1. /\ Len(t) = Len(s) + 1 /\ DOMAIN t = 1..(Len(s) + 1) /\ DOMAIN s = 1..Len(s)
        /\ Len(s) \in Nat /\ \A i \in 1..Len(s) : t[i] = s[i]
        /\ t[Len(s) + 1] = b
    BY <1>0, TextGrows
  <1> HIDE DEF t
  <1>3. ASSUME NEW i \in DOMAIN t
        PROVE  /\ t[i] \in Markers => i = 1
               /\ t[i] \in Intermediates => \A j \in i..Len(t) : t[j] \in Intermediates
    <2>1. CASE i \in 1..Len(s)
      <3>1. /\ t[i] = s[i]
            /\ s[i] \in Markers => i = 1
            /\ s[i] \in Intermediates => \A j \in i..Len(s) : s[j] \in Intermediates
        BY <1>1, <2>1 DEF TextValid
      <3>2. ASSUME t[i] \in Intermediates, NEW j \in i..Len(t) PROVE t[j] \in Intermediates
        <4>1. CASE j = Len(s) + 1
          BY <1>1, <4>1
        <4>2. CASE j # Len(s) + 1
          <5>1. j \in i..Len(s) /\ j \in 1..Len(s)
            BY <1>1, <2>1, <4>2
          <5> QED BY <1>1, <3>1, <3>2, <5>1
        <4> QED BY <4>1, <4>2
      <3> QED BY <3>1, <3>2
    <2>2. CASE i = Len(s) + 1
      <3>1. \A j \in i..Len(t) : j = i
        BY <1>1, <2>2
      <3> QED BY <1>0, <1>1, <2>2, <3>1
    <2> QED BY <1>1, <2>1, <2>2
  <1> QED BY <1>3 DEF TextValid, t

(* What makes a text malformed: a marker that is not in front, a parameter byte
   behind an intermediate one. *)
LEMMA MalformedText ==
    ASSUME NEW s \in Seq(Graphic), NEW b \in Graphic,
           \/ b \in Markers /\ s # <<>>
           \/ b \notin Intermediates /\ s # <<>> /\ s[Len(s)] \in Intermediates
    PROVE  ~TextValid(Append(s, b))
  <1> DEFINE t == Append(s, b)
             n == Len(s)
  <1>1. /\ Len(t) = n + 1 /\ DOMAIN t = 1..(n + 1)
        /\ n \in Nat /\ \A i \in 1..n : t[i] = s[i]
        /\ t[n + 1] = b /\ (s # <<>> => n \in 1..n)
    BY TextGrows
  <1> HIDE DEF t, n
  <1> SUFFICES ASSUME TextValid(t) PROVE FALSE
    BY DEF t
  <1>2. n + 1 \in DOMAIN t /\ n + 1 \in n..Len(t)
    BY <1>1
  <1>3. b \in Markers => n + 1 = 1
    BY <1>1, <1>2 DEF TextValid
  <1>4. s # <<>> => n # 0 /\ n \in DOMAIN t /\ t[n] = s[n]
    BY <1>1
  <1>5. CASE b \in Markers /\ s # <<>>
    BY <1>1, <1>3, <1>4, <1>5
  <1>6. CASE b \notin Intermediates /\ s # <<>> /\ s[n] \in Intermediates
    BY <1>1, <1>2, <1>4, <1>6 DEF TextValid
  <1> QED BY <1>5, <1>6 DEF n

(* Reading digit by digit, and saturating each time, gives the saturated
   number. *)
LEMMA SaturateOnce ==
    ASSUME NEW n \in Nat, NEW d \in 0..9
    PROVE  Saturate(Saturate(n) * 10 + d) = Saturate(n * 10 + d)
  <1>1. ParamMax \in Nat
    BY ParserAssumption
  <1>2. CASE n > ParamMax
    <2>1. n * 10 + d > ParamMax /\ ParamMax * 10 + d >= ParamMax
      BY <1>1, <1>2
    <2> QED BY <1>1, <1>2, <2>1 DEF Saturate
  <1>3. CASE ~(n > ParamMax)
    BY <1>3 DEF Saturate
  <1> QED BY <1>2, <1>3

LEMMA NumberAppend ==
    ASSUME NEW digits \in Seq(Digit), NEW d \in Digit
    PROVE  /\ Number(digits) \in Nat
           /\ Number(Append(digits, d)) = Saturate(Number(digits) * 10 + (d - 48))
  <1> DEFINE n == Spelled(digits)
  <1>1. n \in Nat /\ Spelled(Append(digits, d)) = n * 10 + (d - 48)
    BY SpelledAppend DEF Worth
  <1>2. d - 48 \in 0..9
    BY DEF Digit
  <1>3. Number(digits) = Saturate(n) /\ Number(Append(digits, d)) = Saturate(n * 10 + (d - 48))
    BY <1>1 DEF Number
  <1> HIDE DEF n
  <1>4. Saturate(n) \in Nat
    BY <1>1, ParserAssumption DEF Saturate
  <1> DEFINE e == d - 48
  <1>5. Saturate(Saturate(n) * 10 + e) = Saturate(n * 10 + e)
    <2>1. e \in 0..9
      BY <1>2
    <2> HIDE DEF e
    <2> QED BY <1>1, <2>1, SaturateOnce
  <1> QED BY <1>3, <1>4, <1>5 DEF e

(* What was read of a text: its markers and intermediates, the numbers pushed
   and the one being read, which the text has between its semicolons. *)
TextFields(s) == Split(Kept(s, Digits \cup {59}), 59)
Read(s, ps, cur, is) ==
    /\ is = TextInter(s)
    /\ TextFields(s) \in Pieces(Digit)
    /\ Len(TextFields(s)) = Len(ps) + 1
    /\ \A i \in 1..Len(ps) : ps[i] = Number(TextFields(s)[i])
    /\ cur = Number(TextFields(s)[Len(ps) + 1])

LEMMA NothingRead == Read(<<>>, <<>>, 0, <<>>)
  <1>1. Kept(<<>>, Digits \cup {59}) = <<>> /\ TextInter(<<>>) = <<>>
    BY KeptEmpty DEF TextInter
  <1>2. TextFields(<<>>) = <<<<>>>>
    BY <1>1, SplitEmpty DEF TextFields
  <1>3. Number(<<>>) = 0
    BY SpelledEmpty, ParserAssumption DEF Number, Saturate
  <1> DEFINE f == TextFields(<<>>)
             none == <<>>
  <1>4. f \in Pieces(Digit)
    BY <1>2, NoPieces
  <1>5. Len(f) = 1 /\ f[1] = none /\ Len(none) = 0
    BY <1>2
  <1>6. Number(none) = 0 /\ TextInter(none) = none
    BY <1>1, <1>3
  <1>7. f = TextFields(none)
    OBVIOUS
  <1> HIDE DEF f, none
  <1>8. Read(none, none, 0, none)
    BY <1>4, <1>5, <1>6, <1>7 DEF Read
  <1> QED BY <1>8 DEF none

(* The fields after one more byte. *)
LEMMA FieldsAppend ==
    ASSUME NEW s \in Seq(Graphic), NEW b \in Graphic
    PROVE  /\ b \in Digits \cup {59} => TextFields(Append(s, b)) = Cut(TextFields(s), b, 59)
           /\ b \notin Digits \cup {59} => TextFields(Append(s, b)) = TextFields(s)
           /\ TextInter(Append(s, b)) = IF b \in Markers \cup Intermediates
                                        THEN Append(TextInter(s), b) ELSE TextInter(s)
  <1> DEFINE some == Digits \cup {59}
             k == Kept(s, some)
  <1>1. k \in Seq(Graphic)
    BY KeptType
  <1>2. Kept(Append(s, b), some) = IF b \in some THEN Append(k, b) ELSE k
    BY KeptAppend
  <1>3. TextInter(Append(s, b)) = IF b \in Markers \cup Intermediates
                                  THEN Append(TextInter(s), b) ELSE TextInter(s)
    BY KeptAppend DEF TextInter
  <1> HIDE DEF some, k
  <1>4. Split(Append(k, b), 59) = Cut(Split(k, 59), b, 59)
    BY <1>1, SplitAppend
  <1> QED BY <1>2, <1>3, <1>4 DEF TextFields, some, k

(* A digit extends the last number. *)
LEMMA DigitRead ==
    ASSUME NEW s \in Seq(Graphic), NEW b \in Digits, NEW ps \in Seq(Nat), NEW cur, NEW is,
           Read(s, ps, cur, is)
    PROVE  Read(Append(s, b), ps, Saturate(cur * 10 + (b - 48)), is)
  <1> DEFINE f == TextFields(s)
             n == Len(ps) + 1
             last == f[n]
             g == [f EXCEPT ![n] = Append(last, b)]
             t == Append(s, b)
  <1>1. b \in Digit /\ b \in Graphic /\ b \notin Markers \cup Intermediates /\ b # 59
    BY DEF Digit, Digits, Graphic, Markers, Intermediates
  <1>2. /\ f \in Seq(Seq(Digit)) /\ f # <<>> /\ Len(f) = n /\ is = TextInter(s)
        /\ \A i \in 1..Len(ps) : ps[i] = Number(f[i])
        /\ cur = Number(last)
    BY DEF Read, Pieces
  <1>3. /\ Len(ps) \in Nat /\ n \in Nat /\ n \in 1..Len(f)
        /\ \A i \in 1..Len(ps) : i \in 1..Len(f) /\ i # n
    BY <1>2
  <1>4. TextFields(t) = Cut(f, b, 59) /\ TextInter(t) = is
    BY <1>1, <1>2, FieldsAppend
  <1> HIDE DEF f, t
  <1>5. last \in Seq(Digit)
    BY <1>2, <1>3
  <1>6. TextFields(t) = g
    BY <1>1, <1>2, <1>4 DEF Cut
  <1> DEFINE new == Append(last, b)
  <1>7. new \in Seq(Digit) /\ Number(new) = Saturate(cur * 10 + (b - 48))
    BY <1>1, <1>2, <1>5, NumberAppend
  <1> HIDE DEF new, last, n
  <1>8. /\ g \in Seq(Seq(Digit)) /\ Len(g) = n /\ g[n] = new
        /\ \A i \in 1..Len(f) : i # n => g[i] = f[i]
    BY <1>2, <1>3, <1>7 DEF new
  <1>9. g # <<>>
    <2>1. Len(<<>>) = 0 /\ n # 0
      BY <1>3
    <2> QED BY <1>8, <2>1
  <1> HIDE DEF g
  <1> QED BY <1>2, <1>3, <1>4, <1>6, <1>7, <1>8, <1>9 DEF Read, Pieces, n, t

(* A semicolon pushes it and begins the next. *)
LEMMA SemicolonRead ==
    ASSUME NEW s \in Seq(Graphic), NEW ps \in Seq(Nat), NEW cur \in Nat, NEW is,
           Read(s, ps, cur, is)
    PROVE  Read(Append(s, 59), Append(ps, cur), 0, is)
  <1> DEFINE f == TextFields(s)
             n == Len(ps) + 1
             none == <<>>
             g == Append(f, none)
             t == Append(s, 59)
             q == Append(ps, cur)
  <1>1. 59 \in Graphic /\ 59 \notin Markers \cup Intermediates
    BY DEF Graphic, Markers, Intermediates
  <1>2. /\ f \in Seq(Seq(Digit)) /\ f # <<>> /\ Len(f) = n /\ is = TextInter(s)
        /\ \A i \in 1..Len(ps) : ps[i] = Number(f[i])
        /\ cur = Number(f[n])
    BY DEF Read, Pieces
  <1>3. Len(ps) \in Nat /\ n \in Nat
    OBVIOUS
  <1>4. TextFields(t) = Cut(f, 59, 59) /\ TextInter(t) = is
    BY <1>1, <1>2, FieldsAppend
  <1>5. none \in Seq(Digit) /\ Number(none) = 0
    BY SpelledEmpty, ParserAssumption DEF Number, Saturate
  <1>6. Len(q) = n /\ q[n] = cur /\ \A i \in 1..Len(ps) : q[i] = ps[i]
    OBVIOUS
  <1> HIDE DEF f, t, none, q
  <1>7. TextFields(t) = g
    BY <1>4 DEF Cut, none
  <1>8. /\ g \in Seq(Seq(Digit)) /\ Len(g) = Len(f) + 1 /\ g[Len(f) + 1] = none
        /\ \A i \in 1..Len(f) : g[i] = f[i]
    BY <1>2, <1>5
  <1>9. g # <<>>
    <2>1. Len(<<>>) = 0 /\ n + 1 # 0
      BY <1>3
    <2> QED BY <1>2, <1>8, <2>1
  <1> HIDE DEF g
  <1>10. \A i \in 1..Len(q) : q[i] = Number(g[i])
    <2> SUFFICES ASSUME NEW i \in 1..n PROVE q[i] = Number(g[i])
      BY <1>6
    <2>1. i \in 1..Len(f) /\ (i = n \/ i \in 1..Len(ps))
      BY <1>2, <1>3
    <2> QED BY <1>2, <1>6, <1>8, <2>1
  <1>11. Len(g) = Len(q) + 1 /\ g[Len(q) + 1] = none
    BY <1>2, <1>6, <1>8
  <1>12. Read(t, q, 0, is)
    BY <1>4, <1>5, <1>7, <1>8, <1>9, <1>10, <1>11 DEF Read, Pieces
  <1> QED BY <1>12 DEF t, q

(* A marker or an intermediate is collected. *)
LEMMA MarkRead ==
    ASSUME NEW s \in Seq(Graphic), NEW b \in Markers \cup Intermediates, NEW ps, NEW cur, NEW is,
           Read(s, ps, cur, is)
    PROVE  Read(Append(s, b), ps, cur, Append(is, b))
  <1>1. b \in Graphic /\ b \notin Digits \cup {59}
    BY DEF Graphic, Digits, Markers, Intermediates
  <1>2. TextFields(Append(s, b)) = TextFields(s) /\ TextInter(Append(s, b)) = Append(TextInter(s), b)
    BY <1>1, FieldsAppend
  <1> QED BY <1>2 DEF Read

(* What was read when the sequence ends is what its text says. *)
LEMMA ReadIsText ==
    ASSUME NEW s, NEW ps \in Seq(Nat), NEW cur \in Nat, NEW is, Read(s, ps, cur, is)
    PROVE  Append(ps, cur) = TextParams(s) /\ is = TextInter(s)
  <1> DEFINE f == TextFields(s)
             n == Len(ps) + 1
             q == Append(ps, cur)
  <1>1. /\ f \in Seq(Seq(Digit)) /\ Len(f) = n /\ is = TextInter(s)
        /\ \A i \in 1..Len(ps) : ps[i] = Number(f[i])
        /\ cur = Number(f[n])
    BY DEF Read, Pieces
  <1>2. TextParams(s) = [i \in DOMAIN f |-> Number(f[i])]
    BY DEF TextParams, TextFields
  <1>3. /\ q \in [1..n -> Nat] /\ q[n] = cur /\ \A i \in 1..Len(ps) : q[i] = ps[i]
        /\ n \in Nat /\ \A i \in 1..n : i = n \/ i \in 1..Len(ps)
    <2>1. q \in Seq(Nat) /\ Len(q) = n /\ n \in Nat
      OBVIOUS
    <2>2. q[n] = cur /\ \A i \in 1..Len(ps) : q[i] = ps[i]
      OBVIOUS
    <2>3. \A i \in 1..n : i = n \/ i \in 1..Len(ps)
      OBVIOUS
    <2> HIDE DEF q
    <2> QED BY <2>1, <2>2, <2>3
  <1> HIDE DEF f, q, n
  <1>4. DOMAIN f = 1..n
    BY <1>1
  <1>5. \A i \in 1..n : q[i] = Number(f[i])
    BY <1>1, <1>3
  <1>6. q = [i \in 1..n |-> Number(f[i])]
    BY <1>3, <1>5
  <1> QED BY <1>1, <1>2, <1>4, <1>6 DEF q

-------------------------------------------------------------------------------
(* Where the parser is in a control sequence, in terms of its text. *)
Collapsed ==
    /\ HasSubParameters(since)
    /\ params = TextParams(Leading(since)) /\ inter = TextInter(Leading(since))
TextInv ==
    /\ since \in Seq(Graphic)
    /\ pstate = "CsiEntry" => Len(since) = 0
    /\ pstate = "CsiParam" => Len(since) # 0 /\ TextValid(since) /\ NoneBetween(since)
    /\ pstate = "CsiIntermediate" =>
          Len(since) # 0 /\ TextValid(since) /\ since[Len(since)] \in Intermediates
    /\ pstate \in {"CsiParam", "CsiIntermediate"} =>
          Read(since, params, CurrentOr0, inter) /\ Bare(since)
    /\ pstate = "CsiIgnore" => ~TextValid(since) \/ Collapsed

LEMMA TextSoFar ==
    ASSUME ParserInv, TextInv, pstate \in {"CsiEntry", "CsiParam", "CsiIntermediate"}
    PROVE  /\ Read(since, params, CurrentOr0, inter) /\ TextValid(since) /\ ignore = FALSE
           /\ params \in Seq(Nat) /\ CurrentOr0 \in Nat
           /\ pstate \in {"CsiEntry", "CsiParam"} => NoneBetween(since)
           /\ Bare(since)
  <1>1. ignore = FALSE
    BY DEF ParserInv, StartsClean, ParserTypeOK
  <1>2. params \in Seq(Nat) /\ CurrentOr0 \in Nat
    <2>1. params \in Seq(0..ParamMax) /\ CurrentOr0 \in 0..ParamMax
      BY CurrentIsParam DEF ParserInv, ParserTypeOK
    <2>2. 0..ParamMax \subseteq Nat
      OBVIOUS
    <2>3. Seq(0..ParamMax) \subseteq Seq(Nat)
      BY <2>2, SeqMonotonic
    <2> QED BY <2>1, <2>2, <2>3
  <1>3. CASE pstate = "CsiEntry"
    <2>1. since = <<>>
      BY <1>3, EmptySeq DEF TextInv
    <2>2. params = <<>> /\ CurrentOr0 = 0 /\ inter = <<>>
      BY <1>3 DEF ParserInv, StartsClean, CurrentOr0
    <2> QED BY <1>1, <1>2, <2>1, <2>2, NothingRead, EmptyText, BareText DEF NoneBetween
  <1>4. CASE pstate # "CsiEntry"
    BY <1>1, <1>2, <1>4 DEF TextInv
  <1> QED BY <1>3, <1>4

(* A byte of the header of a control sequence. *)
LEMMA HeaderText ==
    ASSUME ParserInv, TextInv, NEW b \in Byte, Header(b), Remember(b),
           pstate \in {"CsiEntry", "CsiParam", "CsiIntermediate"}
    PROVE  TextInv'
  <1>1. /\ Read(since, params, CurrentOr0, inter) /\ TextValid(since) /\ ignore = FALSE
        /\ params \in Seq(Nat) /\ CurrentOr0 \in Nat
        /\ pstate \in {"CsiEntry", "CsiParam"} => NoneBetween(since)
        /\ Bare(since)
    BY TextSoFar
  <1>2. since \in Seq(Graphic) /\ <<>> \in Seq(Graphic)
    BY DEF TextInv
  <1>3. pstate \in CsiStates
    BY DEF CsiStates
  <1>4. ASSUME NEW x, NEW y, To(x, y) PROVE pstate' = x
    BY <1>3, <1>4 DEF To, Goto
  <1>5. pstate' \in CsiStates => since' = IF b \in Graphic THEN Append(since, b) ELSE since
    BY <1>3 DEF Remember, Graphic
  <1>6. b \in Graphic => /\ Append(since, b) \in Seq(Graphic)
                         /\ Len(Append(since, b)) = Len(since) + 1
                         /\ Len(since) \in Nat /\ Append(since, b)[Len(since) + 1] = b
    BY <1>2, TextGrows
  <1>7. CASE b \in Finals
    <2>1. pstate' = "Ground"
      BY <1>3, <1>7 DEF Header, Dispatch, DispatchCsi, Goto
    <2>2. since' = <<>>
      BY <2>1 DEF Remember, CsiStates, DcsStates
    <2> QED BY <1>2, <2>1, <2>2 DEF TextInv
  <1>8. CASE b \in Digits \cup {59} /\ ReadParam(b) /\ ~IsIntermediate
    <2>1. pstate' = "CsiParam" /\ inter' = inter
      BY <1>4, <1>8 DEF ReadParam
    <2>2. b \in Graphic
      BY <1>8 DEF Digits, Graphic
    <2>3. since' = Append(since, b)
      BY <1>5, <2>1, <2>2 DEF CsiStates
    <2>4. pstate \in {"CsiEntry", "CsiParam"}
      BY <1>8 DEF IsIntermediate
    <2>5. TextValid(since') /\ NoneBetween(since')
      BY <1>1, <1>2, <1>8, <2>2, <2>3, <2>4, ParameterText
    <2>6. Read(since', params', CurrentOr0', inter')
      <3>1. CASE b \in Digits
        <4>1. b # 59
          BY <3>1 DEF Digits
        <4>2. params' = params /\ current' = Saturate(CurrentOr0 * 10 + (b - 48))
          BY <1>8, <4>1 DEF ReadParam, AddDigit
        <4>3. CurrentOr0' = current'
          <5>1. current' \in Nat
            BY <1>1, <3>1, <4>2, ParserAssumption DEF Saturate, Digits
          <5> QED BY <5>1 DEF CurrentOr0, NoParam
        <4>4. Read(Append(since, b), params, Saturate(CurrentOr0 * 10 + (b - 48)), inter)
          BY <1>1, <1>2, <3>1, DigitRead
        <4> QED BY <2>1, <2>3, <4>2, <4>3, <4>4
      <3>2. CASE b = 59
        <4>1. b \notin Digits
          BY <3>2 DEF Digits
        <4>2. params' = Append(params, CurrentOr0) /\ CurrentOr0' = 0
          BY <1>8, <4>1 DEF ReadParam, PushParam, CurrentOr0
        <4>3. Read(Append(since, 59), Append(params, CurrentOr0), 0, inter)
          BY <1>1, <1>2, SemicolonRead
        <4> QED BY <2>1, <2>3, <3>2, <4>2, <4>3
      <3> QED BY <1>8, <3>1, <3>2
    <2>7. since' \in Seq(Graphic) /\ Len(since') # 0
      BY <1>6, <2>2, <2>3
    <2>8. Bare(since')
      <3>1. b # 58
        BY <1>8 DEF Digits
      <3> QED BY <1>1, <1>2, <2>2, <2>3, <3>1, BareGrows
    <2> QED BY <2>1, <2>5, <2>6, <2>7, <2>8 DEF TextInv
  <1>9. CASE b = 58 /\ SubParameter
    <2>1. pstate' = "CsiIgnore" /\ b \in Graphic
      BY <1>9 DEF SubParameter, Goto, Graphic
    <2>2. since' = Append(since, b)
      BY <1>5, <2>1 DEF CsiStates
    <2>3. /\ HasSubParameters(since') /\ Leading(since') = since
      BY <1>1, <1>2, <1>9, <2>2, LeadingSplits
    <2>4. params' = Append(params, CurrentOr0) /\ inter' = inter
      BY <1>9 DEF SubParameter, PushParam
    <2>5. Append(params, CurrentOr0) = TextParams(since) /\ inter = TextInter(since)
      BY <1>1, ReadIsText
    <2>6. Collapsed'
      BY <2>3, <2>4, <2>5 DEF Collapsed
    <2> QED BY <1>6, <2>1, <2>2, <2>6 DEF TextInv
  <1>10. CASE IsEntry /\ b \in Markers /\ Collect(b) /\ To("CsiParam", "DcsParam")
    <2>1. pstate' = "CsiParam" /\ b \in Graphic /\ pstate = "CsiEntry"
      BY <1>4, <1>10 DEF Markers, Graphic, IsEntry
    <2>2. since' = Append(since, b)
      BY <1>5, <2>1 DEF CsiStates
    <2>3. Len(since) = 0
      BY <2>1 DEF TextInv
    <2>4. TextValid(since') /\ NoneBetween(since')
      BY <1>1, <1>2, <1>10, <2>1, <2>2, <2>3, ParameterText
    <2>5. inter' = Append(inter, b) /\ params' = params /\ CurrentOr0' = CurrentOr0
      BY <1>10 DEF Collect, CurrentOr0
    <2>6. Read(since', params', CurrentOr0', inter')
      BY <1>1, <1>2, <1>10, <2>2, <2>5, MarkRead
    <2>7. Bare(since')
      <3>1. b # 58
        BY <1>10 DEF Markers
      <3> QED BY <1>1, <1>2, <2>1, <2>2, <3>1, BareGrows
    <2> QED BY <1>6, <2>1, <2>2, <2>4, <2>6, <2>7 DEF TextInv
  <1>11. CASE b \in Intermediates /\ Collect(b) /\ To("CsiIntermediate", "DcsIntermediate")
    <2>1. pstate' = "CsiIntermediate" /\ b \in Graphic
      BY <1>4, <1>11 DEF Intermediates, Graphic
    <2>2. since' = Append(since, b)
      BY <1>5, <2>1 DEF CsiStates
    <2>3. TextValid(since')
      BY <1>1, <1>2, <1>11, <2>2, IntermediateText
    <2>4. inter' = Append(inter, b) /\ params' = params /\ CurrentOr0' = CurrentOr0
      BY <1>11 DEF Collect, CurrentOr0
    <2>5. Read(since', params', CurrentOr0', inter')
      BY <1>1, <1>2, <1>11, <2>2, <2>4, MarkRead
    <2>6. since' \in Seq(Graphic) /\ Len(since') # 0 /\ since'[Len(since')] = b
      BY <1>6, <2>1, <2>2
    <2>7. Bare(since')
      <3>1. b # 58
        BY <1>11 DEF Intermediates
      <3> QED BY <1>1, <1>2, <2>1, <2>2, <3>1, BareGrows
    <2> QED BY <1>11, <2>1, <2>3, <2>5, <2>6, <2>7 DEF TextInv
  <1>12. CASE Invalid /\ ((IsParam /\ b \in Markers) \/ (IsIntermediate /\ b \in 48..63))
    <2>1. pstate' = "CsiIgnore" /\ b \in Graphic
      BY <1>4, <1>12 DEF Invalid, Markers, Graphic
    <2>2. since' = Append(since, b)
      BY <1>5, <2>1 DEF CsiStates
    <2>3. since # <<>>
      <3>1. Len(since) # 0
        BY <1>12 DEF TextInv, IsParam, IsIntermediate
      <3> QED BY <1>2, <3>1, EmptySeq
    <2>4. \/ b \in Markers /\ since # <<>>
          \/ b \notin Intermediates /\ since # <<>> /\ since[Len(since)] \in Intermediates
      <3>1. CASE IsParam /\ b \in Markers
        BY <2>3, <3>1
      <3>2. CASE IsIntermediate /\ b \in 48..63
        BY <2>3, <3>2 DEF TextInv, IsIntermediate, Intermediates
      <3> QED BY <1>12, <3>1, <3>2
    <2>5. ~TextValid(since')
      BY <1>2, <2>1, <2>2, <2>4, MalformedText
    <2> QED BY <1>6, <2>1, <2>2, <2>5 DEF TextInv
  <1>13. CASE UNCHANGED <<pstate, csiVars>> /\ b \notin 32..63 /\ b \notin Finals
    <2>1. b \notin Graphic
      BY <1>13 DEF Finals, Graphic, Byte
    <2>2. since' = since /\ pstate' = pstate
      BY <1>3, <1>5, <1>13, <2>1
    <2>3. params' = params /\ current' = current /\ inter' = inter
      BY <1>13 DEF csiVars
    <2> QED BY <2>2, <2>3 DEF TextInv, CurrentOr0
  <1> QED
    <2>1. pstate \notin {"DcsEntry", "DcsParam"}
      OBVIOUS
    <2>2. CASE b \notin Finals
      <3>1. \/ b \in Digits \cup {59} /\ ReadParam(b) /\ ~IsIntermediate
            \/ b = 58 /\ SubParameter
            \/ IsEntry /\ b \in Markers /\ Collect(b) /\ To("CsiParam", "DcsParam")
            \/ b \in Intermediates /\ Collect(b) /\ To("CsiIntermediate", "DcsIntermediate")
            \/ Invalid /\ ((IsParam /\ b \in Markers) \/ (IsIntermediate /\ b \in 48..63))
            \/ UNCHANGED <<pstate, csiVars>> /\ b \notin 32..63 /\ b \notin Finals
        <4>1. \/ ~IsIntermediate /\ b \in Digits \cup {59} /\ ReadParam(b)
              \/ b = 58 /\ SubParameter
              \/ IsEntry /\ b \in Markers /\ Collect(b) /\ To("CsiParam", "DcsParam")
              \/ b \in Intermediates /\ Collect(b) /\ To("CsiIntermediate", "DcsIntermediate")
              \/ IsParam /\ b \in Markers /\ Invalid
              \/ IsIntermediate /\ b \in 48..63 /\ Invalid
              \/ /\ b \notin 32..63 \/ (pstate \in {"DcsEntry", "DcsParam"} /\ b = 58)
                 /\ UNCHANGED <<pstate, csiVars>>
          BY <2>2, Zenon DEF Header
        <4>2. b \notin 32..63 \/ (pstate \in {"DcsEntry", "DcsParam"} /\ b = 58) => b \notin 32..63
          BY <2>1
        <4> QED BY <2>2, <4>1, <4>2
      <3> QED BY <1>8, <1>9, <1>10, <1>11, <1>12, <1>13, <3>1
    <2> QED BY <1>7, <2>2

-------------------------------------------------------------------------------
(* What a byte emits. *)
LEMMA LastOf ==
    /\ \A x : Last(<<x>>) = x
    /\ \A S : \A s \in Seq(S), x \in S : Last(s \o <<x>>) = x
  <1>1. \A x : Last(<<x>>) = x
    BY DEF Last
  <1>3. ASSUME NEW S, NEW s \in Seq(S), NEW x \in S PROVE Last(s \o <<x>>) = x
    <2> DEFINE t == s \o <<x>>
    <2>1. Len(t) = Len(s) + 1 /\ t[Len(s) + 1] = x
      OBVIOUS
    <2> HIDE DEF t
    <2> QED BY <2>1 DEF Last, t
  <1> QED BY <1>1, <1>3

Kinds == {"print", "execute", "esc", "osc", "dcs_start", "dcs_data", "dcs_end"}
EmitsOther == out' = <<>> \/ Last(out').kind \in Kinds

LEMMA GroundEmits ==
    ASSUME NEW b \in Byte, Ground(b)
    PROVE  EmitsOther
  <1>1. \A c : GroundAction(c).kind \in Kinds /\ Printed(c).kind \in Kinds
    BY DEF GroundAction, Execute, Printed, Kinds
  <1>2. Decode(Append(utf8, b)).kind \in Kinds
    BY <1>1 DEF Decode
  <1>3. \/ out' = <<>>
        \/ \E x : out' = <<x>> /\ x.kind \in Kinds
        \/ \E x, y : out' = <<x>> \o <<y>> /\ y.kind \in Kinds
    <2> DEFINE x == Printed(<<>>)
               y == GroundAction(b)
               d == Decode(Append(utf8, b))
    <2>1. \/ out' = <<>> \/ out' = <<x>> \/ out' = <<y>> \/ out' = <<d>>
          \/ out' = <<x>> \o (IF b < 128 THEN <<y>> ELSE IF IsLead(b) THEN <<>> ELSE <<x>>)
      BY Zenon DEF Ground, Emit, EmitAll, Silent
    <2>2. x.kind \in Kinds /\ y.kind \in Kinds /\ d.kind \in Kinds
      BY <1>1, <1>2
    <2> HIDE DEF x, y, d
    <2>3. <<x>> \o <<>> = <<x>>
      OBVIOUS
    <2>4. \/ out' = <<>> \/ out' = <<x>> \/ out' = <<y>> \/ out' = <<d>>
          \/ out' = <<x>> \o <<y>> \/ out' = <<x>> \o <<>> \/ out' = <<x>> \o <<x>>
      BY <2>1, Zenon
    <2>5. \/ out' = <<>> \/ out' = <<x>> \/ out' = <<y>> \/ out' = <<d>>
          \/ out' = <<x>> \o <<y>> \/ out' = <<x>> \o <<x>>
      BY <2>3, <2>4, Zenon
    <2> QED BY <2>2, <2>5, Zenon
  <1>4. ASSUME NEW x, out' = <<x>>, x.kind \in Kinds PROVE EmitsOther
    BY <1>4, LastOf, Zenon DEF EmitsOther
  <1>5. ASSUME NEW x, NEW y, out' = <<x>> \o <<y>>, y.kind \in Kinds PROVE EmitsOther
    <2>1. <<x>> \in Seq({x, y}) /\ y \in {x, y}
      OBVIOUS
    <2>2. Last(<<x>> \o <<y>>) = y
      BY <2>1, LastOf, Zenon
    <2> QED BY <1>5, <2>2, Zenon DEF EmitsOther
  <1> QED BY <1>3, <1>4, <1>5, Zenon DEF EmitsOther

LEMMA OneEmitted ==
    ASSUME NEW x, Emit(x), x.kind \in Kinds
    PROVE  EmitsOther
  BY LastOf, Zenon DEF Emit, EmitAll, EmitsOther

LEMMA EscapeEmits ==
    ASSUME NEW b \in Byte, Escape(b) \/ EscapeIntermediate(b)
    PROVE  EmitsOther
  <1>1. EscAct(inter, b).kind \in Kinds
    BY DEF EscAct, Kinds
  <1>2. Emit(EscAct(inter, b)) \/ Silent
    BY Zenon DEF Escape, EscapeIntermediate, DispatchEsc
  <1> QED BY <1>1, <1>2, OneEmitted, Zenon DEF Silent, EmitAll, EmitsOther

LEMMA StringEmits ==
    ASSUME NEW b \in Byte,
           DcsPassthrough(b) \/ OscString(b) \/ SosPmApcString(b) \/ DcsIgnore(b)
    PROVE  EmitsOther
  <1>1. Osc(SplitOsc(osc), b = BEL).kind \in Kinds /\ DcsStart.kind \in Kinds /\ DcsEnd.kind \in Kinds
    BY DEF Osc, Kinds, DcsStart, DcsEnd
  <1>2. \/ Silent \/ Emit(Osc(SplitOsc(osc), b = BEL)) \/ EmitAll(Started) \/ EmitAll(EndDcs)
    BY Zenon DEF DcsPassthrough, OscString, SosPmApcString, DcsIgnore
  <1>3. Last(EndDcs) = DcsEnd
    <2> DEFINE S == {DcsStart, DcsEnd, DcsData(dcs)}
               x == DcsStart
               y == DcsData(dcs)
               z == DcsEnd
               data == IF dcs = <<>> THEN <<>> ELSE <<y>>
    <2>1. EndDcs = (Started \o data) \o <<z>>
      <3>1. Started \in Seq(S) /\ data \in Seq(S) /\ <<z>> \in Seq(S)
        <4>1. x \in S /\ y \in S /\ z \in S
          OBVIOUS
        <4>2. Started = <<x>> \/ Started = <<>>
          BY DEF Started
        <4>3. data = <<y>> \/ data = <<>>
          OBVIOUS
        <4> HIDE DEF S, x, y, z, data
        <4>4. <<x>> \in Seq(S) /\ <<y>> \in Seq(S) /\ <<z>> \in Seq(S) /\ <<>> \in Seq(S)
          BY <4>1
        <4> QED BY <4>2, <4>3, <4>4, Zenon
      <3>2. EndDcs = Started \o data \o <<z>>
        BY Zenon DEF EndDcs
      <3> HIDE DEF S, z, data
      <3> QED BY <3>1, <3>2
    <2>2. z \in S /\ Started \o data \in Seq(S)
      <3>1. Started \in Seq(S) /\ data \in Seq(S)
        <4>1. x \in S /\ y \in S
          OBVIOUS
        <4>2. Started = <<x>> \/ Started = <<>>
          BY DEF Started
        <4>3. data = <<y>> \/ data = <<>>
          OBVIOUS
        <4> HIDE DEF S, x, y, z, data
        <4>4. <<x>> \in Seq(S) /\ <<y>> \in Seq(S) /\ <<>> \in Seq(S)
          BY <4>1
        <4> QED BY <4>2, <4>3, <4>4, Zenon
      <3>2. z \in S
        OBVIOUS
      <3> HIDE DEF S, data
      <3> QED BY <3>1, <3>2
    <2> HIDE DEF S, data, z
    <2>3. Last(EndDcs) = z
      BY <2>1, <2>2, LastOf
    <2> QED BY <2>3 DEF z
  <1>4. ASSUME EmitAll(Started) PROVE EmitsOther
    BY <1>1, <1>4, LastOf, Zenon DEF EmitAll, Started, EmitsOther
  <1>5. ASSUME EmitAll(EndDcs) PROVE EmitsOther
    BY <1>1, <1>3, <1>5, Zenon DEF EmitAll, EmitsOther
  <1>6. ASSUME Silent PROVE EmitsOther
    BY <1>6, Zenon DEF Silent, EmitAll, EmitsOther
  <1> QED BY <1>1, <1>2, <1>4, <1>5, <1>6, OneEmitted, Zenon

(* A control sequence that a byte completes says what its text says. *)
SaysText ==
    LET a == Last(out')
    IN  a.kind = "csi" => /\ ~TextValid(since) => a.ignore
                          /\ TextValid(since) /\ ~HasSubParameters(since) => ~a.ignore
                          /\ TextValid(since) => /\ a.params = TextParams(Leading(since))
                                                 /\ a.inter = TextInter(Leading(since))

LEMMA OtherSays == ASSUME EmitsOther, out' # <<>> PROVE SaysText
  <1>1. Last(out').kind \in Kinds
    BY DEF EmitsOther
  <1> DEFINE a == Last(out')
  <1>2. a.kind # "csi"
    BY <1>1 DEF Kinds
  <1> QED BY <1>2, Zenon DEF SaysText

LEMMA CsiSays ==
    ASSUME NEW ps, NEW is, NEW ig, NEW b, Emit(Csi(ps, is, ig, b)),
           ~TextValid(since) => ig,
           TextValid(since) /\ ~HasSubParameters(since) => ~ig,
           TextValid(since) => ps = TextParams(Leading(since)) /\ is = TextInter(Leading(since))
    PROVE  SaysText
  <1> DEFINE c == Csi(ps, is, ig, b)
  <1>1. c.ignore = ig /\ c.params = ps /\ c.inter = is
    BY DEF Csi
  <1> HIDE DEF c
  <1>2. Last(out') = c
    <2>1. out' = <<c>>
      BY DEF Emit, EmitAll, c
    <2> QED BY <2>1, LastOf, Zenon
  <1> QED BY <1>1, <1>2, Zenon DEF SaysText

LEMMA HeaderSays ==
    ASSUME ParserInv, TextInv, NEW b \in Byte, Header(b) \/ CsiIgnore(b)
    PROVE  out' = <<>> \/ SaysText
  <1>1. CASE b \notin Finals
    <2>1. Silent
      BY <1>1, Zenon DEF Header, CsiIgnore
    <2> QED BY <2>1, Zenon DEF Silent, EmitAll
  <1>2. CASE b \in Finals /\ Header(b) /\ pstate \in CsiStates
    <2>1. pstate \in {"CsiEntry", "CsiParam", "CsiIntermediate"}
      BY <1>2 DEF Header, IsEntry, IsParam, IsIntermediate, CsiStates
    <2>2. Dispatch(b)
      BY <1>2, Zenon DEF Header
    <2>3. Emit(Csi(Append(params, CurrentOr0), inter, ignore, b))
      BY <1>2, <2>2, Zenon DEF Dispatch, DispatchCsi
    <2>4. /\ Append(params, CurrentOr0) = TextParams(since) /\ inter = TextInter(since)
          /\ TextValid(since) /\ ignore = FALSE /\ Bare(since)
      BY <2>1, TextSoFar, ReadIsText
    <2>5. ~ignore /\ Leading(since) = since
      BY <2>4, BareIsLeading
    <2> QED BY <2>3, <2>4, <2>5, CsiSays, Zenon
  <1>3. CASE b \in Finals /\ Header(b) /\ pstate \notin CsiStates
    <2>1. Dispatch(b)
      BY <1>3, Zenon DEF Header
    <2>2. Silent
      BY <1>3, <2>1, Zenon DEF Dispatch, DispatchDcs
    <2> QED BY <2>2, Zenon DEF Silent, EmitAll
  <1>4. CASE b \in Finals /\ CsiIgnore(b)
    <2>1. Emit(Csi(params, inter, TRUE, b)) /\ pstate = "CsiIgnore"
      BY <1>4, Zenon DEF CsiIgnore
    <2>2. ~TextValid(since) \/ Collapsed
      BY <2>1 DEF TextInv
    <2> QED BY <2>1, <2>2, CsiSays, Zenon DEF Collapsed
  <1> QED BY <1>1, <1>2, <1>3, <1>4, Zenon

LEMMA ByteSays ==
    ASSUME ParserInv, TextInv, NEW b \in Byte, Step(b)
    PROVE  out' = <<>> \/ SaysText
  <1>1. CASE Abort(b)
    <2>1. Execute(b).kind \in Kinds
      BY DEF Execute, Kinds
    <2> QED BY <1>1, <2>1, OneEmitted, OtherSays, Zenon DEF Abort
  <1>2. CASE StartEscape(b)
    BY <1>2, Zenon DEF StartEscape, Silent, EmitAll
  <1>3. CASE Ground(b)
    BY <1>3, GroundEmits, OtherSays, Zenon
  <1>4. CASE Escape(b) \/ EscapeIntermediate(b)
    BY <1>4, EscapeEmits, OtherSays, Zenon
  <1>5. CASE Header(b) \/ CsiIgnore(b)
    BY <1>5, HeaderSays, Zenon
  <1>6. CASE DcsPassthrough(b) \/ DcsIgnore(b) \/ OscString(b) \/ SosPmApcString(b)
    BY <1>6, StringEmits, OtherSays, Zenon
  <1> QED BY <1>1, <1>2, <1>3, <1>4, <1>5, <1>6, Zenon DEF Step

(* The text so far is kept by every byte. *)
LEMMA TextKept ==
    ASSUME ParserInv, TextInv, NEW b \in Byte, Step(b), Remember(b)
    PROVE  TextInv'
  <1>1. since \in Seq(Graphic) /\ <<>> \in Seq(Graphic) /\ Len(<<>>) = 0
    BY DEF TextInv
  <1>2. since' \in Seq(Graphic)
    <2>1. b \in Graphic => Append(since, b) \in Seq(Graphic)
      BY <1>1
    <2>2. since' = <<>> \/ since' = since \/ (b \in Graphic /\ since' = Append(since, b))
      BY Zenon DEF Remember, Graphic
    <2> QED BY <1>1, <2>1, <2>2
  <1>3. CASE pstate' \notin CsiStates
    BY <1>2, <1>3 DEF TextInv, CsiStates
  <1>4. CASE Abort(b) \/ StartEscape(b)
    <2>1. pstate' \in {"Ground", "Escape"}
      BY <1>4 DEF Abort, StartEscape, Goto
    <2> QED BY <1>3, <2>1 DEF CsiStates
  <1>5. CASE Ground(b)
    <2>1. pstate' = "Ground"
      BY <1>5, Zenon DEF Ground
    <2> QED BY <1>3, <2>1 DEF CsiStates
  <1>6. CASE Escape(b) \/ EscapeIntermediate(b)
    <2>1. pstate \in {"Escape", "EscapeIntermediate"}
      BY <1>6 DEF Escape, EscapeIntermediate
    <2>2. since' = <<>>
      BY <2>1 DEF Remember, CsiStates, DcsStates
    <2>3. pstate' \in {"CsiEntry", "OscString", "DcsEntry", "SosPmApcString", "Ground",
                       "EscapeIntermediate"}
      <3>1. CASE Introduces(b) # "None" /\ pstate' = Introduces(b)
        BY <3>1 DEF Introduces
      <3>2. CASE pstate' \in {"Ground", "EscapeIntermediate"}
        BY <3>2
      <3>3. \/ Introduces(b) # "None" /\ pstate' = Introduces(b)
            \/ pstate' \in {"Ground", "EscapeIntermediate"}
        BY <1>6, <2>1 DEF Escape, EscapeIntermediate, DispatchEsc, Goto
      <3> QED BY <3>1, <3>2, <3>3
    <2>4. CASE pstate' = "CsiEntry"
      BY <1>1, <2>2, <2>4 DEF TextInv
    <2>5. CASE pstate' # "CsiEntry"
      BY <1>3, <2>3, <2>5 DEF CsiStates
    <2> QED BY <2>4, <2>5
  <1>7. CASE Header(b) /\ pstate \in CsiStates
    <2>1. pstate \in {"CsiEntry", "CsiParam", "CsiIntermediate"}
      BY <1>7 DEF Header, IsEntry, IsParam, IsIntermediate, CsiStates
    <2> QED BY <1>7, <2>1, HeaderText
  <1>8. CASE Header(b) /\ pstate \notin CsiStates
    <2>1. pstate \in DcsStates
      BY <1>8 DEF Header, IsEntry, IsParam, IsIntermediate, CsiStates, DcsStates
    <2>2. ASSUME NEW x, NEW y, To(x, y) PROVE pstate' = y
      BY <1>8, <2>2 DEF To, Goto
    <2>3. \/ DispatchDcs \/ ReadParam(b) \/ To("CsiParam", "DcsParam")
          \/ To("CsiIntermediate", "DcsIntermediate") \/ Invalid \/ pstate' = pstate
      <3>1. ~SubParameter
        BY <1>8 DEF SubParameter, CsiStates
      <3>2. UNCHANGED <<pstate, csiVars>> => pstate' = pstate
        OBVIOUS
      <3> QED BY <1>8, <3>1, <3>2, Zenon DEF Header, Dispatch
    <2>4. pstate' \in {"DcsPassthrough", "DcsParam", "DcsIntermediate", "DcsIgnore", pstate}
      <3>1. DispatchDcs => pstate' = "DcsPassthrough"
        BY DEF DispatchDcs, Goto
      <3>2. ReadParam(b) => pstate' = "DcsParam"
        BY <2>2 DEF ReadParam
      <3>3. Invalid => pstate' = "DcsIgnore"
        BY <2>2 DEF Invalid
      <3> QED BY <2>2, <2>3, <3>1, <3>2, <3>3
    <2> QED BY <1>3, <2>1, <2>4 DEF CsiStates, DcsStates
  <1>9. CASE CsiIgnore(b)
    <2>1. pstate = "CsiIgnore"
      BY <1>9 DEF CsiIgnore
    <2>2. CASE b \in Finals
      <3>1. pstate' = "Ground"
        BY <1>9, <2>2 DEF CsiIgnore, Goto
      <3> QED BY <1>3, <3>1 DEF CsiStates
    <2>3. CASE b \notin Finals
      <3>1. pstate' = pstate
        BY <1>9, <2>3 DEF CsiIgnore
      <3>2. since' = IF b \in Graphic THEN Append(since, b) ELSE since
        BY <2>1, <3>1 DEF Remember, CsiStates, Graphic
      <3>3. ~TextValid(since) \/ Collapsed
        BY <2>1 DEF TextInv
      <3>4. ~TextValid(since) => ~TextValid(since')
        BY <1>1, <3>2, Malformed
      <3>5. params' = params /\ inter' = inter
        BY <1>9, <2>3 DEF CsiIgnore, csiVars
      <3>6. HasSubParameters(since) => HasSubParameters(since') /\ Leading(since') = Leading(since)
        BY <1>1, <3>2, LeadingStays
      <3>7. Collapsed => Collapsed'
        BY <3>5, <3>6 DEF Collapsed
      <3> QED BY <1>2, <2>1, <3>1, <3>3, <3>4, <3>7 DEF TextInv
    <2> QED BY <2>2, <2>3
  <1>10. CASE DcsPassthrough(b) \/ DcsIgnore(b) \/ OscString(b) \/ SosPmApcString(b)
    <2>1. pstate' \in {"DcsPassthrough", "DcsIgnore", "OscString", "SosPmApcString", "Ground",
                       "Escape"}
      <3>1. ASSUME UNCHANGED <<pstate, csiVars, utfVars, osc>> PROVE pstate' = pstate
        BY <3>1
      <3>2. pstate \in {"DcsPassthrough", "DcsIgnore", "OscString", "SosPmApcString"}
        BY <1>10 DEF DcsPassthrough, DcsIgnore, OscString, SosPmApcString
      <3>3. pstate' \in {pstate, "Ground", "Escape"}
        BY <1>10 DEF DcsPassthrough, DcsIgnore, OscString, SosPmApcString, Goto
      <3> QED BY <3>2, <3>3
    <2> QED BY <1>3, <2>1 DEF CsiStates
  <1> QED
    BY <1>4, <1>5, <1>6, <1>7, <1>8, <1>9, <1>10, Zenon DEF Step

LEMMA TextNext ==
    ASSUME ParserInv, TextInv, [ParserNext]_parserVars
    PROVE  TextInv' /\ (out' = out \/ out' = <<>> \/ SaysText)
  <1>1. ASSUME NEW b \in Bytes, ReceiveByte(b)
        PROVE  TextInv' /\ (out' = <<>> \/ SaysText)
    <2>1. b \in Byte /\ Step(b) /\ Remember(b)
      BY <1>1, ParserAssumption DEF ReceiveByte, Byte
    <2> QED BY <2>1, ByteSays, TextKept
  <1>2. CASE Renew
    <2>1. pstate' = "Ground" /\ since' = <<>> /\ out' = <<>>
      BY <1>2 DEF Renew, Goto, Silent, EmitAll
    <2>2. <<>> \in Seq(Graphic)
      OBVIOUS
    <2> QED BY <2>1, <2>2 DEF TextInv
  <1>3. CASE UNCHANGED parserVars
    <2>1. UNCHANGED <<pstate, params, current, inter, since, out>>
      BY <1>3 DEF parserVars, csiVars
    <2>2. (Collapsed => Collapsed') /\ (TextValid(since') <=> TextValid(since))
      BY <2>1 DEF Collapsed
    <2> QED BY <2>1, <2>2 DEF TextInv, CurrentOr0
  <1> QED
    BY <1>1, <1>2, <1>3, Zenon DEF ParserNext, EndBatch, ResetParser

(* DispatchMatchesText: a dispatched control sequence carries exactly the
   numbers and markers its text has up to its first sub-parameter, is marked if
   its text is malformed and not marked if it is well-formed and without
   sub-parameters, whatever the bytes are and in whatever slices they come
   (rdt-terminal, parser.rs). *)
THEOREM DispatchTheorem == ParserSpec => DispatchMatchesText
  <1> DEFINE Says == LET a == Last(out')
                     IN (out' # <<>> /\ out' # out /\ a.kind = "csi")
                         => /\ ~TextValid(since) => a.ignore
                            /\ TextValid(since) /\ ~HasSubParameters(since) => ~a.ignore
                            /\ TextValid(since) => /\ a.params = TextParams(Leading(since))
                                                   /\ a.inter = TextInter(Leading(since))
  <1>1. ParserInit => TextInv
    <2>1. <<>> \in Seq(Graphic)
      OBVIOUS
    <2> QED BY <2>1 DEF ParserInit, Fresh, TextInv
  <1>2. ParserInv /\ TextInv /\ [ParserNext]_parserVars => TextInv' /\ [Says]_parserVars
    <2> SUFFICES ASSUME ParserInv, TextInv, [ParserNext]_parserVars PROVE TextInv' /\ Says
      OBVIOUS
    <2>1. TextInv' /\ (out' = out \/ out' = <<>> \/ SaysText)
      BY TextNext
    <2> QED BY <2>1, Zenon DEF SaysText
  <1> HIDE DEF Says
  <1>3. ParserSpec => [][Says]_parserVars
    BY <1>1, <1>2, ParserInvInit, ParserInvNext, PTL DEF ParserSpec
  <1> QED
    BY <1>3, PTL DEF DispatchMatchesText, Says

-------------------------------------------------------------------------------
(* Renditions.  What the loop over a list keeps. *)
Colour == {Default} \cup {Indexed(n) : n \in Nat}
              \cup {Rgb(x[1], x[2], x[3]) : x \in Nat \X Nat \X Nat}
Flag == {pair[2] : pair \in Sets}
Attributes == [fg : Colour, bg : Colour, flags : SUBSET Flag]
LoopState == [at : Nat \ {0}, attrs : Attributes]

LEMMA ColourTypes ==
    /\ Default \in Colour
    /\ \A n \in Nat : Indexed(n) \in Colour /\ U8(n) \in Nat
    /\ \A r, g, b \in Nat : Rgb(r, g, b) \in Colour
    /\ Plain \in Attributes
  <1>1. Default \in Colour
    BY DEF Colour
  <1>2. \A n \in Nat : Indexed(n) \in Colour
    BY DEF Colour
  <1>3. \A n \in Nat : U8(n) \in Nat
    BY DEF U8
  <1>4. ASSUME NEW r \in Nat, NEW g \in Nat, NEW b \in Nat PROVE Rgb(r, g, b) \in Colour
    <2> DEFINE x == <<r, g, b>>
    <2>1. x \in Nat \X Nat \X Nat /\ x[1] = r /\ x[2] = g /\ x[3] = b
      OBVIOUS
    <2> HIDE DEF x
    <2>2. Rgb(x[1], x[2], x[3]) \in Colour
      BY <2>1 DEF Colour
    <2> QED BY <2>1, <2>2
  <1>5. Plain \in Attributes
    BY <1>1 DEF Plain, Attributes
  <1> QED BY <1>1, <1>2, <1>3, <1>4, <1>5

LEMMA ExtendedType ==
    ASSUME NEW ps \in Seq(Nat), NEW at \in Nat \ {0}
    PROVE  /\ Extended(ps, at).at \in Nat /\ Extended(ps, at).at >= at
           /\ Extended(ps, at).colour \in SUBSET Colour
  <1>1. Len(ps) \in Nat /\ \A i \in 1..Len(ps) : ps[i] \in Nat
    OBVIOUS
  <1>2. CASE at > Len(ps)
    BY <1>2 DEF Extended
  <1>3. CASE ~(at > Len(ps)) /\ ps[at] = 5 /\ at + 1 <= Len(ps)
    <2>1. Extended(ps, at) = [colour |-> {Indexed(U8(ps[at + 1]))}, at |-> at + 2]
      BY <1>3 DEF Extended
    <2>2. ps[at + 1] \in Nat
      BY <1>1, <1>3
    <2>3. Indexed(U8(ps[at + 1])) \in Colour
      BY <2>2, ColourTypes
    <2> QED BY <2>1, <2>3
  <1>4. CASE ~(at > Len(ps)) /\ ps[at] = 2 /\ at + 3 <= Len(ps)
    <2>1. Extended(ps, at) = [colour |-> {Rgb(U8(ps[at + 1]), U8(ps[at + 2]), U8(ps[at + 3]))}, at |-> at + 4]
      BY <1>4 DEF Extended
    <2>2. ps[at + 1] \in Nat /\ ps[at + 2] \in Nat /\ ps[at + 3] \in Nat
      BY <1>1, <1>4
    <2>3. U8(ps[at + 1]) \in Nat /\ U8(ps[at + 2]) \in Nat /\ U8(ps[at + 3]) \in Nat
      BY <2>2, ColourTypes
    <2>4. Rgb(U8(ps[at + 1]), U8(ps[at + 2]), U8(ps[at + 3])) \in Colour
      BY <2>3, ColourTypes
    <2> QED BY <2>1, <2>4
  <1>5. CASE ~(at > Len(ps)) /\ ~(ps[at] = 5 /\ at + 1 <= Len(ps)) /\ ~(ps[at] = 2 /\ at + 3 <= Len(ps))
    <2>1. Extended(ps, at) = [colour |-> {}, at |-> at + 1]
      BY <1>5 DEF Extended
    <2> QED BY <2>1
  <1> QED BY <1>2, <1>3, <1>4, <1>5

LEMMA SimpleType ==
    ASSUME NEW a \in Attributes, NEW code \in Nat
    PROVE  SimpleCode(a, code) \in Attributes
  <1>1. ASSUME NEW base \in Nat, NEW bright \in Nat, NEW old \in Colour
        PROVE  ColourOf(code, base, bright, old) \in Colour
    <2>1. code \in base..base + 7 => code - base \in Nat
      OBVIOUS
    <2>2. code \in bright..bright + 7 => code - bright + 8 \in Nat
      OBVIOUS
    <2> QED BY <2>1, <2>2, ColourTypes DEF ColourOf
  <1>2. FlagsOf(Sets, code) \subseteq Flag
    BY DEF FlagsOf, Flag
  <1>3. a.fg \in Colour /\ a.bg \in Colour /\ a.flags \in SUBSET Flag
    BY DEF Attributes
  <1>4. ColourOf(code, 30, 90, a.fg) \in Colour /\ ColourOf(code, 40, 100, a.bg) \in Colour
    BY <1>1, <1>3
  <1>5. (a.flags \cup FlagsOf(Sets, code)) \ FlagsOf(Clears, code) \in SUBSET Flag
    BY <1>2, <1>3
  <1>6. Plain \in Attributes
    BY ColourTypes
  <1>7. CASE code = 0
    BY <1>6, <1>7 DEF SimpleCode
  <1>8. CASE code # 0
    BY <1>4, <1>5, <1>8 DEF SimpleCode, Attributes
  <1> QED BY <1>7, <1>8

LEMMA RoundType ==
    ASSUME NEW ps \in Seq(Nat), NEW st \in LoopState, st.at <= Len(ps)
    PROVE  Round(ps, st) \in LoopState /\ Round(ps, st).at > st.at
  <1> DEFINE code == ps[st.at]
             ext == Extended(ps, st.at + 1)
             colour == CHOOSE c \in ext.colour : TRUE
             attrs == IF ext.colour = {} THEN st.attrs
                      ELSE IF code = 38 THEN [st.attrs EXCEPT !.fg = colour]
                      ELSE [st.attrs EXCEPT !.bg = colour]
  <1>1. st.at \in Nat \ {0} /\ st.attrs \in Attributes /\ st.at \in 1..Len(ps)
    BY DEF LoopState
  <1>2. code \in Nat
    BY <1>1
  <1>3. ext.at \in Nat /\ ext.at >= st.at + 1 /\ ext.colour \in SUBSET Colour
    <2>1. st.at + 1 \in Nat \ {0}
      BY <1>1
    <2> QED BY <2>1, ExtendedType
  <1>4. CASE code \notin {38, 48}
    <2>1. Round(ps, st) = [at |-> st.at + 1, attrs |-> SimpleCode(st.attrs, code)]
      BY <1>4 DEF Round
    <2>2. SimpleCode(st.attrs, code) \in Attributes
      BY <1>1, <1>2, SimpleType
    <2> QED BY <1>1, <2>1, <2>2 DEF LoopState
  <1>5. CASE code \in {38, 48}
    <2>1. Round(ps, st) = [at |-> ext.at, attrs |-> attrs]
      BY <1>5 DEF Round
    <2> HIDE DEF ext, code
    <2>2. attrs \in Attributes
      <3>1. ext.colour # {} => colour \in Colour
        BY <1>3
      <3> HIDE DEF colour
      <3> QED BY <1>1, <3>1 DEF Attributes
    <2> HIDE DEF attrs
    <2> QED BY <1>1, <1>3, <2>1, <2>2 DEF LoopState
  <1> QED BY <1>4, <1>5

(* The loop as a recurrence. *)
LEMMA RoundsOf ==
    ASSUME NEW ps \in Seq(Nat), NEW a \in Attributes
    PROVE  /\ Rounds(a, ps) \in [0..Len(ps) -> LoopState]
           /\ Rounds(a, ps)[0] = [at |-> 1, attrs |-> a]
           /\ \A k \in 1..Len(ps) :
                 Rounds(a, ps)[k] = IF Rounds(a, ps)[k - 1].at > Len(ps) THEN Rounds(a, ps)[k - 1]
                                    ELSE Round(ps, Rounds(a, ps)[k - 1])
  <1> DEFINE n == Len(ps)
             start == [at |-> 1, attrs |-> a]
             next(b) == IF b.at > n THEN b ELSE Round(ps, b)
             pass == [x \in (1..n) \X LoopState |-> next(x[2])]
             g == Rounds(a, ps)
  <1>1. n \in Nat /\ start \in LoopState
    BY DEF LoopState
  <1>2. \A b \in LoopState : next(b) \in LoopState
    <2>1. ASSUME NEW b \in LoopState, ~(b.at > n) PROVE b.at <= n
      BY <1>1, <2>1 DEF LoopState
    <2> QED BY <2>1, RoundType
  <1> HIDE DEF next
  <1>3. pass \in StepsOf(n, LoopState)
    BY <1>2 DEF StepsOf
  <1>4. \A k \in 1..n, b \in LoopState : pass[<<k, b>>] = next(b)
    <2>1. \A A, B : \A k \in A, b \in B : <<k, b>> \in A \X B
      OBVIOUS
    <2>2. \A k \in 1..n, b \in LoopState : <<k, b>> \in (1..n) \X LoopState
      BY <2>1
    <2> QED BY <2>2
  <1> HIDE DEF pass
  <1>5. PICK f \in [0..n -> LoopState] : f[0] = start /\ \A k \in 1..n : f[k] = pass[<<k, f[k - 1]>>]
    <2> DEFINE A == LoopState
    <2>1. n \in Nat /\ start \in A /\ pass \in StepsOf(n, A)
      BY <1>1, <1>3
    <2> HIDE DEF n, start, A, g
    <2>2. SolutionsOf(n, A, start, pass) # {}
      BY <2>1, Solvable
    <2>3. PICK f \in SolutionsOf(n, A, start, pass) : TRUE
      BY <2>2
    <2>4. f \in [0..n -> A] /\ f[0] = start /\ \A k \in 1..n : f[k] = pass[<<k, f[k - 1]>>]
      BY <2>3 DEF SolutionsOf
    <2> QED BY <2>4 DEF A
  <1>6. \A k \in 1..n : f[k] = next(f[k - 1])
    <2>1. \A k \in 1..n : k - 1 \in 0..n
      BY <1>1
    <2> QED BY <1>4, <1>5, <2>1
  <1>7. f = [k \in 0..Len(ps) |->
                IF k = 0 THEN [at |-> 1, attrs |-> a]
                ELSE IF f[k - 1].at > Len(ps) THEN f[k - 1]
                ELSE Round(ps, f[k - 1])]
    <2>1. \A k \in 0..n : k # 0 => k \in 1..n
      BY <1>1
    <2>2. \A k \in 0..n : f[k] = IF k = 0 THEN [at |-> 1, attrs |-> a]
                                 ELSE IF f[k - 1].at > Len(ps) THEN f[k - 1]
                                 ELSE Round(ps, f[k - 1])
      BY <1>5, <1>6, <2>1 DEF next
    <2> QED BY <1>5, <2>2
  <1>8. g = [k \in 0..Len(ps) |->
                IF k = 0 THEN [at |-> 1, attrs |-> a]
                ELSE IF g[k - 1].at > Len(ps) THEN g[k - 1]
                ELSE Round(ps, g[k - 1])]
    BY <1>7 DEF Rounds
  <1> HIDE DEF g
  <1>9. g[0] = start /\ \A k \in 1..n : g[k] = next(g[k - 1])
    <2>1. 0 \in 0..n /\ \A k \in 1..n : k \in 0..n /\ k # 0
      BY <1>1
    <2> QED BY <1>8, <2>1 DEF next
  <1> DEFINE H == {k \in Nat : k \in 0..n => g[k] = f[k]}
  <1>10. 0 \in H
    BY <1>5, <1>9
  <1>11. ASSUME NEW k \in Nat, k \in H PROVE k + 1 \in H
    <2> SUFFICES ASSUME k + 1 \in 0..n PROVE g[k + 1] = f[k + 1]
      OBVIOUS
    <2>1. k \in 0..n /\ k + 1 \in 1..n /\ (k + 1) - 1 = k
      BY <1>1
    <2> QED BY <1>6, <1>9, <1>11, <2>1
  <1>12. Nat \subseteq H
    <2> HIDE DEF H
    <2> QED BY <1>10, <1>11, Induction
  <1>13. \A k \in 0..n : g[k] = f[k]
    BY <1>1, <1>12
  <1>14. g = f
    BY <1>5, <1>8, <1>13
  <1>15. /\ g \in [0..n -> LoopState] /\ g[0] = start
         /\ \A k \in 1..n : g[k] = next(g[k - 1])
    BY <1>5, <1>6, <1>14
  <1> QED BY <1>15 DEF g, next

(* A group of codes means the same inside a longer list, behind d codes: it is
   followed by the same codes, or needs none of what follows. *)
Within(qs, ps, d) ==
    Len(ps) >= d + Len(qs) /\ \A j \in 1..Len(qs) : ps[d + j] = qs[j]
Fits(qs, ps, d, p) == Len(ps) = d + Len(qs) \/ p + CodeWidth(qs, p) <= Len(qs) + 1

LEMMA ExtendedWithin ==
    ASSUME NEW qs \in Seq(Nat), NEW ps \in Seq(Nat), NEW d \in Nat, NEW p \in 1..Len(qs),
           Within(qs, ps, d), Fits(qs, ps, d, p), qs[p] \in {38, 48},
           NEW at, at = p + 1, NEW there, there = d + at,
           NEW e, e = Extended(qs, at), NEW f, f = Extended(ps, there)
    PROVE  /\ f.colour = e.colour /\ f.at = d + e.at
           /\ p + CodeWidth(qs, p) <= Len(qs) + 1 => e.at = p + CodeWidth(qs, p)
  <1> DEFINE low == Len(qs)
             high == Len(ps)
             w == CodeWidth(qs, p)
  <1>1. /\ low \in Nat /\ high \in Nat /\ p \in Nat /\ p <= low /\ high >= d + low
        /\ at \in Nat /\ there \in Nat
    BY DEF Within
  <1>2. \A j \in 1..low : ps[d + j] = qs[j]
    BY DEF Within
  <1>3. high = d + low \/ p + w <= low + 1
    BY DEF Fits
  <1> SUFFICES /\ f.colour = e.colour /\ f.at = d + e.at
               /\ p + w <= low + 1 => e.at = p + w
    OBVIOUS
  <1>4. p = low => w = 2
    BY DEF CodeWidth
  <1>5. p # low => w = IF qs[at] = 5 THEN 3 ELSE IF qs[at] = 2 THEN 5 ELSE 2
    BY DEF CodeWidth
  <1>6. CASE at > low
    <2>1. p = low /\ w = 2
      BY <1>1, <1>4, <1>6
    <2> HIDE DEF w, low, high
    <2>2. high = d + low /\ ~(p + w <= low + 1)
      BY <1>1, <1>3, <2>1
    <2>3. there > high
      BY <1>1, <1>6, <2>2
    <2>4. e = [colour |-> {}, at |-> at] /\ f = [colour |-> {}, at |-> there]
      BY <1>6, <2>3 DEF Extended, low, high
    <2>5. e.colour = {} /\ f.colour = {} /\ e.at = at /\ f.at = there
      BY <2>4
    <2> QED BY <2>2, <2>5
  <1>7. CASE at <= low
    <2> DEFINE kind == qs[at]
    <2>1. at \in 1..low /\ ~(at > low) /\ ~(there > high) /\ p # low
      <3> HIDE DEF w, low, high
      <3>1. there <= high /\ p < low
        BY <1>1, <1>7
      <3> QED BY <1>1, <1>7, <3>1
    <2>2. ps[there] = kind
      BY <1>2, <2>1
    <2>3. w = IF kind = 5 THEN 3 ELSE IF kind = 2 THEN 5 ELSE 2
      BY <1>5, <2>1
    <2>4. \A j \in {1, 2, 3} : at + j <= low => there + j <= high /\ ps[there + j] = qs[at + j]
      <3>1. \A j \in {1, 2, 3} : at + j <= low => at + j \in 1..low /\ d + (at + j) = there + j /\ there + j <= high
        <4> HIDE DEF w, low, high
        <4> TAKE j \in {1, 2, 3}
        <4> HAVE at + j <= low
        <4>1. d + (at + j) = there + j /\ there + j <= high
          BY <1>1
        <4> QED BY <1>1, <4>1
      <3> QED BY <1>2, <3>1
    <2> HIDE DEF w, low, high, kind
    <2>5. CASE kind = 5 /\ at + 1 <= low
      <3> DEFINE c == {Indexed(U8(qs[at + 1]))}
      <3>1. e = [colour |-> c, at |-> at + 2]
        BY <2>1, <2>5 DEF Extended, low, kind
      <3>2. there + 1 <= high /\ ps[there + 1] = qs[at + 1]
        BY <2>4, <2>5
      <3>3. f = [colour |-> c, at |-> there + 2]
        BY <2>1, <2>2, <2>5, <3>2 DEF Extended, high
      <3> HIDE DEF c
      <3>4. e.colour = c /\ f.colour = c /\ e.at = at + 2 /\ f.at = there + 2
        BY <3>1, <3>3
      <3>5. w = 3 /\ at + 2 = p + 3 /\ there + 2 = d + (at + 2)
        BY <1>1, <2>3, <2>5
      <3> QED BY <3>4, <3>5
    <2>6. CASE kind = 2 /\ at + 3 <= low
      <3> DEFINE c == {Rgb(U8(qs[at + 1]), U8(qs[at + 2]), U8(qs[at + 3]))}
      <3>1. e = [colour |-> c, at |-> at + 4]
        BY <2>1, <2>6 DEF Extended, low, kind
      <3>2. at + 1 <= low /\ at + 2 <= low
        BY <1>1, <2>6
      <3>3. there + 3 <= high /\ ps[there + 1] = qs[at + 1] /\ ps[there + 2] = qs[at + 2] /\ ps[there + 3] = qs[at + 3]
        BY <2>4, <2>6, <3>2
      <3>4. f = [colour |-> {Rgb(U8(ps[there + 1]), U8(ps[there + 2]), U8(ps[there + 3]))}, at |-> there + 4]
        BY <2>1, <2>2, <2>6, <3>3 DEF Extended, high
      <3>5. {Rgb(U8(ps[there + 1]), U8(ps[there + 2]), U8(ps[there + 3]))} = c
        BY <3>3
      <3> HIDE DEF c
      <3>6. f = [colour |-> c, at |-> there + 4]
        <4>1. \A x, y, z : x = y => [colour |-> x, at |-> z] = [colour |-> y, at |-> z]
          OBVIOUS
        <4> QED BY <3>4, <3>5, <4>1
      <3>8. e.colour = c /\ f.colour = c /\ e.at = at + 4 /\ f.at = there + 4
        BY <3>1, <3>6
      <3>7. w = 5 /\ at + 4 = p + 5 /\ there + 4 = d + (at + 4)
        BY <1>1, <2>3, <2>6
      <3> QED BY <3>7, <3>8
    <2>7. CASE ~(kind = 5 /\ at + 1 <= low) /\ ~(kind = 2 /\ at + 3 <= low)
      <3>1. e = [colour |-> {}, at |-> at + 1]
        BY <2>1, <2>7 DEF Extended, low, kind
      <3>2. p + w <= low + 1 => w = 2 /\ kind \notin {2, 5}
        BY <1>1, <2>3, <2>7
      <3>3. ~(kind = 5 /\ there + 1 <= high) /\ ~(kind = 2 /\ there + 3 <= high)
        <4>1. ASSUME kind = 5, there + 1 <= high PROVE FALSE
          <5>1. ~(at + 1 <= low) /\ w = 3
            BY <2>3, <2>7, <4>1
          <5> QED BY <1>1, <1>3, <4>1, <5>1
        <4>2. ASSUME kind = 2, there + 3 <= high PROVE FALSE
          <5>1. ~(at + 3 <= low) /\ w = 5
            BY <2>3, <2>7, <4>2
          <5> QED BY <1>1, <1>3, <4>2, <5>1
        <4> QED BY <4>1, <4>2
      <3>4. f = [colour |-> {}, at |-> there + 1]
        BY <2>1, <2>2, <3>3 DEF Extended, high
      <3>5. e.colour = {} /\ f.colour = {} /\ e.at = at + 1 /\ f.at = there + 1
        BY <3>1, <3>4
      <3>6. there + 1 = d + (at + 1)
        BY <1>1
      <3>7. w = 2 => at + 1 = p + w
        BY <1>1
      <3> QED BY <3>2, <3>5, <3>6, <3>7
    <2> QED BY <2>5, <2>6, <2>7
  <1> QED BY <1>1, <1>6, <1>7

LEMMA RoundWithin ==
    ASSUME NEW qs \in Seq(Nat), NEW ps \in Seq(Nat), NEW d \in Nat, NEW p \in 1..Len(qs), NEW a,
           Within(qs, ps, d), Fits(qs, ps, d, p)
    PROVE  /\ Round(ps, [at |-> d + p, attrs |-> a]) =
                 [at |-> d + Round(qs, [at |-> p, attrs |-> a]).at,
                  attrs |-> Round(qs, [at |-> p, attrs |-> a]).attrs]
           /\ p + CodeWidth(qs, p) <= Len(qs) + 1 =>
                 Round(qs, [at |-> p, attrs |-> a]).at = p + CodeWidth(qs, p)
  <1>1. ps[d + p] = qs[p]
    BY DEF Within
  <1>2. CASE qs[p] \notin {38, 48}
    <2>1. Round(qs, [at |-> p, attrs |-> a]) = [at |-> p + 1, attrs |-> SimpleCode(a, qs[p])]
      BY <1>2 DEF Round
    <2>2. Round(ps, [at |-> d + p, attrs |-> a]) = [at |-> (d + p) + 1, attrs |-> SimpleCode(a, qs[p])]
      BY <1>1, <1>2 DEF Round
    <2>3. CodeWidth(qs, p) = 1 /\ (d + p) + 1 = d + (p + 1)
      BY <1>2 DEF CodeWidth
    <2> QED BY <2>1, <2>2, <2>3
  <1>3. CASE qs[p] \in {38, 48}
    <2> DEFINE at == p + 1
               there == d + at
               e == Extended(qs, at)
               f == Extended(ps, there)
               paint(s) == IF s = {} THEN a
                           ELSE IF qs[p] = 38 THEN [a EXCEPT !.fg = CHOOSE c \in s : TRUE]
                           ELSE [a EXCEPT !.bg = CHOOSE c \in s : TRUE]
    <2>1. (d + p) + 1 = there
      OBVIOUS
    <2>2. Round(qs, [at |-> p, attrs |-> a]) = [at |-> e.at, attrs |-> paint(e.colour)]
      BY <1>3 DEF Round
    <2>3. Round(ps, [at |-> d + p, attrs |-> a]) = [at |-> f.at, attrs |-> paint(f.colour)]
      <3> DEFINE g == Extended(ps, (d + p) + 1)
      <3>1. Round(ps, [at |-> d + p, attrs |-> a]) = [at |-> g.at, attrs |-> paint(g.colour)]
        BY <1>1, <1>3 DEF Round
      <3> QED BY <2>1, <3>1
    <2>4. /\ f.colour = e.colour /\ f.at = d + e.at
          /\ p + CodeWidth(qs, p) <= Len(qs) + 1 => e.at = p + CodeWidth(qs, p)
      <3> HIDE DEF at, there, e, f
      <3>1. at = p + 1 /\ there = d + at /\ e = Extended(qs, at) /\ f = Extended(ps, there)
        BY DEF at, there, e, f
      <3> QED BY <1>3, <3>1, ExtendedWithin
    <2> HIDE DEF e, f, paint
    <2>5. paint(f.colour) = paint(e.colour)
      BY <2>4
    <2> QED BY <2>2, <2>3, <2>4, <2>5
  <1> QED BY <1>2, <1>3

(* When the loop is over, it stays where it is. *)
LEMMA RoundsOver ==
    ASSUME NEW ps \in Seq(Nat), NEW a \in Attributes, NEW q \in 0..Len(ps),
           Rounds(a, ps)[q].at > Len(ps)
    PROVE  Rounds(a, ps)[Len(ps)] = Rounds(a, ps)[q]
  <1> DEFINE n == Len(ps)
             g == Rounds(a, ps)
             H == {k \in Nat : q + k <= n => g[q + k] = g[q]}
  <1>1. n \in Nat /\ q \in Nat /\ q <= n
    OBVIOUS
  <1>2. \A k \in 1..n : g[k] = IF g[k - 1].at > n THEN g[k - 1] ELSE Round(ps, g[k - 1])
    BY RoundsOf
  <1> HIDE DEF g
  <1>3. 0 \in H
    BY <1>1
  <1>4. ASSUME NEW k \in Nat, k \in H PROVE k + 1 \in H
    <2> SUFFICES ASSUME q + (k + 1) <= n PROVE g[q + (k + 1)] = g[q]
      OBVIOUS
    <2>1. q + (k + 1) \in 1..n /\ (q + (k + 1)) - 1 = q + k /\ q + k <= n
      BY <1>1
    <2>2. g[q + k] = g[q] /\ g[q].at > n
      BY <1>4, <2>1 DEF g
    <2> QED BY <1>2, <2>1, <2>2
  <1>5. Nat \subseteq H
    <2> HIDE DEF H
    <2> QED BY <1>3, <1>4, Induction
  <1>6. n - q \in Nat /\ q + (n - q) = n /\ q + (n - q) <= n
    BY <1>1
  <1>7. g[q + (n - q)] = g[q]
    BY <1>5, <1>6
  <1> QED BY <1>6, <1>7 DEF g

(* From a complete list the loop takes the groups one by one, as it does when
   the list goes on. *)
LEMMA FrontRuns ==
    ASSUME NEW ps \in Seq(Nat), NEW qs \in Seq(Nat), Within(qs, ps, 0), Complete(qs),
           NEW a \in Attributes, qs # <<>>
    PROVE  \E m \in 0..Len(qs) : /\ Rounds(a, ps)[m] = Rounds(a, qs)[Len(qs)]
                                 /\ Rounds(a, qs)[Len(qs)].at = Len(qs) + 1
  <1> DEFINE n == Len(qs)
             F == Rounds(a, qs)
             C == Rounds(a, ps)
  <1>1. n \in Nat /\ Len(ps) \in Nat /\ Len(ps) >= n /\ n # 0
    BY DEF Within
  <1>2. PICK starts \in SUBSET (1..n + 1) :
           1 \in starts /\ \A i \in starts \ {n + 1} : i + CodeWidth(qs, i) \in starts
    BY DEF Complete
  <1>3. /\ F \in [0..n -> LoopState] /\ F[0] = [at |-> 1, attrs |-> a]
        /\ \A k \in 1..n : F[k] = IF F[k - 1].at > n THEN F[k - 1] ELSE Round(qs, F[k - 1])
    BY RoundsOf
  <1>4. /\ C[0] = [at |-> 1, attrs |-> a]
        /\ \A k \in 1..Len(ps) : C[k] = IF C[k - 1].at > Len(ps) THEN C[k - 1] ELSE Round(ps, C[k - 1])
    BY RoundsOf
  <1> HIDE DEF F, C
  <1> DEFINE Level(k) ==
                /\ F[k].at \in starts
                /\ \E m \in 0..k : C[m] = F[k] /\ (F[k].at <= n => m = k /\ F[k].at >= k + 1)
             H == {k \in Nat : k <= n => Level(k)}
  <1>5. Level(0)
    <2>1. 0 \in 0..0 /\ F[0].at = 1 /\ C[0] = F[0]
      BY <1>3, <1>4
    <2> QED BY <1>2, <2>1
  <1>6. ASSUME NEW k \in Nat, k + 1 <= n, Level(k) PROVE Level(k + 1)
    <2>1. /\ F[k].at \in starts
          /\ \E m \in 0..k : C[m] = F[k] /\ (F[k].at <= n => m = k /\ F[k].at >= k + 1)
      BY <1>6
    <2>2. PICK m \in 0..k : C[m] = F[k] /\ (F[k].at <= n => m = k /\ F[k].at >= k + 1)
      BY <2>1
    <2>3. k + 1 \in 1..n /\ (k + 1) - 1 = k /\ k \in 0..n /\ k + 1 \in 1..Len(ps)
      BY <1>1, <1>6
    <2>4. F[k + 1] = IF F[k].at > n THEN F[k] ELSE Round(qs, F[k])
      BY <1>3, <2>3
    <2>5. CASE F[k].at > n
      <3>1. F[k + 1] = F[k] /\ F[k].at \in starts /\ C[m] = F[k + 1] /\ m \in 0..(k + 1)
        BY <2>1, <2>2, <2>4, <2>5
      <3>2. ~(F[k + 1].at <= n)
        <4>1. \A x \in 1..n + 1 : x > n => ~(x <= n)
          BY <1>1
        <4> QED BY <2>5, <3>1, <4>1
      <3> QED BY <3>1, <3>2
    <2>6. CASE ~(F[k].at > n)
      <3> DEFINE p == F[k].at
                 s == F[k].attrs
      <3>1. F[k] \in LoopState
        BY <1>3, <2>3
      <3>2. p \in 1..n /\ F[k] = [at |-> p, attrs |-> s]
        BY <1>1, <2>6, <3>1 DEF LoopState
      <3>3. p + CodeWidth(qs, p) \in starts /\ p + CodeWidth(qs, p) <= n + 1 /\ p <= n /\ p >= k + 1 /\ m = k
        <4>1. p # n + 1 /\ p <= n
          BY <1>1, <3>2
        <4>2. p + CodeWidth(qs, p) \in starts
          BY <1>2, <2>1, <4>1
        <4>3. p >= k + 1 /\ m = k
          BY <2>2, <4>1
        <4>4. \A x \in 1..n + 1 : x <= n + 1
          BY <1>1
        <4> HIDE DEF n, p
        <4> QED BY <4>1, <4>2, <4>3, <4>4
      <3>4. /\ Round(ps, [at |-> 0 + p, attrs |-> s]) =
                  [at |-> 0 + Round(qs, F[k]).at, attrs |-> Round(qs, F[k]).attrs]
            /\ Round(qs, F[k]).at = p + CodeWidth(qs, p)
        <4>1. Fits(qs, ps, 0, p) /\ 0 \in Nat /\ p \in 1..Len(qs)
          BY <3>2, <3>3 DEF Fits
        <4> DEFINE zero == 0
        <4>2. zero \in Nat /\ Within(qs, ps, zero) /\ Fits(qs, ps, zero, p)
          BY <4>1
        <4> HIDE DEF p, s, zero
        <4>3. /\ Round(ps, [at |-> zero + p, attrs |-> s]) =
                    [at |-> zero + Round(qs, [at |-> p, attrs |-> s]).at,
                     attrs |-> Round(qs, [at |-> p, attrs |-> s]).attrs]
              /\ p + CodeWidth(qs, p) <= Len(qs) + 1 =>
                    Round(qs, [at |-> p, attrs |-> s]).at = p + CodeWidth(qs, p)
          BY <4>1, <4>2, RoundWithin
        <4>4. /\ Round(ps, [at |-> 0 + p, attrs |-> s]) =
                    [at |-> 0 + Round(qs, [at |-> p, attrs |-> s]).at,
                     attrs |-> Round(qs, [at |-> p, attrs |-> s]).attrs]
              /\ p + CodeWidth(qs, p) <= Len(qs) + 1 =>
                    Round(qs, [at |-> p, attrs |-> s]).at = p + CodeWidth(qs, p)
          BY <4>3 DEF zero
        <4> QED BY <3>2, <3>3, <4>4
      <3>5. Round(qs, F[k]) \in LoopState /\ Round(qs, F[k]).at > p
        BY <3>1, <3>2, <3>3, RoundType
      <3>6. Round(ps, F[k]) = Round(qs, F[k])
        <4>1. 0 + p = p /\ 0 + Round(qs, F[k]).at = Round(qs, F[k]).at
          BY <3>2, <3>5 DEF LoopState
        <4>2. Round(qs, F[k]) = [at |-> Round(qs, F[k]).at, attrs |-> Round(qs, F[k]).attrs]
          BY <3>5 DEF LoopState
        <4> QED BY <3>2, <3>4, <4>1, <4>2
      <3>7. C[k + 1] = Round(ps, F[k])
        <4>1. C[k] = F[k] /\ ~(F[k].at > Len(ps))
          BY <1>1, <2>2, <3>2, <3>3
        <4> QED BY <1>4, <2>3, <4>1
      <3>8. F[k + 1] = Round(qs, F[k]) /\ C[k + 1] = F[k + 1]
        BY <2>4, <2>6, <3>6, <3>7
      <3>9. F[k + 1].at >= (k + 1) + 1
        BY <3>2, <3>3, <3>5, <3>8 DEF LoopState
      <3>10. k + 1 \in 0..(k + 1) /\ F[k + 1].at \in starts
        BY <3>3, <3>4, <3>8
      <3> QED BY <3>8, <3>9, <3>10
    <2> QED BY <2>5, <2>6
  <1>7. Level(n)
    <2> HIDE DEF Level, n
    <2>1. 0 \in H
      BY <1>5
    <2>2. ASSUME NEW k \in Nat, k \in H PROVE k + 1 \in H
      <3>1. k + 1 <= n => k <= n
        BY <1>1
      <3>2. k + 1 <= n => Level(k + 1)
        BY <1>6, <2>2, <3>1
      <3> QED BY <3>2
    <2> HIDE DEF H
    <2>3. Nat \subseteq H
      BY <2>1, <2>2, Induction
    <2> QED BY <1>1, <2>3 DEF H
  <1>8. /\ F[n].at \in starts
        /\ \E m \in 0..n : C[m] = F[n] /\ (F[n].at <= n => m = n /\ F[n].at >= n + 1)
    BY <1>7
  <1>9. F[n].at = n + 1
    <2>1. F[n].at \in 1..n + 1
      BY <1>2, <1>8
    <2>2. \A x \in 1..n + 1 : x <= n => ~(x >= n + 1)
      BY <1>1
    <2>3. ~(F[n].at <= n)
      <3> HIDE DEF n
      <3> QED BY <1>8, <2>1, <2>2
    <2>4. \A x \in 1..n + 1 : ~(x <= n) => x = n + 1
      BY <1>1
    <2> QED BY <2>1, <2>3, <2>4
  <1> QED BY <1>8, <1>9 DEF F, C


(* Behind a list the loop reads what follows as if it stood alone. *)
Behind(qs, ps, d) == Within(qs, ps, d) /\ Len(ps) = d + Len(qs)
From(d, b) == [at |-> d + 1, attrs |-> b]
LEMMA RestRuns ==
    ASSUME NEW ps \in Seq(Nat), NEW qs \in Seq(Nat), NEW d \in Nat, Behind(qs, ps, d),
           NEW a \in Attributes, NEW b \in Attributes,
           NEW m \in 0..d, Rounds(a, ps)[m] = From(d, b)
    PROVE  \E q \in 0..Len(ps) : /\ Rounds(a, ps)[q].attrs = Rounds(b, qs)[Len(qs)].attrs
                                 /\ Rounds(a, ps)[q].at > Len(ps)
  <1> DEFINE n == Len(qs)
             B == Rounds(b, qs)
             C == Rounds(a, ps)
  <1>0. Within(qs, ps, d) /\ Len(ps) = d + Len(qs) /\ Rounds(a, ps)[m] = [at |-> d + 1, attrs |-> b]
    BY DEF Behind, From
  <1>1. n \in Nat /\ Len(ps) = d + n /\ m \in Nat /\ m <= d
    BY <1>0
  <1>2. /\ B \in [0..n -> LoopState] /\ B[0] = [at |-> 1, attrs |-> b]
        /\ \A k \in 1..n : B[k] = IF B[k - 1].at > n THEN B[k - 1] ELSE Round(qs, B[k - 1])
    BY RoundsOf
  <1>3. \A k \in 1..Len(ps) : C[k] = IF C[k - 1].at > Len(ps) THEN C[k - 1] ELSE Round(ps, C[k - 1])
    BY RoundsOf
  <1> HIDE DEF B, C
  <1> DEFINE Moved(st) == [at |-> d + st.at, attrs |-> st.attrs]
             Level(k) == \E l \in 0..k : C[m + l] = Moved(B[k]) /\ (B[k].at <= n => l = k /\ B[k].at >= k + 1)
             H == {k \in Nat : k <= n => Level(k)}
  <1>4. Level(0)
    <2>1. 0 \in 0..0 /\ m + 0 = m /\ B[0].at = 1 /\ B[0].attrs = b /\ C[m] = [at |-> d + 1, attrs |-> b]
      BY <1>0, <1>1, <1>2 DEF C
    <2>2. C[m + 0] = Moved(B[0])
      BY <2>1
    <2>3. B[0].at <= n => 0 = 0 /\ B[0].at >= 0 + 1
      BY <2>1
    <2> HIDE DEF Moved
    <2> QED BY <2>1, <2>2, <2>3
  <1>5. ASSUME NEW k \in Nat, k + 1 <= n, Level(k) PROVE Level(k + 1)
    <2>1. PICK l \in 0..k : C[m + l] = Moved(B[k]) /\ (B[k].at <= n => l = k /\ B[k].at >= k + 1)
      BY <1>5
    <2>2. /\ k + 1 \in 1..n /\ (k + 1) - 1 = k /\ k \in 0..n
          /\ m + (k + 1) \in 1..Len(ps) /\ (m + (k + 1)) - 1 = m + k
      <3> DEFINE all == Len(ps)
      <3>1. all = d + n
        BY <1>1
      <3> HIDE DEF n, all, Level
      <3> QED BY <1>1, <1>5, <3>1 DEF all
    <2>3. B[k + 1] = IF B[k].at > n THEN B[k] ELSE Round(qs, B[k])
      BY <1>2, <2>2
    <2>4. CASE B[k].at > n
      <3>1. B[k + 1] = B[k] /\ C[m + l] = Moved(B[k + 1]) /\ l \in 0..(k + 1)
        <4> HIDE DEF Moved
        <4> QED BY <2>1, <2>3, <2>4
      <3>2. ~(B[k + 1].at <= n)
        <4>1. B[k] \in LoopState
          BY <1>2, <2>2
        <4>2. B[k].at \in Nat
          BY <4>1 DEF LoopState
        <4> QED BY <1>1, <2>4, <3>1, <4>2
      <3> HIDE DEF Moved
      <3> QED BY <3>1, <3>2
    <2>5. CASE ~(B[k].at > n)
      <3> DEFINE p == B[k].at
                 s == B[k].attrs
      <3>1. B[k] \in LoopState
        BY <1>2, <2>2
      <3>2. p \in 1..n /\ B[k] = [at |-> p, attrs |-> s] /\ p <= n /\ p >= k + 1 /\ l = k
        BY <1>1, <2>1, <2>5, <3>1 DEF LoopState
      <3>3. Round(ps, [at |-> d + p, attrs |-> s]) =
               [at |-> d + Round(qs, B[k]).at, attrs |-> Round(qs, B[k]).attrs]
        <4>1. Fits(qs, ps, d, p) /\ p \in 1..Len(qs)
          BY <1>0, <3>2 DEF Fits
        <4> HIDE DEF p, s
        <4>2. Round(ps, [at |-> d + p, attrs |-> s]) =
                 [at |-> d + Round(qs, [at |-> p, attrs |-> s]).at,
                  attrs |-> Round(qs, [at |-> p, attrs |-> s]).attrs]
          <5>1. Within(qs, ps, d)
            BY <1>0
          <5> HIDE DEF n, B, C, Moved, Level, H
          <5> QED BY <4>1, <5>1, RoundWithin
        <4> QED BY <3>2, <4>2
      <3>4. Round(qs, B[k]) \in LoopState /\ Round(qs, B[k]).at > p
        BY <3>1, <3>2, RoundType
      <3>5. C[m + (k + 1)] = Round(ps, Moved(B[k]))
        <4>1. C[m + k] = Moved(B[k]) /\ ~(Moved(B[k]).at > Len(ps))
          BY <1>1, <2>1, <3>2
        <4> HIDE DEF Moved
        <4> QED BY <1>3, <2>2, <4>1
      <3>6. B[k + 1] = Round(qs, B[k]) /\ C[m + (k + 1)] = Moved(B[k + 1])
        BY <2>3, <2>5, <3>3, <3>5
      <3>7. B[k + 1].at >= (k + 1) + 1 /\ k + 1 \in 0..(k + 1)
        <4>1. B[k + 1].at \in Nat /\ B[k + 1].at > p /\ p \in Nat /\ p >= k + 1
          BY <3>2, <3>4, <3>6 DEF LoopState
        <4> QED BY <4>1
      <3> QED BY <3>6, <3>7
    <2> QED BY <2>4, <2>5
  <1>6. Level(n)
    <2> HIDE DEF Level, n
    <2>1. 0 \in H
      BY <1>4
    <2>2. ASSUME NEW k \in Nat, k \in H PROVE k + 1 \in H
      <3>1. k + 1 <= n => k <= n
        BY <1>1
      <3>2. k + 1 <= n => Level(k + 1)
        BY <1>5, <2>2, <3>1
      <3> QED BY <3>2
    <2> HIDE DEF H
    <2>3. Nat \subseteq H
      BY <2>1, <2>2, Induction
    <2> QED BY <1>1, <2>3 DEF H
  <1>7. PICK l \in 0..n : C[m + l] = Moved(B[n]) /\ (B[n].at <= n => l = n /\ B[n].at >= n + 1)
    BY <1>6
  <1>8. B[n] \in LoopState
    <2> HIDE DEF n
    <2>1. n \in 0..n
      BY <1>1
    <2> QED BY <1>2, <2>1
  <1>9. B[n].at > n /\ B[n].at \in Nat
    BY <1>1, <1>7, <1>8 DEF LoopState
  <1>10. m + l \in 0..Len(ps) /\ C[m + l].attrs = B[n].attrs /\ C[m + l].at > Len(ps)
    BY <1>1, <1>7, <1>9
  <1> QED BY <1>10 DEF B, C

(* A complete list and another one: sent together or one after the other. *)
LEMMA RenditionConcat ==
    ASSUME NEW ps \in Seq(Nat), NEW i \in 1..Len(ps) - 1, Complete(SubSeq(ps, 1, i)),
           NEW a \in Attributes
    PROVE  Rendition(a, ps) = Rendition(Rendition(a, SubSeq(ps, 1, i)), SubSeq(ps, i + 1, Len(ps)))
  <1> DEFINE front == SubSeq(ps, 1, i)
             rest == SubSeq(ps, i + 1, Len(ps))
  <1>1. Len(ps) \in Nat /\ i \in Nat /\ i >= 1 /\ i < Len(ps)
    OBVIOUS
  <1>2. front \in Seq(Nat) /\ Len(front) = i /\ \A j \in 1..i : front[j] = ps[j]
    BY <1>1
  <1>3. rest \in Seq(Nat) /\ Len(rest) = Len(ps) - i /\ \A j \in 1..Len(ps) - i : rest[j] = ps[i + j]
    <2>1. i + 1 \in 1..Len(ps) + 1 /\ Len(ps) \in ((i + 1) - 1)..Len(ps)
          /\ Len(ps) - (i + 1) + 1 = Len(ps) - i /\ \A j \in 1..Len(ps) - i : (i + 1) + j - 1 = i + j
      BY <1>1
    <2>2. /\ rest \in Seq(Nat) /\ Len(rest) = Len(ps) - (i + 1) + 1
          /\ \A j \in 1..(Len(ps) - (i + 1) + 1) : rest[j] = ps[(i + 1) + j - 1]
      BY <2>1, PartOfSeq
    <2> HIDE DEF rest
    <2> QED BY <2>1, <2>2
  <1>4. Complete(front)
    OBVIOUS
  <1> HIDE DEF front, rest
  <1>5. front # <<>> /\ rest # <<>> /\ ps # <<>>
    <2>1. Len(<<>>) = 0
      OBVIOUS
    <2> QED BY <1>1, <1>2, <1>3, <2>1
  <1>6. Within(front, ps, 0)
    <2>1. \A j \in 1..i : 0 + j = j
      BY <1>1
    <2> QED BY <1>1, <1>2, <2>1 DEF Within
  <1>7. Within(rest, ps, i) /\ Len(ps) = i + Len(rest)
    <2>1. Len(ps) = i + Len(rest)
      BY <1>1, <1>3
    <2> QED BY <1>1, <1>3, <2>1 DEF Within
  <1> DEFINE F == Rounds(a, front)
             C == Rounds(a, ps)
             b == Rendition(a, front)
             B == Rounds(b, rest)
  <1>8. PICK m \in 0..i : C[m] = F[i] /\ F[i].at = i + 1
    BY <1>2, <1>4, <1>5, <1>6, FrontRuns
  <1>9. F[i] \in LoopState
    <2>1. F \in [0..Len(front) -> LoopState]
      BY <1>2, RoundsOf
    <2> HIDE DEF F
    <2> QED BY <1>1, <1>2, <2>1
  <1>10. b = F[i].attrs /\ b \in Attributes
    BY <1>2, <1>5, <1>9 DEF Rendition, LoopState
  <1>11. C[m] = [at |-> i + 1, attrs |-> b]
    <2>1. F[i] = [at |-> F[i].at, attrs |-> F[i].attrs]
      <3> HIDE DEF F
      <3> QED BY <1>9 DEF LoopState
    <2> QED BY <1>8, <1>10, <2>1
  <1> HIDE DEF b
  <1>12. PICK q \in 0..Len(ps) : C[q].attrs = B[Len(rest)].attrs /\ C[q].at > Len(ps)
    <2>1. /\ i \in Nat /\ rest \in Seq(Nat) /\ Behind(rest, ps, i) /\ b \in Attributes /\ m \in 0..i
      BY <1>1, <1>3, <1>7, <1>10 DEF Behind
    <2>2. C[m] = From(i, b)
      BY <1>11 DEF From
    <2> HIDE DEF C, B
    <2>3. \E q \in 0..Len(ps) : Rounds(a, ps)[q].attrs = B[Len(rest)].attrs /\ Rounds(a, ps)[q].at > Len(ps)
      BY <2>1, <2>2, RestRuns DEF B, C
    <2> QED BY <2>3 DEF C
  <1>13. C[Len(ps)] = C[q]
    BY <1>12, RoundsOver
  <1>14. Rendition(a, ps) = C[Len(ps)].attrs /\ Rendition(b, rest) = B[Len(rest)].attrs
    BY <1>5 DEF Rendition
  <1>15. Rendition(a, ps) = Rendition(b, rest)
    BY <1>12, <1>13, <1>14
  <1> QED BY <1>15 DEF b, front, rest

(* sgr and take_extended_color, for lists of any length and any codes: a list
   cut behind a complete code does what its two parts do one after the other. *)
THEOREM RenditionTheorem == SgrSpec => []SgrIsSequential
  <1> DEFINE Typed == codes \in Seq(Nat)
  <1>1. SgrInit => Typed
    BY DEF SgrInit
  <1>2. Typed /\ [SgrNext]_sgrVars => Typed'
    <2> SUFFICES ASSUME Typed, [SgrNext]_sgrVars PROVE Typed'
      OBVIOUS
    <2>1. ASSUME NEW c \in Codes, AddCode(c) PROVE Typed'
      <3>1. c \in Nat
        BY SgrAssumption
      <3> QED BY <2>1, <3>1 DEF AddCode
    <2>2. CASE UNCHANGED sgrVars
      BY <2>2 DEF sgrVars
    <2> QED BY <2>1, <2>2 DEF SgrNext
  <1>3. Typed => SgrIsSequential
    BY RenditionConcat, ColourTypes DEF SgrIsSequential
  <1> QED BY <1>1, <1>2, <1>3, PTL DEF SgrSpec

-------------------------------------------------------------------------------
(* Key presses.  What a press of a special key is told by, apart from its
   modifiers: the letter or the digits that name it. *)
Tag(p) ==
    IF p.group = "arrow" THEN <<Arrows[p.key], "">>
    ELSE IF p.group = "homeend" THEN <<HomeEnd[p.key], "">>
    ELSE IF p.group = "editing" THEN <<Editing[p.key], "">>
    ELSE IF p.n \in 1..4 THEN <<ShortFunction[p.n], "">>
    ELSE LongFunction[p.n - 4]

(* How the remote side reads the bytes of a press: the tag and the modifiers. *)
TagOf(b) ==
    IF Len(b) = 3 \/ Len(b) = 4 THEN <<b[3], "">>
    ELSE IF Len(b) = 5 THEN <<b[3], b[4]>>
    ELSE IF Len(b) = 6 THEN IF b[6] = "~" THEN <<b[3], "">> ELSE <<b[6], "">>
    ELSE IF Len(b) = 9 THEN <<b[7], b[8]>>
    ELSE <<"", "">>
ModifierOf(b) == IF Len(b) = 6 \/ Len(b) = 9 THEN b[5] ELSE "1"

LEMMA ModifierIsRead ==
    ASSUME NEW m \in Modifiers, NEW k \in Modifiers, Parameter[m + 1] = Parameter[k + 1]
    PROVE  m = k
  BY DEF Modifiers, Parameter

LEMMA Reading ==
    /\ \A b : Len(b) = 3 => TagOf(b) = <<b[3], "">> /\ ModifierOf(b) = "1" /\ b # <<>>
    /\ \A b : Len(b) = 4 => TagOf(b) = <<b[3], "">> /\ ModifierOf(b) = "1" /\ b # <<>>
    /\ \A b : Len(b) = 5 => TagOf(b) = <<b[3], b[4]>> /\ ModifierOf(b) = "1" /\ b # <<>>
    /\ \A b : Len(b) = 6 => /\ TagOf(b) = IF b[6] = "~" THEN <<b[3], "">> ELSE <<b[6], "">>
                          /\ ModifierOf(b) = b[5] /\ b # <<>>
    /\ \A b : Len(b) = 9 => TagOf(b) = <<b[7], b[8]>> /\ ModifierOf(b) = b[5] /\ b # <<>>
    /\ \A b : Len(b) = 1 => TagOf(b) = <<"", "">> /\ b # <<>>
    /\ \A b : Len(b) = 2 => TagOf(b) = <<"", "">> /\ b # <<>>
  <1>1. Len(<<>>) = 0
    OBVIOUS
  <1>2. \A b : Len(b) = 3 => TagOf(b) = <<b[3], "">> /\ ModifierOf(b) = "1" /\ b # <<>>
    BY <1>1 DEF TagOf, ModifierOf
  <1>3. \A b : Len(b) = 4 => TagOf(b) = <<b[3], "">> /\ ModifierOf(b) = "1" /\ b # <<>>
    BY <1>1 DEF TagOf, ModifierOf
  <1>4. \A b : Len(b) = 5 => TagOf(b) = <<b[3], b[4]>> /\ ModifierOf(b) = "1" /\ b # <<>>
    BY <1>1 DEF TagOf, ModifierOf
  <1>5. \A b : Len(b) = 6 => /\ TagOf(b) = IF b[6] = "~" THEN <<b[3], "">> ELSE <<b[6], "">>
                          /\ ModifierOf(b) = b[5] /\ b # <<>>
    BY <1>1 DEF TagOf, ModifierOf
  <1>6. \A b : Len(b) = 9 => TagOf(b) = <<b[7], b[8]>> /\ ModifierOf(b) = b[5] /\ b # <<>>
    BY <1>1 DEF TagOf, ModifierOf
  <1>7. \A b : Len(b) = 1 => TagOf(b) = <<"", "">> /\ b # <<>>
    BY <1>1 DEF TagOf
  <1>8. \A b : Len(b) = 2 => TagOf(b) = <<"", "">> /\ b # <<>>
    BY <1>1 DEF TagOf
  <1> QED BY <1>2, <1>3, <1>4, <1>5, <1>6, <1>7, <1>8

(* The forms of the bytes that are sent. *)
Reads(b, tag, modifier) == TagOf(b) = tag /\ ModifierOf(b) = modifier /\ b # <<>>

LEMMA FormThree == \A x, y, z : Reads(<<x, y, z>>, <<z, "">>, "1")
  <1> TAKE x, y, z
  <1> DEFINE b == <<x, y, z>>
  <1>1. Len(b) = 3 /\ b[3] = z
    OBVIOUS
  <1> HIDE DEF b
  <1>2. Reads(b, <<z, "">>, "1")
    BY <1>1, Reading DEF Reads
  <1> QED BY <1>2 DEF b

LEMMA FormFour == \A x, y, z, u : Reads(<<x, y, z, u>>, <<z, "">>, "1")
  <1> TAKE x, y, z, u
  <1> DEFINE b == <<x, y, z, u>>
  <1>1. Len(b) = 4 /\ b[3] = z
    OBVIOUS
  <1> HIDE DEF b
  <1>2. Reads(b, <<z, "">>, "1")
    BY <1>1, Reading DEF Reads
  <1> QED BY <1>2 DEF b

LEMMA FormFive == \A x, y, z, u, v : Reads(<<x, y, z, u, v>>, <<z, u>>, "1")
  <1> TAKE x, y, z, u, v
  <1> DEFINE b == <<x, y, z, u, v>>
  <1>1. Len(b) = 5 /\ b[3] = z /\ b[4] = u
    OBVIOUS
  <1> HIDE DEF b
  <1>2. Reads(b, <<z, u>>, "1")
    BY <1>1, Reading DEF Reads
  <1> QED BY <1>2 DEF b

LEMMA FormSix ==
    \A x, y, z, u, v, w :
        Reads(<<x, y, z, u, v, w>>, IF w = "~" THEN <<z, "">> ELSE <<w, "">>, v)
  <1> TAKE x, y, z, u, v, w
  <1> DEFINE b == <<x, y, z, u, v, w>>
  <1>1. Len(b) = 6 /\ b[3] = z /\ b[5] = v /\ b[6] = w
    OBVIOUS
  <1> HIDE DEF b
  <1>2. Reads(b, IF w = "~" THEN <<z, "">> ELSE <<w, "">>, v)
    BY <1>1, Reading DEF Reads
  <1> QED BY <1>2 DEF b

LEMMA FormNine ==
    \A x, y, z, u, v, w, d, e, f : Reads(<<x, y, z, u, v, w, d, e, f>>, <<d, e>>, v)
  <1> TAKE x, y, z, u, v, w, d, e, f
  <1> DEFINE b == <<x, y, z, u, v, w, d, e, f>>
  <1>1. Len(b) = 9 /\ b[5] = v /\ b[7] = d /\ b[8] = e
    OBVIOUS
  <1> HIDE DEF b
  <1>2. Reads(b, <<d, e>>, v)
    BY <1>1, Reading DEF Reads
  <1> QED BY <1>2 DEF b

LEMMA ArrowBytes ==
    ASSUME NEW key \in DOMAIN Arrows, NEW m \in Modifiers, NEW app \in BOOLEAN
    PROVE  Reads(EncodeArrow(key, m, app), <<Arrows[key], "">>, Parameter[m + 1])
  <1>1. CASE m = 0
    <2>1. EncodeArrow(key, m, app) = <<"^[", IF app THEN "O" ELSE "[", Arrows[key]>>
      BY <1>1 DEF EncodeArrow
    <2>2. Parameter[m + 1] = "1"
      BY <1>1 DEF Parameter
    <2> QED BY <2>1, <2>2, FormThree
  <1>2. CASE m # 0
    <2>1. EncodeArrow(key, m, app) = <<"^[", "[", "1", ";", Parameter[m + 1], Arrows[key]>>
      BY <1>2 DEF EncodeArrow, Modified
    <2>2. Arrows[key] # "~"
      BY DEF Arrows
    <2> QED BY <2>1, <2>2, FormSix
  <1> QED BY <1>1, <1>2

LEMMA HomeEndBytes ==
    ASSUME NEW key \in DOMAIN HomeEnd, NEW m \in Modifiers
    PROVE  Reads(EncodeHomeEnd(key, m), <<HomeEnd[key], "">>, Parameter[m + 1])
  <1>1. CASE m = 0
    <2>1. EncodeHomeEnd(key, m) = <<"^[", "[", HomeEnd[key]>>
      BY <1>1 DEF EncodeHomeEnd
    <2>2. Parameter[m + 1] = "1"
      BY <1>1 DEF Parameter
    <2> QED BY <2>1, <2>2, FormThree
  <1>2. CASE m # 0
    <2>1. EncodeHomeEnd(key, m) = <<"^[", "[", "1", ";", Parameter[m + 1], HomeEnd[key]>>
      BY <1>2 DEF EncodeHomeEnd, Modified
    <2>2. HomeEnd[key] # "~"
      BY DEF HomeEnd
    <2> QED BY <2>1, <2>2, FormSix
  <1> QED BY <1>1, <1>2

LEMMA EditingBytes ==
    ASSUME NEW key \in DOMAIN Editing, NEW m \in Modifiers
    PROVE  Reads(EncodeEditing(key, m), <<Editing[key], "">>, Parameter[m + 1])
  <1>1. CASE m = 0
    <2>1. EncodeEditing(key, m) = <<"^[", "[", Editing[key], "~">>
      BY <1>1 DEF EncodeEditing
    <2>2. Parameter[m + 1] = "1"
      BY <1>1 DEF Parameter
    <2> QED BY <2>1, <2>2, FormFour
  <1>2. CASE m # 0
    <2>1. EncodeEditing(key, m) = <<"^[", "[", Editing[key], ";", Parameter[m + 1], "~">>
      BY <1>2 DEF EncodeEditing
    <2> QED BY <2>1, FormSix
  <1> QED BY <1>1, <1>2

LEMMA ShortFunctionBytes ==
    ASSUME NEW n \in 1..4, NEW m \in Modifiers
    PROVE  Reads(EncodeFunction(n, m), <<ShortFunction[n], "">>, Parameter[m + 1])
  <1>1. CASE m = 0
    <2>1. EncodeFunction(n, m) = <<"^[", "O", ShortFunction[n]>>
      BY <1>1 DEF EncodeFunction
    <2>2. Parameter[m + 1] = "1"
      BY <1>1 DEF Parameter
    <2> QED BY <2>1, <2>2, FormThree
  <1>2. CASE m # 0
    <2>1. EncodeFunction(n, m) = <<"^[", "[", "1", ";", Parameter[m + 1], ShortFunction[n]>>
      BY <1>2 DEF EncodeFunction, Modified
    <2>2. ShortFunction[n] # "~"
      BY DEF ShortFunction
    <2> QED BY <2>1, <2>2, FormSix
  <1> QED BY <1>1, <1>2

LEMMA LongFunctionBytes ==
    ASSUME NEW n \in 5..12, NEW m \in Modifiers
    PROVE  Reads(EncodeFunction(n, m), LongFunction[n - 4], Parameter[m + 1])
  <1> DEFINE c == LongFunction[n - 4]
  <1>1. n \notin 1..4
    OBVIOUS
  <1>2. c = <<c[1], c[2]>>
    BY DEF LongFunction
  <1>3. CASE m = 0
    <2>1. EncodeFunction(n, m) = <<"^[", "[", c[1], c[2], "~">>
      BY <1>1, <1>3 DEF EncodeFunction
    <2>2. Parameter[m + 1] = "1"
      BY <1>3 DEF Parameter
    <2> QED BY <1>2, <2>1, <2>2, FormFive
  <1>4. CASE m # 0
    <2>1. EncodeFunction(n, m) = <<"^[", "[", "1", ";", Parameter[m + 1], ";", c[1], c[2], "~">>
      BY <1>1, <1>4 DEF EncodeFunction
    <2> QED BY <1>2, <2>1, FormNine
  <1> QED BY <1>3, <1>4

LEMMA CharacterBytes ==
    ASSUME NEW ch \in Characters, NEW m \in Modifiers
    PROVE  TagOf(EncodeChar(ch, m)) = <<"", "">> /\ EncodeChar(ch, m) # <<>>
  <1>1. PICK c : EncodeChar(ch, m) = <<c>>
    BY DEF EncodeChar
  <1>2. Len(EncodeChar(ch, m)) = 1
    BY <1>1
  <1> QED BY <1>2, Reading

LEMMA PlainBytes ==
    ASSUME NEW key \in Keys.plain, NEW m \in Modifiers
    PROVE  /\ TagOf(EncodePlain(key, m)) = <<"", "">> \/ TagOf(EncodePlain(key, m)) = <<"Z", "">>
           /\ EncodePlain(key, m) # <<>>
  <1> DEFINE Good(b) == (TagOf(b) = <<"", "">> \/ TagOf(b) = <<"Z", "">>) /\ b # <<>>
  <1>1. Good(<<"^[", "[", "Z">>)
    BY FormThree DEF Reads
  <1>2. Good(<<"^[", "^?">>)
    <2>1. Len(<<"^[", "^?">>) = 2
      OBVIOUS
    <2> QED BY <2>1, Reading
  <1>3. \A c : Good(<<c>>)
    <2> TAKE c
    <2>1. Len(<<c>>) = 1
      OBVIOUS
    <2> QED BY <2>1, Reading
  <1> HIDE DEF Good
  <1>4. Good(EncodePlain(key, m))
    BY <1>1, <1>2, <1>3 DEF EncodePlain
  <1> QED BY <1>4 DEF Good

LEMMA PressFields ==
    ASSUME NEW p \in Presses
    PROVE  /\ p = [group |-> p.group, key |-> p.key, n |-> p.n, mod |-> p.mod,
                   application |-> p.application]
           /\ p.n \in Nat /\ p.mod \in Modifiers /\ p.application \in BOOLEAN
           /\ Special(p) <=> p.group \in {"arrow", "homeend", "editing", "function"}
  <1>1. PICK g \in DOMAIN Keys, k \in UNION {Keys[h] : h \in DOMAIN Keys}, n \in 0..MaxFunction,
             m \in Modifiers, app \in BOOLEAN :
          p = [group |-> g, key |-> k, n |-> n, mod |-> m, application |-> app]
    BY DEF Presses
  <1>2. g \in {"char", "plain", "arrow", "homeend", "editing", "function"}
    BY DEF Keys
  <1>3. n \in Nat
    BY InputAssumption
  <1> QED BY <1>1, <1>2, <1>3 DEF Special

(* A press of a special key that sends anything is read back. *)
LEMMA SpecialBytes ==
    ASSUME NEW p \in Presses, IsPress(p), Special(p), Encode(p) # <<>>
    PROVE  Reads(Encode(p), Tag(p), Parameter[p.mod + 1])
  <1>1. p.mod \in Modifiers /\ p.application \in BOOLEAN /\ p.n \in Int
    BY InputAssumption DEF Presses
  <1>2. CASE p.group = "arrow"
    <2>1. p.key \in DOMAIN Arrows
      BY <1>2 DEF IsPress, Keys
    <2> QED BY <1>1, <1>2, <2>1, ArrowBytes DEF Encode, Tag
  <1>3. CASE p.group = "homeend"
    <2>1. p.key \in DOMAIN HomeEnd
      BY <1>3 DEF IsPress, Keys
    <2> QED BY <1>1, <1>3, <2>1, HomeEndBytes DEF Encode, Tag
  <1>4. CASE p.group = "editing"
    <2>1. p.key \in DOMAIN Editing
      BY <1>4 DEF IsPress, Keys
    <2> QED BY <1>1, <1>4, <2>1, EditingBytes DEF Encode, Tag
  <1>5. CASE p.group = "function"
    <2>1. Encode(p) = EncodeFunction(p.n, p.mod)
      BY <1>5 DEF Encode
    <2>2. p.n \in 1..4 \/ p.n \in 5..12
      BY <2>1 DEF EncodeFunction
    <2>3. CASE p.n \in 1..4
      BY <1>1, <1>5, <2>1, <2>3, ShortFunctionBytes DEF Tag
    <2>4. CASE p.n \in 5..12
      <3>1. p.n \notin 1..4
        BY <2>4
      <3> QED BY <1>1, <1>5, <2>1, <2>4, <3>1, LongFunctionBytes DEF Tag
    <2> QED BY <2>2, <2>3, <2>4
  <1>6. p.group \in {"arrow", "homeend", "editing", "function"}
    BY PressFields
  <1> QED BY <1>2, <1>3, <1>4, <1>5, <1>6

(* And so is told from the presses of other keys. *)
LEMMA OtherBytes ==
    ASSUME NEW p \in Presses, IsPress(p), ~Special(p)
    PROVE  /\ TagOf(Encode(p)) = <<"", "">> \/ TagOf(Encode(p)) = <<"Z", "">>
           /\ Encode(p) # <<>>
  <1>1. p.mod \in Modifiers
    BY DEF Presses
  <1>2. CASE p.group = "char"
    <2>1. p.key \in Characters
      BY <1>2 DEF IsPress, Keys
    <2> QED BY <1>1, <1>2, <2>1, CharacterBytes DEF Encode
  <1>3. CASE p.group = "plain"
    <2>1. p.key \in Keys.plain
      BY <1>3 DEF IsPress
    <2> QED BY <1>1, <1>3, <2>1, PlainBytes DEF Encode
  <1> QED BY <1>2, <1>3 DEF Special

LEMMA TwoDigits ==
    ASSUME NEW n \in 5..12
    PROVE  /\ n - 4 \in 1..8
           /\ LongFunction[n - 4][1] \in {"1", "2"} /\ LongFunction[n - 4][2] # ""
  <1>1. n - 4 \in 1..8
    OBVIOUS
  <1> DEFINE i == n - 4
  <1>2. \A j \in 1..8 : LongFunction[j][1] \in {"1", "2"}
    BY DEF LongFunction
  <1>3. \A j \in 1..8 : LongFunction[j][2] \in {"0", "1", "3", "4", "5", "7", "8", "9"}
    BY DEF LongFunction
  <1> QED BY <1>1, <1>2, <1>3

(* The tags of the groups of keys are different, and so are those in a group. *)
LEMMA FirstOfTag ==
    ASSUME NEW p \in Presses, IsPress(p), Special(p), Encode(p) # <<>>
    PROVE  /\ p.group = "arrow" => Tag(p)[1] \in {"A", "B", "C", "D"} /\ Tag(p)[2] = ""
           /\ p.group = "homeend" => Tag(p)[1] \in {"H", "F"} /\ Tag(p)[2] = ""
           /\ p.group = "editing" => Tag(p)[1] \in {"2", "3", "5", "6"} /\ Tag(p)[2] = ""
           /\ p.group = "function" /\ p.n \in 1..4 =>
                  Tag(p)[1] \in {"P", "Q", "R", "S"} /\ Tag(p)[2] = ""
           /\ p.group = "function" /\ p.n \notin 1..4 =>
                  Tag(p)[1] \in {"1", "2"} /\ Tag(p)[2] # "" /\ p.n \in 5..12
  <1>1. CASE p.group = "arrow"
    BY <1>1 DEF IsPress, Keys, Tag, Arrows
  <1>2. CASE p.group = "homeend"
    BY <1>2 DEF IsPress, Keys, Tag, HomeEnd
  <1>3. CASE p.group = "editing"
    BY <1>3 DEF IsPress, Keys, Tag, Editing
  <1>4. CASE p.group = "function"
    <2>1. p.n \in 1..4 \/ p.n \in 5..12
      BY <1>4 DEF Encode, EncodeFunction
    <2>2. CASE p.n \in 1..4
      <3> DEFINE c == ShortFunction[p.n]
                 t == Tag(p)
      <3>1. t = <<c, "">>
        BY <1>4, <2>2 DEF Tag
      <3> HIDE DEF c, t
      <3>2. t[1] = c /\ t[2] = ""
        BY <3>1
      <3>3. ShortFunction[p.n] \in {"P", "Q", "R", "S"}
        BY <2>2 DEF ShortFunction
      <3> QED BY <1>4, <2>2, <3>2, <3>3 DEF c, t
    <2>3. CASE p.n \in 5..12
      <3>1. p.n \notin 1..4
        BY <2>3
      <3>2. Tag(p) = LongFunction[p.n - 4] /\ p.n \notin 1..4
        BY <1>4, <3>1 DEF Tag
      <3>3. LongFunction[p.n - 4][1] \in {"1", "2"} /\ LongFunction[p.n - 4][2] # ""
        BY <2>3, TwoDigits
      <3> QED BY <1>4, <2>3, <3>2, <3>3
    <2> QED BY <1>4, <2>1, <2>2, <2>3
  <1>5. p.group \in {"arrow", "homeend", "editing", "function"}
    BY PressFields
  <1> QED BY <1>1, <1>2, <1>3, <1>4, <1>5

LEMMA TagDecides ==
    ASSUME NEW p \in Presses, IsPress(p), Special(p), Encode(p) # <<>>,
           NEW q \in Presses, IsPress(q), Special(q), Encode(q) # <<>>,
           Tag(p) = Tag(q)
    PROVE  p.group = q.group /\ p.key = q.key /\ p.n = q.n
  <1>1. /\ p.group \in {"arrow", "homeend", "editing", "function"}
        /\ q.group \in {"arrow", "homeend", "editing", "function"}
    BY PressFields
  <1>2. p.group = q.group
    BY <1>1, FirstOfTag
  <1>3. /\ p.n \in Nat /\ q.n \in Nat /\ (p.group # "function" => p.n = 0)
        /\ (q.group # "function" => q.n = 0)
    BY InputAssumption DEF Presses, IsPress
  <1>4. CASE p.group = "arrow"
    <2>1. /\ p.key \in {"Up", "Down", "Left", "Right"} /\ q.key \in {"Up", "Down", "Left", "Right"}
          /\ Arrows[p.key] = Arrows[q.key]
      BY <1>2, <1>4 DEF IsPress, Keys, Tag, Arrows
    <2>2. p.key = q.key
      BY <2>1 DEF Arrows
    <2> QED BY <1>2, <1>3, <1>4, <2>2
  <1>5. CASE p.group = "homeend"
    <2>1. /\ p.key \in {"Home", "End"} /\ q.key \in {"Home", "End"}
          /\ HomeEnd[p.key] = HomeEnd[q.key]
      BY <1>2, <1>5 DEF IsPress, Keys, Tag, HomeEnd
    <2>2. p.key = q.key
      BY <2>1 DEF HomeEnd
    <2> QED BY <1>2, <1>3, <1>5, <2>2
  <1>6. CASE p.group = "editing"
    <2>1. /\ p.key \in {"Insert", "Delete", "PageUp", "PageDown"}
          /\ q.key \in {"Insert", "Delete", "PageUp", "PageDown"}
          /\ Editing[p.key] = Editing[q.key]
      BY <1>2, <1>6 DEF IsPress, Keys, Tag, Editing
    <2>2. p.key = q.key
      BY <2>1 DEF Editing
    <2> QED BY <1>2, <1>3, <1>6, <2>2
  <1>7. CASE p.group = "function"
    <2>1. p.key = "F" /\ q.key = "F"
      BY <1>2, <1>7 DEF IsPress, Keys
    <2>2. (p.n \in 1..4 /\ q.n \in 1..4) \/ (p.n \in 5..12 /\ q.n \in 5..12)
      BY <1>2, <1>7, FirstOfTag
    <2>3. CASE p.n \in 1..4 /\ q.n \in 1..4
      <3>1. ShortFunction[p.n] = ShortFunction[q.n]
        BY <1>2, <1>7, <2>3 DEF Tag
      <3>2. p.n = q.n
        BY <2>3, <3>1 DEF ShortFunction
      <3> QED BY <1>2, <2>1, <3>2
    <2>4. CASE p.n \in 5..12 /\ q.n \in 5..12
      <3>1. LongFunction[p.n - 4] = LongFunction[q.n - 4]
        <4>1. p.n \notin 1..4 /\ q.n \notin 1..4
          BY <2>4
        <4> QED BY <1>2, <1>7, <4>1 DEF Tag
      <3>2. \A i, j \in 1..8 : LongFunction[i] = LongFunction[j] => i = j
        BY DEF LongFunction
      <3>3. p.n - 4 = q.n - 4
        BY <2>4, <3>1, <3>2, TwoDigits
      <3> QED BY <1>2, <1>3, <2>1, <3>3
    <2> QED BY <2>2, <2>3, <2>4
  <1> QED BY <1>1, <1>4, <1>5, <1>6, <1>7

(* Two presses in one mode that send the same bytes are one press, when one of
   them is of a special key. *)
LEMMA BytesDecide ==
    ASSUME NEW p \in Presses, IsPress(p),
           NEW q \in Presses, IsPress(q), Special(q), Encode(q) # <<>>,
           Encode(p) = Encode(q), p.application = q.application
    PROVE  p = q
  <1>1. TagOf(Encode(q)) = Tag(q) /\ ModifierOf(Encode(q)) = Parameter[q.mod + 1]
    BY SpecialBytes DEF Reads
  <1>2. Special(p)
    <2> SUFFICES ASSUME ~Special(p) PROVE FALSE
      OBVIOUS
    <2>1. Tag(q) = <<"", "">> \/ Tag(q) = <<"Z", "">>
      BY <1>1, OtherBytes
    <2>2. Tag(q)[1] = "" \/ Tag(q)[1] = "Z"
      <3>1. <<"", "">>[1] = "" /\ <<"Z", "">>[1] = "Z"
        OBVIOUS
      <3> QED BY <2>1, <3>1
    <2> QED BY <2>2, FirstOfTag, PressFields
  <1>3. TagOf(Encode(p)) = Tag(p) /\ ModifierOf(Encode(p)) = Parameter[p.mod + 1]
    BY <1>2, SpecialBytes DEF Reads
  <1>4. p.group = q.group /\ p.key = q.key /\ p.n = q.n
    BY <1>1, <1>2, <1>3, TagDecides
  <1>5. p.mod = q.mod
    BY <1>1, <1>3, PressFields, ModifierIsRead
  <1> QED BY <1>4, <1>5, PressFields

LEMMA OnlyUnknownSilent ==
    ASSUME NEW p \in Presses, IsPress(p), Encode(p) = <<>>
    PROVE  p.group = "function" /\ p.n > 12
  <1>1. Special(p)
    BY OtherBytes
  <1>2. p.mod \in Modifiers /\ p.application \in BOOLEAN /\ p.n \in Nat
    BY PressFields
  <1>3. p.group # "arrow"
    <2> SUFFICES ASSUME p.group = "arrow" PROVE FALSE
      OBVIOUS
    <2>1. p.key \in DOMAIN Arrows /\ Encode(p) = EncodeArrow(p.key, p.mod, p.application)
      BY DEF IsPress, Keys, Encode
    <2> QED BY <1>2, <2>1, ArrowBytes DEF Reads
  <1>4. p.group # "homeend"
    <2> SUFFICES ASSUME p.group = "homeend" PROVE FALSE
      OBVIOUS
    <2>1. p.key \in DOMAIN HomeEnd /\ Encode(p) = EncodeHomeEnd(p.key, p.mod)
      BY DEF IsPress, Keys, Encode
    <2> QED BY <1>2, <2>1, HomeEndBytes DEF Reads
  <1>5. p.group # "editing"
    <2> SUFFICES ASSUME p.group = "editing" PROVE FALSE
      OBVIOUS
    <2>1. p.key \in DOMAIN Editing /\ Encode(p) = EncodeEditing(p.key, p.mod)
      BY DEF IsPress, Keys, Encode
    <2> QED BY <1>2, <2>1, EditingBytes DEF Reads
  <1>6. p.group = "function"
    BY <1>1, <1>3, <1>4, <1>5, PressFields
  <1>7. Encode(p) = EncodeFunction(p.n, p.mod) /\ p.n # 0
    BY <1>6 DEF Encode, IsPress
  <1>8. p.n \notin 1..4 /\ p.n \notin 5..12
    BY <1>2, <1>7, ShortFunctionBytes, LongFunctionBytes DEF Reads
  <1> QED BY <1>2, <1>6, <1>7, <1>8

(* KeysUnambiguous for every function key: what a special key sends is told
   from what any other press in the same mode sends (encode_key). *)
THEOREM KeyTheorem == InputSpec => []KeysUnambiguous
  <1>1. InputInit => press \in Presses /\ IsPress(press)
    BY DEF InputInit
  <1>2. press \in Presses /\ IsPress(press) => KeysUnambiguous
    <2> SUFFICES ASSUME press \in Presses, IsPress(press)
                 PROVE  KeysUnambiguous
      OBVIOUS
    <2>1. Encode(press) = <<>> => press.group = "function" /\ press.n > 12
      BY OnlyUnknownSilent
    <2>2. ASSUME Special(press), Encode(press) # <<>>, NEW p \in Presses, IsPress(p),
                 p.application = press.application, Encode(p) = Encode(press)
          PROVE  p = press
      BY <2>2, BytesDecide
    <2> QED BY <2>1, <2>2 DEF KeysUnambiguous
  <1>3. InputInit => KeysUnambiguous
    BY <1>1, <1>2
  <1>4. KeysUnambiguous /\ [UNCHANGED inputVars]_inputVars => KeysUnambiguous'
    BY DEF KeysUnambiguous, inputVars
  <1> QED BY <1>3, <1>4, PTL DEF InputSpec
===============================================================================
