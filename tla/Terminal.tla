------------------------------- MODULE Terminal -------------------------------
(***************************************************************************)
(* The terminal's screen model (rdt-terminal, term.rs and grid.rs): what   *)
(* the parser's actions, a resize by the window and the other calls do to  *)
(* the screen, the cursor, the modes and the history.                      *)
(*                                                                         *)
(* `term` is the Terminal value; a method is an operator from one such     *)
(* value to the next, so a method that calls others is their composition.  *)
(* Rows and columns count from 0 as in the code, sequences from 1.  A cell *)
(* is its character: attributes are the subject of Sgr.                    *)
(*                                                                         *)
(* A restore may bring back a cursor or a screen of an earlier size; what  *)
(* indexes it is out of range then, and `fits` says that this happened.    *)
(* The model ends there.                                                   *)
(***************************************************************************)
EXTENDS Integers, Sequences

CONSTANTS Chars,         \* characters one column wide
          WideChars,     \* characters two columns wide
          MaxCols, MaxRows,
          ScrollLimit,   \* lines of history kept, 10000 in the code
          InitialSize, Sizes,  \* what the window asks for, <<cols, rows>>
          Inputs,        \* the parsed actions that may arrive
          MaxOps,        \* bound: calls of one behaviour
          None

ASSUME TerminalAssumption ==
    /\ MaxCols \in Nat \ {0} /\ MaxRows \in Nat \ {0} /\ ScrollLimit \in Nat
    /\ InitialSize \in Nat \X Nat /\ Sizes \subseteq Nat \X Nat /\ MaxOps \in Nat
    /\ " " \notin Chars \cup WideChars

\* What the parser makes of bytes: numbers that are not negative.
ASSUME InputsAssumption ==
    \A a \in Inputs :
        /\ a.kind = "print" => a.char \in Chars \cup WideChars
        /\ a.kind = "csi" => a.params \in Seq(Nat)

VARIABLES term,      \* the terminal
          resized,   \* history: the size changed since the last full reset
          primary,   \* history: the primary screen when it was last left, or None
          ops        \* calls so far

termVars == <<term, resized, primary, ops>>

Blank == " "
BlankRow(c) == [i \in 1..c |-> Blank]
BlankScreen(c, r) == [i \in 1..r |-> BlankRow(c)]

AtMost(a, b) == IF a <= b THEN a ELSE b
AtLeast(a, b) == IF a >= b THEN a ELSE b
Clamp(n, max) == AtLeast(1, AtMost(n, max))
Minus(a, b) == AtLeast(a - b, 0)                        \* saturating_sub

ModeNames == {"cursor_visible", "application_cursor_keys", "application_keypad",
              "bracketed_paste", "origin", "auto_wrap", "alternate_screen", "insert"}

\* Terminal::new.
New(c, r) ==
    LET cols == Clamp(c, MaxCols)  rows == Clamp(r, MaxRows)
    IN [cols |-> cols, rows |-> rows, screen |-> BlankScreen(cols, rows),
        savedScreen |-> None, savedCursor |-> None, scrollback |-> <<>>,
        row |-> 0, col |-> 0, modes |-> {"cursor_visible", "auto_wrap"},
        top |-> 0, bottom |-> rows, wrapPending |-> FALSE,
        title |-> None, dirty |-> TRUE, bells |-> 0, fits |-> TRUE]

Dirty(t) == [t EXCEPT !.dirty = TRUE]
Home(t) == [t EXCEPT !.row = 0, !.col = 0]
SetMode(t, mode, on) == [t EXCEPT !.modes = IF on THEN @ \cup {mode} ELSE @ \ {mode}]
Has(t, mode) == mode \in t.modes

-------------------------------------------------------------------------------
(* Lines.                                                                   *)

\* Scrollback::push: the oldest line goes when the limit is reached.
PushHistory(lines, new) ==
    LET all == lines \o new
    IN SubSeq(all, Minus(Len(all), ScrollLimit) + 1, Len(all))

\* The rows from..to-1 move up or down by n; blank rows come in behind them.
RowsUp(t, from, to, n) ==
    [t EXCEPT !.screen =
        [i \in DOMAIN @ |-> IF i <= from \/ i > to THEN @[i]
                            ELSE IF i + n <= to THEN @[i + n] ELSE BlankRow(t.cols)]]
RowsDown(t, from, to, n) ==
    [t EXCEPT !.screen =
        [i \in DOMAIN @ |-> IF i <= from \/ i > to THEN @[i]
                            ELSE IF i - n > from THEN @[i - n] ELSE BlankRow(t.cols)]]

\* A mutant: the whole screen moves.
ScrollUpWholeScreen(t, n) == Dirty(RowsUp(t, 0, t.rows, n))

\* A line that leaves the top of the whole screen goes into the history.
ScrollUp(t, n) ==
    LET leaving == [i \in 1..n |-> IF i <= t.rows THEN t.screen[i] ELSE BlankRow(t.cols)]
        whole == t.top = 0 /\ t.bottom = t.rows
    IN Dirty([RowsUp(t, t.top, t.bottom, n) EXCEPT
                 !.scrollback = IF whole THEN PushHistory(@, leaving) ELSE @])
ScrollDown(t, n) == Dirty(RowsDown(t, t.top, t.bottom, n))

InRegion(t) == t.row \in t.top..t.bottom - 1
InsertLines(t, n) ==
    IF InRegion(t) THEN [RowsDown(t, t.row, t.bottom, n) EXCEPT !.col = 0] ELSE t
DeleteLines(t, n) ==
    IF InRegion(t) THEN [RowsUp(t, t.row, t.bottom, n) EXCEPT !.col = 0] ELSE t

LineFeed(t) ==
    LET u == [t EXCEPT !.wrapPending = FALSE]
    IN IF t.row + 1 = t.bottom THEN ScrollUp(u, 1)
       ELSE IF t.row + 1 < t.rows THEN [u EXCEPT !.row = @ + 1]
       ELSE u
ReverseIndex(t) ==
    IF t.row = t.top THEN ScrollDown(t, 1) ELSE [t EXCEPT !.row = Minus(@, 1)]

-------------------------------------------------------------------------------
(* Cells of the cursor's row.                                               *)

Line(t) == t.screen[t.row + 1]
SetLine(t, cells) == [t EXCEPT !.screen[t.row + 1] = cells]

\* n blanks go in before column `at`; the row is cut at the right margin.
InsertBlanks(t, at, n) ==
    SetLine(t, [i \in 1..t.cols |-> IF i <= at THEN Line(t)[i]
                                    ELSE IF i <= at + n THEN Blank ELSE Line(t)[i - n]])

\* At the margin the last cell makes room, once the row has no cell too many.
InsertChars(t, n) ==
    IF t.col < t.cols THEN InsertBlanks(t, t.col, n)
    ELSE InsertBlanks(t, t.cols - 1, IF Len(Line(t)) > t.cols THEN n - 1 ELSE n)

\* Behind the end of the row there is nothing to remove, and blanks are added
\* until the column is inside: from then on each removes the one before it.
DeleteChars(t, n) ==
    SetLine(t, IF t.col < Len(Line(t))
               THEN [i \in DOMAIN Line(t) |-> IF i <= t.col THEN Line(t)[i]
                                              ELSE IF i + n <= Len(Line(t)) THEN Line(t)[i + n]
                                              ELSE Blank]
               ELSE Line(t) \o BlankRow(AtMost(n, t.col + 1 - Len(Line(t)))))

\* erase_line_part and erase_chars: the cells from..to-1, inside the margin.
EraseCells(t, from, to) ==
    SetLine(t, [i \in DOMAIN Line(t) |-> IF i > from /\ i <= AtMost(to, t.cols) THEN Blank
                                         ELSE Line(t)[i]])
EraseChars(t, n) == EraseCells(t, t.col, t.col + n)
EraseLine(t, mode) ==
    EraseCells(t, IF mode = 0 THEN t.col ELSE 0, IF mode = 1 THEN t.col + 1 ELSE t.cols)

\* clear_row keeps a row's length.
ClearRows(t, rows) ==
    [t EXCEPT !.screen = [i \in DOMAIN @ |-> IF i - 1 \in rows THEN BlankRow(Len(@[i])) ELSE @[i]]]
EraseDisplay(t, mode) ==
    IF mode = 0 THEN ClearRows(EraseLine(t, 0), t.row + 1..t.rows - 1)
    ELSE IF mode = 1 THEN EraseLine(ClearRows(t, 0..t.row - 1), 1)
    ELSE Home([ClearRows(t, 0..t.rows - 1) EXCEPT !.scrollback = <<>>])

-------------------------------------------------------------------------------
(* Printing and control codes.                                              *)

Width(ch) == IF ch \in WideChars THEN 2 ELSE 1

\* Behind the right margin nothing is put.  A wide character in the last
\* column has no continuation cell.
PutChar(t, ch) ==
    IF t.col >= t.cols THEN t
    ELSE LET cells == [i \in DOMAIN Line(t) |->
                          IF i = t.col + 1 THEN ch
                          ELSE IF Width(ch) = 2 /\ i = t.col + 2 /\ i <= t.cols THEN Blank
                          ELSE Line(t)[i]]
             next == t.col + Width(ch)
             wraps == next >= t.cols /\ Has(t, "auto_wrap")
         IN Dirty([SetLine(t, cells) EXCEPT
                      !.col = IF next < t.cols THEN next ELSE IF wraps THEN t.cols ELSE t.cols - 1,
                      !.wrapPending = @ \/ wraps])

PrintChar(t, ch) ==
    LET u == IF t.wrapPending THEN [LineFeed(t) EXCEPT !.col = 0] ELSE t
        v == IF Has(u, "insert") THEN InsertBlanks(u, u.col, Width(ch)) ELSE u
    IN PutChar(v, ch)

Tab(t) == [t EXCEPT !.col = AtMost((@ \div 8 + 1) * 8, t.cols - 1)]
ReturnCarriage(t) == [t EXCEPT !.col = 0, !.wrapPending = FALSE]

ExecuteCode(t, code) ==
    Dirty(IF code = 7 THEN [t EXCEPT !.bells = @ + 1]
          ELSE IF code = 8 THEN [t EXCEPT !.col = Minus(@, 1), !.wrapPending = FALSE]
          ELSE IF code = 9 THEN Tab(t)
          ELSE IF code \in 10..12 THEN LineFeed(t)
          ELSE IF code = 13 THEN ReturnCarriage(t)
          ELSE t)

-------------------------------------------------------------------------------
(* Cursor movement, and what saves and restores it.                         *)

Stop(t) == [t EXCEPT !.wrapPending = FALSE]
MoveUp(t, n) == Stop([t EXCEPT !.row = AtLeast(Minus(@, n), t.top)])
MoveDown(t, n) == Stop([t EXCEPT !.row = AtMost(@ + n, t.rows - 1)])
MoveRight(t, n) == Stop([t EXCEPT !.col = AtMost(@ + n, t.cols - 1)])
MoveLeft(t, n) == Stop([t EXCEPT !.col = Minus(@, n)])
ToColumn(t, n) == [t EXCEPT !.col = AtMost(Minus(n, 1), t.cols - 1)]
ToRow(t, n) ==
    [t EXCEPT !.row = AtMost(Minus(n, 1) + (IF Has(t, "origin") THEN t.top ELSE 0), t.rows - 1)]
MoveTo(t, row, col) == Stop(ToColumn(ToRow(t, row), col))

\* CSI r: an empty or too long region is not taken.
SetRegion(t, from, to) ==
    IF from - 1 < to /\ to <= t.rows
    THEN [t EXCEPT !.top = from - 1, !.bottom = to, !.col = 0,
                   !.row = IF Has(t, "origin") THEN from - 1 ELSE 0]
    ELSE t

ScreenFits(t, screen) ==
    Len(screen) = t.rows /\ \A i \in DOMAIN screen : Len(screen[i]) >= t.cols
CursorFits(t, cursor) == cursor.row < t.rows /\ cursor.col <= t.cols

SaveCursor(t) == [t EXCEPT !.savedCursor = [row |-> t.row, col |-> t.col]]
RestoreCursor(t) ==
    IF t.savedCursor = None THEN t
    ELSE [t EXCEPT !.row = t.savedCursor.row, !.col = t.savedCursor.col,
                   !.fits = @ /\ CursorFits(t, t.savedCursor)]

\* A mutant: the alternate screen may be entered twice.
SwitchScreenAgain(t, alternate) ==
    IF alternate
    THEN Dirty(SetMode(Home([SaveCursor(t) EXCEPT !.savedScreen = t.screen,
                                                  !.screen = BlankScreen(t.cols, t.rows)]),
                       "alternate_screen", TRUE))
    ELSE IF ~Has(t, "alternate_screen") THEN t
    ELSE Dirty(SetMode(RestoreCursor([t EXCEPT !.screen = t.savedScreen, !.savedScreen = None,
                                               !.fits = @ /\ ScreenFits(t, t.savedScreen)]),
                       "alternate_screen", FALSE))

SwitchScreen(t, alternate) ==
    IF alternate = Has(t, "alternate_screen") THEN t
    ELSE Dirty(SetMode(
        IF alternate
        THEN Home([SaveCursor(t) EXCEPT !.savedScreen = t.screen,
                                        !.screen = BlankScreen(t.cols, t.rows)])
        ELSE RestoreCursor([t EXCEPT !.screen = t.savedScreen, !.savedScreen = None,
                                     !.fits = @ /\ ScreenFits(t, t.savedScreen)]),
        "alternate_screen", alternate))

-------------------------------------------------------------------------------
(* The parser's actions.  Final bytes are written as their characters.      *)

Call == ops < MaxOps /\ ops' = ops + 1 /\ term.fits

\* A method that is neither a resize nor a change of screens.
Becomes(t) == term' = t /\ UNCHANGED <<resized, primary>>
Updates(t) == Becomes(Dirty(t))

Param(a, i, default) ==
    IF i > Len(a.params) THEN default ELSE IF a.params[i] = 0 THEN default ELSE a.params[i]
Count(a) == Param(a, 1, 1)
Mode(a) == Param(a, 1, 0)

CursorSequence(a) ==
    \/ a.final = "A" /\ Updates(MoveUp(term, Count(a)))
    \/ a.final \in {"B", "e"} /\ Updates(MoveDown(term, Count(a)))
    \/ a.final \in {"C", "a"} /\ Updates(MoveRight(term, Count(a)))
    \/ a.final = "D" /\ Updates(MoveLeft(term, Count(a)))
    \/ a.final = "E" /\ Updates([MoveDown(term, Count(a)) EXCEPT !.col = 0])
    \/ a.final = "F" /\ Updates([MoveUp(term, Count(a)) EXCEPT !.col = 0])
    \/ a.final \in {"G", "backquote"} /\ Updates(ToColumn(term, Count(a)))
    \/ a.final \in {"H", "f"} /\ Updates(MoveTo(term, Count(a), Param(a, 2, 1)))
    \/ a.final = "d" /\ Updates(ToRow(term, Count(a)))
    \/ a.final = "s" /\ Updates(SaveCursor(term))
    \/ a.final = "u" /\ Updates(RestoreCursor(term))

EditSequence(a) ==
    \/ a.final = "J" /\ Updates(EraseDisplay(term, Mode(a)))
    \/ a.final = "K" /\ Updates(EraseLine(term, Mode(a)))
    \/ a.final = "L" /\ Updates(InsertLines(term, Count(a)))
    \/ a.final = "M" /\ Updates(DeleteLines(term, Count(a)))
    \/ a.final = "P" /\ Updates(DeleteChars(term, Count(a)))
    \/ a.final = "@" /\ Updates(InsertChars(term, Count(a)))
    \/ a.final = "X" /\ Updates(EraseChars(term, Count(a)))
    \/ a.final = "S" /\ Updates(ScrollUp(term, Count(a)))
    \/ a.final = "T" /\ Updates(ScrollDown(term, Count(a)))
    \/ a.final = "r" /\ Updates(SetRegion(term, Count(a), Param(a, 2, term.rows)))

\* CSI h and l know the insert mode only.
ModeSequence(a) ==
    /\ a.final \in {"h", "l"}
    /\ Updates(IF Mode(a) = 4 THEN SetMode(term, "insert", a.final = "h") ELSE term)

\* Everything else has nothing to show; SGR changes attributes only.
Handled == {"A", "B", "e", "C", "a", "D", "E", "F", "G", "backquote", "H", "f", "d", "s", "u", "J", "K",
            "L", "M", "P", "@", "X", "S", "T", "r", "h", "l"}
OtherSequence(a) == a.final \notin Handled /\ Updates(term)

\* The private modes that only store a flag.
FlagModes == {<<1, "application_cursor_keys">>, <<4, "insert">>, <<7, "auto_wrap">>,
              <<25, "cursor_visible">>, <<2004, "bracketed_paste">>}

\* Origin mode sends the cursor to its first row.
OriginMode(t, on) ==
    [SetMode(t, "origin", on) EXCEPT !.row = IF on THEN t.top ELSE 0, !.col = 0]

\* A change of screens, with the history of the primary screen.
Switches(on) ==
    /\ term' = Dirty(SwitchScreen(term, on))
    /\ primary' = IF ~on THEN None ELSE IF Has(term, "alternate_screen") THEN primary ELSE term.screen
    /\ UNCHANGED resized

\* A private sequence sets its first parameter's mode when it ends in `h` and
\* resets it when it ends in anything else.
PrivateMode(m, on) ==
    \/ \E flag \in FlagModes : m = flag[1] /\ Updates(SetMode(term, flag[2], on))
    \/ m = 6 /\ Updates(OriginMode(term, on))
    \/ m = 1048 /\ Updates(IF on THEN SaveCursor(term) ELSE RestoreCursor(term))
    \/ m \in {47, 1047, 1049} /\ Switches(on)
    \/ m \notin {1, 4, 6, 7, 25, 47, 1047, 1048, 1049, 2004} /\ Updates(term)
PrivateSequence(a) == PrivateMode(Mode(a), a.final = "h")

ControlSequence(a) ==
    /\ a.kind = "csi"
    /\ IF a.ignore THEN Becomes(term)
       ELSE IF a.private THEN PrivateSequence(a)
       ELSE CursorSequence(a) \/ EditSequence(a) \/ ModeSequence(a) \/ OtherSequence(a)

\* Escape sequences; what stands between ESC and the final byte is not looked at.
EscapeSequence(a) ==
    /\ a.kind = "esc"
    /\ \/ a.final = "7" /\ Updates(SaveCursor(term))
       \/ a.final = "8" /\ Updates(RestoreCursor(term))
       \/ a.final = "D" /\ Updates(LineFeed(term))
       \/ a.final = "M" /\ Updates(ReverseIndex(term))
       \/ a.final = "E" /\ Updates(LineFeed([term EXCEPT !.col = 0]))
       \/ a.final \in {"=", ">"} /\ Updates(SetMode(term, "application_keypad", a.final = "="))
       \/ a.final \notin {"7", "8", "D", "M", "E", "=", ">", "c"} /\ Updates(term)
       \/ /\ a.final = "c"
          /\ term' = New(term.cols, term.rows) /\ resized' = FALSE /\ primary' = None

\* OSC 0, 1 and 2 set the title; device control strings do nothing.
OscSequence(a) ==
    /\ a.kind = "osc"
    /\ Becomes(IF a.number \in 0..2 /\ a.text # None THEN [term EXCEPT !.title = a.text] ELSE term)
DeviceString(a) == a.kind = "dcs" /\ Becomes(term)

Apply(a) ==
    /\ Call
    /\ \/ a.kind = "print" /\ Becomes(PrintChar(term, a.char))
       \/ a.kind = "execute" /\ Becomes(ExecuteCode(term, a.code))
       \/ ControlSequence(a) \/ EscapeSequence(a) \/ OscSequence(a) \/ DeviceString(a)

-------------------------------------------------------------------------------
(* The window's calls.                                                      *)

\* A mutant: the scroll region is not reset.
ResizeKeepingRegion(t, cols, rows) ==
    LET wide == [i \in DOMAIN t.screen |->
                    [j \in 1..cols |-> IF j <= Len(t.screen[i]) THEN t.screen[i][j] ELSE Blank]]
        removed == Minus(t.rows, rows)
    IN [t EXCEPT !.cols = cols, !.rows = rows,
                 !.screen = SubSeq(wide, removed + 1, Len(wide))
                                \o BlankScreen(cols, Minus(rows, t.rows)),
                 !.dirty = TRUE, !.row = AtMost(@, rows - 1), !.col = AtMost(@, cols - 1)]

\* Every row is cut or extended; rows are added at the bottom, and rows that do
\* not fit go from the top into the history, the alternate screen's too.  The
\* saved screen and the saved cursor keep the size they had.
ResizeTo(t, cols, rows) ==
    LET wide == [i \in DOMAIN t.screen |->
                    [j \in 1..cols |-> IF j <= Len(t.screen[i]) THEN t.screen[i][j] ELSE Blank]]
        removed == Minus(t.rows, rows)
    IN [t EXCEPT !.cols = cols, !.rows = rows,
                 !.screen = SubSeq(wide, removed + 1, Len(wide))
                                \o BlankScreen(cols, Minus(rows, t.rows)),
                 !.scrollback = PushHistory(@, SubSeq(wide, 1, removed)),
                 !.top = 0, !.bottom = rows, !.dirty = TRUE,
                 !.row = AtMost(@, rows - 1), !.col = AtMost(@, cols - 1)]

Resize(c, r) ==
    LET cols == Clamp(c, MaxCols)  rows == Clamp(r, MaxRows)
    IN /\ Call
       /\ <<cols, rows>> # <<term.cols, term.rows>>
       /\ term' = ResizeTo(term, cols, rows)
       /\ resized' = TRUE
       /\ UNCHANGED primary

ClearAll == Call /\ Updates(Home([ClearRows(term, 0..term.rows - 1) EXCEPT !.scrollback = <<>>]))
ResetAfterReconnect == Call /\ Becomes(Stop(term))
TakeSnapshot == Call /\ Becomes([term EXCEPT !.dirty = FALSE])

TermInit ==
    /\ term = New(InitialSize[1], InitialSize[2])
    /\ resized = FALSE /\ primary = None /\ ops = 0
TermNext ==
    \/ \E a \in Inputs : Apply(a)
    \/ \E size \in Sizes : Resize(size[1], size[2])
    \/ ClearAll \/ ResetAfterReconnect \/ TakeSnapshot
TermSpec == TermInit /\ [][TermNext]_termVars

-------------------------------------------------------------------------------
(* Properties. *)

Glyphs == Chars \cup WideChars \cup {Blank}
TermTypeOK ==
    /\ term.cols \in 1..MaxCols /\ term.rows \in 1..MaxRows
    /\ \A i \in DOMAIN term.screen : term.screen[i] \in Seq(Glyphs)
    /\ term.modes \subseteq ModeNames
    /\ Len(term.scrollback) <= ScrollLimit
    /\ Has(term, "alternate_screen") <=> term.savedScreen # None

\* Every index the methods use is in range: the screen has its rows, each at
\* least as wide as the screen, the cursor is on it (or just behind the right
\* margin), the region is not empty and inside.  Only one thing can break this:
\* a restore after a resize, because resize leaves the saved cursor and the
\* saved screen as they were.
IndicesInRange ==
    IF term.fits
    THEN /\ ScreenFits(term, term.screen)
         /\ term.row \in 0..term.rows - 1 /\ term.col \in 0..term.cols
         /\ term.top \in 0..term.bottom - 1 /\ term.bottom \in 1..term.rows
    ELSE resized

\* Scrolling, line feeds and the insertion and deletion of lines stay inside
\* the scroll region: the rows outside it keep their cells.
Scrolls(a) ==
    \/ a.kind = "csi" /\ a.final \in {"L", "M", "S", "T"} /\ ~a.private
    \/ a.kind = "esc" /\ a.final \in {"D", "M", "E"}
    \/ a.kind = "execute"
ScrollingConfined ==
    [][\A a \in {i \in Inputs : Scrolls(i)} :
          Apply(a) => \A i \in DOMAIN term.screen :
                         i \notin term.top + 1..term.bottom => term'.screen[i] = term.screen[i]
      ]_termVars

\* Leaving the alternate screen shows the primary screen as it was left, whatever
\* happened meanwhile, a second switch to the alternate screen included.
PrimaryScreenReturns ==
    [][(/\ Has(term, "alternate_screen") /\ ~Has(term', "alternate_screen")
        /\ term'.fits /\ term' # New(term.cols, term.rows))
          => term'.screen = primary]_termVars

===============================================================================
