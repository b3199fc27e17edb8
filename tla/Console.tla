------------------------------ MODULE Console ------------------------------
(***************************************************************************)
(* The text console: src/console/console.c.                                *)
(*                                                                         *)
(* printchar runs under console_lock (module SimpleLock), so it is one     *)
(* step.  screenbuf is a ring of lines that starts at linestart; the       *)
(* display only changes at the cells printcharpos and printcursor draw, or *)
(* everywhere in refreshscreen.  The glyph of '\n' in iso_font is blank.   *)
(* setcursor is never called, so cursoron stays 1 once the console is set  *)
(* up, and is left out.                                                    *)
(***************************************************************************)
EXTENDS Integers, Sequences

CONSTANTS
    cursorxmax, cursorymax,     \* columns and lines
    Chars,                      \* characters other than '\n'
    Blank, Newline, Cursor,     \* ' ', '\n', and the box of printcursor
    MaxPrinted                  \* bound of the model: characters printed

ASSUME ConsoleAssumption ==
    /\ cursorxmax \in 1..199 /\ cursorymax \in 1..200       \* screenbuf[200][200]
    /\ MaxPrinted \in Nat
    /\ Blank \in Chars /\ Newline \notin Chars /\ Cursor \notin Chars

VARIABLES
    cursorx, cursory, linestart, linefull, screenbuf,
    display,                    \* what each cell of the screen shows
    printed                     \* everything printed so far

vars == <<cursorx, cursory, linestart, linefull, screenbuf, display, printed>>

Columns == 0..(cursorxmax - 1)
Lines == 0..(cursorymax - 1)

TypeOK ==
    /\ cursorx \in Columns /\ cursory \in Lines /\ linestart \in Lines
    /\ linefull \in BOOLEAN
    /\ screenbuf \in [Lines -> [Columns -> Chars]]
    /\ display \in [Lines -> [Columns -> Chars \cup {Cursor}]]
    /\ printed \in Seq(Chars \cup {Newline})

BlankLine == [x \in Columns |-> Blank]

(* initconsole, with clearscreen and refreshscreen.                        *)
Init ==
    /\ cursorx = 0 /\ cursory = 0 /\ linestart = 0
    /\ linefull = FALSE
    /\ screenbuf = [y \in Lines |-> BlankLine]
    /\ display = [y \in Lines |-> IF y = 0 THEN [BlankLine EXCEPT ![0] = Cursor] ELSE BlankLine]
    /\ printed = <<>>

-----------------------------------------------------------------------------
(* A console while printchar works on it.                                  *)
Now == [x |-> cursorx, y |-> cursory, top |-> linestart, full |-> linefull,
        buf |-> screenbuf, shown |-> display]

(* printcharpos, at the cursor.                                            *)
Draw(c, glyph) == [c EXCEPT !.shown[c.y][c.x] = glyph]

Store(c, ch) == [c EXCEPT !.buf[(c.y + c.top) % cursorymax][c.x] = ch]

refreshscreen(c) ==
    [c EXCEPT !.shown = [y \in Lines |-> [x \in Columns |-> c.buf[(c.top + y) % cursorymax][x]]]]

(* Mutant: the line above it is cleared.                                   *)
LineAtBottom(c) == (c.top + c.y) % cursorymax

LineBehind(c) == (c.top + c.y + 1) % cursorymax

(* To the start of the next line; at the bottom, the ring moves on and the *)
(* line that comes into view is cleared.                                   *)
Down(c) ==
    IF c.y = cursorymax - 1
      THEN refreshscreen([c EXCEPT !.x = 0, !.top = (@ + 1) % cursorymax,
                                   !.buf[LineBehind(c)] = BlankLine])
      ELSE [c EXCEPT !.x = 0, !.y = @ + 1]

(* Mutant: the newline after a full line makes an empty line.              *)
NewlineAlways(c) == Down(Draw(c, Blank))

NewlineTyped(c) == IF c.full THEN [c EXCEPT !.full = FALSE] ELSE Down(Draw(c, Blank))

CharTyped(c, ch) ==
    LET d == Store(Draw(c, ch), ch)
    IN  IF c.x = cursorxmax - 1 THEN Down([d EXCEPT !.full = TRUE])
        ELSE [d EXCEPT !.full = FALSE, !.x = @ + 1]

printchar(ch) ==
    LET c == IF ch = Newline THEN NewlineTyped(Now) ELSE CharTyped(Now, ch)
    IN  /\ Len(printed) < MaxPrinted
        /\ cursorx' = c.x /\ cursory' = c.y /\ linestart' = c.top /\ linefull' = c.full
        /\ screenbuf' = c.buf
        /\ display' = Draw(c, Cursor).shown
        /\ printed' = Append(printed, ch)

Next == \E ch \in Chars \cup {Newline} : printchar(ch)

Spec == Init /\ [][Next]_vars

-----------------------------------------------------------------------------
(* Properties.                                                             *)

(* The screen shows the lines of screenbuf from linestart on, and the      *)
(* cursor, once: scrolling, wrapping and moving the cursor leave nothing.  *)
DisplayIsBuffer ==
    display = [y \in Lines |-> [x \in Columns |->
                 IF x = cursorx /\ y = cursory THEN Cursor
                 ELSE screenbuf[(linestart + y) % cursorymax][x]]]

(* Nothing is left of old lines at the cursor or behind it.                *)
BlankAhead ==
    \A y \in Lines, x \in Columns :
       (y > cursory \/ (y = cursory /\ x >= cursorx))
          => screenbuf[(linestart + y) % cursorymax][x] = Blank

(* The inductive invariant of the console.                                 *)
ScreenInv == TypeOK /\ BlankAhead /\ DisplayIsBuffer

(* One more character of a text broken into lines at every newline and     *)
(* after every cursorxmax characters, a newline there being swallowed.     *)
Broken(a, ch) ==
    LET n == Len(a.lines)
        lines == [a.lines EXCEPT ![n] = Append(@, ch)]
    IN  CASE ch = Newline /\ a.full -> [full |-> FALSE, lines |-> a.lines]
          [] ch = Newline /\ ~a.full -> [full |-> FALSE, lines |-> Append(a.lines, <<>>)]
          [] ch # Newline /\ Len(lines[n]) = cursorxmax ->
                [full |-> TRUE, lines |-> Append(lines, <<>>)]
          [] OTHER -> [full |-> FALSE, lines |-> lines]

(* The lines of the first n characters of a text, for every n.             *)
Typeset(text) ==
    LET upto[n \in 0..Len(text)] ==
          IF n = 0 THEN [full |-> FALSE, lines |-> <<<<>>>>]
                   ELSE Broken(upto[n - 1], text[n])
    IN  upto

Layout(text) == Typeset(text)[Len(text)].lines

(* The lines that are still on the screen, and the cells they fill.        *)
Scrolled(lines) == IF Len(lines) > cursorymax THEN Len(lines) - cursorymax ELSE 0

Lettered(lines, y, x) ==
    LET n == Scrolled(lines) + y + 1
    IN  IF n \in 1..Len(lines) /\ x + 1 \in 1..Len(lines[n]) THEN lines[n][x + 1] ELSE Blank

(* The console holds the end of all that was ever printed: the last        *)
(* cursorymax lines of it, the oldest on top.                              *)
HoldsTail ==
    LET lines == Layout(printed)
    IN  \A y \in Lines, x \in Columns :
           screenbuf[(linestart + y) % cursorymax][x] = Lettered(lines, y, x)
=============================================================================
