--------------------------- MODULE ConsoleProofs ---------------------------
(***************************************************************************)
(* Proofs about Console, for every size of the screen and every text.      *)
(***************************************************************************)
EXTENDS Console, WellFoundedInduction, TLAPS

Ring(top, y) == (top + y) % cursorymax

(* Where a line of the screen, or the one behind the last, is in screenbuf. *)
LEMMA RingUnwraps ==
    ASSUME NEW top \in Lines, NEW y \in 0..cursorymax
    PROVE  Ring(top, y) = IF top + y < cursorymax THEN top + y ELSE top + y - cursorymax
  <1>1. \A a \in Nat : a < 2 * cursorymax =>
            a % cursorymax = IF a < cursorymax THEN a ELSE a - cursorymax
    BY ConsoleAssumption
  <1>2. top + y \in Nat /\ top + y < 2 * cursorymax
    BY ConsoleAssumption DEF Lines
  <1>3. PICK a \in Nat : a = top + y
    BY <1>2
  <1>4. a % cursorymax = IF a < cursorymax THEN a ELSE a - cursorymax
    BY <1>1, <1>2, <1>3
  <1> QED
    BY <1>3, <1>4, ConsoleAssumption DEF Ring, Lines

LEMMA RingRange ==
    ASSUME NEW top \in Lines, NEW y \in 0..cursorymax
    PROVE  Ring(top, y) \in Lines
  <1>1. Ring(top, y) = IF top + y < cursorymax THEN top + y ELSE top + y - cursorymax
    BY RingUnwraps
  <1> QED
    BY <1>1, ConsoleAssumption DEF Lines

(* No two lines of the screen are the same line of screenbuf.              *)
LEMMA RingInjective ==
    ASSUME NEW top \in Lines, NEW y \in Lines, NEW z \in Lines, y # z
    PROVE  Ring(top, y) # Ring(top, z)
  BY RingUnwraps, ConsoleAssumption DEF Lines

(* When the ring moves on, each line is one higher on the screen; behind   *)
(* the last comes the one that was on top.                                 *)
LEMMA RingMoves ==
    ASSUME NEW top \in Lines, NEW y \in Lines
    PROVE  Ring(Ring(top, 1), y) = Ring(top, y + 1)
  <1>1. Ring(top, 1) = IF top + 1 < cursorymax THEN top + 1 ELSE top + 1 - cursorymax
    BY RingUnwraps, ConsoleAssumption
  <1>2. Ring(top, 1) \in Lines
    BY RingRange, ConsoleAssumption
  <1>3. Ring(Ring(top, 1), y) =
           IF Ring(top, 1) + y < cursorymax THEN Ring(top, 1) + y ELSE Ring(top, 1) + y - cursorymax
    BY <1>2, RingUnwraps, ConsoleAssumption DEF Lines
  <1>4. y + 1 \in 0..cursorymax
    BY ConsoleAssumption DEF Lines
  <1>5. Ring(top, y + 1) =
           IF top + (y + 1) < cursorymax THEN top + (y + 1) ELSE top + (y + 1) - cursorymax
    BY <1>4, RingUnwraps
  <1> QED
    BY <1>1, <1>3, <1>5, ConsoleAssumption DEF Lines

-----------------------------------------------------------------------------
(* What holds of a console while printchar works on it.                    *)
Consoles ==
    [x : Columns, y : Lines, top : Lines, full : BOOLEAN,
     buf : [Lines -> [Columns -> Chars]],
     shown : [Lines -> [Columns -> Chars \cup {Cursor}]]]

Cell(c, y, x) == c.buf[Ring(c.top, y)][x]

(* The screen is right at every cell, at every cell but the cursor's.      *)
ShownAll(c) == \A y \in Lines, x \in Columns : c.shown[y][x] = Cell(c, y, x)

ShownElsewhere(c) ==
    \A y \in Lines, x \in Columns : (x # c.x \/ y # c.y) => c.shown[y][x] = Cell(c, y, x)

BlankBelow(c) == \A y \in Lines, x \in Columns : y > c.y => Cell(c, y, x) = Blank

BlankFrom(c, left) == \A x \in Columns : x >= left => Cell(c, c.y, x) = Blank

(* Between two calls.                                                      *)
Settled(c) ==
    /\ c \in Consoles
    /\ ShownElsewhere(c)
    /\ BlankBelow(c)
    /\ BlankFrom(c, c.x)

LEMMA ScreenSizes ==
    /\ cursorxmax \in Nat \ {0} /\ cursorymax \in Nat \ {0}
    /\ 0 \in Columns /\ 0 \in Lines /\ cursorymax - 1 \in Lines
    /\ Blank \in Chars /\ BlankLine \in [Columns -> Chars]
    /\ 1 \in 0..cursorymax /\ cursorymax \in 0..cursorymax
    /\ Lines \subseteq 0..cursorymax
  BY ConsoleAssumption DEF Columns, Lines, BlankLine

LEMMA NowSettled == ScreenInv => Settled(Now)
  <1> SUFFICES ASSUME ScreenInv PROVE Settled(Now)
    OBVIOUS
  <1> USE DEF ScreenInv, Now
  <1>1. Now \in Consoles
    BY DEF TypeOK, Consoles
  <1>2. \A y \in Lines, x \in Columns : Cell(Now, y, x) = screenbuf[(linestart + y) % cursorymax][x]
    BY DEF Cell, Ring
  <1>3. ShownElsewhere(Now)
    BY <1>2 DEF ShownElsewhere, DisplayIsBuffer
  <1>4. BlankBelow(Now)
    BY <1>2 DEF BlankBelow, BlankAhead
  <1>5. BlankFrom(Now, Now.x)
    <2>1. cursory \in Lines
      BY DEF TypeOK
    <2>2. \A x \in Columns : x >= cursorx => screenbuf[(linestart + cursory) % cursorymax][x] = Blank
      BY <2>1 DEF BlankAhead
    <2>3. \A x \in Columns : x >= cursorx => Cell(Now, cursory, x) = Blank
      BY <1>2, <2>1, <2>2
    <2> QED
      BY <2>3 DEF BlankFrom
  <1> QED
    BY <1>1, <1>3, <1>4, <1>5 DEF Settled

(* The start of a line above the bottom.                                   *)
LEMMA DownInside ==
    ASSUME NEW c \in Consoles, ShownAll(c), BlankBelow(c), c.y # cursorymax - 1
    PROVE  Settled(Down(c))
  <1> DEFINE d == [c EXCEPT !.x = 0, !.y = @ + 1]
  <1>1. Down(c) = d
    BY DEF Down
  <1>2. d \in Consoles /\ d.x = 0 /\ d.y = c.y + 1 /\ d.top = c.top /\ d.buf = c.buf /\ d.shown = c.shown
    <2>1. c.y \in Lines /\ c.y + 1 \in Lines
      BY ScreenSizes DEF Consoles, Lines
    <2> QED
      BY <2>1, ScreenSizes DEF Consoles
  <1> HIDE DEF d
  <1>3. \A y \in Lines, x \in Columns : Cell(d, y, x) = Cell(c, y, x) /\ d.shown[y][x] = c.shown[y][x]
    BY <1>2 DEF Cell
  <1>4. ShownElsewhere(d)
    BY <1>3 DEF ShownAll, ShownElsewhere
  <1>5. d.y \in Lines /\ d.y > c.y /\ \A y \in Lines : y > d.y => y > c.y
    BY <1>2 DEF Consoles, Lines
  <1>6. BlankBelow(d) /\ BlankFrom(d, d.x)
    BY <1>3, <1>5 DEF BlankBelow, BlankFrom
  <1> QED
    BY <1>1, <1>2, <1>4, <1>6 DEF Settled

(* Below the bottom: the ring moves on.                                    *)
LEMMA DownScrolls ==
    ASSUME NEW c \in Consoles, c.y = cursorymax - 1
    PROVE  Settled(Down(c))
  <1> DEFINE e == [c EXCEPT !.x = 0, !.top = (@ + 1) % cursorymax,
                            !.buf[(c.top + c.y + 1) % cursorymax] = BlankLine]
             d == refreshscreen(e)
  <1>1. Down(c) = d
    BY DEF Down, LineBehind
  <1>2. c.top \in Lines /\ c.y \in Lines /\ c.buf \in [Lines -> [Columns -> Chars]]
    BY DEF Consoles
  <1>3. (c.top + 1) % cursorymax = Ring(c.top, 1) /\ Ring(c.top, 1) \in Lines
    <2>1. Ring(c.top, 1) \in Lines
      BY <1>2, RingRange, ScreenSizes
    <2> QED
      BY <2>1 DEF Ring
  <1>4. c.top + c.y + 1 = c.top + cursorymax
    BY <1>2, ScreenSizes DEF Lines
  <1>5. (c.top + c.y + 1) % cursorymax = Ring(c.top, cursorymax) /\ Ring(c.top, cursorymax) \in Lines
    <2>1. Ring(c.top, cursorymax) \in Lines
      BY <1>2, RingRange, ScreenSizes
    <2> QED
      BY <1>4, <2>1 DEF Ring
  <1>6. /\ e \in Consoles /\ e.x = 0 /\ e.y = c.y /\ e.top = Ring(c.top, 1)
        /\ e.buf = [c.buf EXCEPT ![Ring(c.top, cursorymax)] = BlankLine]
    BY <1>2, <1>3, <1>5, ScreenSizes DEF Consoles
  <1> HIDE DEF e
  <1>7. \A y \in Lines : Ring(e.top, y) \in Lines
    BY <1>3, <1>6, RingRange, ScreenSizes
  <1>8. \A y \in Lines, x \in Columns : Cell(e, y, x) \in Chars
    BY <1>6, <1>7 DEF Cell, Consoles
  <1>9. /\ d.x = 0 /\ d.y = c.y /\ d.top = e.top /\ d.buf = e.buf
        /\ d.shown = [y \in Lines |-> [x \in Columns |-> Cell(e, y, x)]]
        /\ d \in Consoles
    <2>1. d = [e EXCEPT !.shown = [y \in Lines |-> [x \in Columns |-> Cell(e, y, x)]]]
      BY DEF refreshscreen, Cell, Ring
    <2>2. [y \in Lines |-> [x \in Columns |-> Cell(e, y, x)]]
            \in [Lines -> [Columns -> Chars \cup {Cursor}]]
      BY <1>8
    <2> QED
      BY <1>6, <2>1, <2>2 DEF Consoles
  <1> HIDE DEF d
  <1>10. \A y \in Lines, x \in Columns : d.shown[y][x] = Cell(d, y, x)
    BY <1>9 DEF Cell
  <1>11. Ring(d.top, d.y) = Ring(c.top, cursorymax)
    <2>1. Ring(Ring(c.top, 1), c.y) = Ring(c.top, c.y + 1)
      BY <1>2, RingMoves
    <2> QED
      BY <1>6, <1>9, <2>1, <1>2, ScreenSizes DEF Lines
  <1>12. BlankFrom(d, d.x)
    BY <1>2, <1>5, <1>6, <1>9, <1>11 DEF BlankFrom, Cell, BlankLine
  <1>13. BlankBelow(d)
    BY <1>9, ScreenSizes DEF BlankBelow, Lines
  <1> QED
    BY <1>1, <1>9, <1>10, <1>12, <1>13 DEF Settled, ShownElsewhere

LEMMA DownSettles ==
    ASSUME NEW c \in Consoles, ShownAll(c), BlankBelow(c)
    PROVE  Settled(Down(c))
  BY DownInside, DownScrolls

-----------------------------------------------------------------------------
LEMMA NewlineSettles ==
    ASSUME NEW c, Settled(c)
    PROVE  Settled(NewlineTyped(c))
  <1>1. CASE c.full
    <2> DEFINE d == [c EXCEPT !.full = FALSE]
    <2>1. d \in Consoles /\ d.x = c.x /\ d.y = c.y /\ d.top = c.top /\ d.buf = c.buf /\ d.shown = c.shown
      BY DEF Settled, Consoles
    <2> HIDE DEF d
    <2>2. Settled(d)
      BY <2>1 DEF Settled, ShownElsewhere, BlankBelow, BlankFrom, Cell
    <2> QED
      BY <1>1, <2>2 DEF NewlineTyped, d
  <1>2. CASE ~c.full
    <2> DEFINE d == Draw(c, Blank)
    <2>1. /\ d \in Consoles /\ d.x = c.x /\ d.y = c.y /\ d.top = c.top /\ d.buf = c.buf
          /\ \A y \in Lines, x \in Columns :
                d.shown[y][x] = IF x = c.x /\ y = c.y THEN Blank ELSE c.shown[y][x]
      BY ScreenSizes DEF Settled, Consoles, Draw
    <2> HIDE DEF d
    <2>2. Cell(c, c.y, c.x) = Blank
      BY DEF Settled, BlankFrom, Consoles, Columns
    <2>3. ShownAll(d)
      BY <2>1, <2>2 DEF Settled, ShownElsewhere, ShownAll, Cell
    <2>4. BlankBelow(d)
      BY <2>1 DEF Settled, BlankBelow, Cell
    <2>5. Settled(Down(d))
      BY <2>1, <2>3, <2>4, DownSettles
    <2> QED
      BY <1>2, <2>5 DEF NewlineTyped, d
  <1> QED
    BY <1>1, <1>2

LEMMA CharSettles ==
    ASSUME NEW c, Settled(c), NEW ch \in Chars
    PROVE  Settled(CharTyped(c, ch))
  <1> DEFINE d == Store(Draw(c, ch), ch)
  <1>1. c \in Consoles /\ c.top \in Lines /\ c.y \in Lines /\ c.x \in Columns
    BY DEF Settled, Consoles
  <1>2. (c.y + c.top) % cursorymax = Ring(c.top, c.y) /\ Ring(c.top, c.y) \in Lines
    <2>1. c.y + c.top = c.top + c.y
      BY <1>1 DEF Lines
    <2>2. Ring(c.top, c.y) \in Lines
      BY <1>1, RingRange, ScreenSizes
    <2> QED
      BY <2>1, <2>2 DEF Ring
  <1>3. /\ d \in Consoles /\ d.x = c.x /\ d.y = c.y /\ d.top = c.top
        /\ d.buf = [c.buf EXCEPT ![Ring(c.top, c.y)] = [@ EXCEPT ![c.x] = ch]]
        /\ \A y \in Lines, x \in Columns :
              d.shown[y][x] = IF x = c.x /\ y = c.y THEN ch ELSE c.shown[y][x]
    BY <1>1, <1>2 DEF Consoles, Draw, Store
  <1> HIDE DEF d
  <1>4. \A y \in Lines : Ring(c.top, y) \in Lines /\ (y # c.y => Ring(c.top, y) # Ring(c.top, c.y))
    BY <1>1, RingRange, RingInjective, ScreenSizes
  <1>5. \A y \in Lines, x \in Columns :
           Cell(d, y, x) = IF x = c.x /\ y = c.y THEN ch ELSE Cell(c, y, x)
    BY <1>1, <1>3, <1>4 DEF Cell, Consoles
  <1>6. ShownAll(d)
    BY <1>3, <1>5 DEF Settled, ShownElsewhere, ShownAll
  <1>7. BlankBelow(d)
    BY <1>1, <1>3, <1>5 DEF Settled, BlankBelow, Lines
  <1>8. CASE c.x = cursorxmax - 1
    <2> DEFINE e == [d EXCEPT !.full = TRUE]
    <2>1. e \in Consoles /\ e.y = d.y /\ e.top = d.top /\ e.buf = d.buf /\ e.shown = d.shown
      BY <1>3 DEF Consoles
    <2> HIDE DEF e
    <2>2. ShownAll(e) /\ BlankBelow(e)
      BY <1>6, <1>7, <2>1 DEF ShownAll, BlankBelow, Cell
    <2>3. Settled(Down(e))
      BY <2>1, <2>2, DownSettles
    <2> QED
      BY <1>8, <2>3 DEF CharTyped, d, e
  <1>9. CASE c.x # cursorxmax - 1
    <2> DEFINE e == [d EXCEPT !.full = FALSE, !.x = @ + 1]
    <2>1. /\ e \in Consoles /\ e.x = c.x + 1 /\ e.y = d.y /\ e.top = d.top
          /\ e.buf = d.buf /\ e.shown = d.shown
      <3>1. d.x + 1 = c.x + 1 /\ d.x + 1 \in Columns
        BY <1>1, <1>3, <1>9, ScreenSizes DEF Columns
      <3> QED
        BY <1>3, <3>1 DEF Consoles
    <2> HIDE DEF e
    <2>2. ShownElsewhere(e) /\ BlankBelow(e)
      BY <1>6, <1>7, <2>1 DEF ShownAll, ShownElsewhere, BlankBelow, Cell
    <2>3. \A x \in Columns : x >= e.x => x # c.x /\ x >= c.x
      BY <1>1, <2>1 DEF Columns
    <2>4. \A x \in Columns : x >= e.x => Cell(e, e.y, x) = Blank
      BY <1>1, <1>3, <1>5, <2>1, <2>3 DEF Settled, BlankFrom, Cell
    <2>5. Settled(e)
      BY <2>1, <2>2, <2>4 DEF Settled, BlankFrom
    <2> QED
      BY <1>9, <2>5 DEF CharTyped, d, e
  <1> QED
    BY <1>8, <1>9

-----------------------------------------------------------------------------
LEMMA InitScreen == Init => ScreenInv
  <1> SUFFICES ASSUME Init PROVE ScreenInv
    OBVIOUS
  <1> USE DEF Init
  <1>1. TypeOK
    BY ScreenSizes DEF TypeOK
  <1>2. \A y \in Lines : (linestart + y) % cursorymax \in Lines
    BY RingRange, ScreenSizes DEF Ring, Lines
  <1>3. \A y \in Lines, x \in Columns : screenbuf[(linestart + y) % cursorymax][x] = Blank
    BY <1>2 DEF BlankLine
  <1>4. BlankAhead
    BY <1>3 DEF BlankAhead
  <1>5. \A y \in Lines : display[y] = [x \in Columns |->
                 IF x = cursorx /\ y = cursory THEN Cursor
                 ELSE screenbuf[(linestart + y) % cursorymax][x]]
    BY <1>3, ScreenSizes DEF BlankLine
  <1>6. DisplayIsBuffer
    BY <1>1, <1>5 DEF DisplayIsBuffer, TypeOK
  <1> QED
    BY <1>1, <1>4, <1>6 DEF ScreenInv

(* A settled console with the cursor drawn is what ScreenInv asks for.     *)
LEMMA NextScreen ==
    ASSUME ScreenInv, NEW ch \in Chars \cup {Newline}, printchar(ch)
    PROVE  ScreenInv'
  <1> DEFINE c == IF ch = Newline THEN NewlineTyped(Now) ELSE CharTyped(Now, ch)
  <1>1. Settled(c)
    BY NowSettled, NewlineSettles, CharSettles, ConsoleAssumption
  <1>2. /\ cursorx' = c.x /\ cursory' = c.y /\ linestart' = c.top /\ linefull' = c.full
        /\ screenbuf' = c.buf /\ display' = Draw(c, Cursor).shown
        /\ printed' = Append(printed, ch)
    BY DEF printchar
  <1> HIDE DEF c
  <1>3. c \in Consoles
    BY <1>1 DEF Settled
  <1>4. /\ display' \in [Lines -> [Columns -> Chars \cup {Cursor}]]
        /\ \A y \in Lines, x \in Columns :
              display'[y][x] = IF x = c.x /\ y = c.y THEN Cursor ELSE c.shown[y][x]
    BY <1>2, <1>3 DEF Draw, Consoles
  <1>5. TypeOK'
    BY <1>2, <1>3, <1>4 DEF ScreenInv, TypeOK, Consoles
  <1>6. \A y \in Lines, x \in Columns :
           Cell(c, y, x) = (screenbuf[(linestart + y) % cursorymax][x])'
    BY <1>2 DEF Cell, Ring
  <1>7. BlankAhead'
    BY <1>1, <1>2, <1>3, <1>6 DEF BlankAhead, Settled, BlankBelow, BlankFrom, Consoles
  <1>8. \A y \in Lines : display'[y] = [x \in Columns |->
                 IF x = cursorx' /\ y = cursory' THEN Cursor
                 ELSE (screenbuf[(linestart + y) % cursorymax][x])']
    BY <1>1, <1>2, <1>4, <1>6 DEF Settled, ShownElsewhere
  <1>9. DisplayIsBuffer'
    BY <1>4, <1>8 DEF DisplayIsBuffer
  <1> QED
    BY <1>5, <1>7, <1>9 DEF ScreenInv

(* For every size of the screen and every text: the state of the console   *)
(* is in its types, the screen is the buffer, what is ahead is blank.      *)
THEOREM ScreenInvariant == Spec => []ScreenInv
  <1>1. ScreenInv /\ [Next]_vars => ScreenInv'
    <2>1. ScreenInv /\ UNCHANGED vars => ScreenInv'
      BY DEF vars, ScreenInv, TypeOK, BlankAhead, DisplayIsBuffer
    <2> QED
      BY <2>1, NextScreen DEF Next
  <1> QED
    BY InitScreen, <1>1, PTL DEF Spec

(* Whatever was printed, each cell of the screen shows its character of    *)
(* screenbuf, and exactly one the cursor.                                  *)
THEOREM ScreenIsBuffer == Spec => []DisplayIsBuffer
  <1>1. ScreenInv => DisplayIsBuffer
    BY DEF ScreenInv
  <1> QED
    BY <1>1, ScreenInvariant, PTL

-----------------------------------------------------------------------------
(* A set that has 0, and n + 1 whenever it has n, has every number.        *)
LEMMA SetInduction ==
    ASSUME NEW S, 0 \in S, \A n \in Nat : n \in S => n + 1 \in S
    PROVE  \A n \in Nat : n \in S
  <1> DEFINE T == Nat \ S
             Less == {r \in Nat \X Nat : r[1] < r[2]}
  <1> SUFFICES ASSUME T # {} PROVE FALSE
    OBVIOUS
  <1>1. IsWellFoundedOn(Less, Nat)
    <2>1. IsWellFoundedOn(OpToRel(<, Nat), Nat)
      BY NatLessThanWellFounded
    <2>2. OpToRel(<, Nat) = Less
      BY DEF OpToRel
    <2> QED
      BY <2>1, <2>2
  <1>2. PICK n \in T : \A y \in T : ~(<<y, n>> \in Less)
    <2>1. T \subseteq Nat
      OBVIOUS
    <2> HIDE DEF T, Less
    <2> QED
      BY <1>1, <2>1, WFMin
  <1>3. n \in Nat /\ n \notin S /\ n # 0
    BY <1>2
  <1>4. n - 1 \in Nat /\ (n - 1) + 1 = n /\ n - 1 < n
    BY <1>3
  <1>5. n - 1 \notin T
    BY <1>2, <1>4
  <1> QED
    BY <1>3, <1>4, <1>5

(* Typeset is a recursive function: there is one, and what it makes of a   *)
(* text it makes of the start of a longer one.                             *)
NoLines == [full |-> FALSE, lines |-> <<<<>>>>]

IsTypeset(text, k, g) ==
    g = [i \in 0..k |-> IF i = 0 THEN NoLines ELSE Broken(g[i - 1], text[i])]

LEMMA SomeTypeset ==
    ASSUME NEW text
    PROVE  \A k \in Nat : \E g : IsTypeset(text, k, g)
  <1> DEFINE S == {k \in Nat : \E g : IsTypeset(text, k, g)}
  <1>1. 0 \in S
    <2>1. IsTypeset(text, 0, [i \in 0..0 |-> NoLines])
      BY DEF IsTypeset
    <2> QED
      BY <2>1
  <1>2. ASSUME NEW k \in Nat, k \in S PROVE k + 1 \in S
    <2>1. PICK g : IsTypeset(text, k, g)
      BY <1>2
    <2> DEFINE h == [i \in 0..(k + 1) |-> IF i = k + 1 THEN Broken(g[k], text[k + 1]) ELSE g[i]]
               Value(i) == IF i = 0 THEN NoLines ELSE Broken(h[i - 1], text[i])
    <2>2. ASSUME NEW i \in 0..(k + 1) PROVE h[i] = Value(i)
      <3>1. CASE i = k + 1
        <4>1. k \in 0..(k + 1) /\ k # k + 1 /\ i # 0 /\ i - 1 = k
          BY <3>1
        <4>2. h[k] = g[k] /\ h[i] = Broken(g[k], text[i])
          BY <3>1, <4>1
        <4> HIDE DEF h
        <4> QED
          BY <4>1, <4>2
      <3>2. CASE i # k + 1 /\ i # 0
        <4>1. i \in 0..k /\ i - 1 \in 0..(k + 1) /\ i - 1 # k + 1
          BY <3>2
        <4>2. g[i] = Broken(g[i - 1], text[i])
          BY <2>1, <3>2, <4>1 DEF IsTypeset
        <4>3. h[i - 1] = g[i - 1] /\ h[i] = g[i]
          BY <3>2, <4>1
        <4> HIDE DEF h
        <4> QED
          BY <3>2, <4>2, <4>3
      <3>3. CASE i = 0
        <4>1. 0 \in 0..k /\ 0 # k + 1
          OBVIOUS
        <4>2. g[0] = NoLines
          BY <2>1, <4>1 DEF IsTypeset
        <4>3. h[0] = g[0]
          BY <3>3, <4>1
        <4> HIDE DEF h
        <4> QED
          BY <3>3, <4>2, <4>3
      <3> QED
        BY <3>1, <3>2, <3>3
    <2>3. h = [i \in 0..(k + 1) |-> h[i]]
      OBVIOUS
    <2> HIDE DEF h
    <2>4. h = [i \in 0..(k + 1) |-> Value(i)]
      BY <2>2, <2>3
    <2>5. IsTypeset(text, k + 1, h)
      BY <2>4 DEF IsTypeset
    <2> QED
      BY <2>5
  <1>3. \A k \in Nat : k \in S
    <2> HIDE DEF S
    <2> QED
      BY <1>1, <1>2, SetInduction
  <1> QED
    BY <1>3 DEF S

LEMMA TypesetSteps ==
    ASSUME NEW S, NEW text \in Seq(S)
    PROVE  \A n \in 0..Len(text) :
             Typeset(text)[n] = IF n = 0 THEN NoLines ELSE Broken(Typeset(text)[n - 1], text[n])
  <1>1. Len(text) \in Nat
    OBVIOUS
  <1>2. \E g : IsTypeset(text, Len(text), g)
    BY <1>1, SomeTypeset
  <1>3. Typeset(text) = CHOOSE g : IsTypeset(text, Len(text), g)
    BY DEF Typeset, IsTypeset, NoLines
  <1>4. IsTypeset(text, Len(text), Typeset(text))
    BY <1>2, <1>3
  <1> QED
    BY <1>4 DEF IsTypeset

(* One more character.                                                     *)
LEMMA TypesetGrows ==
    ASSUME NEW S, NEW text \in Seq(S), NEW ch \in S
    PROVE  LET more == Append(text, ch)
           IN  Typeset(more)[Len(more)] = Broken(Typeset(text)[Len(text)], ch)
  <1> DEFINE more == Append(text, ch)
             T == {n \in Nat : n <= Len(text) => Typeset(more)[n] = Typeset(text)[n]}
  <1>1. /\ more \in Seq(S) /\ Len(text) \in Nat /\ Len(more) = Len(text) + 1
        /\ more[Len(text) + 1] = ch
        /\ \A n \in 1..Len(text) : more[n] = text[n]
    OBVIOUS
  <1> HIDE DEF more
  <1>2. \A n \in 0..Len(more) :
           Typeset(more)[n] = IF n = 0 THEN NoLines ELSE Broken(Typeset(more)[n - 1], more[n])
    BY <1>1, TypesetSteps
  <1>3. \A n \in 0..Len(text) :
           Typeset(text)[n] = IF n = 0 THEN NoLines ELSE Broken(Typeset(text)[n - 1], text[n])
    BY TypesetSteps
  <1>4. 0 \in T
    <2>1. 0 \in 0..Len(more) /\ 0 \in 0..Len(text)
      BY <1>1
    <2> QED
      BY <1>2, <1>3, <2>1
  <1>5. ASSUME NEW n \in Nat, n \in T PROVE n + 1 \in T
    <2> SUFFICES ASSUME n + 1 <= Len(text) PROVE Typeset(more)[n + 1] = Typeset(text)[n + 1]
      OBVIOUS
    <2>1. /\ n + 1 \in 0..Len(more) /\ n + 1 \in 0..Len(text) /\ n + 1 \in 1..Len(text)
          /\ n + 1 # 0 /\ (n + 1) - 1 = n /\ n <= Len(text)
      BY <1>1
    <2>2. Typeset(more)[n + 1] = Broken(Typeset(more)[n], more[n + 1])
      BY <1>2, <2>1
    <2>3. Typeset(text)[n + 1] = Broken(Typeset(text)[n], text[n + 1])
      BY <1>3, <2>1
    <2> QED
      BY <1>1, <1>5, <2>1, <2>2, <2>3
  <1>6. \A n \in Nat : n \in T
    <2> HIDE DEF T
    <2> QED
      BY <1>4, <1>5, SetInduction
  <1>7. Typeset(more)[Len(text)] = Typeset(text)[Len(text)]
    BY <1>1, <1>6
  <1>8. Len(more) \in 0..Len(more) /\ Len(more) # 0 /\ Len(more) - 1 = Len(text)
    BY <1>1
  <1>9. Typeset(more)[Len(more)] = Broken(Typeset(more)[Len(text)], ch)
    BY <1>1, <1>2, <1>8
  <1> QED
    BY <1>7, <1>9 DEF more

-----------------------------------------------------------------------------
(* What Down does to the cells.                                            *)
LEMMA DownCells ==
    ASSUME NEW c \in Consoles
    PROVE  /\ Down(c).x = 0 /\ Down(c).full = c.full
           /\ c.y # cursorymax - 1 =>
                /\ Down(c).y = c.y + 1
                /\ \A y \in Lines, x \in Columns : Cell(Down(c), y, x) = Cell(c, y, x)
           /\ c.y = cursorymax - 1 =>
                /\ Down(c).y = c.y
                /\ \A y \in Lines, x \in Columns :
                     Cell(Down(c), y, x) = IF y = c.y THEN Blank ELSE Cell(c, y + 1, x)
  <1>1. CASE c.y # cursorymax - 1
    <2> DEFINE d == [c EXCEPT !.x = 0, !.y = @ + 1]
    <2>1. Down(c) = d
      BY <1>1 DEF Down
    <2>2. d.x = 0 /\ d.y = c.y + 1 /\ d.top = c.top /\ d.buf = c.buf /\ d.full = c.full
      BY DEF Consoles
    <2> HIDE DEF d
    <2> QED
      BY <1>1, <2>1, <2>2 DEF Cell
  <1>2. CASE c.y = cursorymax - 1
    <2> DEFINE e == [c EXCEPT !.x = 0, !.top = (@ + 1) % cursorymax,
                              !.buf[(c.top + c.y + 1) % cursorymax] = BlankLine]
               d == refreshscreen(e)
    <2>1. Down(c) = d
      BY <1>2 DEF Down, LineBehind
    <2>2. c.top \in Lines /\ c.y \in Lines /\ c.buf \in [Lines -> [Columns -> Chars]]
      BY DEF Consoles
    <2>3. (c.top + 1) % cursorymax = Ring(c.top, 1) /\ Ring(c.top, 1) \in Lines
      <3>1. Ring(c.top, 1) \in Lines
        BY <2>2, RingRange, ScreenSizes
      <3> QED
        BY <3>1 DEF Ring
    <2>4. (c.top + c.y + 1) % cursorymax = Ring(c.top, cursorymax) /\ Ring(c.top, cursorymax) \in Lines
      <3>1. c.top + c.y + 1 = c.top + cursorymax
        BY <1>2, <2>2, ScreenSizes DEF Lines
      <3>2. Ring(c.top, cursorymax) \in Lines
        BY <2>2, RingRange, ScreenSizes
      <3> QED
        BY <3>1, <3>2 DEF Ring
    <2>5. /\ e.x = 0 /\ e.y = c.y /\ e.top = Ring(c.top, 1) /\ e.full = c.full
          /\ e.buf = [c.buf EXCEPT ![Ring(c.top, cursorymax)] = BlankLine]
          /\ e \in Consoles
      BY <2>2, <2>3, <2>4, ScreenSizes DEF Consoles
    <2> HIDE DEF e
    <2>6. d.x = 0 /\ d.y = c.y /\ d.top = Ring(c.top, 1) /\ d.full = c.full /\ d.buf = e.buf
      BY <2>5 DEF refreshscreen, Consoles
    <2> HIDE DEF d
    <2>7. \A y \in Lines : Ring(d.top, y) = Ring(c.top, y + 1)
      BY <2>2, <2>6, RingMoves
    <2>8. ASSUME NEW y \in Lines, NEW x \in Columns
          PROVE  Cell(d, y, x) = IF y = c.y THEN Blank ELSE Cell(c, y + 1, x)
      <3>1. Cell(d, y, x) = e.buf[Ring(c.top, y + 1)][x]
        BY <2>6, <2>7 DEF Cell
      <3>2. CASE y = c.y
        <4>1. y + 1 = cursorymax
          BY <1>2, <3>2, ScreenSizes
        <4> QED
          BY <2>2, <2>4, <2>5, <3>1, <3>2, <4>1 DEF BlankLine
      <3>3. CASE y # c.y
        <4>1. y + 1 \in Lines /\ y + 1 \in 0..cursorymax
          BY <1>2, <3>3, ScreenSizes DEF Lines
        <4>2. Ring(c.top, y + 1) \in Lines
          BY <2>2, <4>1, RingRange
        <4>3. Ring(c.top, y + 1) # Ring(c.top, cursorymax)
          BY <2>2, <4>1, RingUnwraps, ScreenSizes DEF Lines
        <4>4. e.buf[Ring(c.top, y + 1)] = c.buf[Ring(c.top, y + 1)]
          BY <2>2, <2>5, <4>2, <4>3
        <4> QED
          BY <3>1, <3>3, <4>4 DEF Cell
      <3> QED
        BY <3>2, <3>3
    <2> QED
      BY <1>2, <2>1, <2>6, <2>8
  <1> QED
    BY <1>1, <1>2

(* The lines of a text and the console that shows the last of them.        *)
Texts == Seq(Seq(Chars)) \ {<<>>}

OnScreen(c, lines) ==
    /\ c \in Consoles
    /\ lines \in Texts
    /\ c.y = Len(lines) - 1 - Scrolled(lines)
    /\ \A y \in Lines, x \in Columns : Cell(c, y, x) = Lettered(lines, y, x)

(* The cursor is behind the last character.                                *)
Follows(c, a) ==
    /\ OnScreen(c, a.lines)
    /\ Len(a.lines[Len(a.lines)]) = c.x
    /\ a.full = c.full

LEMMA DownOnScreen ==
    ASSUME NEW c, NEW lines, OnScreen(c, lines), Down(c) \in Consoles
    PROVE  OnScreen(Down(c), Append(lines, <<>>))
  <1> DEFINE n == Len(lines)
             more == Append(lines, <<>>)
  <1>1. c \in Consoles /\ c.y \in Lines /\ lines \in Seq(Seq(Chars)) /\ n \in Nat \ {0}
    BY DEF OnScreen, Consoles, Texts
  <1>2. /\ more \in Texts /\ Len(more) = n + 1 /\ more[n + 1] = <<>>
        /\ \A i \in 1..n : more[i] = lines[i]
    BY <1>1 DEF Texts
  <1> HIDE DEF more
  <1>3. /\ Scrolled(lines) = (IF n > cursorymax THEN n - cursorymax ELSE 0)
        /\ Scrolled(more) = (IF n + 1 > cursorymax THEN n + 1 - cursorymax ELSE 0)
    <2>1. Scrolled(lines) = (IF n > cursorymax THEN n - cursorymax ELSE 0)
      BY DEF Scrolled
    <2>2. Scrolled(more) = (IF Len(more) > cursorymax THEN Len(more) - cursorymax ELSE 0)
      BY DEF Scrolled
    <2> HIDE DEF n
    <2>3. Len(more) = n + 1 /\ n \in Nat
      BY <1>1, <1>2
    <2> QED
      BY <2>1, <2>2, <2>3, ScreenSizes
  <1>4. Scrolled(lines) \in Nat /\ Scrolled(more) \in Nat
    BY <1>1, <1>3, ScreenSizes
  <1>5. ASSUME NEW y \in Lines, NEW x \in Columns, NEW z \in Lines,
               Scrolled(more) + y = Scrolled(lines) + z
        PROVE  Lettered(more, y, x) = Lettered(lines, z, x)
    <2> DEFINE k == Scrolled(more) + y + 1
    <2>1. k = Scrolled(lines) + z + 1 /\ k \in Nat \ {0}
      BY <1>4, <1>5 DEF Lines
    <2>2. Lettered(more, y, x) = IF k \in 1..(n + 1) /\ x + 1 \in 1..Len(more[k]) THEN more[k][x + 1] ELSE Blank
      BY <1>2 DEF Lettered
    <2>3. Lettered(lines, z, x) = IF k \in 1..n /\ x + 1 \in 1..Len(lines[k]) THEN lines[k][x + 1] ELSE Blank
      BY <2>1 DEF Lettered
    <2> HIDE DEF k
    <2>4. CASE k \in 1..n
      <3>1. more[k] = lines[k] /\ k \in 1..(n + 1)
        BY <1>1, <1>2, <2>4
      <3> QED
        BY <2>2, <2>3, <2>4, <3>1
    <2>5. CASE k = n + 1
      <3>1. more[k] = <<>> /\ Len(more[k]) = 0 /\ k \notin 1..n
        BY <1>1, <1>2, <2>5
      <3>2. ~(x + 1 \in 1..Len(more[k]))
        BY <3>1
      <3> QED
        BY <2>2, <2>3, <3>1, <3>2
    <2>6. CASE k > n + 1
      <3>1. k \notin 1..n /\ k \notin 1..(n + 1)
        BY <1>1, <2>1, <2>6
      <3> QED
        BY <2>2, <2>3, <3>1
    <2> QED
      BY <1>1, <2>1, <2>4, <2>5, <2>6
  <1>6. c.y = n - 1 - Scrolled(lines) /\ \A y \in Lines, x \in Columns : Cell(c, y, x) = Lettered(lines, y, x)
    BY DEF OnScreen
  <1>7. CASE c.y # cursorymax - 1
    <2>1. /\ Down(c).y = c.y + 1
          /\ \A y \in Lines, x \in Columns : Cell(Down(c), y, x) = Cell(c, y, x)
      BY <1>1, <1>7, DownCells
    <2>2. Scrolled(lines) = 0 /\ Scrolled(more) = 0
      BY <1>1, <1>3, <1>6, <1>7, ScreenSizes
    <2>3. \A y \in Lines, x \in Columns : Lettered(more, y, x) = Lettered(lines, y, x)
      BY <1>5, <2>2
    <2>4. Down(c).y = Len(more) - 1 - Scrolled(more)
      BY <1>1, <1>2, <1>6, <2>1, <2>2
    <2> QED
      BY <1>2, <1>6, <2>1, <2>3, <2>4 DEF OnScreen, more
  <1>8. CASE c.y = cursorymax - 1
    <2>1. /\ Down(c).y = c.y
          /\ \A y \in Lines, x \in Columns :
               Cell(Down(c), y, x) = IF y = c.y THEN Blank ELSE Cell(c, y + 1, x)
      BY <1>1, <1>8, DownCells
    <2>2. Scrolled(more) = Scrolled(lines) + 1 /\ n = Scrolled(lines) + cursorymax
      <3>1. c.y = n - 1 - Scrolled(lines)
        BY <1>6
      <3>2. n = Scrolled(lines) + cursorymax
        <4>1. cursorymax - 1 = n - 1 - Scrolled(lines)
          BY <1>8, <3>1
        <4> HIDE DEF n
        <4> QED
          BY <1>1, <1>4, <4>1, ScreenSizes
      <3> HIDE DEF n
      <3>3. n + 1 > cursorymax /\ Scrolled(more) = n + 1 - cursorymax
        BY <1>1, <1>3, <1>4, <3>2, ScreenSizes
      <3> QED
        BY <1>1, <1>4, <3>2, <3>3, ScreenSizes
    <2>3. ASSUME NEW y \in Lines, NEW x \in Columns
          PROVE  Cell(Down(c), y, x) = Lettered(more, y, x)
      <3>1. CASE y # c.y
        <4>1. y + 1 \in Lines /\ Scrolled(more) + y = Scrolled(lines) + (y + 1)
          BY <1>4, <1>8, <2>2, <3>1, ScreenSizes DEF Lines
        <4> QED
          BY <1>5, <1>6, <2>1, <3>1, <4>1
      <3>2. CASE y = c.y
        <4>1. Scrolled(more) + y + 1 = n + 1 /\ n + 1 \in 1..(n + 1)
          <5> HIDE DEF n
          <5>1. Scrolled(more) + (cursorymax - 1) + 1 = n + 1
            BY <1>1, <1>4, <2>2, ScreenSizes
          <5> QED
            BY <1>1, <1>8, <3>2, <5>1
        <4>2. Len(more[n + 1]) = 0 /\ ~(x + 1 \in 1..0)
          BY <1>2
        <4>3. Lettered(more, y, x) = Blank
          BY <4>1, <4>2 DEF Lettered
        <4> QED
          BY <2>1, <3>2, <4>3
      <3> QED
        BY <3>1, <3>2
    <2>4. Down(c).y = Len(more) - 1 - Scrolled(more)
      BY <1>1, <1>2, <1>4, <1>6, <2>1, <2>2
    <2> QED
      BY <1>2, <2>3, <2>4 DEF OnScreen, more
  <1> QED
    BY <1>7, <1>8

(* Only the lines and where the cursor is matter.                          *)
LEMMA SameScreen ==
    ASSUME NEW c, NEW d \in Consoles, NEW lines, OnScreen(c, lines),
           d.y = c.y, d.top = c.top, d.buf = c.buf
    PROVE  OnScreen(d, lines)
  <1>1. \A y \in Lines, x \in Columns : Cell(d, y, x) = Cell(c, y, x)
    BY DEF Cell
  <1> QED
    BY <1>1 DEF OnScreen

LEMMA DownFollows ==
    ASSUME NEW c, NEW lines, OnScreen(c, lines), Down(c) \in Consoles
    PROVE  Follows(Down(c), [full |-> c.full, lines |-> Append(lines, <<>>)])
  <1> DEFINE more == Append(lines, <<>>)
             b == [full |-> c.full, lines |-> more]
  <1>1. b.full = c.full /\ b.lines = more
    OBVIOUS
  <1>2. Down(c).x = 0 /\ Down(c).full = c.full
    BY DownCells DEF OnScreen
  <1>3. OnScreen(Down(c), more)
    BY DownOnScreen
  <1>4. Len(more[Len(more)]) = 0
    <2>1. lines \in Seq(Seq(Chars))
      BY DEF OnScreen, Texts
    <2>2. Len(more) = Len(lines) + 1 /\ more[Len(lines) + 1] = <<>> /\ Len(lines) \in Nat
      BY <2>1
    <2> QED
      BY <2>2
  <1> HIDE DEF more, b
  <1>5. Follows(Down(c), b)
    BY <1>1, <1>2, <1>3, <1>4 DEF Follows
  <1> QED
    BY <1>5 DEF b, more

LEMMA NewlineFollows ==
    ASSUME NEW c, Settled(c), NEW a, Follows(c, a)
    PROVE  Follows(NewlineTyped(c), Broken(a, Newline))
  <1>1. c \in Consoles /\ a.full = c.full /\ c.full \in BOOLEAN /\ OnScreen(c, a.lines)
    BY DEF Settled, Follows, Consoles
  <1>2. NewlineTyped(c) \in Consoles
    BY NewlineSettles DEF Settled
  <1>3. CASE c.full
    <2> DEFINE d == [c EXCEPT !.full = FALSE]
               b == [full |-> FALSE, lines |-> a.lines]
    <2>1. NewlineTyped(c) = d
      BY <1>3 DEF NewlineTyped
    <2>2. Broken(a, Newline) = b
      BY <1>1, <1>3 DEF Broken
    <2>3. d.x = c.x /\ d.y = c.y /\ d.top = c.top /\ d.buf = c.buf /\ d.full = FALSE
      BY <1>1 DEF Consoles
    <2>4. b.full = FALSE /\ b.lines = a.lines
      OBVIOUS
    <2> HIDE DEF d, b
    <2>5. OnScreen(d, a.lines)
      BY <1>1, <1>2, <2>1, <2>3, SameScreen
    <2>6. Len(a.lines[Len(a.lines)]) = c.x
      BY DEF Follows
    <2> QED
      BY <2>1, <2>2, <2>3, <2>4, <2>5, <2>6 DEF Follows
  <1>4. CASE ~c.full
    <2> DEFINE d == Draw(c, Blank)
    <2>1. NewlineTyped(c) = Down(d)
      BY <1>4 DEF NewlineTyped
    <2>2. Broken(a, Newline) = [full |-> FALSE, lines |-> Append(a.lines, <<>>)]
      BY <1>1, <1>4 DEF Broken
    <2>3. d \in Consoles /\ d.y = c.y /\ d.top = c.top /\ d.buf = c.buf /\ d.full = FALSE
      BY <1>1, <1>4, ScreenSizes DEF Consoles, Draw
    <2> HIDE DEF d
    <2>4. OnScreen(d, a.lines)
      BY <1>1, <2>3, SameScreen
    <2>5. Follows(Down(d), [full |-> d.full, lines |-> Append(a.lines, <<>>)])
      BY <1>2, <2>1, <2>4, DownFollows
    <2> QED
      BY <2>1, <2>2, <2>3, <2>5
  <1> QED
    BY <1>1, <1>3, <1>4

(* A character at the end of the last line.                                *)
WithChar(lines, ch) == [lines EXCEPT ![Len(lines)] = Append(@, ch)]

LEMMA CharOnScreen ==
    ASSUME NEW c, NEW lines, OnScreen(c, lines), NEW ch \in Chars,
           Len(lines[Len(lines)]) = c.x
    PROVE  LET d == Store(Draw(c, ch), ch)
               longer == WithChar(lines, ch)
           IN  /\ OnScreen(d, longer)
               /\ d.x = c.x
               /\ Len(longer) = Len(lines)
               /\ Len(longer[Len(lines)]) = c.x + 1
  <1> DEFINE d == Store(Draw(c, ch), ch)
             n == Len(lines)
             last == lines[n]
             longer == WithChar(lines, ch)
  <1>1. /\ c \in Consoles /\ c.top \in Lines /\ c.y \in Lines /\ c.x \in Columns
        /\ c.x \in Nat /\ c.y \in Nat
    BY DEF OnScreen, Consoles, Lines, Columns
  <1>2. lines \in Seq(Seq(Chars)) /\ n \in Nat \ {0} /\ n \in 1..n /\ last \in Seq(Chars)
    <2>1. lines \in Seq(Seq(Chars)) /\ lines # <<>>
      BY DEF OnScreen, Texts
    <2>2. n \in Nat /\ n # 0
      BY <2>1
    <2>3. n \in 1..n
      BY <2>2
    <2> QED
      BY <2>1, <2>2, <2>3
  <1>3. /\ longer \in Texts /\ Len(longer) = n /\ longer[n] = Append(last, ch)
        /\ \A i \in 1..n : i # n => longer[i] = lines[i]
    <2>1. longer = [lines EXCEPT ![n] = Append(last, ch)] /\ Append(last, ch) \in Seq(Chars)
      BY <1>2 DEF WithChar
    <2> HIDE DEF longer, last
    <2>2. longer \in Seq(Seq(Chars)) /\ Len(longer) = n
      BY <1>2, <2>1
    <2>3. longer # <<>>
      <3>1. Len(<<>>) = 0 /\ Len(longer) # 0
        BY <1>2, <2>2
      <3> QED
        BY <3>1
    <2>4. longer[n] = Append(last, ch) /\ \A i \in 1..n : i # n => longer[i] = lines[i]
      BY <1>2, <2>1
    <2> QED
      BY <2>2, <2>3, <2>4 DEF Texts
  <1>4. /\ Append(last, ch) \in Seq(Chars) /\ Len(last) = c.x /\ Len(Append(last, ch)) = c.x + 1
        /\ \A i \in 1..(c.x + 1) : Append(last, ch)[i] = IF i = c.x + 1 THEN ch ELSE last[i]
    <2>1. Len(last) = c.x
      OBVIOUS
    <2>2. last \in Seq(Chars)
      BY <1>2
    <2> HIDE DEF last
    <2>3. Append(last, ch) \in Seq(Chars) /\ Len(Append(last, ch)) = Len(last) + 1
      BY <2>2
    <2>4. \A i \in 1..(Len(last) + 1) : Append(last, ch)[i] = IF i = Len(last) + 1 THEN ch ELSE last[i]
      BY <2>2
    <2> QED
      BY <2>1, <2>3, <2>4
  <1>5. (c.y + c.top) % cursorymax = Ring(c.top, c.y) /\ Ring(c.top, c.y) \in Lines
    <2>1. c.y + c.top = c.top + c.y
      BY <1>1 DEF Lines
    <2>2. Ring(c.top, c.y) \in Lines
      BY <1>1, RingRange, ScreenSizes
    <2> QED
      BY <2>1, <2>2 DEF Ring
  <1>6. /\ d \in Consoles /\ d.x = c.x /\ d.y = c.y /\ d.top = c.top
        /\ d.buf = [c.buf EXCEPT ![Ring(c.top, c.y)] = [@ EXCEPT ![c.x] = ch]]
    BY <1>1, <1>5 DEF Consoles, Draw, Store
  <1> HIDE DEF d, longer, n, last
  <1>7. \A y \in Lines : Ring(c.top, y) \in Lines /\ (y # c.y => Ring(c.top, y) # Ring(c.top, c.y))
    BY <1>1, RingRange, RingInjective, ScreenSizes
  <1>8. \A y \in Lines, x \in Columns :
           Cell(d, y, x) = IF x = c.x /\ y = c.y THEN ch ELSE Cell(c, y, x)
    BY <1>1, <1>6, <1>7 DEF Cell, Consoles
  <1>9. Scrolled(longer) = Scrolled(lines) /\ Scrolled(lines) \in Nat
    BY <1>2, <1>3, ScreenSizes DEF Scrolled, n
  <1>10. c.y = n - 1 - Scrolled(lines)
    BY DEF OnScreen, n
  <1>11. ASSUME NEW y \in Lines, NEW x \in Columns
         PROVE  Lettered(longer, y, x) = IF x = c.x /\ y = c.y THEN ch ELSE Lettered(lines, y, x)
    <2> DEFINE k == Scrolled(lines) + y + 1
    <2>1. Lettered(longer, y, x) = IF k \in 1..n /\ x + 1 \in 1..Len(longer[k]) THEN longer[k][x + 1] ELSE Blank
      BY <1>3, <1>9 DEF Lettered
    <2>2. Lettered(lines, y, x) = IF k \in 1..n /\ x + 1 \in 1..Len(lines[k]) THEN lines[k][x + 1] ELSE Blank
      BY DEF Lettered, n
    <2>3. k \in Nat \ {0} /\ (k = n <=> y = c.y) /\ x \in Nat
      BY <1>1, <1>2, <1>9, <1>10 DEF Lines, Columns
    <2> HIDE DEF k
    <2>4. CASE y # c.y
      <3>1. k \in 1..n => longer[k] = lines[k]
        BY <1>3, <2>3, <2>4
      <3> QED
        BY <2>1, <2>2, <2>4, <3>1
    <2>5. CASE y = c.y
      <3>1. k = n /\ k \in 1..n /\ lines[k] = last /\ longer[k] = Append(last, ch)
        BY <1>2, <1>3, <2>3, <2>5 DEF last
      <3>2. Lettered(longer, y, x) = IF x + 1 \in 1..(c.x + 1) THEN Append(last, ch)[x + 1] ELSE Blank
        BY <1>4, <2>1, <3>1
      <3>3. Lettered(lines, y, x) = IF x + 1 \in 1..c.x THEN last[x + 1] ELSE Blank
        BY <1>4, <2>2, <3>1
      <3>4. CASE x = c.x
        <4>1. x + 1 \in 1..(c.x + 1) /\ x + 1 = c.x + 1
          BY <1>1, <3>4
        <4>2. Append(last, ch)[x + 1] = ch
          BY <1>4, <4>1
        <4> QED
          BY <2>5, <3>2, <3>4, <4>1, <4>2
      <3>5. CASE x < c.x
        <4>1. x + 1 \in 1..(c.x + 1) /\ x + 1 \in 1..c.x /\ x + 1 # c.x + 1
          BY <1>1, <2>3, <3>5
        <4>2. Append(last, ch)[x + 1] = last[x + 1]
          BY <1>4, <4>1
        <4>3. x # c.x
          BY <1>1, <2>3, <3>5
        <4> QED
          BY <3>2, <3>3, <4>1, <4>2, <4>3
      <3>6. CASE x > c.x
        <4>1. x + 1 \notin 1..(c.x + 1) /\ x + 1 \notin 1..c.x /\ x # c.x
          BY <1>1, <2>3, <3>6
        <4> QED
          BY <3>2, <3>3, <4>1
      <3> QED
        BY <1>1, <2>3, <3>4, <3>5, <3>6
    <2> QED
      BY <2>4, <2>5
  <1>12. \A y \in Lines, x \in Columns : Cell(d, y, x) = Lettered(longer, y, x)
    BY <1>8, <1>11 DEF OnScreen
  <1>13. d.y = Len(longer) - 1 - Scrolled(longer)
    BY <1>3, <1>6, <1>9, <1>10
  <1>14. OnScreen(d, longer)
    BY <1>3, <1>6, <1>12, <1>13 DEF OnScreen
  <1>15. Len(longer[n]) = c.x + 1
    BY <1>3, <1>4
  <1> QED
    BY <1>3, <1>6, <1>14, <1>15 DEF d, longer, n

LEMMA CharFollows ==
    ASSUME NEW c, Settled(c), NEW a, Follows(c, a), NEW ch \in Chars
    PROVE  Follows(CharTyped(c, ch), Broken(a, ch))
  <1> DEFINE n == Len(a.lines)
             d == Store(Draw(c, ch), ch)
             longer == WithChar(a.lines, ch)
  <1>1. c \in Consoles /\ c.x \in Columns /\ OnScreen(c, a.lines) /\ Len(a.lines[n]) = c.x
    BY DEF Settled, Follows, Consoles
  <1>2. OnScreen(d, longer) /\ d.x = c.x /\ Len(longer) = n /\ Len(longer[n]) = c.x + 1
    BY <1>1, CharOnScreen
  <1>3. d \in Consoles
    BY <1>2 DEF OnScreen
  <1>4. ch # Newline
    BY ConsoleAssumption
  <1>5. Broken(a, ch) = IF Len(longer[n]) = cursorxmax
                          THEN [full |-> TRUE, lines |-> Append(longer, <<>>)]
                          ELSE [full |-> FALSE, lines |-> longer]
    BY <1>4 DEF Broken, WithChar
  <1>6. CharTyped(c, ch) = IF c.x = cursorxmax - 1 THEN Down([d EXCEPT !.full = TRUE])
                           ELSE [d EXCEPT !.full = FALSE, !.x = @ + 1]
    BY DEF CharTyped
  <1>7. CharTyped(c, ch) \in Consoles
    BY CharSettles DEF Settled
  <1> HIDE DEF d, longer, n
  <1>8. CASE c.x = cursorxmax - 1
    <2> DEFINE e == [d EXCEPT !.full = TRUE]
    <2>1. e \in Consoles /\ e.full = TRUE /\ e.y = d.y /\ e.top = d.top /\ e.buf = d.buf
      BY <1>3 DEF Consoles
    <2>2. CharTyped(c, ch) = Down(e)
      BY <1>6, <1>8
    <2> HIDE DEF e
    <2>3. OnScreen(e, longer)
      BY <1>2, <2>1, SameScreen
    <2>4. Follows(Down(e), [full |-> e.full, lines |-> Append(longer, <<>>)])
      BY <1>7, <2>2, <2>3, DownFollows
    <2>5. Len(longer[n]) = cursorxmax
      BY <1>2, <1>8, ScreenSizes
    <2> QED
      BY <1>5, <2>1, <2>2, <2>4, <2>5
  <1>9. CASE c.x # cursorxmax - 1
    <2> DEFINE e == [d EXCEPT !.full = FALSE, !.x = @ + 1]
               b == [full |-> FALSE, lines |-> longer]
    <2>1. CharTyped(c, ch) = e
      BY <1>6, <1>9
    <2>2. e.full = FALSE /\ e.x = d.x + 1 /\ e.y = d.y /\ e.top = d.top /\ e.buf = d.buf
      BY <1>3 DEF Consoles
    <2>3. Broken(a, ch) = b
      <3>1. Len(longer[n]) # cursorxmax
        BY <1>1, <1>2, <1>9, ScreenSizes DEF Columns
      <3> QED
        BY <1>5, <3>1
    <2>4. b.full = FALSE /\ b.lines = longer
      OBVIOUS
    <2> HIDE DEF e, b
    <2>5. OnScreen(e, longer)
      BY <1>2, <1>7, <2>1, <2>2, SameScreen
    <2>6. Len(longer[Len(longer)]) = e.x
      BY <1>2, <2>2
    <2> QED
      BY <2>1, <2>2, <2>3, <2>4, <2>5, <2>6 DEF Follows
  <1> QED
    BY <1>8, <1>9

-----------------------------------------------------------------------------
(* The inductive invariant behind HoldsTail: the lines of the text and the *)
(* console stay together, with the cursor behind the last character and    *)
(* linefull saying whether the last line break is one nobody typed.        *)
TailInv == ScreenInv /\ Follows(Now, Typeset(printed)[Len(printed)])

LEMMA InitTail == Init => TailInv
  <1> SUFFICES ASSUME Init PROVE TailInv
    OBVIOUS
  <1>1. ScreenInv
    BY InitScreen
  <1>2. Now \in Consoles /\ Now.x = 0 /\ Now.y = 0 /\ Now.full = FALSE
    BY <1>1, NowSettled DEF Settled, Init, Now
  <1>3. printed \in Seq(Chars \cup {Newline}) /\ printed = <<>>
    BY <1>1 DEF ScreenInv, TypeOK, Init
  <1>4. Typeset(printed)[Len(printed)] = NoLines
    <2>1. Len(printed) = 0 /\ 0 \in 0..Len(printed)
      BY <1>3
    <2> QED
      BY <1>3, <2>1, TypesetSteps
  <1> DEFINE lines == <<<<>>>>
  <1>5. NoLines.full = FALSE /\ NoLines.lines = lines
    BY DEF NoLines
  <1>6. lines \in Seq(Seq(Chars)) /\ Len(lines) = 1 /\ lines[1] = <<>> /\ lines # <<>>
    OBVIOUS
  <1> HIDE DEF lines
  <1>7. Scrolled(lines) = 0
    BY <1>6, ScreenSizes DEF Scrolled
  <1>8. ASSUME NEW y \in Lines, NEW x \in Columns PROVE Cell(Now, y, x) = Lettered(lines, y, x)
    <2>1. Ring(linestart, y) \in Lines
      BY RingRange, ScreenSizes DEF Init
    <2>2. Cell(Now, y, x) = Blank
      BY <2>1 DEF Cell, Now, Init, BlankLine
    <2>3. Scrolled(lines) + y + 1 \in 1..1 => Len(lines[Scrolled(lines) + y + 1]) = 0
      BY <1>6
    <2>4. x + 1 \notin 1..0
      BY DEF Columns
    <2>5. Lettered(lines, y, x) = Blank
      BY <1>6, <2>3, <2>4 DEF Lettered
    <2> QED
      BY <2>2, <2>5
  <1>9. OnScreen(Now, lines)
    BY <1>2, <1>6, <1>7, <1>8 DEF OnScreen, Texts
  <1>10. Follows(Now, NoLines)
    <2>1. Len(lines[1]) = 0
      BY <1>6
    <2>2. Len(lines[Len(lines)]) = Now.x
      BY <1>2, <1>6, <2>1
    <2> QED
      BY <1>2, <1>5, <1>9, <2>2 DEF Follows
  <1> QED
    BY <1>1, <1>4, <1>10 DEF TailInv

LEMMA NextTail ==
    ASSUME TailInv, NEW ch \in Chars \cup {Newline}, printchar(ch)
    PROVE  TailInv'
  <1> DEFINE c == IF ch = Newline THEN NewlineTyped(Now) ELSE CharTyped(Now, ch)
             a == Typeset(printed)[Len(printed)]
             b == Typeset(printed')[Len(printed')]
  <1>1. ScreenInv /\ Settled(Now) /\ Follows(Now, a)
    BY NowSettled DEF TailInv
  <1>2. ScreenInv'
    BY <1>1, NextScreen
  <1>3. Follows(c, Broken(a, ch))
    <2> HIDE DEF a
    <2> QED
      BY <1>1, NewlineFollows, CharFollows
  <1>4. /\ cursorx' = c.x /\ cursory' = c.y /\ linestart' = c.top /\ linefull' = c.full
        /\ screenbuf' = c.buf /\ printed' = Append(printed, ch)
    BY DEF printchar
  <1>5. b = Broken(a, ch)
    <2>1. printed \in Seq(Chars \cup {Newline})
      BY <1>1 DEF ScreenInv, TypeOK
    <2> QED
      BY <1>4, <2>1, TypesetGrows
  <1> HIDE DEF a, b, c
  <1>6. /\ Now'.x = c.x /\ Now'.y = c.y /\ Now'.top = c.top /\ Now'.full = c.full /\ Now'.buf = c.buf
    BY <1>4 DEF Now
  <1>7. Now' \in Consoles
    BY <1>2 DEF ScreenInv, TypeOK, Consoles, Now
  <1>8. OnScreen(Now', b.lines)
    BY <1>3, <1>5, <1>6, <1>7, SameScreen DEF Follows
  <1>9. Follows(Now', b)
    BY <1>3, <1>5, <1>6, <1>8 DEF Follows
  <1> QED
    BY <1>2, <1>9 DEF TailInv, b

(* For every size of the screen and every text: the console holds the end  *)
(* of all that was ever printed, broken into lines, the oldest on top.     *)
THEOREM EndOfText == Spec => []HoldsTail
  <1>1. TailInv /\ [Next]_vars => TailInv'
    <2>1. TailInv /\ UNCHANGED vars => TailInv'
      <3> SUFFICES ASSUME TailInv, UNCHANGED vars PROVE TailInv'
        OBVIOUS
      <3>1. ScreenInv'
        BY DEF TailInv, vars, ScreenInv, TypeOK, BlankAhead, DisplayIsBuffer
      <3>2. Now' = Now /\ printed' = printed
        BY DEF vars, Now
      <3> QED
        BY <3>1, <3>2 DEF TailInv
    <2> QED
      BY <2>1, NextTail DEF Next
  <1>2. TailInv => HoldsTail
    <2> SUFFICES ASSUME TailInv, NEW y \in Lines, NEW x \in Columns
                 PROVE  screenbuf[(linestart + y) % cursorymax][x] = Lettered(Layout(printed), y, x)
      BY DEF HoldsTail
    <2>1. OnScreen(Now, Layout(printed))
      BY DEF TailInv, Follows, Layout
    <2>2. Cell(Now, y, x) = Lettered(Layout(printed), y, x)
      BY <2>1 DEF OnScreen
    <2>3. Cell(Now, y, x) = screenbuf[(linestart + y) % cursorymax][x]
      BY DEF Cell, Now, Ring
    <2> QED
      BY <2>2, <2>3
  <1> QED
    BY InitTail, <1>1, <1>2, PTL DEF Spec
=============================================================================
