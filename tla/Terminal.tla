-------------------------------- MODULE Terminal ------------------------------
(***************************************************************************)
(* What the display of kern/console.c looks like from outside: rows of     *)
(* cells and a cursor at a row and a column.  A full line continues on the *)
(* next one, and going below the last row drops the first.                 *)
(***************************************************************************)
EXTENDS Integers, Sequences

CONSTANTS
  Rows, Cols,   \* size of the screen
  Glyphs,       \* the cells that may be drawn
  Space(_),     \* the blank cell with the attribute of a glyph
  Empty         \* the cell of a fresh row

VARIABLES
  screen,       \* Rows sequences of Cols cells, the top row first
  row, col      \* the cursor, counted from 0

vars == <<screen, row, col>>

FreshRow == [c \in 1..Cols |-> Empty]

Init ==
  /\ screen \in [1..Rows -> [1..Cols -> Glyphs \union {Empty}]]
  /\ row \in 0..(Rows - 1) /\ col \in 0..(Cols - 1)

(* The screen s with the cursor moved down to column c of the next row. *)
DownTo(s, c) ==
  /\ col' = c
  /\ IF row < Rows - 1 THEN row' = row + 1 /\ screen' = s
     ELSE row' = row /\ screen' = Append(Tail(s), FreshRow)

Draw(g) ==
  LET s == [screen EXCEPT ![row + 1][col + 1] = g]
  IN  IF col < Cols - 1 THEN screen' = s /\ col' = col + 1 /\ UNCHANGED row
      ELSE DownTo(s, 0)

Newline == DownTo(screen, 0)

Return == col' = 0 /\ UNCHANGED <<screen, row>>

(* Rubs out the cell before the cursor, on the line above if need be. *)
Backspace(g) ==
  /\ ~(row = 0 /\ col = 0)
  /\ IF col > 0 THEN col' = col - 1 /\ row' = row
     ELSE col' = Cols - 1 /\ row' = row - 1
  /\ screen' = [screen EXCEPT ![row' + 1][col' + 1] = Space(g)]

Next ==
  \/ \E g \in Glyphs : Draw(g) \/ Backspace(g)
  \/ Newline
  \/ Return

Spec == Init /\ [][Next]_vars
===============================================================================
