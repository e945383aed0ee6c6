---------------------------------- MODULE Cga ---------------------------------
(***************************************************************************)
(* The text-mode display of kern/console.c as operators on a screen        *)
(* [buf, pos]: crt_buf, one cell for each position from the top left       *)
(* corner, and crt_pos, where the next character goes.  A cell is a        *)
(* character and an attribute, the two bytes of the code's uint16_t.       *)
(***************************************************************************)
EXTENDS Integers

CONSTANTS CRT_ROWS, CRT_COLS   \* 25 and 80 in the source

ASSUME ScreenAssumption == CRT_ROWS \in Nat \ {0} /\ CRT_COLS \in Nat \ {0}

CRT_SIZE == CRT_ROWS * CRT_COLS
Positions == 0..(CRT_SIZE - 1)

BS == 8    TAB == 9    NL == 10    CR == 13    SPACE == 32

Cell(ch, attr) == [ch |-> ch, attr |-> attr]
Cells == [ch : 0..255, attr : 0..255]
Blank == Cell(SPACE, 7)
Screens == [buf : [Positions -> Cells], pos : Positions]

(* Mutant of Attribute: a colour is looked at only if a background is set. *)
AttributeBgOnly(bg, fg, c) ==
  IF c < 0 THEN 255 ELSE IF bg = 0 THEN 7 ELSE bg * 16 + fg

(* The high byte of the cell.  A character is an int: a negative one, which
   is a char above 127 passed on by "%s", sets every bit of it. *)
Attribute(bg, fg, c) ==
  IF c < 0 THEN 255 ELSE IF bg = 0 /\ fg = 0 THEN 7 ELSE bg * 16 + fg

StartOfLine(p) == p - (p % CRT_COLS)

(* The switch of cga_putc, except for the tab. *)
Written(scr, c, attr) ==
  LET ch == c % 256
  IN  CASE ch = BS -> IF scr.pos = 0 THEN scr
                      ELSE [buf |-> [scr.buf EXCEPT ![scr.pos - 1] = Cell(SPACE, attr)],
                            pos |-> scr.pos - 1]
        [] ch = NL -> [scr EXCEPT !.pos = StartOfLine(scr.pos + CRT_COLS)]
        [] ch = CR -> [scr EXCEPT !.pos = StartOfLine(scr.pos)]
        [] OTHER   -> [buf |-> [scr.buf EXCEPT ![scr.pos] = Cell(ch, attr)],
                       pos |-> scr.pos + 1]

(* Mutant of OnScreen: the position one past the screen is let through. *)
OnScreenLate(scr) == scr.pos <= CRT_SIZE

OnScreen(scr) == scr.pos < CRT_SIZE

(* Mutant of MovedUp: the last row is moved up but not cleared. *)
MovedUpDirty(scr) ==
  [p \in Positions |-> IF p < CRT_SIZE - CRT_COLS THEN scr.buf[p + CRT_COLS] ELSE scr.buf[p]]

MovedUp(scr) ==
  [p \in Positions |-> IF p < CRT_SIZE - CRT_COLS THEN scr.buf[p + CRT_COLS] ELSE Blank]

(* Past the last cell the rows move up by one and the last is cleared. *)
Scrolled(scr) ==
  IF OnScreen(scr) THEN scr ELSE [buf |-> MovedUp(scr), pos |-> scr.pos - CRT_COLS]

(* cga_putc of anything but a tab. *)
CgaPutc(scr, c, attr) == Scrolled(Written(scr, c, attr))
===============================================================================
