------------------------------- MODULE Keyboard -------------------------------
(***************************************************************************)
(* The keyboard half of kern/console.c: the tables that turn scan codes    *)
(* into characters and kbd_proc_data(), which takes one byte out of the    *)
(* i8042 controller and runs it through the shift state.                   *)
(*                                                                         *)
(* The static word "shift" is a set of flag names instead of a bit mask,   *)
(* so that |=, &= ~ and ^= are union, difference and symmetric difference. *)
(* Characters are their byte values.                                       *)
(***************************************************************************)
EXTENDS Integers, Sequences

VARIABLES
  obf,     \* controller output buffer: << >> or << [aux |-> _, data |-> _] >>
  shift    \* kbd_proc_data's static shift state

kbdVars == <<obf, shift>>

Byte == 0..255
Flags == {"SHIFT", "CTL", "ALT", "CAPSLOCK", "NUMLOCK", "SCROLLLOCK", "E0ESC"}
NO == 0

KEY_HOME == 224
KEY_DEL  == 233

shiftcode == [d \in Byte |-> CASE d \in {29, 157} -> {"CTL"}
                               [] d \in {42, 54}  -> {"SHIFT"}
                               [] d \in {56, 184} -> {"ALT"}
                               [] OTHER           -> {}]

togglecode == [d \in Byte |-> CASE d = 58 -> {"CAPSLOCK"}
                                [] d = 69 -> {"NUMLOCK"}
                                [] d = 70 -> {"SCROLLLOCK"}
                                [] OTHER  -> {}]

(***************************************************************************)
(* The character tables: the positional entries of the initialiser, then   *)
(* the designated ones.  KEY_UP .. KEY_INS sit at the same places in all   *)
(* three tables; KEY_HOME and the keypad's Enter and / do not.             *)
(***************************************************************************)
Arrows(d) == CASE d = 200 -> 226    \* KEY_UP
               [] d = 201 -> 230    \* KEY_PGUP
               [] d = 203 -> 228    \* KEY_LF
               [] d = 205 -> 229    \* KEY_RT
               [] d = 207 -> 225    \* KEY_END
               [] d = 208 -> 227    \* KEY_DN
               [] d = 209 -> 231    \* KEY_PGDN
               [] d = 210 -> 232    \* KEY_INS
               [] d = 211 -> KEY_DEL
               [] OTHER   -> NO

Keypad(d) == CASE d = 199 -> KEY_HOME [] d = 156 -> 10 [] d = 181 -> 47
               [] OTHER   -> Arrows(d)

CtlKeypad(d) == CASE d = 151 -> KEY_HOME [] d = 181 -> 239
                  [] OTHER   -> Arrows(d)

normalRow == <<
  0, 27, 49, 50, 51, 52, 53, 54, 55, 56, 57, 48, 45, 61, 8, 9,
  113, 119, 101, 114, 116, 121, 117, 105, 111, 112, 91, 93, 10, 0, 97, 115,
  100, 102, 103, 104, 106, 107, 108, 59, 39, 96, 0, 92, 122, 120, 99, 118,
  98, 110, 109, 44, 46, 47, 0, 42, 0, 32, 0, 0, 0, 0, 0, 0,
  0, 0, 0, 0, 0, 0, 0, 55, 56, 57, 45, 52, 53, 54, 43, 49,
  50, 51, 48, 46, 0, 0, 0, 0 >>

shiftRow == <<
  0, 27, 33, 64, 35, 36, 37, 94, 38, 42, 40, 41, 95, 43, 8, 9,
  81, 87, 69, 82, 84, 89, 85, 73, 79, 80, 123, 125, 10, 0, 65, 83,
  68, 70, 71, 72, 74, 75, 76, 58, 34, 126, 0, 124, 90, 88, 67, 86,
  66, 78, 77, 60, 62, 63, 0, 42, 0, 32, 0, 0, 0, 0, 0, 0,
  0, 0, 0, 0, 0, 0, 0, 55, 56, 57, 45, 52, 53, 54, 43, 49,
  50, 51, 48, 46, 0, 0, 0, 0 >>

ctlRow == <<
  0, 0, 0, 0, 0, 0, 0, 0, 0, 0, 0, 0, 0, 0, 0, 0,
  17, 23, 5, 18, 20, 25, 21, 9, 15, 16, 0, 0, 13, 0, 1, 19,
  4, 6, 7, 8, 10, 11, 12, 0, 0, 0, 0, 28, 26, 24, 3, 22,
  2, 14, 13, 0, 0, 239, 0, 0 >>

normalmap == [d \in Byte |-> IF d < Len(normalRow) THEN normalRow[d + 1] ELSE Keypad(d)]
shiftmap  == [d \in Byte |-> IF d < Len(shiftRow) THEN shiftRow[d + 1] ELSE Keypad(d)]
ctlmap    == [d \in Byte |-> IF d < Len(ctlRow) THEN ctlRow[d + 1] ELSE CtlKeypad(d)]

(* charcode[shift & (CTL | SHIFT)]: with CTL the SHIFT bit does not matter. *)
charcode(sh) == IF "CTL" \in sh THEN ctlmap
                ELSE IF "SHIFT" \in sh THEN shiftmap ELSE normalmap

(* CapsLock swaps the case of letters and leaves everything else alone. *)
CapsFold(sh, c) ==
  IF "CAPSLOCK" \notin sh THEN c
  ELSE IF c \in 97..122 THEN c - 32
  ELSE IF c \in 65..90 THEN c + 32
  ELSE c

(* shift ^= bits *)
Toggled(sh, bits) == (sh \ bits) \union (bits \ sh)

-----------------------------------------------------------------------------
(* Mutant of Released: the release bit is never masked off the scan code. *)
ReleasedUnmasked(sh, data) ==
  [shift |-> sh \ (shiftcode[data] \union {"E0ESC"}), c |-> 0]

(* Mutant of Pressed: the E0 escape outlives the key it belongs to. *)
PressedStickyE0(sh, data) ==
  LET d   == IF "E0ESC" \in sh THEN data + 128 ELSE data
      sh2 == Toggled(sh \union shiftcode[d], togglecode[d])
  IN  [shift |-> sh2, c |-> CapsFold(sh2, charcode(sh2)[d])]

(***************************************************************************)
(* What kbd_proc_data does with a byte it has read: the new shift state    *)
(* and the value it returns, 0 while no character is finished.             *)
(***************************************************************************)
Released(sh, data) ==
  LET d == IF "E0ESC" \in sh THEN data ELSE data - 128
  IN  [shift |-> sh \ (shiftcode[d] \union {"E0ESC"}), c |-> 0]

Pressed(sh, data) ==
  LET d    == IF "E0ESC" \in sh THEN data + 128 ELSE data
      held == (sh \ {"E0ESC"}) \union shiftcode[d]
      sh2  == Toggled(held, togglecode[d])
  IN  [shift |-> sh2, c |-> CapsFold(sh2, charcode(sh2)[d])]

Decode(sh, data) ==
  IF data = 224 THEN [shift |-> sh \union {"E0ESC"}, c |-> 0]
  ELSE IF data >= 128 THEN Released(sh, data)
  ELSE Pressed(sh, data)

(* Ctrl-Alt-Del: print "Rebooting!" and pulse the reset line (port 0x92). *)
Reboots(sh, c) == {"CTL", "ALT"} \subseteq sh /\ c = KEY_DEL

(* kbd_proc_data returns -1, reading nothing: no byte, or one from the mouse. *)
KbdNoData == obf # << >> => obf[1].aux

(* The byte leaves the controller and the shift state moves on. *)
KbdDecoded == Decode(shift, obf[1].data)

KbdReadByte ==
  /\ ~KbdNoData
  /\ shift' = KbdDecoded.shift
  /\ obf' = << >>
===============================================================================
