------------------------------ MODULE ConsInput -------------------------------
(***************************************************************************)
(* Console input of kern/console.c: the UART and the keyboard controller   *)
(* feed cons_intr(), which stores characters in the circular buffer        *)
(* "cons"; cons_getc() polls both devices and takes the oldest character.  *)
(* Interrupts are never enabled (boot.S runs cli and nothing runs sti), so *)
(* the kernel is one thread of control and it races only with the devices: *)
(* a byte may arrive between any two of its steps.                         *)
(***************************************************************************)
EXTENDS Keyboard

CONSTANTS
  CONSBUFSIZE,   \* 512 in the source
  SerialBytes,   \* bytes the serial line may carry
  KbdBytes,      \* bytes the keyboard may send
  MaxArrivals,   \* bound on the bytes that arrive in a behaviour
  MaxMouse       \* bound on how many of them come from the mouse

ASSUME SizeAssumption == CONSBUFSIZE \in Nat /\ CONSBUFSIZE >= 2
ASSUME BytesAssumption == SerialBytes \subseteq Byte /\ KbdBytes \subseteq Byte
ASSUME BoundAssumption == MaxArrivals \in Nat /\ MaxMouse \in Nat

VARIABLES
  serial_exists,   \* what serial_init found
  uart,            \* UART receive register: << >> or <<byte>> (FIFO is off)
  buf, rpos, wpos, \* the static struct cons
  pc,              \* where cons_getc() is; "idle" between two calls
  ret,             \* what the last cons_getc() returned
  unread,          \* history: characters stored and not returned
  arrived, mouse   \* history: bytes that have arrived, mouse bytes

cons == <<buf, rpos, wpos>>
vars == <<kbdVars, serial_exists, uart, cons, pc, ret, unread, arrived, mouse>>

Slots == 0..(CONSBUFSIZE - 1)

(* The characters the two devices can make cons_intr() store. *)
KbdChars == {Decode(sh, b).c : sh \in SUBSET Flags, b \in KbdBytes}
Chars == (SerialBytes \union KbdChars) \ {0}

-----------------------------------------------------------------------------
(* The devices (external).  Neither waits for the kernel. *)

(* With the FIFO off a byte that is not read in time is overwritten. *)
SerialReceive(b) ==
  /\ serial_exists /\ arrived < MaxArrivals
  /\ uart' = <<b>>
  /\ arrived' = arrived + 1
  /\ UNCHANGED <<kbdVars, serial_exists, cons, pc, ret, unread, mouse>>

(* The controller takes the next byte when its output buffer is empty. *)
KeyboardReceive(b) ==
  /\ obf = << >> /\ arrived < MaxArrivals
  /\ obf' = <<[aux |-> FALSE, data |-> b]>>
  /\ arrived' = arrived + 1
  /\ UNCHANGED <<shift, serial_exists, uart, cons, pc, ret, unread, mouse>>

MouseReceive ==
  /\ obf = << >> /\ arrived < MaxArrivals /\ mouse < MaxMouse
  /\ obf' = <<[aux |-> TRUE, data |-> 0]>>
  /\ arrived' = arrived + 1 /\ mouse' = mouse + 1
  /\ UNCHANGED <<shift, serial_exists, uart, cons, pc, ret, unread>>

-----------------------------------------------------------------------------
(***************************************************************************)
(* The loop body of cons_intr(): a finished character goes in at wpos,     *)
(* which wraps; 0 is no character.  Nothing looks at rpos.                 *)
(***************************************************************************)
(* Mutant of Advance: the wrap is noticed one character too late. *)
AdvanceLate(pos) == IF pos = CONSBUFSIZE THEN 0 ELSE pos + 1

(* A position after one more character. *)
Advance(pos) == IF pos + 1 = CONSBUFSIZE THEN 0 ELSE pos + 1

(* Mutant of NoChar: "if (c == 0) continue" is missing. *)
NoCharNever(c) == FALSE

NoChar(c) == c = 0

ConsIntrStore(c) ==
  /\ IF NoChar(c)
     THEN UNCHANGED <<buf, wpos, unread>>
     ELSE /\ buf' = [buf EXCEPT ![wpos] = c]
          /\ wpos' = Advance(wpos)
          /\ unread' = unread + 1
  /\ UNCHANGED <<rpos, ret>>

(* Mutant of FirstPoll: without a serial port nothing is polled at all. *)
FirstPollSerial == IF serial_exists THEN "serial_intr" ELSE "take"

FirstPoll == IF serial_exists THEN "serial_intr" ELSE "kbd_intr"

(* cons_getc() starts with serial_intr(), which does nothing without a port. *)
ConsGetc ==
  /\ pc = "idle"
  /\ pc' = FirstPoll
  /\ UNCHANGED <<kbdVars, serial_exists, uart, cons, ret, unread, arrived, mouse>>

(* cons_intr(serial_proc_data): one byte, or the end of the loop. *)
SerialIntr ==
  /\ pc = "serial_intr"
  /\ \/ /\ uart # << >>
        /\ ConsIntrStore(uart[1])
        /\ uart' = << >>
        /\ UNCHANGED pc
     \/ /\ uart = << >>
        /\ pc' = "kbd_intr"
        /\ UNCHANGED <<uart, cons, ret, unread>>
  /\ UNCHANGED <<kbdVars, serial_exists, arrived, mouse>>

(* cons_intr(kbd_proc_data), which may reset the machine instead. *)
KbdIntr ==
  /\ pc = "kbd_intr"
  /\ \/ /\ KbdReadByte
        /\ IF Reboots(shift', KbdDecoded.c)
           THEN pc' = "reset" /\ UNCHANGED <<cons, ret, unread>>
           ELSE ConsIntrStore(KbdDecoded.c) /\ UNCHANGED pc
     \/ /\ KbdNoData
        /\ pc' = "take"
        /\ UNCHANGED <<kbdVars, cons, ret, unread>>
  /\ UNCHANGED <<serial_exists, uart, arrived, mouse>>

(* Grab the next character, or return 0. *)
ConsTake ==
  /\ pc = "take"
  /\ pc' = "idle"
  /\ \/ /\ rpos # wpos
        /\ ret' = buf[rpos]
        /\ rpos' = Advance(rpos)
        /\ unread' = unread - 1
     \/ /\ rpos = wpos
        /\ ret' = 0
        /\ UNCHANGED <<rpos, unread>>
  /\ UNCHANGED <<kbdVars, serial_exists, uart, buf, wpos, arrived, mouse>>

Init ==
  /\ obf = << >> /\ shift = {}
  /\ serial_exists \in BOOLEAN /\ uart = << >>
  /\ buf = [s \in Slots |-> 0] /\ rpos = 0 /\ wpos = 0
  /\ pc = "idle" /\ ret = 0
  /\ unread = 0 /\ arrived = 0 /\ mouse = 0

Devices ==
  \/ \E b \in SerialBytes : SerialReceive(b)
  \/ \E b \in KbdBytes : KeyboardReceive(b)
  \/ MouseReceive

Kernel == ConsGetc \/ SerialIntr \/ KbdIntr \/ ConsTake

Next == Devices \/ Kernel

Spec == Init /\ [][Next]_vars

(* getchar() calls cons_getc() until it returns a character, and the monitor
   loop always comes back to getchar(): the processor never stops.  Nothing
   is assumed of the devices. *)
FairSpec == Spec /\ WF_vars(Kernel)

-----------------------------------------------------------------------------
(* Types. *)
TypeOK ==
  /\ obf \in {<< >>, <<[aux |-> TRUE, data |-> 0]>>}
            \union {<<[aux |-> FALSE, data |-> b]>> : b \in KbdBytes}
  /\ shift \subseteq Flags
  /\ serial_exists \in BOOLEAN
  /\ uart \in {<< >>} \union {<<b>> : b \in SerialBytes}
  /\ buf \in [Slots -> Chars \union {0}] /\ rpos \in Slots /\ wpos \in Slots
  /\ pc \in {"idle", "serial_intr", "kbd_intr", "take", "reset"}
  /\ ret \in Chars \union {0}
  /\ unread \in Int /\ arrived \in 0..MaxArrivals /\ mouse \in 0..MaxMouse

(* How many characters the buffer admits to holding, and which. *)
Occupancy == IF rpos <= wpos THEN wpos - rpos ELSE wpos - rpos + CONSBUFSIZE

At(k) == IF rpos + k - 1 < CONSBUFSIZE THEN rpos + k - 1 ELSE rpos + k - 1 - CONSBUFSIZE

Pending == [k \in 1..Occupancy |-> buf[At(k)]]

(* cons_intr() and cons_getc() together implement the queue of InputQueue:
   whatever the devices do between two steps, characters come out whole,
   once, in the order they went in, and the only loss is that of a full
   buffer, which empties itself. *)
Queue == INSTANCE InputQueue
           WITH Capacity <- CONSBUFSIZE, Char <- Chars, q <- Pending, out <- ret
ImplementsQueue == Queue!Spec

(* The two positions account for every character stored and not returned,
   up to whole buffers lost: cons_getc() never returns a slot nobody
   filled and never returns one twice. *)
PositionsAccount == \E lost \in 0..unread : unread = Occupancy + lost * CONSBUFSIZE

(* Under finite input the buffer and both devices are empty again and again:
   the polls of cons_getc() starve neither device.  Only a byte of the mouse,
   which kbd_proc_data() leaves where it is, stays in the controller. *)
InputDrains ==
  []<>(\/ pc = "reset"
       \/ /\ rpos = wpos /\ uart = << >>
          /\ obf # << >> => obf[1].aux)

(* console.c:424: a call of cons_getc() returns 0 only "if none waiting". *)
ZeroMeansNoneWaiting ==
  [][ConsTake /\ ret' = 0 => unread = 0]_vars
===============================================================================
