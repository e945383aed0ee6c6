------------------------------- MODULE ConsOutput -----------------------------
(***************************************************************************)
(* Console output of kern/console.c: cons_putc() sends a character to the  *)
(* serial port, the parallel port and the display, in that order.  Each    *)
(* port is polled until it is ready or WAITMAX polls have passed, and then *)
(* written whatever it says.  A tab goes to both ports as it is and makes  *)
(* cga_putc() call cons_putc() again for five spaces.                      *)
(*                                                                         *)
(* The kernel is single-threaded; the ports empty their registers whenever *)
(* they like, or never.                                                    *)
(***************************************************************************)
EXTENDS Cga, SequencesExt

CONSTANTS
  Machines,   \* which ports the machine may have
  WAITMAX,    \* 12800 in the source
  PutChars,   \* the ints callers pass to cputchar()
  Colors,     \* the colours callers pass to cga_set_bg/fg()
  MaxPuts     \* bound on the calls of cputchar() in a behaviour, one less per port

ASSUME WaitAssumption == WAITMAX \in Nat /\ MaxPuts \in Nat
ASSUME CharAssumption == PutChars \subseteq -128..255
ASSUME ColorAssumption == Colors \subseteq 0..15 /\ 0 \in Colors

Ports == {"serial", "lpt"}

ASSUME MachineAssumption == Machines \subseteq SUBSET Ports

VARIABLES
  present,         \* ports the machine has; a missing one reads as ready
  tx,              \* tx[d]: << >> or <<byte>> in the port's register
  wire,            \* history: the bytes port d has passed on, if it lost none
  overrun,         \* history: ports whose register was written while full
  cga_bg, cga_fg,  \* the static colours
  scr,             \* crt_buf and crt_pos
  cursor,          \* cursor location in the 6845
  pc,              \* where cons_putc() is, "idle" between two calls
  i,               \* poll counter of serial_putc() and lpt_putc()
  c,               \* the character being put
  spaces,          \* calls of cons_putc(' ') a tab has still to make
  intab,           \* whether a tab is waiting for them
  puts,            \* history: the number of calls of cputchar()
  due              \* history: the bytes they owe each port

ports == <<present, tx, wire, overrun>>
colours == <<cga_bg, cga_fg>>
call == <<pc, i, c, spaces, intab>>
calls == <<puts, due>>
vars == <<ports, colours, scr, cursor, call, calls>>

-----------------------------------------------------------------------------
(* The port finishes with the byte in its register (external). *)
PortSends(d) ==
  /\ tx[d] # << >>
  /\ wire' = IF d \in overrun THEN wire ELSE [wire EXCEPT ![d] = @ \o tx[d]]
  /\ tx' = [tx EXCEPT ![d] = << >>]
  /\ UNCHANGED <<present, overrun, colours, scr, cursor, call, calls>>

(* cga_set_bg(), cga_set_fg() and cga_reset(), between two characters. *)
SetBg(bg) ==
  /\ pc = "idle" /\ cga_bg' = bg
  /\ UNCHANGED <<ports, cga_fg, scr, cursor, call, calls>>

SetFg(fg) ==
  /\ pc = "idle" /\ cga_fg' = fg
  /\ UNCHANGED <<ports, cga_bg, scr, cursor, call, calls>>

CgaReset ==
  /\ pc = "idle" /\ cga_bg' = 0 /\ cga_fg' = 0
  /\ UNCHANGED <<ports, scr, cursor, call, calls>>

-----------------------------------------------------------------------------
(* What a character put becomes on a port. *)
OnWire(ch) == IF ch % 256 = TAB THEN <<TAB, SPACE, SPACE, SPACE, SPACE, SPACE>>
              ELSE <<ch % 256>>

Cputchar(ch) ==
  /\ pc = "idle" /\ puts + Cardinality(present) < MaxPuts
  /\ pc' = "serial" /\ i' = 0 /\ c' = ch
  /\ puts' = puts + 1 /\ due' = due \o OnWire(ch)
  /\ UNCHANGED <<ports, colours, scr, cursor, spaces, intab>>

Waiting(d) == tx[d] # << >> /\ i < WAITMAX

(* Mutant of Polled: the poll counter is not increased. *)
PolledNever == i

Polled == i + 1

(* One turn of the loop of serial_putc() or lpt_putc(). *)
Poll(d) ==
  /\ pc = d /\ Waiting(d)
  /\ i' = Polled
  /\ UNCHANGED <<ports, colours, scr, cursor, pc, c, spaces, intab, calls>>

(* Mutant of Outb: a port that had to be polled is not written. *)
OutbReadyOnly(d) == IF d \in present /\ i = 0 THEN [tx EXCEPT ![d] = <<c % 256>>] ELSE tx

Outb(d) == IF d \in present THEN [tx EXCEPT ![d] = <<c % 256>>] ELSE tx

(* The outb() after it, ready or not. *)
PortWrite(d) ==
  /\ pc = d /\ ~Waiting(d)
  /\ tx' = Outb(d)
  /\ IF tx[d] # << >>
     THEN overrun' = overrun \union {d} /\ wire' = [wire EXCEPT ![d] = << >>]
     ELSE UNCHANGED <<overrun, wire>>
  /\ pc' = IF d = "serial" THEN "lpt" ELSE "cga"
  /\ i' = 0
  /\ UNCHANGED <<present, colours, scr, cursor, c, spaces, intab, calls>>

(* Where cga_putc() returns to: the next space of a tab, the end of the tab,
   or the caller of cputchar(). *)
AfterCga == IF spaces > 0 THEN "space" ELSE IF intab THEN "tabend" ELSE "idle"

CgaChar ==
  /\ pc = "cga" /\ c % 256 # TAB
  /\ scr' = CgaPutc(scr, c, Attribute(cga_bg, cga_fg, c))
  /\ cursor' = scr'.pos
  /\ pc' = AfterCga
  /\ UNCHANGED <<ports, colours, i, c, spaces, intab, calls>>

CgaTab ==
  /\ pc = "cga" /\ c % 256 = TAB
  /\ pc' = "space" /\ spaces' = 5 /\ intab' = TRUE
  /\ UNCHANGED <<ports, colours, scr, cursor, i, c, calls>>

(* One of the calls cons_putc(' '). *)
TabSpace ==
  /\ pc = "space"
  /\ pc' = "serial" /\ i' = 0 /\ c' = SPACE /\ spaces' = spaces - 1
  /\ UNCHANGED <<ports, colours, scr, cursor, intab, calls>>

(* The rest of cga_putc('\t'): the scroll test and the cursor once more. *)
TabEnd ==
  /\ pc = "tabend"
  /\ scr' = Scrolled(scr)
  /\ cursor' = scr'.pos
  /\ pc' = "idle" /\ intab' = FALSE
  /\ UNCHANGED <<ports, colours, i, c, spaces, calls>>

(* cga_init() takes crt_pos from the 6845 and leaves the cells alone. *)
Init ==
  /\ present \in Machines
  /\ tx = [d \in Ports |-> << >>] /\ wire = [d \in Ports |-> << >>] /\ overrun = {}
  /\ cga_bg = 0 /\ cga_fg = 0
  /\ cursor \in Positions
  /\ scr = [buf |-> [p \in Positions |-> Blank], pos |-> cursor]
  /\ pc = "idle" /\ i = 0 /\ c = 0 /\ spaces = 0 /\ intab = FALSE
  /\ puts = 0 /\ due = << >>

ConsPutc ==
  \/ \E d \in Ports : Poll(d) \/ PortWrite(d)
  \/ CgaChar \/ CgaTab \/ TabSpace \/ TabEnd

Callers ==
  \/ \E ch \in PutChars : Cputchar(ch)
  \/ \E colour \in Colors : SetBg(colour) \/ SetFg(colour)
  \/ CgaReset

Next == ConsPutc \/ Callers \/ \E d \in Ports : PortSends(d)

Spec == Init /\ [][Next]_vars

(* A call that has begun runs on: nothing preempts it.  Nothing is assumed
   of its callers or of the ports. *)
FairSpec == Spec /\ WF_vars(ConsPutc)

-----------------------------------------------------------------------------
Registers == [Ports -> {<< >>} \union {<<b>> : b \in 0..255}]

(* Types; scr \in Screens is the memory safety of cga_putc(): crt_pos is back
   inside crt_buf whenever it is next used as an index. *)
TypeOK ==
  /\ present \in Machines /\ overrun \subseteq Ports
  /\ tx \in Registers
  /\ cga_bg \in Colors /\ cga_fg \in Colors
  /\ scr \in Screens /\ cursor \in Positions
  /\ pc \in Ports \union {"idle", "cga", "space", "tabend"}
  /\ i \in 0..WAITMAX /\ c \in -128..255
  /\ spaces \in 0..5 /\ intab \in BOOLEAN
  /\ pc = "space" => spaces > 0
  /\ puts \in Nat /\ due \in Seq(0..255)

Stream(d) == wire[d] \o tx[d]

(* Each port gets every character once and in the order of the calls, a tab
   followed by its spaces, unless polling it timed out: serial_putc() and
   lpt_putc() write a register once per call and only when it is empty. *)
PortsCarryPuts ==
  \A d \in present \ overrun :
    /\ IsPrefix(Stream(d), due)
    /\ pc = "idle" => Stream(d) = due

(* Between two calls the blinking cursor is where the next character goes:
   cga_putc() moves it after the scroll, and it is where cga_init() of the
   next kernel to be started takes crt_pos from. *)
CursorFollows == pc = "idle" => cursor = scr.pos

(* cons_putc() comes back, even when a port never becomes ready. *)
PutReturns == pc # "idle" ~> pc = "idle"

(* The display is the terminal a user expects: a cell of the linear buffer is
   the cell of a row and a column, and scrolling drops the first row. *)
DrawnAttrs == {Attribute(bg, fg, ch) : bg \in Colors, fg \in Colors, ch \in PutChars \union {SPACE}}
DrawnCells == {Cell(ch % 256, a) : ch \in PutChars \union {SPACE}, a \in DrawnAttrs}
Erased(g) == Cell(SPACE, g.attr)

Display == INSTANCE Terminal
  WITH Rows <- CRT_ROWS, Cols <- CRT_COLS, Glyphs <- DrawnCells,
       Space <- Erased, Empty <- Blank,
       screen <- [r \in 1..CRT_ROWS |-> [k \in 1..CRT_COLS |->
                    scr.buf[(r - 1) * CRT_COLS + k - 1]]],
       row <- scr.pos \div CRT_COLS,
       col <- scr.pos % CRT_COLS
ImplementsTerminal == Display!Spec

(* console.c:176, "if no attribute given, then use black on white": with no
   colour set a new character gets the one default attribute. *)
DefaultAttribute ==
  [][pc = "cga" /\ cga_bg = 0 /\ cga_fg = 0 =>
       \A p \in Positions : scr'.buf[p] # scr.buf[p] => scr'.buf[p].attr = 7]_vars
===============================================================================
