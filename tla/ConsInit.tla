-------------------------------- MODULE ConsInit ------------------------------
(***************************************************************************)
(* cons_init() of kern/console.c: the devices as the firmware left them,   *)
(* what the kernel finds out about them and how it sets up the serial      *)
(* port.  Offsets 0 and 1 of the UART lead to two registers each.  Bytes   *)
(* arrive on the line at any time.                                         *)
(***************************************************************************)
EXTENDS Integers, Sequences

CONSTANT Machines   \* [cards, cursor, serial, uart, rx] as the firmware leaves them

VARIABLES
  consAt,                         \* where cons_init() is
  machine,                        \* what it runs on
  text, was, crt_buf, crt_pos,    \* first cell of each display, its copy, the one in use
  uart, rx, outbs, serial_exists  \* registers, bytes received, outb()s done

display == <<text, was, crt_buf, crt_pos>>
serial == <<uart, rx, outbs, serial_exists>>
consVars == <<consAt, machine, display, serial>>

MARK == "0xA55A"
FIFO == 2

(* The bytes a receiver can hold. *)
Depth(fcr) == IF fcr = 1 THEN FIFO ELSE 1

(* What registers 14 and 15 of a 6845 hold together. *)
Offsets == 0..(256 * 256 - 1)

(* The registers of a UART; TX: the byte last sent, -1 for none. *)
Uarts == [{"DLL", "DLM", "IER", "FCR", "LCR", "MCR", "TX"} -> -1..255]

(* A machine has a display, its cursor fits the two registers of the 6845, and the
   kernel has sent nothing yet. *)
ASSUME MachineAssumption ==
  \A m \in Machines :
    /\ m.cards # {} /\ m.cards \subseteq {"color", "mono"}
    /\ \A card \in m.cards : m.cursor[card] \in Offsets
    /\ m.serial \in BOOLEAN
    /\ m.uart \in Uarts /\ m.uart.TX = -1 /\ m.rx \in 0..Depth(m.uart.FCR)

ConsStart ==
  /\ consAt = "off" /\ machine = "unseen"
  /\ text = <<>> /\ was = "junk" /\ crt_buf = "none" /\ crt_pos = 0
  /\ uart = <<>> /\ rx = 0 /\ outbs = 0 /\ serial_exists = FALSE

-----------------------------------------------------------------------------
(* cga_init(), on the devices as the firmware left them. *)
CgaInit ==
  /\ consAt = "off" /\ consAt' = "probe"
  /\ machine' \in Machines
  /\ text' = [card \in machine'.cards |-> "firmware"]
  /\ uart' = machine'.uart /\ rx' = machine'.rx
  /\ UNCHANGED <<was, crt_buf, crt_pos, outbs, serial_exists>>

Poke(card, cell) == text' = [c \in DOMAIN text |-> IF c = card THEN cell ELSE text[c]]
Peek(card) == IF card \in DOMAIN text THEN text[card] ELSE "junk"

CgaProbe ==
  /\ consAt = "probe" /\ consAt' = "detect"
  /\ was' = Peek("color") /\ Poke("color", MARK)
  /\ UNCHANGED <<crt_buf, crt_pos>>

CgaDetect ==
  /\ consAt = "detect" /\ consAt' = "cursor"
  /\ IF Peek("color") = MARK
     THEN Poke("color", was) /\ crt_buf' = "color"
     ELSE crt_buf' = "mono" /\ UNCHANGED text
  /\ UNCHANGED <<was, crt_pos>>

(* Registers 14 and 15 of the 6845: the two halves of the cursor's position. *)
Crtc(r) == IF r = 14 THEN machine.cursor[crt_buf] \div 256 ELSE machine.cursor[crt_buf] % 256

CgaCursor ==
  /\ consAt = "cursor" /\ consAt' = "serial"
  /\ crt_pos' = Crtc(14) * 256 + Crtc(15)
  /\ UNCHANGED <<text, was, crt_buf>>

-----------------------------------------------------------------------------
(* serial_init(): the outb()s in their order, as <<offset, byte>>. *)
COM_LCR_DLAB == 128
COM_LCR_WLEN8 == 3
COM_IER_RDI == 1
SetSpeed == <<<<0, 12>>, <<1, 0>>>>

(* Mutant of SerialWrites: the latch is closed before the divisor is written. *)
SerialWritesLate ==
  <<<<2, 0>>, <<3, COM_LCR_DLAB>>, <<3, COM_LCR_WLEN8>>>> \o SetSpeed \o <<<<4, 0>>, <<1, COM_IER_RDI>>>>

SerialWrites ==
  <<<<2, 0>>, <<3, COM_LCR_DLAB>>>> \o SetSpeed \o <<<<3, COM_LCR_WLEN8>>, <<4, 0>>, <<1, COM_IER_RDI>>>>

(* The register an offset leads to. *)
Register(offset) ==
  CASE offset = 0 -> IF uart.LCR >= COM_LCR_DLAB THEN "DLL" ELSE "TX"
    [] offset = 1 -> IF uart.LCR >= COM_LCR_DLAB THEN "DLM" ELSE "IER"
    [] offset = 2 -> "FCR" [] offset = 3 -> "LCR" [] offset = 4 -> "MCR"

(* Switching the FIFO on or off empties it; without a port nothing happens. *)
outb(offset, byte) ==
  /\ uart' = IF machine.serial THEN [uart EXCEPT ![Register(offset)] = byte] ELSE uart
  /\ rx' = IF offset = 2 /\ byte # uart.FCR THEN 0 ELSE rx

SerialOut ==
  /\ consAt = "serial" /\ outbs' = outbs + 1
  /\ outb(SerialWrites[outbs'][1], SerialWrites[outbs'][2])
  /\ consAt' = IF outbs' = Len(SerialWrites) THEN "status" ELSE "serial"
  /\ UNCHANGED serial_exists

(* COM_LSR is 0xFF only if there is no port. *)
SerialStatus ==
  /\ consAt = "status" /\ consAt' = "drain" /\ serial_exists' = machine.serial
  /\ UNCHANGED <<uart, rx, outbs>>

(* COM_RX (COM_IIR changes nothing here); then cprintf(), if there is no port. *)
SerialDrain ==
  /\ consAt = "drain" /\ consAt' = "ready"
  /\ rx' = IF rx = 0 THEN 0 ELSE rx - 1
  /\ UNCHANGED <<uart, outbs, serial_exists>>

(* The line: one byte more, up to what the receiver holds. *)
Receive ==
  /\ consAt \notin {"off", "ready"} /\ machine.serial
  /\ rx < Depth(uart.FCR) /\ rx' = rx + 1
  /\ UNCHANGED <<consAt, machine, display, uart, outbs, serial_exists>>

ConsInit ==
  \/ CgaInit
  \/ (CgaProbe \/ CgaDetect \/ CgaCursor) /\ UNCHANGED <<machine, serial>>
  \/ (SerialOut \/ SerialStatus \/ SerialDrain) /\ UNCHANGED <<machine, display>>

-----------------------------------------------------------------------------
(* console.c:455.  When cons_init() returns, whatever the firmware left and whatever
   arrived meanwhile: the display in use is there, shows what it showed and goes on
   at its own cursor; the serial port is used if and only if there is one, runs at
   9600 baud with 8 bits and no FIFO, has sent nothing, and holds no byte from before. *)
ConsoleReady ==
  consAt = "ready" =>
    /\ crt_buf \in machine.cards /\ crt_pos = machine.cursor[crt_buf]
    /\ \A card \in machine.cards : text[card] = "firmware"
    /\ serial_exists = machine.serial
    /\ serial_exists =>
         /\ uart = [DLL |-> 12, DLM |-> 0, IER |-> 1, FCR |-> 0, LCR |-> 3, MCR |-> 0, TX |-> -1]
         /\ rx = 0
===============================================================================
