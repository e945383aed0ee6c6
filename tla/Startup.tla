-------------------------------- MODULE Startup -------------------------------
(***************************************************************************)
(* boot/boot.S and kern/entry.S, instruction by instruction: from the      *)
(* firmware's real mode to the first C function of the kernel, on a        *)
(* processor that changes how it translates addresses under the code's     *)
(* feet.  Addresses are page numbers; bootmain() (BootLoader) is one step. *)
(***************************************************************************)
EXTENDS Integers, Sequences

CONSTANTS
  NPTENTRIES,   \* pages a directory entry maps
  KERNBASE,     \* first page of the kernel's half
  BootPage,     \* where the firmware loads the boot sector
  TextPage,     \* where the kernel's code is loaded (1MB)
  DataPage      \* where its boot stack and page tables are loaded

ASSUME LayoutAssumption ==
  /\ NPTENTRIES \in Nat \ {0} /\ KERNBASE \in Nat /\ KERNBASE % NPTENTRIES = 0
  /\ KERNBASE >= NPTENTRIES
  /\ {BootPage, TextPage, DataPage} \subseteq 0..(NPTENTRIES - 1)

VARIABLES
  pc,    \* the label or instruction the processor is at
  cpu,   \* its registers; high: is it running at KERNBASE + x and not at x
  kbc    \* the keyboard controller: input buffer, the command it has seen, A20 gate

vars == <<pc, cpu, kbc>>

Registers == [high : BOOLEAN, cs : {"real", "flat32"}, dataSegs : {"firmware", "zero", "flat"},
              IF_ : BOOLEAN, DF : BOOLEAN, pe : BOOLEAN, pg : BOOLEAN, wp : BOOLEAN,
              cr3 : Int, esp : Int, ebp : Int]

Boot16 == {"start", "cld", "dataseg0", "seta20.1", "outd1", "seta20.2", "outdf", "lgdt", "setpe", "ljmp"}
Boot32 == {"protcseg", "setesp", "bootmain"}
Entry32 == {"entry", "loadcr3", "setpg", "jmphigh", "relocated", "bootstack", "call"}

-----------------------------------------------------------------------------
(* entry_pgdir and entry_pgtable: page directory index to flags (both entries
   lead to the one page table), page table index to page and flags. *)
entry_pgdir ==
  [d \in {0, KERNBASE \div NPTENTRIES} |-> [P |-> TRUE, W |-> d # 0]]
entry_pgtable == [t \in 0..(NPTENTRIES - 1) |-> [page |-> t, P |-> TRUE, W |-> TRUE]]

(* The hardware's walk of the page tables. *)
Directory(page) == page \div NPTENTRIES
Mapped(page) ==
  cpu.pg => /\ cpu.cr3 = DataPage
            /\ Directory(page) \in DOMAIN entry_pgdir /\ entry_pgdir[Directory(page)].P
            /\ entry_pgtable[page % NPTENTRIES].P
Physical(page) == IF cpu.pg THEN entry_pgtable[page % NPTENTRIES].page ELSE page
Writable(page) ==
  Mapped(page) /\ (cpu.pg /\ cpu.wp => entry_pgdir[Directory(page)].W /\ entry_pgtable[page % NPTENTRIES].W)

RELOC(page) == page - KERNBASE

-----------------------------------------------------------------------------
(* What the firmware leaves. *)
FirmwareCpus ==
  [high : {FALSE}, cs : {"real"}, dataSegs : {"firmware", "zero"}, IF_ : BOOLEAN, DF : BOOLEAN,
   pe : {FALSE}, pg : {FALSE}, wp : {FALSE}, cr3 : {-1}, esp : {-1}, ebp : {-1}]
FirmwareKbcs == [input : {"empty", "firmware"}, command : {"none"}, a20 : BOOLEAN]

Init == pc = "start" /\ cpu \in FirmwareCpus /\ kbc \in FirmwareKbcs

(* An instruction that only changes registers. *)
Instr(from, to, registers) ==
  pc = from /\ pc' = to /\ cpu' = registers /\ UNCHANGED kbc

Cli == Instr("start", "cld", [cpu EXCEPT !.IF_ = FALSE])
Cld == Instr("cld", "dataseg0", [cpu EXCEPT !.DF = FALSE])
ZeroSegs == Instr("dataseg0", "seta20.1", [cpu EXCEPT !.dataSegs = "zero"])

(* Mutant of InputEmpty: the buffer is not waited for. *)
InputAny == TRUE

(* What a poll of the controller's status looks for. *)
InputEmpty == kbc.input = "empty"

Seta20 ==
  /\ InputEmpty
  /\ Instr("seta20.1", "outd1", cpu) \/ Instr("seta20.2", "outdf", cpu)

(* A byte that is still there is lost. *)
OutKbc ==
  /\ \/ pc = "outd1" /\ pc' = "seta20.2" /\ kbc' = [kbc EXCEPT !.input = "0xd1"]
     \/ pc = "outdf" /\ pc' = "lgdt" /\ kbc' = [kbc EXCEPT !.input = "0xdf"]
  /\ UNCHANGED cpu

(* The controller takes a byte; 0xdf behind 0xd1 opens the gate. *)
KbcTakes ==
  /\ kbc.input # "empty"
  /\ kbc' = [input |-> "empty", command |-> kbc.input,
              a20 |-> kbc.a20 \/ (kbc.command = "0xd1" /\ kbc.input = "0xdf")]
  /\ UNCHANGED <<pc, cpu>>

Lgdt == Instr("lgdt", "setpe", cpu)

SetPE == Instr("setpe", "ljmp", [cpu EXCEPT !.pe = TRUE])
Ljmp == Instr("ljmp", "protcseg", [cpu EXCEPT !.cs = "flat32"])
FlatSegs == Instr("protcseg", "setesp", [cpu EXCEPT !.dataSegs = "flat"])
SetEsp == Instr("setesp", "bootmain", [cpu EXCEPT !.esp = BootPage])

(* bootmain() does not return; it calls e_entry = _start = RELOC(entry), with
   a frame pointer of its own. *)
Bootmain == Instr("bootmain", "entry", [cpu EXCEPT !.ebp = BootPage])

-----------------------------------------------------------------------------
(* The store of 0x1234 to 0x472. *)
WarmBoot == Instr("entry", "loadcr3", cpu)

(* Mutant of LoadCr3: the linked address of the page directory. *)
LoadCr3Linked == Instr("loadcr3", "setpg", [cpu EXCEPT !.cr3 = KERNBASE + DataPage])

LoadCr3 == Instr("loadcr3", "setpg", [cpu EXCEPT !.cr3 = RELOC(KERNBASE + DataPage)])
SetPG == Instr("setpg", "jmphigh", [cpu EXCEPT !.pg = TRUE, !.wp = TRUE])
JmpHigh == Instr("jmphigh", "relocated", [cpu EXCEPT !.high = TRUE])

ClearEbp == Instr("relocated", "bootstack", [cpu EXCEPT !.ebp = 0])

SetStack == Instr("bootstack", "call", [cpu EXCEPT !.esp = KERNBASE + DataPage])
CallInit == Instr("call", "i386_init", cpu)

Cpu ==
  \/ Cli \/ Cld \/ ZeroSegs \/ Seta20 \/ OutKbc \/ Lgdt \/ SetPE \/ Ljmp \/ FlatSegs \/ SetEsp
  \/ Bootmain \/ WarmBoot \/ LoadCr3 \/ SetPG \/ JmpHigh \/ ClearEbp \/ SetStack \/ CallInit

-----------------------------------------------------------------------------
(* Types; paging is never on without protection, which the processor refuses. *)
TypeOK ==
  /\ cpu.pg => cpu.pe
  /\ pc \in Boot16 \union Boot32 \union Entry32 \union {"i386_init"}
  /\ cpu \in Registers
  /\ LET bytes == {"firmware", "0xd1", "0xdf"}
     IN  kbc \in [input : bytes \union {"empty"}, command : bytes \union {"none"}, a20 : BOOLEAN]

LoadedAt == IF pc \in Boot16 \union Boot32 THEN BootPage ELSE TextPage
Eip == IF cpu.high THEN KERNBASE + LoadedAt ELSE LoadedAt

(* entry.S:64 "we're still running at a low EIP (why is this okay?)".  In every
   mode the next instruction is fetched from where it was loaded, with A20 open when
   that is above 1MB, by a segment of the size it was assembled for. *)
FetchOK ==
  /\ Mapped(Eip) /\ Physical(Eip) = LoadedAt
  /\ LoadedAt # BootPage => kbc.a20
  /\ cpu.cs = IF pc \in Boot16 THEN "real" ELSE "flat32"
  /\ cpu.cs = "flat32" => cpu.pe

(* Every access to data goes through segments that are loaded for the mode, to a
   page that is mapped, and for a store writable although the write protection is
   on: the boot sector's GDT, 0x472, the two stacks. *)
Store(page, where) == Writable(page) /\ Physical(page) = where
DataOK ==
  /\ pc = "lgdt" => cpu.dataSegs = "zero" /\ ~cpu.pg
  /\ pc \in {"bootmain", "entry", "call"} => cpu.dataSegs = "flat" /\ ~cpu.IF_ /\ ~cpu.DF
  /\ pc = "bootmain" => Store(cpu.esp, BootPage)
  /\ pc = "entry" => Store(0, 0)
  /\ pc = "call" => Store(cpu.esp, DataPage)

(* entry.S:71-74.  The first C frame of the kernel saves a zero ebp, where
   mon_backtrace() stops; interrupts stay off. *)
KernelState ==
  pc = "i386_init" /\ cpu.ebp = 0 /\ cpu.high /\ cpu.pe /\ cpu.pg /\ cpu.wp /\ ~cpu.IF_ /\ ~cpu.DF

(* Fetches and accesses to data reach what they are meant for, in every mode on the
   way from the firmware to i386_init(). *)
ReachesMemory == FetchOK /\ DataOK
===============================================================================
