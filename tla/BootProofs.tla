------------------------------- MODULE BootProofs -----------------------------
(***************************************************************************)
(* Proofs about Boot, for every page layout, sector size, kernel and       *)
(* machine.  Every component has an inductive invariant of its own and     *)
(* shares no variable with another; the theorems put them together.        *)
(***************************************************************************)
EXTENDS Boot, SequenceTheorems, TLAPS

-----------------------------------------------------------------------------
(* The boot sector of the sources as they stand. *)
Block == Sign(Text("code", code))
Current == code <= BOOTSIZE /\ boot = Block

(* What make has written when it is at a line: a boot sector is signed unless the
   next line signs it, and the temporary image holds what the lines before put there. *)
ImageInv ==
  /\ code \in CodeSizes /\ kernel \in {None, OldKernel, NewKernel}
  /\ making = "sign" => boot = Text("code", code)
  /\ making # "sign" => boot \in {None, OldBoot} \/ Current
  /\ making \in {"zeros", "sector 0", "sector 1", "mv"} => Current
  /\ making \in Lines \ {"kernel"} => kernel = NewKernel
  /\ making = "sector 0" => img_tmp = <<Zeros, Zeros>>
  /\ making = "sector 1" => img_tmp = <<boot, Zeros>>
  /\ making = "mv" => img_tmp = <<boot, kernel>>
  /\ ImageWhole

(* What the last two dd write. *)
LEMMA SectorsWritten ==
  /\ img_tmp = <<Zeros, Zeros>> /\ img_tmp' = [img_tmp EXCEPT ![1] = boot] => img_tmp' = <<boot, Zeros>>
  /\ img_tmp = <<boot, Zeros>> /\ img_tmp' = [img_tmp EXCEPT ![2] = kernel] => img_tmp' = <<boot, kernel>>
  OBVIOUS

(* sign.pl makes a bootable sector of every block that is not too large. *)
LEMMA SignIsSigned ==
  ASSUME NEW word, NEW n \in Nat, n <= BOOTSIZE
  PROVE  Signed(Sign(Text(word, n)))
<1> DEFINE S == {word, "00", "55", "AA"}
<1> DEFINE t == Text(word, n)
<1> DEFINE fill == Text("00", BOOTSIZE - n)
<1> DEFINE mark == <<"55", "AA">>
<1>1. t \in Seq(S) /\ Len(t) = n
  BY DEF Text
<1>2. fill \in Seq(S) /\ Len(fill) = BOOTSIZE - n
  BY CodeAssumption DEF Text
<1>3. mark \in Seq(S) /\ Len(mark) = 2 /\ mark[1] = "55" /\ mark[2] = "AA"
  OBVIOUS
<1>4. Sign(t) = (t \o fill) \o mark
  BY <1>1 DEF Sign
<1> HIDE DEF t, fill, mark, S
<1>5. t \o fill \in Seq(S) /\ Len(t \o fill) = BOOTSIZE
  <2>1. t \o fill \in Seq(S) /\ Len(t \o fill) = Len(t) + Len(fill)
    BY <1>1, <1>2, ConcatProperties, Zenon
  <2> QED
    BY <1>1, <1>2, <2>1, CodeAssumption
<1> DEFINE sector == (t \o fill) \o mark
<1>6. /\ sector \in Seq(S) /\ Len(sector) = BOOTSIZE + 2
      /\ sector[BOOTSIZE + 1] = "55" /\ sector[BOOTSIZE + 2] = "AA"
  <2>1. /\ sector \in Seq(S) /\ Len(sector) = Len(t \o fill) + Len(mark)
        /\ \A i \in 1 .. Len(t \o fill) + Len(mark) : sector[i] =
             IF i <= Len(t \o fill) THEN (t \o fill)[i] ELSE mark[i - Len(t \o fill)]
    BY <1>3, <1>5, ConcatProperties, Zenon
  <2> HIDE DEF sector
  <2> QED
    BY <1>3, <1>5, <2>1, CodeAssumption
<1> HIDE DEF sector
<1>7. SubSeq(sector, BOOTSIZE + 1, BOOTSIZE + 2) = <<"55", "AA">>
  <2> DEFINE sub == SubSeq(sector, BOOTSIZE + 1, BOOTSIZE + 2)
  <2>1. \A i \in BOOTSIZE + 1 .. BOOTSIZE + 2 : sector[i] \in S
    BY <1>6, ElementOfSeq, CodeAssumption
  <2>2. /\ sub \in Seq(S) /\ Len(sub) = 2
        /\ \A i \in 1 .. 2 : sub[i] = sector[BOOTSIZE + i]
    BY <2>1, SubSeqProperties, CodeAssumption
  <2> HIDE DEF sub
  <2>3. sub[1] = "55" /\ sub[2] = "AA"
    BY <1>6, <2>2
  <2>4. mark \in Seq(S) /\ Len(sub) = Len(mark) /\ \A i \in 1..Len(sub) : sub[i] = mark[i]
    BY <1>3, <2>2, <2>3
  <2>5. sub = mark
    BY <2>2, <2>4, SeqEqual, Zenon
  <2> QED
    BY <2>5 DEF sub, mark
<1> QED
  BY <1>4, <1>6, <1>7 DEF Signed, sector, t

(* What the image loses or gains when the machine is switched on: nothing. *)
Switched == making = "made" /\ making' = "power" /\ UNCHANGED <<code, boot, kernel, img_tmp, img>>

LEMMA ImageStart == BuildInit => ImageInv
<1> SUFFICES ASSUME BuildInit PROVE ImageInv
  OBVIOUS
<1>1. Signed(OldBoot)
  <2>1. BOOTSIZE \in Nat /\ BOOTSIZE <= BOOTSIZE
    BY CodeAssumption
  <2> QED
    BY <2>1, SignIsSigned, Zenon DEF OldBoot
<1>2. img # NoImage => Signed(img[1]) /\ img[2] \in {OldKernel, NewKernel}
  BY <1>1 DEF BuildInit
<1> QED
  BY <1>2 DEF BuildInit, ImageInv, ImageWhole, Lines

LEMMA ImageStep ==
  ASSUME ImageInv, Build \/ Switched \/ UNCHANGED imageVars
  PROVE  ImageInv'
<1> USE DEF ImageInv, ImageWhole, Lines, Current
<1>1. CASE Make
  BY <1>1 DEF Make, Block
<1>2. CASE Ld
  BY <1>2 DEF Ld, Line, Block
<1>3. CASE Listings
  BY <1>3 DEF Listings, Line, Block
<1>4. CASE Objcopy
  BY <1>4 DEF Objcopy, Line, Block
<1>5. CASE SignBoot
  <2>1. boot = Text("code", code) /\ Len(boot) = code
    BY <1>5, CodeAssumption DEF SignBoot, Line, Text
  <2> QED
    BY <1>5, <2>1 DEF SignBoot, Line, Block
<1>6. CASE Dd
  <2> HIDE DEF ImageInv
  <2>1. CASE Line("zeros", "sector 0") /\ img_tmp' = <<Zeros, Zeros>>
    BY <1>6, <2>1 DEF ImageInv, Dd, Line, Block
  <2>2. CASE Line("sector 0", "sector 1") /\ img_tmp' = [img_tmp EXCEPT ![1] = boot]
    <3>1. img_tmp = <<Zeros, Zeros>>
      BY <2>2 DEF ImageInv, Line
    <3>2. img_tmp' = <<boot, Zeros>>
      BY <3>1, <2>2, SectorsWritten
    <3> QED
      BY <1>6, <2>2, <3>2 DEF ImageInv, Dd, Line, Block
  <2>3. CASE Line("sector 1", "mv") /\ img_tmp' = [img_tmp EXCEPT ![2] = kernel]
    <3>1. img_tmp = <<boot, Zeros>>
      BY <2>3 DEF ImageInv, Line
    <3>2. img_tmp' = <<boot, kernel>>
      BY <3>1, <2>3, SectorsWritten
    <3> QED
      BY <1>6, <2>3, <3>2 DEF ImageInv, Dd, Line, Block
  <2> QED
    BY <1>6, <2>1, <2>2, <2>3 DEF Dd
<1>7. CASE Mv
  <2>1. Signed(Block) /\ img' = <<Block, NewKernel>>
    BY <1>7, SignIsSigned, CodeAssumption DEF Mv, Line, Block
  <2> QED
    BY <1>7, <2>1 DEF Mv, Line, Block
<1>8. CASE Fail
  BY <1>8 DEF Fail, Kept, Block
<1>9. CASE Edit
  BY <1>9 DEF Edit, Block
<1>10. CASE Switched
  BY <1>10 DEF Switched, Block
<1>11. CASE UNCHANGED imageVars
  BY <1>11 DEF imageVars, Block
<1> QED
  BY <1>1, <1>2, <1>3, <1>4, <1>5, <1>6, <1>7, <1>8, <1>9, <1>10, <1>11 DEF Build

-----------------------------------------------------------------------------
(* A step of Boot is a step of every component, or leaves it alone. *)
LEMMA StepOfImage == [BootNext]_bootVars => Build \/ Switched \/ UNCHANGED imageVars
  BY DEF BootNext, PowerOn, Switched, Processor, Controller, Disk, Wire, bootVars

LEMMA StepOfConsole == [BootNext]_bootVars => ConsInit \/ Receive \/ UNCHANGED consVars
  BY DEF BootNext, PowerOn, Processor, CallBootmain, OtherSteps, InitKernel, Controller, Disk, Wire, bootVars

LEMMA StepOfCpu ==
  [BootNext]_bootVars =>
    Init' \/ Cpu \/ KbcTakes \/ UNCHANGED vars
  BY DEF Init, BootNext, PowerOn, Processor, CallBootmain, OtherSteps, InitKernel, Controller, Disk, Wire, bootVars

(* GNUmakefile:115.  For every size of boot block and of code: whatever stopped make
   before, kernel.img is whole, and after a make that succeeded it is made of the
   sources as they stand. *)
THEOREM ImageIsWhole == BootSpec => []ImageWhole
<1>1. BootInit => ImageInv
  BY ImageStart DEF BootInit
<1>2. ImageInv /\ [BootNext]_bootVars => ImageInv'
  BY StepOfImage, ImageStep
<1>3. ImageInv => ImageWhole
  BY DEF ImageInv
<1> QED
  BY <1>1, <1>2, <1>3, PTL DEF BootSpec

-----------------------------------------------------------------------------
(* Where an instruction starts with paging on, and at KERNBASE + x. *)
Paged == {"jmphigh", "relocated", "bootstack", "call", "i386_init"}
High == Paged \ {"jmphigh"}

(* Between and behind boot.S's writes to the controller: 0xd1 is taken before 0xdf is
   written, so that the gate is open once 0xdf is taken. *)
GateInv ==
  /\ pc = "seta20.2" => kbc.input = "0xd1" \/ (kbc.input = "empty" /\ kbc.command = "0xd1")
  /\ pc = "outdf" => kbc.input = "empty" /\ kbc.command = "0xd1"
  /\ pc \notin Boot16 \ {"lgdt", "setpe", "ljmp"} =>
       kbc.a20 \/ (kbc.input = "0xdf" /\ kbc.command = "0xd1")

(* What the registers hold at every instruction, as far as a later one relies on it. *)
CpuInv ==
  /\ TypeOK
  /\ cpu.cs = (IF pc \in Boot16 THEN "real" ELSE "flat32")
  /\ cpu.pe <=> pc \notin Boot16 \ {"ljmp"}
  /\ cpu.pg <=> pc \in Paged
  /\ cpu.high <=> pc \in High
  /\ pc \in Paged \union {"setpg"} => cpu.cr3 = DataPage
  /\ pc # "start" => ~cpu.IF_
  /\ pc \notin {"start", "cld"} => ~cpu.DF
  /\ pc \in Boot16 \ {"start", "cld", "dataseg0"} => cpu.dataSegs = "zero"
  /\ pc \notin Boot16 \union {"protcseg"} => cpu.dataSegs = "flat"
  /\ pc = "bootmain" => cpu.esp = BootPage
  /\ pc = "call" => cpu.esp = KERNBASE + DataPage
  /\ GateInv

(* The first pages of the kernel's half: directory and table index. *)
LEMMA PageFacts ==
  ASSUME NEW x \in 0..(NPTENTRIES - 1)
  PROVE  /\ x \div NPTENTRIES = 0 /\ x % NPTENTRIES = x
         /\ (KERNBASE + x) \div NPTENTRIES = KERNBASE \div NPTENTRIES
         /\ (KERNBASE + x) % NPTENTRIES = x
         /\ KERNBASE \div NPTENTRIES # 0
<1> DEFINE n == NPTENTRIES
<1> DEFINE k == KERNBASE \div n
<1> DEFINE q == (KERNBASE + x) \div n
<1> DEFINE r == (KERNBASE + x) % n
<1>1. n \in Nat /\ n > 0 /\ KERNBASE \in Nat /\ KERNBASE >= n /\ x \in Nat /\ x < n
  BY LayoutAssumption
<1>2. x \div n = 0 /\ x % n = x
  BY <1>1
<1>3. k \in Nat /\ KERNBASE = n * k
  BY <1>1, LayoutAssumption
<1>4. q \in Int /\ r \in 0..(n - 1) /\ KERNBASE + x = n * q + r
  BY <1>1
<1> HIDE DEF k, q, r, n
<1>5. n * (q - k) = x - r
  BY <1>1, <1>3, <1>4
<1>6. ~ (q - k >= 1)
  BY <1>1, <1>3, <1>4, <1>5
<1>7. ~ (q - k <= -1)
  BY <1>1, <1>3, <1>4, <1>5
<1>8. q = k
  BY <1>3, <1>4, <1>6, <1>7
<1>9. r = x
  BY <1>1, <1>3, <1>4, <1>8
<1>10. k # 0
  BY <1>1, <1>3
<1> QED
  BY <1>2, <1>8, <1>9, <1>10 DEF k, q, r, n

LEMMA CpuStart == Init => CpuInv
<1> SUFFICES ASSUME Init PROVE CpuInv
  OBVIOUS
<1>1. /\ cpu \in Registers
      /\ cpu.high = FALSE /\ cpu.cs = "real" /\ cpu.pe = FALSE /\ cpu.pg = FALSE
  <2>1. cpu \in FirmwareCpus
    BY DEF Init
  <2>2. /\ cpu.high = FALSE /\ cpu.cs = "real" /\ cpu.dataSegs \in {"firmware", "zero"}
        /\ cpu.IF_ \in BOOLEAN /\ cpu.DF \in BOOLEAN
        /\ cpu.pe = FALSE /\ cpu.pg = FALSE /\ cpu.wp = FALSE
    BY <2>1 DEF FirmwareCpus
  <2>3. cpu.cr3 \in Int /\ cpu.esp \in Int /\ cpu.ebp \in Int
    BY <2>1 DEF FirmwareCpus
  <2>4. cpu = [high |-> cpu.high, cs |-> cpu.cs, dataSegs |-> cpu.dataSegs, IF_ |-> cpu.IF_, DF |-> cpu.DF,
               pe |-> cpu.pe, pg |-> cpu.pg, wp |-> cpu.wp,
               cr3 |-> cpu.cr3, esp |-> cpu.esp, ebp |-> cpu.ebp]
    BY <2>1 DEF FirmwareCpus
  <2> QED
    BY <2>2, <2>3, <2>4 DEF Registers
<1> QED
  BY <1>1 DEF Init, FirmwareKbcs, CpuInv, GateInv, TypeOK, Paged, High, Boot16, Boot32, Entry32

LEMMA CpuStep ==
  ASSUME CpuInv, Cpu \/ KbcTakes \/ UNCHANGED vars
  PROVE  CpuInv'
<1> USE DEF CpuInv, GateInv, TypeOK, Registers, Paged, High, Boot16, Boot32, Entry32
<1>0. KERNBASE \in Int /\ DataPage \in Int /\ BootPage \in Int /\ KERNBASE + DataPage - KERNBASE = DataPage
  BY LayoutAssumption
<1>1. CASE Cli
  BY <1>0, <1>1 DEF Cli, Instr
<1>2. CASE Cld
  BY <1>0, <1>2 DEF Cld, Instr
<1>3. CASE ZeroSegs
  BY <1>0, <1>3 DEF ZeroSegs, Instr
<1>4. CASE Seta20
  BY <1>0, <1>4 DEF Seta20, Instr, InputEmpty
<1>5. CASE OutKbc
  BY <1>0, <1>5 DEF OutKbc
<1>6. CASE Lgdt
  BY <1>0, <1>6 DEF Lgdt, Instr
<1>7. CASE SetPE
  BY <1>0, <1>7 DEF SetPE, Instr
<1>8. CASE Ljmp
  BY <1>0, <1>8 DEF Ljmp, Instr
<1>9. CASE FlatSegs
  BY <1>0, <1>9 DEF FlatSegs, Instr
<1>10. CASE SetEsp
  BY <1>0, <1>10 DEF SetEsp, Instr
<1>11. CASE Bootmain
  BY <1>0, <1>11 DEF Bootmain, Instr
<1>12. CASE WarmBoot
  BY <1>0, <1>12 DEF WarmBoot, Instr
<1>13. CASE LoadCr3
  BY <1>0, <1>13 DEF LoadCr3, Instr, RELOC
<1>14. CASE SetPG
  BY <1>0, <1>14 DEF SetPG, Instr
<1>15. CASE JmpHigh
  BY <1>0, <1>15 DEF JmpHigh, Instr
<1>16. CASE ClearEbp
  BY <1>0, <1>16 DEF ClearEbp, Instr
<1>17. CASE SetStack
  BY <1>0, <1>17 DEF SetStack, Instr
<1>18. CASE CallInit
  BY <1>0, <1>18 DEF CallInit, Instr
<1>19. CASE KbcTakes
  <2>1. /\ pc' = pc /\ cpu' = cpu /\ kbc.input # "empty" /\ kbc'.input = "empty" /\ kbc'.command = kbc.input
        /\ kbc'.a20 = (kbc.a20 \/ (kbc.command = "0xd1" /\ kbc.input = "0xdf"))
    BY <1>19 DEF KbcTakes
  <2>2. GateInv'
    BY <2>1
  <2>3. TypeOK'
    BY <1>19, <2>1 DEF KbcTakes
  <2> QED
    BY <2>1, <2>2, <2>3
<1>20. CASE UNCHANGED vars
  BY <1>20 DEF vars
<1> QED
  BY <1>1, <1>2, <1>3, <1>4, <1>5, <1>6, <1>7, <1>8, <1>9, <1>10, <1>11, <1>12, <1>13, <1>14, <1>15, <1>16, <1>17, <1>18, <1>19, <1>20 DEF Cpu

(* At every instruction the processor fetches it from where it was loaded. *)
LEMMA CpuFetches == CpuInv /\ (pc \in Entry32 \union {"i386_init"} => kbc.a20) => FetchOK
<1> SUFFICES ASSUME CpuInv, pc \in Entry32 \union {"i386_init"} => kbc.a20 PROVE FetchOK
  OBVIOUS
<1>0. LoadedAt # BootPage => kbc.a20
  BY DEF LoadedAt, CpuInv, TypeOK
<1> USE DEF CpuInv, TypeOK, Paged, High, Boot16, Boot32, Entry32
<1>1. BootPage \in 0..(NPTENTRIES - 1) /\ TextPage \in 0..(NPTENTRIES - 1)
  BY LayoutAssumption
<1>2. CASE ~cpu.pg
  <2>1. ~cpu.high
    BY <1>2
  <2> QED
    BY <1>0, <1>2, <2>1 DEF FetchOK, Mapped, Physical, Eip
<1>3. CASE cpu.pg
  <2>1. pc \in Paged /\ LoadedAt = TextPage /\ cpu.cr3 = DataPage
    BY <1>3 DEF LoadedAt
  <2>2. Eip = TextPage \/ Eip = KERNBASE + TextPage
    BY <2>1 DEF Eip
  <2>3. Directory(Eip) \in {0, KERNBASE \div NPTENTRIES} /\ Eip % NPTENTRIES = TextPage
    BY <1>1, <2>2, PageFacts DEF Directory
  <2>4. Mapped(Eip)
    BY <1>1, <1>3, <2>1, <2>3 DEF Mapped, entry_pgdir, entry_pgtable
  <2>5. Physical(Eip) = TextPage
    BY <1>1, <1>3, <2>3 DEF Physical, entry_pgtable
  <2> QED
    BY <1>0, <1>3, <2>1, <2>4, <2>5 DEF FetchOK
<1> QED
  BY <1>2, <1>3

(* Every access to data goes where it is meant to go. *)
LEMMA CpuStores == CpuInv => DataOK
<1> SUFFICES ASSUME CpuInv PROVE DataOK
  OBVIOUS
<1> USE DEF CpuInv, TypeOK, Paged, High, Boot16, Boot32, Entry32
<1>1. CASE pc = "call"
  <2>1. DataPage \in 0..(NPTENTRIES - 1)
    BY LayoutAssumption
  <2>2. cpu.esp = KERNBASE + DataPage /\ cpu.pg /\ cpu.cr3 = DataPage
    BY <1>1
  <2>3. /\ Directory(cpu.esp) = KERNBASE \div NPTENTRIES /\ KERNBASE \div NPTENTRIES # 0
        /\ cpu.esp % NPTENTRIES = DataPage
    BY <2>1, <2>2, PageFacts DEF Directory
  <2>4. Writable(cpu.esp) /\ Physical(cpu.esp) = DataPage
    BY <2>1, <2>2, <2>3 DEF Writable, Mapped, Physical, entry_pgdir, entry_pgtable
  <2> QED
    BY <1>1, <2>4 DEF DataOK, Store
<1>2. CASE pc # "call"
  BY <1>2 DEF DataOK, Store, Writable, Mapped, Physical
<1> QED
  BY <1>1, <1>2

LEMMA CpuInvariant == BootSpec => []CpuInv
<1>1. BootInit => CpuInv
  <2> DEFINE c == [high |-> FALSE, cs |-> "real", dataSegs |-> "zero", IF_ |-> TRUE, DF |-> TRUE,
                   pe |-> FALSE, pg |-> FALSE, wp |-> FALSE, cr3 |-> -1, esp |-> -1, ebp |-> -1]
  <2>1. c \in FirmwareCpus
    BY DEF FirmwareCpus
  <2>2. [input |-> "empty", command |-> "none", a20 |-> TRUE] \in FirmwareKbcs
    BY DEF FirmwareKbcs
  <2>3. BootInit => Init
    BY <2>1, <2>2 DEF BootInit, Init
  <2> QED
    BY <2>3, CpuStart
<1>2. CpuInv /\ [BootNext]_bootVars => CpuInv'
  <2> SUFFICES ASSUME CpuInv, [BootNext]_bootVars PROVE CpuInv'
    OBVIOUS
  <2>1. Init' => CpuInv'
    BY CpuStart, PTL
  <2>2. CASE Cpu \/ KbcTakes \/ UNCHANGED vars
    BY <2>2, CpuStep
  <2> QED
    BY <2>1, <2>2, StepOfCpu
<1> QED
  BY <1>1, <1>2, PTL DEF BootSpec

-----------------------------------------------------------------------------
(* What cga_init() has found and left at each of its steps. *)
Cards == machine.cards
DisplayInv ==
  /\ consAt = "probe" => text = [card \in Cards |-> "firmware"]
  /\ consAt = "detect" =>
       /\ was = IF "color" \in Cards THEN "firmware" ELSE "junk"
       /\ text = [card \in Cards |-> IF card = "color" THEN MARK ELSE "firmware"]
  /\ consAt \notin {"off", "probe", "detect"} =>
       text = [card \in Cards |-> "firmware"] /\ crt_buf \in Cards
  /\ consAt \notin {"off", "probe", "detect", "cursor"} => crt_pos = machine.cursor[crt_buf]

(* What the first n outb()s of serial_init() have set up. *)
SetUp(n) ==
  /\ uart \in Uarts /\ uart["TX"] = -1 /\ rx \in 0..Depth(uart["FCR"])
  /\ n >= 1 => uart["FCR"] = 0
  /\ n \in 2..4 => uart["LCR"] = COM_LCR_DLAB
  /\ n >= 3 => uart["DLL"] = 12
  /\ n >= 4 => uart["DLM"] = 0
  /\ n >= 5 => uart["LCR"] = COM_LCR_WLEN8
  /\ n >= 6 => uart["MCR"] = 0
  /\ n >= 7 => uart["IER"] = COM_IER_RDI

SerialInv ==
  /\ outbs \in 0..7
  /\ consAt \in {"off", "probe", "detect", "cursor"} => outbs = 0
  /\ consAt = "serial" => outbs < 7
  /\ consAt \in {"status", "drain", "ready"} => outbs = 7
  /\ consAt \in {"drain", "ready"} => serial_exists = machine.serial
  /\ consAt # "off" /\ machine.serial => SetUp(outbs) /\ (consAt = "ready" => rx = 0)

ConsoleInv ==
  /\ consAt \in {"off", "probe", "detect", "cursor", "serial", "status", "drain", "ready"}
  /\ consAt # "off" => machine \in Machines
  /\ DisplayInv /\ SerialInv

(* The outb()s of serial_init(), one by one. *)
LEMMA SerialWritesOneByOne ==
  /\ Len(SerialWrites) = 7
  /\ SerialWrites[1] = <<2, 0>> /\ SerialWrites[2] = <<3, COM_LCR_DLAB>>
  /\ SerialWrites[3] = <<0, 12>> /\ SerialWrites[4] = <<1, 0>>
  /\ SerialWrites[5] = <<3, COM_LCR_WLEN8>> /\ SerialWrites[6] = <<4, 0>>
  /\ SerialWrites[7] = <<1, COM_IER_RDI>>
  BY DEF SerialWrites, SetSpeed, COM_LCR_DLAB, COM_LCR_WLEN8, COM_IER_RDI

LEMMA ConsoleStart == ConsStart => ConsoleInv
  BY DEF ConsStart, ConsoleInv, DisplayInv, SerialInv

(* One outb() of serial_init() on a port that is there. *)
LEMMA SerialOutSetsUp ==
  ASSUME NEW n \in 0..6, SetUp(n), machine.serial,
         outb(SerialWrites[n + 1][1], SerialWrites[n + 1][2])
  PROVE  SetUp(n + 1)'
<1> USE DEF COM_LCR_DLAB, COM_LCR_WLEN8, COM_IER_RDI
<1> DEFINE Regs == {"DLL", "DLM", "IER", "FCR", "LCR", "MCR"}
<1> DEFINE Writes(r, b) == /\ uart' = [uart EXCEPT ![r] = b]
                           /\ rx' = IF r = "FCR" /\ b # uart["FCR"] THEN 0 ELSE rx
<1> DEFINE Written(r, b) == /\ uart' \in Uarts /\ uart'["TX"] = -1 /\ rx' \in 0..Depth(uart'["FCR"])
                            /\ uart'[r] = b /\ \A other \in Regs \ {r} : uart'[other] = uart[other]
<1>1. ASSUME NEW r \in Regs, NEW b \in 0..255, r = "FCR" => b = 0, Writes(r, b)
      PROVE  Written(r, b)
  BY <1>1 DEF SetUp, Uarts, Depth, FIFO
<1> HIDE DEF Writes, Written
<1>2. CASE n = 0
  <2>1. outb(2, 0)
    BY <1>2, SerialWritesOneByOne
  <2>2. Register(2) = "FCR"
    BY <1>2 DEF Register, SetUp
  <2>3. Writes("FCR", 0)
    BY <2>1, <2>2 DEF outb, Writes
  <2>4. Written("FCR", 0)
    BY <1>1, <2>3
  <2> QED
    BY <1>2, <2>4 DEF SetUp, Written
<1>3. CASE n = 1
  <2>1. outb(3, 128)
    BY <1>3, SerialWritesOneByOne
  <2>2. Register(3) = "LCR"
    BY <1>3 DEF Register, SetUp
  <2>3. Writes("LCR", 128)
    <3>1. uart' = [uart EXCEPT !["LCR"] = 128]
      BY <2>1, <2>2 DEF outb
    <3>2. rx' = rx
      BY <2>1 DEF outb
    <3> QED
      BY <3>1, <3>2 DEF Writes
  <2>4. Written("LCR", 128)
    BY <1>1, <2>3
  <2> QED
    BY <1>3, <2>4 DEF SetUp, Written
<1>4. CASE n = 2
  <2>1. outb(0, 12)
    BY <1>4, SerialWritesOneByOne
  <2>2. Register(0) = "DLL"
    BY <1>4 DEF Register, SetUp
  <2>3. Writes("DLL", 12)
    <3>1. uart' = [uart EXCEPT !["DLL"] = 12]
      BY <2>1, <2>2 DEF outb
    <3>2. rx' = rx
      BY <2>1 DEF outb
    <3> QED
      BY <3>1, <3>2 DEF Writes
  <2>4. Written("DLL", 12)
    BY <1>1, <2>3
  <2> QED
    BY <1>4, <2>4 DEF SetUp, Written
<1>5. CASE n = 3
  <2>1. outb(1, 0)
    BY <1>5, SerialWritesOneByOne
  <2>2. Register(1) = "DLM"
    BY <1>5 DEF Register, SetUp
  <2>3. Writes("DLM", 0)
    <3>1. uart' = [uart EXCEPT !["DLM"] = 0]
      BY <2>1, <2>2 DEF outb
    <3>2. rx' = rx
      BY <2>1 DEF outb
    <3> QED
      BY <3>1, <3>2 DEF Writes
  <2>4. Written("DLM", 0)
    BY <1>1, <2>3
  <2> QED
    BY <1>5, <2>4 DEF SetUp, Written
<1>6. CASE n = 4
  <2>1. outb(3, 3)
    BY <1>6, SerialWritesOneByOne
  <2>2. Register(3) = "LCR"
    BY <1>6 DEF Register, SetUp
  <2>3. Writes("LCR", 3)
    <3>1. uart' = [uart EXCEPT !["LCR"] = 3]
      BY <2>1, <2>2 DEF outb
    <3>2. rx' = rx
      BY <2>1 DEF outb
    <3> QED
      BY <3>1, <3>2 DEF Writes
  <2>4. Written("LCR", 3)
    BY <1>1, <2>3
  <2> QED
    BY <1>6, <2>4 DEF SetUp, Written
<1>7. CASE n = 5
  <2>1. outb(4, 0)
    BY <1>7, SerialWritesOneByOne
  <2>2. Register(4) = "MCR"
    BY <1>7 DEF Register, SetUp
  <2>3. Writes("MCR", 0)
    <3>1. uart' = [uart EXCEPT !["MCR"] = 0]
      BY <2>1, <2>2 DEF outb
    <3>2. rx' = rx
      BY <2>1 DEF outb
    <3> QED
      BY <3>1, <3>2 DEF Writes
  <2>4. Written("MCR", 0)
    BY <1>1, <2>3
  <2> QED
    BY <1>7, <2>4 DEF SetUp, Written
<1>8. CASE n = 6
  <2>1. outb(1, 1)
    BY <1>8, SerialWritesOneByOne
  <2>2. Register(1) = "IER"
    BY <1>8 DEF Register, SetUp
  <2>3. Writes("IER", 1)
    <3>1. uart' = [uart EXCEPT !["IER"] = 1]
      BY <2>1, <2>2 DEF outb
    <3>2. rx' = rx
      BY <2>1 DEF outb
    <3> QED
      BY <3>1, <3>2 DEF Writes
  <2>4. Written("IER", 1)
    BY <1>1, <2>3
  <2> QED
    BY <1>8, <2>4 DEF SetUp, Written
<1> QED
  BY <1>2, <1>3, <1>4, <1>5, <1>6, <1>7, <1>8

LEMMA MachineFacts ==
  ASSUME NEW m \in Machines
  PROVE  /\ m.cards # {} /\ m.cards \subseteq {"color", "mono"}
         /\ \A card \in m.cards : m.cursor[card] \in Nat
         /\ m.uart \in Uarts /\ m.uart["TX"] = -1 /\ m.rx \in 0..Depth(m.uart["FCR"])
<1>1. m.cards # {} /\ m.cards \subseteq {"color", "mono"}
  BY MachineAssumption
<1>2. \A card \in m.cards : m.cursor[card] \in Offsets
  BY MachineAssumption
<1>3. Offsets \subseteq Nat
  BY SMT DEF Offsets
<1>4. m.uart \in Uarts
  BY MachineAssumption
<1>5. m.uart["TX"] = -1
  BY MachineAssumption
<1>6. m.rx \in 0..Depth(m.uart["FCR"])
  BY MachineAssumption
<1> QED
  BY <1>1, <1>2, <1>3, <1>4, <1>5, <1>6

(* cga_init() leaves the display alone and finds its cursor. *)
LEMMA DisplayStep ==
  ASSUME ConsoleInv, CgaProbe \/ CgaDetect \/ CgaCursor, UNCHANGED <<machine, serial>>
  PROVE  ConsoleInv'
<1>1. machine \in Machines /\ DisplayInv /\ SerialInv
  BY DEF ConsoleInv, CgaProbe, CgaDetect, CgaCursor
<1>2. SerialInv' /\ machine' = machine
  BY <1>1 DEF SerialInv, SetUp, CgaProbe, CgaDetect, CgaCursor, serial
<1>3. CASE CgaProbe
  <2>1. text = [card \in Cards |-> "firmware"]
    BY <1>1, <1>3 DEF CgaProbe, DisplayInv
  <2>2. was' = IF "color" \in Cards THEN "firmware" ELSE "junk"
    BY <1>3, <2>1 DEF CgaProbe, Peek
  <2>3. text' = [card \in Cards |-> IF card = "color" THEN MARK ELSE "firmware"]
    BY <1>3, <2>1 DEF CgaProbe, Poke
  <2> QED
    BY <1>1, <1>2, <1>3, <2>2, <2>3 DEF CgaProbe, ConsoleInv, DisplayInv, Cards
<1>4. CASE CgaDetect
  <2>1. /\ was = IF "color" \in Cards THEN "firmware" ELSE "junk"
        /\ text = [card \in Cards |-> IF card = "color" THEN MARK ELSE "firmware"]
    BY <1>1, <1>4 DEF CgaDetect, DisplayInv
  <2>2. Peek("color") = MARK <=> "color" \in Cards
    BY <2>1 DEF Peek, MARK
  <2>3. text' = [card \in Cards |-> "firmware"]
    <3>1. CASE "color" \in Cards
      BY <1>4, <2>1, <2>2, <3>1 DEF CgaDetect, Poke
    <3>2. CASE "color" \notin Cards
      BY <1>4, <2>1, <2>2, <3>2 DEF CgaDetect
    <3> QED
      BY <3>1, <3>2
  <2>4. crt_buf' \in Cards
    BY <1>1, <1>4, <2>2, MachineFacts DEF CgaDetect, Cards
  <2> QED
    BY <1>1, <1>2, <1>4, <2>3, <2>4 DEF CgaDetect, ConsoleInv, DisplayInv, Cards
<1>5. CASE CgaCursor
  <2>1. text = [card \in Cards |-> "firmware"] /\ crt_buf \in Cards
    BY <1>1, <1>5 DEF CgaCursor, DisplayInv
  <2>2. machine.cursor[crt_buf] \in Nat
    BY <1>1, <2>1, MachineFacts DEF Cards
  <2>3. crt_pos' = machine.cursor[crt_buf]
    <3> DEFINE p == machine.cursor[crt_buf]
    <3>1. crt_pos' = (p \div 256) * 256 + (p % 256)
      BY <1>5 DEF CgaCursor, Crtc
    <3> HIDE DEF p
    <3>2. p \in Nat
      BY <2>2 DEF p
    <3>3. crt_pos' = p
      BY <3>1, <3>2
    <3> QED
      BY <3>3 DEF p
  <2> QED
    BY <1>1, <1>2, <1>5, <2>1, <2>3 DEF CgaCursor, ConsoleInv, DisplayInv, Cards
<1> QED
  BY <1>3, <1>4, <1>5

(* serial_init() writes its registers in an order in which each write reaches the
   register it is meant for. *)
LEMMA SerialStep ==
  ASSUME ConsoleInv, SerialOut \/ SerialStatus \/ SerialDrain, UNCHANGED <<machine, display>>
  PROVE  ConsoleInv'
<1>0. machine \in Machines /\ DisplayInv /\ SerialInv
  BY DEF ConsoleInv, SerialOut, SerialStatus, SerialDrain
<1>1. DisplayInv' /\ machine' \in Machines
  BY <1>0 DEF DisplayInv, Cards, SerialOut, SerialStatus, SerialDrain, display
<1>2. CASE SerialOut
  <2>1. outbs \in 0..6 /\ outbs' = outbs + 1 /\ outb(SerialWrites[outbs + 1][1], SerialWrites[outbs + 1][2])
    BY <1>0, <1>2 DEF SerialOut, SerialInv
  <2>2. consAt' = IF outbs' = 7 THEN "status" ELSE "serial"
    BY <1>2, SerialWritesOneByOne DEF SerialOut
  <2>3. machine.serial => SetUp(outbs)
    BY <1>0, <1>2 DEF SerialOut, SerialInv
  <2>4. machine.serial => SetUp(outbs)'
    <3>1. ASSUME NEW n \in 0..6, outbs = n, machine.serial PROVE SetUp(outbs)'
      <4>1. SetUp(n) /\ outb(SerialWrites[n + 1][1], SerialWrites[n + 1][2])
        BY <2>1, <2>3, <3>1
      <4>2. SetUp(n + 1)' /\ outbs' = n + 1
        BY <2>1, <3>1, <4>1, SerialOutSetsUp
      <4> QED
        BY <4>2 DEF SetUp
    <3> QED
      BY <2>1, <3>1
  <2>5. SerialInv'
    BY <1>2, <2>1, <2>2, <2>4 DEF SerialOut, SerialInv
  <2> QED
    BY <1>1, <1>2, <2>5 DEF SerialOut, ConsoleInv
<1>3. CASE SerialStatus
  <2>1. SerialInv'
    BY <1>0, <1>3 DEF SerialStatus, SerialInv, SetUp
  <2> QED
    BY <1>1, <1>3, <2>1 DEF SerialStatus, ConsoleInv
<1>4. CASE SerialDrain
  <2>1. machine.serial => SetUp(7)
    BY <1>0, <1>4 DEF SerialDrain, SerialInv
  <2>2. machine.serial => rx \in 0..1
    BY <2>1 DEF SetUp, Depth
  <2>3. machine.serial => SetUp(7)' /\ rx' = 0
    BY <1>4, <2>1, <2>2 DEF SerialDrain, SetUp, Depth
  <2>4. SerialInv'
    BY <1>0, <1>4, <2>3 DEF SerialDrain, SerialInv
  <2> QED
    BY <1>1, <1>4, <2>4 DEF SerialDrain, ConsoleInv
<1> QED
  BY <1>2, <1>3, <1>4

LEMMA ConsoleStep ==
  ASSUME ConsoleInv, ConsInit \/ Receive \/ UNCHANGED consVars
  PROVE  ConsoleInv'
<1>1. CASE CgaInit
  <2>1. machine' \in Machines /\ uart' = machine'.uart /\ rx' = machine'.rx /\ outbs' = 0
    BY <1>1 DEF ConsoleInv, CgaInit, SerialInv
  <2>2. uart' \in Uarts /\ uart'["TX"] = -1 /\ rx' \in 0..Depth(uart'["FCR"])
    BY <2>1, MachineFacts
  <2>3. SetUp(outbs)'
    BY <2>1, <2>2 DEF SetUp
  <2>4. SerialInv'
    BY <1>1, <2>1, <2>3 DEF CgaInit, SerialInv
  <2> QED
    BY <1>1, <2>1, <2>4 DEF CgaInit, DisplayInv, ConsoleInv, Cards
<1>2. CASE Receive
  <2>1. machine \in Machines /\ DisplayInv /\ SerialInv /\ SetUp(outbs)
    BY <1>2 DEF Receive, ConsoleInv, SerialInv
  <2>2. rx' \in 0..Depth(uart["FCR"])
    BY <1>2, <2>1 DEF Receive, SetUp, Depth, FIFO
  <2>3. SetUp(outbs)'
    BY <1>2, <2>1, <2>2 DEF Receive, SetUp
  <2>4. SerialInv'
    BY <1>2, <2>1, <2>3 DEF Receive, SerialInv
  <2>5. DisplayInv'
    BY <1>2, <2>1 DEF Receive, DisplayInv, display, Cards
  <2> QED
    BY <1>2, <2>1, <2>4, <2>5 DEF Receive, ConsoleInv
<1>3. CASE UNCHANGED consVars
  BY <1>3 DEF consVars, display, serial, ConsoleInv, DisplayInv, SerialInv, SetUp, Cards
<1> QED
  BY <1>1, <1>2, <1>3, DisplayStep, SerialStep DEF ConsInit

LEMMA ConsoleDone == ConsoleInv => ConsoleReady
<1> SUFFICES ASSUME ConsoleInv, consAt = "ready" PROVE ConsoleReady
  BY DEF ConsoleReady
<1>1. crt_buf \in machine.cards /\ crt_pos = machine.cursor[crt_buf]
  BY DEF ConsoleInv, DisplayInv, Cards
<1>2. \A card \in machine.cards : text[card] = "firmware"
  BY DEF ConsoleInv, DisplayInv, Cards
<1>3. serial_exists = machine.serial
  BY DEF ConsoleInv, SerialInv
<1>4. ASSUME serial_exists
      PROVE  /\ uart = [DLL |-> 12, DLM |-> 0, IER |-> 1, FCR |-> 0, LCR |-> 3, MCR |-> 0, TX |-> -1]
             /\ rx = 0
  <2>1. SetUp(7) /\ rx = 0
    BY <1>3, <1>4 DEF ConsoleInv, SerialInv
  <2>2. uart \in [{"DLL", "DLM", "IER", "FCR", "LCR", "MCR", "TX"} -> -1..255]
    BY <2>1 DEF SetUp, Uarts
  <2> QED
    BY <2>1, <2>2 DEF SetUp, COM_LCR_WLEN8, COM_IER_RDI
<1> QED
  BY <1>1, <1>2, <1>3, <1>4 DEF ConsoleReady

(* console.c:455.  For every machine, whatever arrives on the line meanwhile: when
   cons_init() returns, the display in use is there, unharmed and at its cursor, and a
   serial port is used if and only if it is there, set up and without an old byte. *)
THEOREM ConsoleIsReady == BootSpec => []ConsoleReady
<1>1. BootInit => ConsoleInv
  BY ConsoleStart DEF BootInit
<1>2. ConsoleInv /\ [BootNext]_bootVars => ConsoleInv'
  BY StepOfConsole, ConsoleStep
<1> QED
  BY <1>1, <1>2, ConsoleDone, PTL DEF BootSpec

-----------------------------------------------------------------------------
(* The boot loader, for every size of sector, every kernel a linker may make and every
   delay of the disk. *)

(* What is being read: the header, or a segment. *)
Part(k) == IF k = 0 THEN [pa |-> ELFHDR, off |-> 0, filesz |-> 0, memsz |-> HdrSectors * SECTSIZE]
           ELSE Segs[k]

Polling == {"waitidle", "command", "waitdata", "insl"}
Reading == Polling \union {"readseg", "nextph"}

Contents == {Padding, Zero, Junk} \union 0..(image.length - 1)

(* readseg() is at a sector of what it reads, the sector of the file that belongs
   there, and it has not gone past the end before it leaves the loop. *)
ReadInv ==
  at \in Reading =>
    /\ ph < Len(Segs)
    /\ pa \in Nat /\ pa % SECTSIZE = 0 /\ offset \in Nat \ {0}
    /\ RoundDown(Part(ph + 1).pa) <= pa
    /\ end_pa = Part(ph + 1).pa + Part(ph + 1).memsz
    /\ (offset - 1) * SECTSIZE - pa = Part(ph + 1).off - Part(ph + 1).pa
    /\ at \in Polling => pa < end_pa
    /\ at = "nextph" => end_pa <= pa

DiskInv ==
  /\ status \in {"busy", "ready"}
  /\ at \in {"waitdata", "insl"} => requested = offset
  /\ at \in {"command", "insl"} => status = "ready"

(* All segments before the one being read are in memory, but for what is lost, and of
   that one all that is below pa. *)
CopyInv ==
  at \notin {"running", "lost"} =>
    \A i \in 1..Len(Segs) : \A a \in Segs[i].pa..(Segs[i].pa + Segs[i].filesz - 1) :
      (i <= ph \/ (i = ph + 1 /\ a < pa)) /\ ~Lost(i, a) =>
        mem[a] = a + (Segs[i].off - Segs[i].pa)

(* Nothing outside the sectors of the header and of the segments is written. *)
TouchInv ==
  \A a \in Memory :
    mem[a] # Junk => \/ InSectors(a, ELFHDR, HdrSectors * SECTSIZE)
                     \/ \E i \in 1..Len(Segs) : InSectors(a, Segs[i].pa, Segs[i].memsz)

LoaderInv ==
  /\ image \in Images /\ ph \in -1..Len(Segs)
  /\ at \in Reading \union {"entry", "running", "bad", "lost"}
  /\ at \in {"entry", "running"} => ph = Len(Segs)
  /\ at = "bad" => ph = -1
  /\ mem \in [Memory -> Contents]
  /\ ReadInv /\ DiskInv /\ CopyInv /\ TouchInv
  /\ at = "running" => Loaded

-----------------------------------------------------------------------------
(* Sectors. *)
LEMMA SectorSize ==
  /\ SECTSIZE \in Nat /\ SECTSIZE > 0 /\ HdrSectors \in Nat
  /\ ELFHDR \in Nat /\ ELFHDR % SECTSIZE = 0
  BY SectorAssumption

LEMMA RoundDownFacts ==
  ASSUME NEW p \in Nat
  PROVE  /\ RoundDown(p) \in Nat /\ RoundDown(p) % SECTSIZE = 0
         /\ RoundDown(p) <= p /\ p < RoundDown(p) + SECTSIZE
         /\ (p \div SECTSIZE) \in Nat /\ (p \div SECTSIZE) * SECTSIZE = RoundDown(p)
<1> DEFINE n == SECTSIZE
<1> DEFINE q == p \div n
<1> DEFINE r == p % n
<1>1. n \in Nat /\ n > 0
  BY SectorAssumption
<1>2. q \in Int /\ r \in 0..(n - 1) /\ p = n * q + r
  BY <1>1
<1>3. RoundDown(p) = p - r
  BY DEF RoundDown
<1> HIDE DEF q, r, n
<1>4. RoundDown(p) = n * q
  BY <1>1, <1>2, <1>3
<1>5. q \in Nat
  <2>1. ~(q <= -1)
    BY <1>1, <1>2
  <2> QED
    BY <1>2, <2>1
<1>6. n * q \in Nat /\ (n * q) % n = 0
  BY <1>1, <1>5
<1>7. q * n = n * q
  BY <1>1, <1>5
<1> QED
  BY <1>1, <1>2, <1>3, <1>4, <1>5, <1>6, <1>7 DEF q, n

(* Two bounds of sectors are not less than a sector apart. *)
LEMMA SectorsApart ==
  ASSUME NEW x \in Nat, NEW y \in Nat, x % SECTSIZE = 0, y % SECTSIZE = 0, x < y
  PROVE  x + SECTSIZE <= y
<1> DEFINE n == SECTSIZE
<1>1. n \in Nat /\ n > 0
  BY SectorAssumption
<1>2. PICK i \in Int : x = n * i
  BY <1>1
<1>3. PICK j \in Int : y = n * j
  BY <1>1
<1> HIDE DEF n
<1>4. j >= i + 1
  BY <1>1, <1>2, <1>3
<1>5. n * (j - i) >= n
  BY <1>1, <1>2, <1>3, <1>4
<1> QED
  BY <1>1, <1>2, <1>3, <1>5 DEF n

LEMMA SectorOf ==
  ASSUME NEW p \in Nat, p % SECTSIZE = 0, NEW a \in p..(p + SECTSIZE - 1)
  PROVE  RoundDown(a) = p
<1>1. SECTSIZE \in Nat /\ SECTSIZE > 0 /\ a \in Nat
  BY SectorAssumption
<1>2. RoundDown(a) \in Nat /\ RoundDown(a) % SECTSIZE = 0 /\ RoundDown(a) <= a /\ a < RoundDown(a) + SECTSIZE
  BY <1>1, RoundDownFacts
<1>3. ~(RoundDown(a) < p)
  <2>1. RoundDown(a) < p => RoundDown(a) + SECTSIZE <= p
    BY <1>2, SectorsApart, Zenon
  <2>2. p <= a
    BY <1>1
  <2> QED
    BY <1>1, <1>2, <2>1, <2>2
<1>4. ~(p < RoundDown(a))
  BY <1>1, <1>2, SectorsApart
<1> QED
  BY <1>2, <1>3, <1>4

LEMMA NextSectorBound ==
  ASSUME NEW p \in Nat, p % SECTSIZE = 0
  PROVE  (p + SECTSIZE) % SECTSIZE = 0
<1> DEFINE n == SECTSIZE
<1>1. n \in Nat /\ n > 0
  BY SectorAssumption
<1>2. PICK k \in Int : p = n * k
  BY <1>1
<1> HIDE DEF n
<1>3. p + n = n * (k + 1)
  BY <1>1, <1>2
<1>4. (n * (k + 1)) % n = 0
  BY <1>1
<1> QED
  BY <1>3, <1>4 DEF n

(* What ImageAssumption says of a segment, and SectorAssumption of the header. *)
LEMMA SegFacts ==
  ASSUME image \in Images, NEW k \in 1..Len(Segs)
  PROVE  /\ Segs[k].pa \in Nat /\ Segs[k].off \in Nat /\ Segs[k].filesz \in Nat /\ Segs[k].memsz \in Nat
         /\ Segs[k].pa % SECTSIZE = Segs[k].off % SECTSIZE
         /\ Segs[k].filesz <= Segs[k].memsz /\ Segs[k].off + Segs[k].filesz <= image.length
         /\ \A a \in Nat : InSectors(a, Segs[k].pa, Segs[k].memsz) => a \in Memory
<1>1. Segs \in Seq([pa : Nat, off : Nat, filesz : Nat, memsz : Nat])
  BY ImageAssumption DEF Segs
<1>2. Segs[k] \in [pa : Nat, off : Nat, filesz : Nat, memsz : Nat]
  BY <1>1, ElementOfSeq, Zenon
<1>3. /\ Segs[k].pa % SECTSIZE = Segs[k].off % SECTSIZE
      /\ Segs[k].filesz <= Segs[k].memsz /\ Segs[k].off + Segs[k].filesz <= image.length
      /\ \A a \in RoundDown(Segs[k].pa)..(Segs[k].pa + Segs[k].memsz + SECTSIZE) :
           InSectors(a, Segs[k].pa, Segs[k].memsz) => a \in Memory
  BY ImageAssumption DEF Segs
<1>4. ASSUME NEW a \in Nat, InSectors(a, Segs[k].pa, Segs[k].memsz)
      PROVE  a \in Memory
  <2>1. RoundDown(a) \in Nat /\ a < RoundDown(a) + SECTSIZE /\ RoundDown(Segs[k].pa) \in Nat
    BY <1>2, RoundDownFacts
  <2>2. RoundDown(Segs[k].pa) <= a /\ RoundDown(a) < Segs[k].pa + Segs[k].memsz
    BY <1>4 DEF InSectors
  <2>3. a \in RoundDown(Segs[k].pa)..(Segs[k].pa + Segs[k].memsz + SECTSIZE)
    BY <1>2, <2>1, <2>2, SectorAssumption
  <2> QED
    BY <1>3, <1>4, <2>3
<1> QED
  BY <1>2, <1>3, <1>4

LEMMA HeaderFacts ==
  /\ RoundDown(ELFHDR) = ELFHDR /\ HdrSectors * SECTSIZE \in Nat /\ 0 % SECTSIZE = 0
  /\ \A a \in Nat : InSectors(a, ELFHDR, HdrSectors * SECTSIZE) => a \in Memory
<1>1. ELFHDR \in Nat /\ ELFHDR % SECTSIZE = 0 /\ SECTSIZE \in Nat /\ SECTSIZE > 0 /\ HdrSectors \in Nat
  BY SectorAssumption
<1>2. RoundDown(ELFHDR) = ELFHDR /\ 0 % SECTSIZE = 0
  BY <1>1 DEF RoundDown
<1> DEFINE n == HdrSectors * SECTSIZE
<1>3. n \in Nat
  BY <1>1
<1>4. (ELFHDR + n) % SECTSIZE = 0
  <2>1. PICK k \in Int : ELFHDR = SECTSIZE * k
    BY <1>1
  <2>2. ELFHDR + n = SECTSIZE * (k + HdrSectors)
    BY <1>1, <2>1
  <2>3. (SECTSIZE * (k + HdrSectors)) % SECTSIZE = 0
    BY <1>1
  <2> QED
    BY <2>2, <2>3
<1>5. ELFHDR..(ELFHDR + n - 1) \subseteq Memory
  BY SectorAssumption
<1> HIDE DEF n
<1>6. ASSUME NEW a \in Nat, InSectors(a, ELFHDR, n)
      PROVE  a \in Memory
  <2>1. RoundDown(a) \in Nat /\ RoundDown(a) % SECTSIZE = 0 /\ a < RoundDown(a) + SECTSIZE
    BY RoundDownFacts
  <2>2. ELFHDR <= a /\ RoundDown(a) < ELFHDR + n
    BY <1>2, <1>6 DEF InSectors
  <2>3. RoundDown(a) + SECTSIZE <= ELFHDR + n
    <3>1. ELFHDR + n \in Nat
      BY <1>1, <1>3
    <3> QED
      BY <1>4, <2>1, <2>2, <3>1, SectorsApart, Zenon
  <2> QED
    BY <1>1, <1>3, <1>5, <2>1, <2>2, <2>3
<1> QED
  BY <1>2, <1>3, <1>6 DEF n

LEMMA PartFacts ==
  ASSUME image \in Images, NEW k \in 0..Len(Segs)
  PROVE  /\ Part(k).pa \in Nat /\ Part(k).off \in Nat /\ Part(k).memsz \in Nat
         /\ Part(k).pa % SECTSIZE = Part(k).off % SECTSIZE
         /\ \A a \in Nat : InSectors(a, Part(k).pa, Part(k).memsz) => a \in Memory
<1>1. CASE k = 0
  BY <1>1, HeaderFacts, SectorAssumption DEF Part
<1>2. CASE k # 0
  <2>1. k \in 1..Len(Segs) /\ Part(k) = Segs[k]
    BY <1>2 DEF Part
  <2> QED
    BY <2>1, SegFacts
<1> QED
  BY <1>1, <1>2

-----------------------------------------------------------------------------
LEMMA LoaderStarts == LoaderInit => LoaderInv
<1> SUFFICES ASSUME LoaderStart, image \in Images, status \in {"busy", "ready"} PROVE LoaderInv
  BY DEF LoaderInit
<1>1. Segs \in Seq([pa : Nat, off : Nat, filesz : Nat, memsz : Nat]) /\ Len(Segs) \in Nat
      /\ Len(Segs) >= 1
  BY ImageAssumption DEF Segs
<1>2. mem \in [Memory -> Contents]
  BY DEF LoaderStart, Contents
<1>3. ReadInv
  BY <1>1, HeaderFacts, SectorAssumption DEF LoaderStart, ReadInv, Part, Polling
<1>4. CopyInv
  <2> SUFFICES ASSUME NEW i \in 1..Len(Segs), i <= ph \/ i = ph + 1
               PROVE  FALSE
    BY DEF CopyInv
  <2> QED
    BY <1>1 DEF LoaderStart
<1>5. TouchInv /\ DiskInv
  BY DEF TouchInv, DiskInv, LoaderStart
<1> QED
  BY <1>1, <1>2, <1>3, <1>4, <1>5 DEF LoaderStart, LoaderInv, Reading

(* The sector readseg() is at is one of those it reads, and in memory. *)
LEMMA SectorRead ==
  ASSUME LoaderInv, at \in Polling, NEW a \in pa..(pa + SECTSIZE - 1)
  PROVE  InSectors(a, Part(ph + 1).pa, Part(ph + 1).memsz) /\ a \in Memory /\ a \in Nat
<1>1. /\ image \in Images /\ ph + 1 \in 0..Len(Segs)
      /\ pa \in Nat /\ pa % SECTSIZE = 0 /\ RoundDown(Part(ph + 1).pa) <= pa
      /\ pa < Part(ph + 1).pa + Part(ph + 1).memsz
  BY DEF LoaderInv, ReadInv, Reading
<1>2. a \in Nat /\ pa <= a
  BY <1>1, SectorAssumption
<1>3. RoundDown(a) = pa
  BY <1>1, SectorOf
<1>4. RoundDown(Part(ph + 1).pa) \in Nat
  BY <1>1, PartFacts, RoundDownFacts
<1>5. InSectors(a, Part(ph + 1).pa, Part(ph + 1).memsz)
  BY <1>1, <1>2, <1>3, <1>4 DEF InSectors
<1> QED
  BY <1>1, <1>2, <1>5, PartFacts

(* insl() stores the bytes of the file that belong at pa. *)
LEMMA InslWrites ==
  ASSUME LoaderInv, Insl(pa), NEW a \in Memory
  PROVE  LET byte == FileByte(a + (Part(ph + 1).off - Part(ph + 1).pa))
         IN  /\ mem'[a] = IF a \in pa..(pa + SECTSIZE - 1) THEN byte ELSE mem[a]
             /\ a \in pa..(pa + SECTSIZE - 1) => byte \in Contents
<1> DEFINE part == Part(ph + 1)
<1> DEFINE o == a + (part.off - part.pa)
<1>1. /\ image \in Images /\ ph + 1 \in 0..Len(Segs) /\ status = "ready" /\ requested = offset
      /\ pa \in Nat /\ offset \in Nat \ {0} /\ RoundDown(part.pa) <= pa
      /\ (offset - 1) * SECTSIZE - pa = part.off - part.pa
  BY DEF Insl, LoaderInv, ReadInv, DiskInv, Reading, Polling
<1>2. part.pa \in Nat /\ part.off \in Nat /\ part.pa % SECTSIZE = part.off % SECTSIZE
  BY <1>1, PartFacts
<1>3. mem'[a] = IF a \in pa..(pa + SECTSIZE - 1) THEN SectorData[a - pa] ELSE mem[a]
  BY DEF Insl
<1>4. ASSUME a \in pa..(pa + SECTSIZE - 1)
      PROVE  SectorData[a - pa] = FileByte(o) /\ o \in Nat
  <2>1. a \in Nat /\ a - pa \in 0..(SECTSIZE - 1) /\ SECTSIZE \in Nat
    BY <1>1, <1>4, SectorAssumption
  <2>2. SectorData[a - pa] = FileByte((offset - 1) * SECTSIZE + (a - pa))
    BY <1>1, <2>1 DEF SectorData
  <2>3. (offset - 1) * SECTSIZE \in Int
    BY <1>1, <2>1
  <2>4. (offset - 1) * SECTSIZE + (a - pa) = o
    BY <1>1, <1>2, <2>1, <2>3
  <2>5. RoundDown(part.pa) = part.pa - (part.pa % SECTSIZE) /\ RoundDown(part.off) = part.off - (part.off % SECTSIZE)
    BY DEF RoundDown
  <2>6. RoundDown(part.off) \in Nat /\ RoundDown(part.pa) \in Nat
    BY <1>2, RoundDownFacts
  <2>7. part.pa % SECTSIZE \in Int
    BY <1>2, <2>1, SectorAssumption
  <2> HIDE DEF part
  <2>8. o = RoundDown(part.off) + (a - RoundDown(part.pa))
    BY <1>2, <2>1, <2>5, <2>6, <2>7
  <2>9. o \in Nat
    BY <1>1, <1>4, <2>1, <2>6, <2>8
  <2> QED
    BY <2>2, <2>4, <2>9
<1>5. ASSUME o \in Nat PROVE FileByte(o) \in Contents
  <2>1. image.length \in Nat
    BY <1>1, ImageAssumption
  <2> QED
    BY <1>5, <2>1 DEF FileByte, Contents
<1> QED
  BY <1>3, <1>4, <1>5

LEMMA InslStep ==
  ASSUME LoaderInv, Insl(pa)
  PROVE  LoaderInv'
<1> DEFINE part == Part(ph + 1)
<1>1. /\ image \in Images /\ ph \in -1..(Len(Segs) - 1) /\ ph + 1 \in 0..Len(Segs)
      /\ pa \in Nat /\ pa % SECTSIZE = 0 /\ offset \in Nat \ {0} /\ RoundDown(part.pa) <= pa
      /\ end_pa = part.pa + part.memsz /\ (offset - 1) * SECTSIZE - pa = part.off - part.pa
      /\ at = "insl" /\ at \in Polling /\ mem \in [Memory -> Contents]
  BY DEF Insl, LoaderInv, ReadInv, Reading, Polling
<1>2. /\ image' = image /\ ph' = ph /\ end_pa' = end_pa /\ Part(ph + 1)' = Part(ph + 1) /\ Segs' = Segs
      /\ pa' = pa + SECTSIZE /\ offset' = offset + 1 /\ at' = "readseg" /\ Contents' = Contents
  BY DEF Insl, Part, Segs, Contents
<1>3. SECTSIZE \in Nat /\ SECTSIZE > 0 /\ Len(Segs) \in Nat
  BY <1>1, SectorSize, ImageAssumption DEF Segs
<1>4. mem' \in [Memory -> Contents]
  <2>1. mem' = [a \in Memory |-> mem'[a]]
    BY DEF Insl
  <2>2. \A a \in Memory : mem'[a] \in Contents
    BY <1>1, InslWrites
  <2> QED
    BY <2>1, <2>2
<1>5. ReadInv'
  <2>1. pa' \in Nat /\ pa' % SECTSIZE = 0
    BY <1>1, <1>2, <1>3, NextSectorBound
  <2>2. part.pa \in Nat /\ part.off \in Nat /\ RoundDown(part.pa) \in Nat
    BY <1>1, PartFacts, RoundDownFacts
  <2>3. (offset - 1) * SECTSIZE + SECTSIZE = offset * SECTSIZE /\ (offset - 1) * SECTSIZE \in Int
    BY <1>1, <1>3
  <2>4. (offset' - 1) * SECTSIZE - pa' = part.off - part.pa
    BY <1>1, <1>2, <1>3, <2>2, <2>3
  <2>5. RoundDown(part.pa) <= pa' /\ ph' < Len(Segs)'
    BY <1>1, <1>2, <1>3, <2>2
  <2> QED
    BY <1>1, <1>2, <2>1, <2>4, <2>5 DEF ReadInv, Reading, Polling
<1>6. CopyInv'
  <2> SUFFICES ASSUME NEW i \in 1..Len(Segs), NEW a \in Segs[i].pa..(Segs[i].pa + Segs[i].filesz - 1),
                      i <= ph \/ (i = ph + 1 /\ a < pa + SECTSIZE), ~Lost(i, a)
               PROVE  mem'[a] = a + (Segs[i].off - Segs[i].pa)
    BY <1>2 DEF CopyInv, Lost, Segs
  <2>1. /\ Segs[i].pa \in Nat /\ Segs[i].off \in Nat /\ Segs[i].filesz \in Nat /\ Segs[i].memsz \in Nat
        /\ Segs[i].filesz <= Segs[i].memsz /\ Segs[i].off + Segs[i].filesz <= image.length /\ image.length \in Nat
    BY <1>1, SegFacts, ImageAssumption
  <2>2. a \in Nat
    BY <2>1
  <2>3. RoundDown(Segs[i].pa) <= Segs[i].pa /\ RoundDown(a) <= a /\ RoundDown(a) \in Nat /\ RoundDown(Segs[i].pa) \in Nat
    BY <2>1, <2>2, RoundDownFacts
  <2>4. InSectors(a, Segs[i].pa, Segs[i].memsz)
    BY <2>1, <2>2, <2>3 DEF InSectors
  <2>5. a \in Memory
    BY <1>1, <2>2, <2>4, SegFacts
  <2>6. CASE a \in pa..(pa + SECTSIZE - 1)
    <3>1. InSectors(a, part.pa, part.memsz)
      BY <1>1, <2>6, SectorRead
    <3>2. part.off - part.pa = Segs[i].off - Segs[i].pa
      <4>1. CASE i = ph + 1
        BY <4>1 DEF Part
      <4>2. CASE i <= ph
        <5> DEFINE seg == Segs[ph + 1]
        <5>1. ph + 1 \in (i + 1)..Len(Segs) /\ ph + 1 \in 1..Len(Segs) /\ part = seg
          BY <1>1, <1>3, <4>2 DEF Part
        <5>2. seg.pa - seg.off = Segs[i].pa - Segs[i].off
          BY <3>1, <5>1 DEF Lost
        <5>3. seg.pa \in Nat /\ seg.off \in Nat /\ Segs[i].pa \in Nat /\ Segs[i].off \in Nat
          BY <1>1, <2>1, <5>1, SegFacts
        <5> HIDE DEF seg
        <5>4. seg.off - seg.pa = Segs[i].off - Segs[i].pa
          BY <5>2, <5>3
        <5> QED
          BY <5>1, <5>4 DEF seg
      <4> QED
        BY <4>1, <4>2
    <3>3. mem'[a] = FileByte(a + (Segs[i].off - Segs[i].pa))
      BY <2>5, <2>6, <3>2, InslWrites
    <3>4. a + (Segs[i].off - Segs[i].pa) < image.length
      BY <2>1, <2>2
    <3> QED
      BY <3>3, <3>4 DEF FileByte
  <2>7. CASE a \notin pa..(pa + SECTSIZE - 1)
    <3>1. mem'[a] = mem[a]
      BY <2>5, <2>7, InslWrites
    <3>2. i <= ph \/ (i = ph + 1 /\ a < pa)
      BY <1>1, <1>3, <2>2, <2>7
    <3> QED
      BY <1>1, <3>1, <3>2 DEF LoaderInv, CopyInv
  <2> QED
    BY <2>6, <2>7
<1>7. TouchInv'
  <2> SUFFICES ASSUME NEW a \in Memory, mem'[a] # Junk
               PROVE  \/ InSectors(a, ELFHDR, HdrSectors * SECTSIZE)
                      \/ \E i \in 1..Len(Segs) : InSectors(a, Segs[i].pa, Segs[i].memsz)
    BY <1>2 DEF TouchInv, InSectors, RoundDown
  <2>1. CASE a \in pa..(pa + SECTSIZE - 1)
    <3>1. InSectors(a, part.pa, part.memsz)
      BY <1>1, <2>1, SectorRead
    <3> QED
      BY <1>1, <3>1 DEF Part
  <2>2. CASE a \notin pa..(pa + SECTSIZE - 1)
    BY <2>2, InslWrites DEF LoaderInv, TouchInv
  <2> QED
    BY <2>1, <2>2
<1>8. DiskInv'
  BY DEF Insl, LoaderInv, DiskInv
<1> QED
  BY <1>1, <1>2, <1>4, <1>5, <1>6, <1>7, <1>8 DEF LoaderInv, Reading

(* After a segment comes the next one, or the kernel's entry point. *)
LEMMA NextHeaderStep ==
  ASSUME LoaderInv, NextHeader
  PROVE  LoaderInv'
<1>1. /\ image \in Images /\ ph \in -1..(Len(Segs) - 1) /\ pa \in Nat /\ end_pa <= pa
      /\ end_pa = Part(ph + 1).pa + Part(ph + 1).memsz /\ at = "nextph" /\ mem \in [Memory -> Contents]
      /\ CopyInv /\ TouchInv /\ DiskInv
  BY DEF NextHeader, LoaderInv, ReadInv, Reading, Polling
<1>2. image' = image /\ Segs' = Segs /\ mem' = mem /\ Contents' = Contents /\ status' = status
  BY DEF NextHeader, Segs, Contents
<1>3. SECTSIZE \in Nat /\ SECTSIZE > 0 /\ Len(Segs) \in Nat
  BY <1>1, SectorSize, ImageAssumption DEF Segs
<1>4. TouchInv' /\ mem' \in [Memory -> Contents]
  BY <1>1, <1>2 DEF TouchInv, InSectors, RoundDown
<1>5. CASE ph = -1 /\ ~(image.magic /\ mem[ELFHDR] = 0)
  <2>1. at' = "bad" /\ ph' = ph /\ pa' = pa
    BY <1>5 DEF NextHeader
  <2>2. CopyInv'
    BY <1>1, <1>2, <2>1 DEF CopyInv, Lost, Segs, InSectors, RoundDown
  <2> QED
    BY <1>1, <1>2, <1>4, <1>5, <2>1, <2>2 DEF LoaderInv, ReadInv, DiskInv, Reading, Polling
<1>6. CASE ~(ph = -1 /\ ~(image.magic /\ mem[ELFHDR] = 0))
  <2>1. /\ ph' = ph + 1 /\ ph' \in -1..Len(Segs)
        /\ \/ ph' = Len(Segs) /\ at' = "entry" /\ UNCHANGED <<pa, end_pa, offset>>
           \/ ph' # Len(Segs) /\ ReadSeg(Segs[ph' + 1].pa, Segs[ph' + 1].memsz, Segs[ph' + 1].off)
           \/ at' = "lost"
    <3>1. ph' = ph + 1 /\ ph' \in -1..Len(Segs)
      BY <1>1, <1>3, <1>6 DEF NextHeader
    <3> QED
      BY <1>3, <1>6, <3>1 DEF NextHeader
  <2>2. ASSUME NEW i \in 1..Len(Segs), NEW a \in Segs[i].pa..(Segs[i].pa + Segs[i].filesz - 1),
               i <= ph', ~Lost(i, a)
        PROVE  mem[a] = a + (Segs[i].off - Segs[i].pa)
    <3>1. /\ Segs[i].pa \in Nat /\ Segs[i].filesz \in Nat /\ Segs[i].memsz \in Nat
          /\ Segs[i].filesz <= Segs[i].memsz
      BY <1>1, SegFacts
    <3>2. i <= ph \/ i = ph + 1
      BY <1>1, <1>3, <2>1, <2>2
    <3>3. i = ph + 1 => a < pa
      BY <1>1, <3>1 DEF Part
    <3> QED
      BY <1>1, <2>2, <3>2, <3>3 DEF CopyInv
  <2>3. CASE ph' = Len(Segs) /\ at' = "entry" /\ UNCHANGED <<pa, end_pa, offset>>
    <3>1. at' = "entry" /\ pa' = pa
      BY <2>1, <2>3
    <3>2. CopyInv'
      <4> SUFFICES ASSUME NEW i \in 1..Len(Segs), NEW a \in Segs[i].pa..(Segs[i].pa + Segs[i].filesz - 1),
                          i <= ph' \/ (i = ph' + 1 /\ a < pa'), ~Lost(i, a)
                   PROVE  mem[a] = a + (Segs[i].off - Segs[i].pa)
        BY <1>2 DEF CopyInv, Lost, Segs, InSectors, RoundDown
      <4>1. i <= ph'
        BY <1>3, <2>3
      <4> QED
        BY <2>2, <4>1
    <3> QED
      BY <1>1, <1>2, <1>3, <1>4, <2>3, <3>1, <3>2 DEF LoaderInv, ReadInv, DiskInv, Reading, Polling
  <2>4. CASE ph' # Len(Segs) /\ ReadSeg(Segs[ph' + 1].pa, Segs[ph' + 1].memsz, Segs[ph' + 1].off)
    <3> DEFINE seg == Segs[ph' + 1]
    <3>1. ph' + 1 \in 1..Len(Segs) /\ ph' \in -1..Len(Segs) /\ ph' < Len(Segs)
      BY <1>1, <1>3, <2>1, <2>4
    <3>2. /\ pa' = RoundDown(seg.pa) /\ end_pa' = seg.pa + seg.memsz
          /\ offset' = (seg.off \div SECTSIZE) + 1 /\ at' = "readseg"
      BY <2>1, <2>4 DEF ReadSeg
    <3>3. /\ seg.pa \in Nat /\ seg.off \in Nat /\ seg.pa % SECTSIZE = seg.off % SECTSIZE
      BY <1>1, <3>1, SegFacts
    <3>4. /\ pa' \in Nat /\ pa' % SECTSIZE = 0 /\ pa' <= seg.pa /\ offset' \in Nat \ {0}
          /\ (offset' - 1) * SECTSIZE = RoundDown(seg.off)
      <4> HIDE DEF seg
      <4>1. /\ (seg.off \div SECTSIZE) \in Nat /\ (seg.off \div SECTSIZE) * SECTSIZE = RoundDown(seg.off)
        BY <3>3, RoundDownFacts
      <4>2. offset' \in Nat \ {0} /\ offset' - 1 = seg.off \div SECTSIZE
        BY <3>2, <4>1
      <4> QED
        BY <3>2, <3>3, <4>1, <4>2, RoundDownFacts
    <3>5. (offset' - 1) * SECTSIZE - pa' = seg.off - seg.pa
      <4> HIDE DEF seg
      <4>1. RoundDown(seg.off) = seg.off - (seg.off % SECTSIZE) /\ pa' = seg.pa - (seg.pa % SECTSIZE)
        BY <3>2 DEF RoundDown
      <4>2. seg.off % SECTSIZE \in Int
        BY <1>3, <3>3
      <4> QED
        BY <3>3, <3>4, <4>1, <4>2
    <3>6. Part(ph + 1)' = seg
      BY <1>1, <1>2, <2>1, <3>1 DEF Part
    <3>7. ReadInv'
      BY <1>2, <3>1, <3>2, <3>4, <3>5, <3>6 DEF ReadInv, Polling
    <3>8. CopyInv'
      <4> SUFFICES ASSUME NEW i \in 1..Len(Segs), NEW a \in Segs[i].pa..(Segs[i].pa + Segs[i].filesz - 1),
                          i <= ph' \/ (i = ph' + 1 /\ a < pa'), ~Lost(i, a)
                   PROVE  mem[a] = a + (Segs[i].off - Segs[i].pa)
        BY <1>2 DEF CopyInv, Lost, Segs, InSectors, RoundDown
      <4>1. Segs[i].pa \in Nat /\ Segs[i].filesz \in Nat
        BY <1>1, SegFacts
      <4>2. i <= ph'
        BY <3>1, <3>4, <4>1
      <4> QED
        BY <2>2, <4>2
    <3> QED
      BY <1>1, <1>2, <1>4, <3>1, <3>2, <3>7, <3>8 DEF LoaderInv, DiskInv, Reading, Polling
  <2>5. CASE at' = "lost"
    <3>1. CopyInv' /\ ReadInv'
      BY <2>5 DEF CopyInv, ReadInv, Reading, Polling
    <3> QED
      BY <1>1, <1>2, <1>4, <2>1, <2>5, <3>1 DEF LoaderInv, DiskInv
  <2> QED
    BY <2>1, <2>3, <2>4, <2>5
<1> QED
  BY <1>5, <1>6

LEMMA LoadStep ==
  ASSUME LoaderInv, NextSector \/ WaitDisk \/ Command \/ DiskReady \/ UNCHANGED loaderVars
  PROVE  LoaderInv'
<1>1. /\ image' = image /\ Segs' = Segs /\ mem' = mem /\ Contents' = Contents
      /\ ph' = ph /\ pa' = pa /\ end_pa' = end_pa /\ offset' = offset /\ Part(ph + 1)' = Part(ph + 1)
  BY DEF NextSector, WaitDisk, Command, DiskReady, loaderVars, locals, Segs, Contents, Part
<1>2. /\ at' # "running" => at # "running"
      /\ at' \notin {"running", "lost"} => at \notin {"running", "lost"}
  BY DEF NextSector, WaitDisk, Command, DiskReady, loaderVars, locals
<1>3. TouchInv' /\ CopyInv'
  BY <1>1, <1>2 DEF LoaderInv, TouchInv, CopyInv, Lost, Segs, InSectors, RoundDown
<1>4. (at = "running" /\ Loaded => Loaded')
  BY <1>1, <1>2 DEF Loaded, Lost, InBss, InSectors, RoundDown, Segs
<1>5. CASE NextSector
  <2>0. end_pa \in Nat /\ pa \in Nat
    <3>1. image \in Images /\ ph + 1 \in 0..Len(Segs) /\ end_pa = Part(ph + 1).pa + Part(ph + 1).memsz /\ pa \in Nat
      BY <1>5 DEF NextSector, LoaderInv, ReadInv, Reading
    <3> QED
      BY <3>1, PartFacts
  <2>1. ReadInv'
    BY <1>1, <1>5, <2>0 DEF NextSector, MoreSectors, LoaderInv, ReadInv, Reading, Polling, Part
  <2> QED
    BY <1>1, <1>3, <1>5, <2>1 DEF NextSector, LoaderInv, DiskInv, Reading, Polling
<1>6. CASE WaitDisk
  BY <1>1, <1>3, <1>6 DEF WaitDisk, Polled, LoaderInv, ReadInv, DiskInv, Reading, Polling
<1>7. CASE Command
  BY <1>1, <1>3, <1>7 DEF Command, LoaderInv, ReadInv, DiskInv, Reading, Polling
<1>8. CASE DiskReady
  BY <1>1, <1>3, <1>4, <1>8 DEF DiskReady, locals, LoaderInv, ReadInv, DiskInv, Reading, Polling
<1>9. CASE UNCHANGED loaderVars
  BY <1>1, <1>3, <1>4, <1>9 DEF loaderVars, locals, LoaderInv, ReadInv, DiskInv, Reading, Polling
<1> QED
  BY <1>5, <1>6, <1>7, <1>8, <1>9

(* The kernel clears its bss, which is part of a segment. *)
LEMMA ClearBssStep ==
  ASSUME LoaderInv, ClearBss
  PROVE  LoaderInv'
<1>1. /\ image \in Images /\ ph = Len(Segs) /\ at = "entry" /\ mem \in [Memory -> Contents]
      /\ CopyInv /\ TouchInv /\ DiskInv
  BY DEF ClearBss, LoaderInv
<1>2. /\ image' = image /\ Segs' = Segs /\ Contents' = Contents /\ ph' = ph /\ at' = "running" /\ status' = status
      /\ mem' = [a \in Memory |-> IF InBss(a) THEN Zero ELSE mem[a]]
  <2>1. image.edata \in Nat /\ image.end \in Nat /\ Memory \subseteq Nat
    BY <1>1, ImageAssumption, SectorAssumption
  <2>2. \A a \in Memory : a \in Bss <=> InBss(a)
    BY <2>1 DEF Bss, InBss
  <2> QED
    BY <1>1, <2>2 DEF ClearBss, Segs, Contents
<1>3. PICK k \in 1..Len(Segs) : Segs[k].pa <= image.edata /\ image.end <= Segs[k].pa + Segs[k].memsz
  BY <1>1, ImageAssumption DEF Segs
<1>4. ASSUME NEW a \in Memory, InBss(a)
      PROVE  InSectors(a, Segs[k].pa, Segs[k].memsz)
  <2>1. /\ a \in Nat /\ Segs[k].pa \in Nat /\ Segs[k].memsz \in Nat
        /\ image.edata \in Nat /\ image.end \in Nat
    BY <1>1, SegFacts, SectorAssumption, ImageAssumption
  <2>2. Segs[k].pa <= a /\ a < Segs[k].pa + Segs[k].memsz
    BY <1>3, <1>4, <2>1 DEF InBss
  <2>3. RoundDown(Segs[k].pa) <= Segs[k].pa /\ RoundDown(Segs[k].pa) \in Nat /\ RoundDown(a) <= a /\ RoundDown(a) \in Nat
    BY <2>1, RoundDownFacts
  <2> QED
    BY <2>1, <2>2, <2>3 DEF InSectors
<1>5. TouchInv'
  <2> SUFFICES ASSUME NEW a \in Memory, mem'[a] # Junk
               PROVE  \/ InSectors(a, ELFHDR, HdrSectors * SECTSIZE)
                      \/ \E i \in 1..Len(Segs) : InSectors(a, Segs[i].pa, Segs[i].memsz)
    BY <1>2 DEF TouchInv, InSectors, RoundDown
  <2>1. CASE InBss(a)
    BY <1>4, <2>1
  <2>2. CASE ~InBss(a)
    BY <1>1, <1>2, <2>2 DEF TouchInv
  <2> QED
    BY <2>1, <2>2
<1>6. ASSUME NEW i \in 1..Len(Segs), NEW b \in 0..(Segs[i].filesz - 1),
             ~InBss(Segs[i].pa + b), ~Lost(i, Segs[i].pa + b)
      PROVE  mem'[Segs[i].pa + b] = Segs[i].off + b
  <2> DEFINE a == Segs[i].pa + b
  <2>1. /\ Segs[i].pa \in Nat /\ Segs[i].off \in Nat /\ Segs[i].filesz \in Nat /\ Segs[i].memsz \in Nat
        /\ Segs[i].filesz <= Segs[i].memsz
    BY <1>1, SegFacts
  <2>2. a \in Nat /\ b \in Nat /\ a \in Segs[i].pa..(Segs[i].pa + Segs[i].filesz - 1)
    BY <2>1
  <2>3. RoundDown(Segs[i].pa) <= Segs[i].pa /\ RoundDown(a) <= a /\ RoundDown(a) \in Nat /\ RoundDown(Segs[i].pa) \in Nat
    BY <2>1, <2>2, RoundDownFacts
  <2>4. InSectors(a, Segs[i].pa, Segs[i].memsz)
    <3> HIDE DEF a
    <3> QED
      BY <2>1, <2>2, <2>3 DEF InSectors
  <2>5. a \in Memory
    BY <1>1, <2>2, <2>4, SegFacts
  <2>6. mem[a] = a + (Segs[i].off - Segs[i].pa)
    BY <1>1, <1>6, <2>2 DEF CopyInv
  <2>7. mem'[a] = mem[a]
    BY <1>2, <1>6, <2>5
  <2> QED
    BY <2>1, <2>2, <2>6, <2>7
<1>7. Loaded'
  <2>1. \A a \in Memory : InBss(a) => mem'[a] = Zero
    BY <1>2
  <2>2. \A a \in Memory :
         mem'[a] # Junk => \/ InSectors(a, ELFHDR, HdrSectors * SECTSIZE)
                           \/ \E i \in 1..Len(Segs) : InSectors(a, Segs[i].pa, Segs[i].memsz)
    BY <1>2, <1>5 DEF TouchInv, InSectors, RoundDown
  <2>3. \A i \in 1..Len(Segs) : \A b \in 0..(Segs[i].filesz - 1) :
          ~InBss(Segs[i].pa + b) /\ ~Lost(i, Segs[i].pa + b) => mem'[Segs[i].pa + b] = Segs[i].off + b
    BY <1>6
  <2>4. /\ \A a : InBss(a)' <=> InBss(a)
        /\ \A i, a : Lost(i, a)' <=> Lost(i, a)
    BY <1>2 DEF InBss, Lost, InSectors, RoundDown, Segs
  <2>5. \A a, p, c : InSectors(a, p, c)' <=> InSectors(a, p, c)
    BY DEF InSectors, RoundDown
  <2> QED
    BY <1>2, <2>1, <2>2, <2>3, <2>4, <2>5 DEF Loaded
<1>8. mem' \in [Memory -> Contents]
  BY <1>1, <1>2 DEF Contents
<1> QED
  BY <1>1, <1>2, <1>5, <1>7, <1>8 DEF LoaderInv, ReadInv, CopyInv, DiskInv, Reading, Polling

-----------------------------------------------------------------------------
(* A step of Boot, as the loader sees it: while the machine is off nothing of it
   moves, and switching it on puts another kernel on the disk. *)
LEMMA OffStays == Off' /\ [BootNext]_bootVars => Off
  BY DEF Off, BootNext, Build, Make, Ld, Listings, Objcopy, SignBoot, Dd, Mv, Fail, Edit, Line, Lines,
         PowerOn, Processor, Controller, Disk, Wire, imageVars, bootVars

LEMMA StepOfLoader ==
  [BootNext]_bootVars =>
    \/ /\ Off /\ ~Off' /\ image' \in Images /\ status' \in {"busy", "ready"}
       /\ UNCHANGED <<mem, locals, requested>>
    \/ ~Off /\ pc = "bootmain" /\ GateSettled /\ Load(Bus(pa)) /\ UNCHANGED vars
    \/ ~Off /\ (ClearBss \/ DiskReady)
    \/ UNCHANGED loaderVars
  BY DEF BootNext, PowerOn, Off, Lines, Processor, CallBootmain, OtherSteps, InitKernel, Controller, Disk,
         Wire, bootVars

(* Beyond the header, the loader and the kernel rely on an open gate. *)
Opened ==
  /\ ph >= 0 => kbc.a20
  /\ pc \in Entry32 \union {"i386_init"} => kbc.a20

BootSafe == LoaderInv /\ Opened /\ (Off => LoaderStart)

(* The header lies below the megabyte that the gate cuts off. *)
LEMMA BusLeads ==
  ASSUME LoaderInv, Opened, at = "insl"
  PROVE  Bus(pa) = pa
<1>1. CASE ph >= 0
  BY <1>1 DEF Opened, Bus
<1>2. CASE ~(ph >= 0)
  <2>1. ph = -1 /\ pa \in Nat /\ pa < end_pa /\ end_pa = Part(ph + 1).pa + Part(ph + 1).memsz
    BY <1>2, ImageAssumption DEF LoaderInv, ReadInv, Reading, Polling, Segs
  <2>2. Part(ph + 1).pa + Part(ph + 1).memsz <= A20
    BY <2>1, GateAssumption DEF Part
  <2>3. A20 \in Nat /\ A20 > 0 /\ HdrSectors * SECTSIZE \in Nat /\ ELFHDR \in Nat
    BY GateAssumption, SectorSize, HeaderFacts
  <2>4. pa < A20
    BY <2>1, <2>2, <2>3 DEF Part
  <2>5. pa \div A20 = 0
    BY <2>1, <2>3, <2>4
  <2> QED
    BY <2>5 DEF Bus
<1> QED
  BY <1>1, <1>2

LEMMA LoaderSteps ==
  ASSUME BootSafe, [BootNext]_bootVars
  PROVE  LoaderInv' /\ (Off' => LoaderStart')
<1>1. CASE /\ Off /\ ~Off' /\ image' \in Images /\ status' \in {"busy", "ready"}
           /\ UNCHANGED <<mem, locals, requested>>
  <2>1. LoaderStart'
    BY <1>1 DEF BootSafe, LoaderStart, locals
  <2>2. LoaderInit' => LoaderInv'
    BY LoaderStarts, PTL
  <2> QED
    BY <1>1, <2>1, <2>2 DEF LoaderInit
<1>2. CASE ~Off /\ pc = "bootmain" /\ GateSettled /\ Load(Bus(pa)) /\ UNCHANGED vars
  <2>1. Insl(Bus(pa)) => Insl(pa)
    <3>1. Insl(Bus(pa)) => at = "insl"
      BY DEF Insl
    <3> QED
      BY <3>1, BusLeads, Zenon DEF BootSafe
  <2> QED
    BY <1>2, <2>1, OffStays, InslStep, NextHeaderStep, LoadStep DEF Load, BootSafe
<1>3. CASE ~Off /\ (ClearBss \/ DiskReady)
  BY <1>3, OffStays, LoadStep, ClearBssStep DEF BootSafe
<1>4. CASE UNCHANGED loaderVars
  <2>1. LoaderInv'
    BY <1>4, LoadStep DEF BootSafe
  <2>2. LoaderStart => LoaderStart'
    BY <1>4 DEF LoaderStart, loaderVars, locals
  <2> QED
    BY <2>1, <2>2, OffStays DEF BootSafe
<1> QED
  BY <1>1, <1>2, <1>3, <1>4, StepOfLoader

(* The gate does not shut again while the machine is on, and by the time the header is
   used it is open. *)
LEMMA GateStays ==
  ASSUME CpuInv, Cpu \/ KbcTakes \/ UNCHANGED vars, kbc.a20
  PROVE  kbc'.a20
<1>1. kbc = [input |-> kbc.input, command |-> kbc.command, a20 |-> kbc.a20]
  BY DEF CpuInv, TypeOK
<1>2. CASE Cpu /\ ~OutKbc
  <2>1. UNCHANGED kbc
    BY <1>2 DEF Cpu, Cli, Cld, ZeroSegs, Seta20, Lgdt, SetPE, Ljmp, FlatSegs, SetEsp, Bootmain, WarmBoot,
                LoadCr3, SetPG, JmpHigh, ClearEbp, SetStack, CallInit, Instr
  <2> QED
    BY <2>1
<1>3. CASE OutKbc
  BY <1>1, <1>3 DEF OutKbc
<1>4. CASE KbcTakes
  BY <1>4 DEF KbcTakes
<1>5. CASE UNCHANGED vars
  BY <1>5 DEF vars
<1> QED
  BY <1>2, <1>3, <1>4, <1>5

LEMMA OpenedSteps ==
  ASSUME CpuInv, BootSafe, [BootNext]_bootVars
  PROVE  Opened'
<1>1. LoaderInv /\ Opened /\ (Off => LoaderStart)
  BY DEF BootSafe
<1>2. CASE PowerOn
  <2>1. pc' = "start" /\ ph' = ph /\ ph = -1
    BY <1>1, <1>2 DEF PowerOn, Off, LoaderStart, locals
  <2> QED
    BY <2>1 DEF Opened, Entry32
<1>3. CASE CallBootmain
  <2>1. pc = "bootmain" /\ UNCHANGED <<pc, cpu, kbc>>
    BY <1>3 DEF CallBootmain, vars
  <2>2. CASE NextHeader
    <3>1. at = "nextph" /\ kbc.input = "empty"
      BY <1>3, <2>2 DEF CallBootmain, GateSettled, NextHeader
    <3>2. kbc.a20
      BY <2>1, <3>1 DEF CpuInv, GateInv, Boot16
    <3> QED
      BY <2>1, <3>2 DEF Opened
  <2>3. CASE ~NextHeader
    <3>1. ph' = ph
      BY <1>3, <2>3 DEF CallBootmain, Load, NextSector, WaitDisk, Command, Insl
    <3> QED
      BY <1>1, <2>1, <3>1 DEF Opened
  <2> QED
    BY <2>2, <2>3
<1>4. CASE ph' = ph /\ (Cpu \/ KbcTakes \/ UNCHANGED vars) /\ (Bootmain => at = "entry")
  <2>1. ph >= 0 => kbc'.a20
    BY <1>1, <1>4, GateStays DEF Opened
  <2>2. ASSUME pc' \in Entry32 \union {"i386_init"} PROVE kbc'.a20
    <3>1. CASE pc \in Entry32 \union {"i386_init"}
      BY <1>1, <1>4, <3>1, GateStays DEF Opened
    <3>2. CASE pc \notin Entry32 \union {"i386_init"}
      <4>1. Bootmain
        BY <1>4, <2>2, <3>2 DEF Cpu, Cli, Cld, ZeroSegs, Seta20, OutKbc, KbcTakes, Lgdt, SetPE, Ljmp, FlatSegs,
             SetEsp, WarmBoot, LoadCr3, SetPG, JmpHigh, ClearEbp, SetStack, CallInit, Instr, vars, Entry32
      <4>2. ph = Len(Segs) /\ Len(Segs) \in Nat
        BY <1>1, <1>4, <4>1, ImageAssumption DEF LoaderInv, Segs
      <4> QED
        BY <2>1, <4>2
    <3> QED
      BY <3>1, <3>2
  <2> QED
    BY <1>4, <2>1, <2>2 DEF Opened
<1>5. PowerOn \/ CallBootmain \/ (ph' = ph /\ (Cpu \/ KbcTakes \/ UNCHANGED vars) /\ (Bootmain => at = "entry"))
  <2>1. CASE OtherSteps
    BY <2>1 DEF OtherSteps, Bootmain, Instr, loaderVars, locals
  <2>2. CASE InitKernel
    BY <2>2 DEF InitKernel, ClearBss, Bootmain, Instr, loaderVars, locals
  <2>3. CASE ~OtherSteps /\ ~InitKernel /\ ~PowerOn /\ ~CallBootmain
    <3>1. ph' = ph /\ (KbcTakes \/ UNCHANGED vars)
      BY <2>3 DEF BootNext, Processor, Controller, Disk, DiskReady, Wire, bootVars, loaderVars, locals
    <3>2. ~Bootmain
      BY <3>1 DEF KbcTakes, Bootmain, Instr, vars
    <3> QED
      BY <3>1, <3>2
  <2> QED
    BY <2>1, <2>2, <2>3
<1> QED
  BY <1>2, <1>3, <1>4, <1>5

LEMMA BootInvariant == BootSpec => []BootSafe
<1>1. BootInit => BootSafe
  <2>1. BootInit => LoaderStart /\ LoaderInit /\ ph = -1 /\ pc = "start"
    BY ImageAssumption DEF BootInit, LoaderInit, LoaderStart
  <2> QED
    BY <2>1, LoaderStarts DEF BootSafe, Opened, Entry32
<1>2. CpuInv /\ BootSafe /\ [BootNext]_bootVars => BootSafe'
  BY LoaderSteps, OpenedSteps DEF BootSafe
<1> QED
  BY <1>1, <1>2, CpuInvariant, PTL DEF BootSpec

(* entry.S:64 and boot.S:51.  For every layout of pages, directory entries of any
   reach and every state the firmware may leave: every delay of its controller that is
   shorter than the reading of the header: fetches, loads and stores reach what they
   are meant for, on the whole way to i386_init(). *)
THEOREM CpuReachesMemory == BootSpec => []ReachesMemory
<1>1. CpuInv /\ BootSafe => ReachesMemory
  BY CpuFetches, CpuStores DEF ReachesMemory, BootSafe, Opened
<1> QED
  BY <1>1, CpuInvariant, BootInvariant, PTL

(* init.c:33-35, main.c:84-86.  For every size of sector, every kernel a linker may
   make, and every delay of the disk: when the kernel runs, its image is where it was
   linked to be but for what a later segment from elsewhere in the file overwrites, its
   bss is zero, and no other memory was touched. *)
THEOREM KernelIsLoaded == BootSpec => []Loaded
<1>1. LoaderInv => Loaded
  <2> SUFFICES ASSUME LoaderInv PROVE Loaded
    OBVIOUS
  <2>1. CASE at = "running"
    BY <2>1 DEF LoaderInv
  <2>2. CASE at # "running"
    BY <2>2 DEF Loaded
  <2> QED
    BY <2>1, <2>2
<1> QED
  BY <1>1, BootInvariant, PTL DEF BootSafe

(* The registers, the two devices, the loader and memory keep their types; paging is
   never on without protection; sectors are written whole inside memory, and none is
   taken from the disk before the disk has it. *)
THEOREM BootTypes == BootSpec => []BootTypeOK
<1>1. LoaderInv => LoaderTypeOK
  <2> SUFFICES ASSUME LoaderInv PROVE LoaderTypeOK
    OBVIOUS
  <2>1. /\ image \in Images /\ ph \in -1..Len(Segs) /\ status \in {"busy", "ready"}
        /\ at \in {"readseg", "waitidle", "command", "waitdata", "insl", "nextph",
                   "entry", "running", "bad", "lost"}
        /\ \A a \in Memory : mem[a] \in {Padding, Zero, Junk} \union 0..(image.length - 1)
        /\ at \in {"command", "insl"} => status = "ready"
        /\ at = "insl" => requested = offset
    BY DEF LoaderInv, DiskInv, Reading, Polling, Contents
  <2>2. ASSUME at \in Polling
        PROVE  pa % SECTSIZE = 0 /\ pa..(pa + SECTSIZE - 1) \subseteq Memory /\ offset >= 1
    <3>1. pa % SECTSIZE = 0 /\ offset >= 1
      BY <2>2 DEF LoaderInv, ReadInv, Reading
    <3> QED
      BY <2>2, <3>1, SectorRead
  <2> QED
    BY <2>1, <2>2 DEF LoaderTypeOK, Polling
<1>2. CpuInv => TypeOK
  BY DEF CpuInv
<1> QED
  BY <1>1, <1>2, CpuInvariant, BootInvariant, PTL DEF BootTypeOK, BootSafe
===============================================================================
