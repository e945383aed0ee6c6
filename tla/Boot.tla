---------------------------------- MODULE Boot --------------------------------
(***************************************************************************)
(* From the image that make writes (KernelImage) to a kernel that can      *)
(* print: boot.S and entry.S (Startup) with bootmain() (BootLoader)        *)
(* between them and i386_init()'s memset() and cons_init() (ConsInit)      *)
(* behind, while a keyboard controller, a disk and a serial line work on   *)
(* their own.                                                              *)
(***************************************************************************)
EXTENDS Startup, BootLoader, ConsInit, KernelImage

CONSTANT A20   \* what the gate's address line is worth (1MB)

bootVars == <<vars, loaderVars, consVars, imageVars>>

ASSUME BootSectorAssumption == BOOTSIZE + 2 = SECTSIZE

ASSUME GateAssumption ==
  /\ A20 \in Nat \ {0} /\ A20 % SECTSIZE = 0
  /\ ELFHDR + HdrSectors * SECTSIZE <= A20

(* The machine is off, its state of no interest, while make writes the image. *)
BootInit ==
  /\ BuildInit /\ ConsStart /\ LoaderStart
  /\ pc = "start"
  /\ cpu = CHOOSE c \in FirmwareCpus : TRUE
  /\ kbc = CHOOSE k \in FirmwareKbcs : TRUE
  /\ image = CHOOSE i \in Images : TRUE
  /\ status = "ready"

Off == making \in Lines \union {"no", "failed", "made"}

(* QEMU is started with the image (sectors 1 on: the kernel `image`), and the firmware
   runs a boot sector that is signed. *)
PowerOn ==
  /\ making = "made" /\ Signed(img[1]) /\ making' = "power"
  /\ pc' = "start" /\ cpu' \in FirmwareCpus /\ kbc' \in FirmwareKbcs
  /\ image' \in Images /\ status' \in {"busy", "ready"}
  /\ UNCHANGED <<code, boot, kernel, img_tmp, img, mem, locals, requested, consVars>>

(* With the gate shut, every other megabyte is another name for the one below it. *)
Bus(a) == IF kbc.a20 \/ (a \div A20) % 2 = 0 THEN a ELSE a - A20

(* Nothing in the code waits for the controller to take the last byte; the reading of
   the header's sectors takes far longer. *)
GateSettled == at = "nextph" => kbc.input = "empty"

(* bootmain() runs to its call of the entry point, loops for ever or is lost. *)
CallBootmain == pc = "bootmain" /\ GateSettled /\ Load(Bus(pa)) /\ UNCHANGED <<vars, consVars>>

OtherSteps == Cpu /\ (pc = "bootmain" => at = "entry") /\ UNCHANGED <<loaderVars, consVars>>

InitKernel ==
  /\ pc = "i386_init" /\ UNCHANGED vars
  /\ \/ ClearBss /\ UNCHANGED consVars
     \/ at = "running" /\ ConsInit /\ UNCHANGED loaderVars

Processor == ~Off /\ (CallBootmain \/ OtherSteps \/ InitKernel) /\ UNCHANGED imageVars

Controller == ~Off /\ KbcTakes /\ UNCHANGED <<loaderVars, consVars, imageVars>>
Disk == ~Off /\ DiskReady /\ UNCHANGED <<vars, consVars, imageVars>>
Wire == Receive /\ UNCHANGED <<vars, loaderVars, imageVars>>

BootNext ==
  \/ Build /\ UNCHANGED <<vars, loaderVars, consVars>>
  \/ PowerOn \/ Processor \/ Controller \/ Disk \/ Wire

BootSpec == BootInit /\ [][BootNext]_bootVars

(* The processor goes on, the controller takes what it is given, and the disk
   answers every command.  Nobody need run make. *)
FairBootSpec ==
  /\ BootSpec
  /\ WF_bootVars(Processor)
  /\ WF_bootVars(Controller)
  /\ WF_bootVars(Disk)

-----------------------------------------------------------------------------
(* Types of the processor, the two devices, memory and the loader. *)
BootTypeOK == TypeOK /\ LoaderTypeOK

(* init.c:28-39, main.c:46-60.  Once the machine is on, the kernel comes to run, its
   console ready and the machine in the state its first C function relies on.  An image
   without the ELF magic number ends in the loader's endless loop instead, and one that
   is loaded over its own headers, and over no other place in the scratch space, leads
   the loader astray. *)
Boots ==
  ~Off ~> IF ~image.magic THEN at = "bad"
          ELSE IF HeadersKept THEN KernelState /\ consAt = "ready"
          ELSE at = "lost"
===============================================================================
