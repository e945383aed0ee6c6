------------------------------- MODULE BootLoader -----------------------------
(***************************************************************************)
(* boot/main.c: the second half of the boot sector loads an ELF image from *)
(* the IDE disk, sector by sector, and jumps to it; the kernel then clears *)
(* its bss (the first lines of i386_init).  The disk works on its own and  *)
(* the loader polls it.  A byte of memory is the offset of the file byte   *)
(* it holds.                                                               *)
(***************************************************************************)
EXTENDS Integers, Sequences

CONSTANTS
  SECTSIZE,
  HdrSectors,   \* sectors of the header that are read first (8)
  ELFHDR,       \* scratch space they are read to
  Memory,       \* addresses of physical memory
  Images        \* [magic, phoff, segs: Seq([pa, off, filesz, memsz]), length, edata, end]

Padding == -1   \* what the disk holds after the kernel
Zero == -2      \* what memset() stores
Junk == -3      \* memory that was never written, and a disk that has no data

VARIABLES
  image,                      \* the kernel on the disk, from sector 1 on
  mem,                        \* physical memory
  at,                         \* where bootmain() is
  ph,                         \* program headers that are done; -1 before the first
  pa, end_pa, offset,         \* readseg()'s variables, offset in sectors
  status,                     \* the disk: "busy" or "ready"
  requested                   \* the sector the disk was last told to read, 0 for none

locals == <<at, ph, pa, end_pa, offset>>
loaderVars == <<image, mem, locals, status, requested>>

ASSUME SectorAssumption ==
  /\ SECTSIZE \in Nat \ {0} /\ HdrSectors \in Nat \ {0}
  /\ Memory \subseteq Nat /\ ELFHDR \in Nat /\ ELFHDR % SECTSIZE = 0
  /\ ELFHDR..(ELFHDR + HdrSectors * SECTSIZE - 1) \subseteq Memory

Segs == image.segs

RoundDown(p) == p - (p % SECTSIZE)

(* The sectors that hold count bytes from p on. *)
InSectors(a, p, count) == RoundDown(p) <= a /\ RoundDown(a) < p + count

(* What a linker makes: segments lie in memory as they lie in the file, modulo a
   sector, and the bss is part of one; memory has room for their sectors. *)
ASSUME ImageAssumption ==
  Images # {} /\ \A i \in Images :
    /\ i.length \in Nat /\ i.segs \in Seq([pa : Nat, off : Nat, filesz : Nat, memsz : Nat])
    /\ \A k \in 1..Len(i.segs) :
         LET s == i.segs[k]
         IN  /\ s.pa % SECTSIZE = s.off % SECTSIZE
             /\ s.filesz <= s.memsz /\ s.off + s.filesz <= i.length
             /\ \A a \in RoundDown(s.pa)..(s.pa + s.memsz + SECTSIZE) :
                  InSectors(a, s.pa, s.memsz) => a \in Memory
    /\ i.edata \in Nat /\ i.end \in Nat
    /\ \E k \in 1..Len(i.segs) : i.segs[k].pa <= i.edata /\ i.end <= i.segs[k].pa + i.segs[k].memsz

(* The arguments of readseg() become its first pa, end_pa and offset. *)
ReadSeg(p, count, off) ==
  /\ pa' = RoundDown(p)
  /\ end_pa' = p + count
  /\ offset' = (off \div SECTSIZE) + 1
  /\ at' = "readseg"

LoaderStart ==
  /\ mem = [a \in Memory |-> Junk]
  /\ at = "readseg" /\ ph = -1
  /\ pa = ELFHDR /\ end_pa = ELFHDR + HdrSectors * SECTSIZE /\ offset = 1
  /\ requested = 0

(* The firmware may have left the disk busy. *)
LoaderInit == LoaderStart /\ image \in Images /\ status \in {"busy", "ready"}

-----------------------------------------------------------------------------
(* The disk. *)
DiskReady ==
  /\ status = "busy" /\ status' = "ready"
  /\ UNCHANGED <<image, mem, locals, requested>>

FileByte(o) == IF o < image.length THEN o ELSE Padding

SectorData == [k \in 0..(SECTSIZE - 1) |->
  IF status = "busy" \/ requested = 0 THEN Junk
  ELSE FileByte((requested - 1) * SECTSIZE + k)]

-----------------------------------------------------------------------------
(* Mutant of MoreSectors: one sector too many. *)
MoreSectorsEqual == pa <= end_pa

(* The loop test of readseg(). *)
MoreSectors == pa < end_pa

NextSector ==
  /\ at = "readseg"
  /\ at' = IF MoreSectors THEN "waitidle" ELSE "nextph"
  /\ UNCHANGED <<image, mem, ph, pa, end_pa, offset, status, requested>>

(* Mutant of Polled: the first wait is left out. *)
PolledLate == at = "waitdata" => status = "ready"

(* waitdisk(): only a poll that finds the disk ready goes on. *)
Polled == status = "ready"

WaitDisk ==
  /\ at \in {"waitidle", "waitdata"} /\ Polled
  /\ at' = IF at = "waitidle" THEN "command" ELSE "insl"
  /\ UNCHANGED <<image, mem, ph, pa, end_pa, offset, status, requested>>

(* Writing the command register makes the disk busy at once; a disk that is busy
   takes no command. *)
Command ==
  /\ at = "command" /\ at' = "waitdata"
  /\ IF status = "ready" THEN requested' = offset /\ status' = "busy"
     ELSE UNCHANGED <<requested, status>>
  /\ UNCHANGED <<image, mem, ph, pa, end_pa, offset>>

(* The address lines lead the sector that is stored at pa to dst. *)
Insl(dst) ==
  /\ at = "insl" /\ at' = "readseg"
  /\ mem' = [a \in Memory |-> IF a \in dst..(dst + SECTSIZE - 1) THEN SectorData[a - dst] ELSE mem[a]]
  /\ pa' = pa + SECTSIZE /\ offset' = offset + 1
  /\ UNCHANGED <<image, ph, end_pa, status, requested>>

(* Program header i is one byte of the scratch space. *)
HeaderAt(i) == ELFHDR + image.phoff + i

(* After a readseg(): the magic number is tested once, then one program header
   after the other is taken from the scratch space, and in the end the entry point;
   the first byte there stands for the ELF header.  Where something else has been
   loaded over what is read, the loader goes astray: it is "lost". *)
NextHeader ==
  /\ at = "nextph"
  /\ IF ph = -1 /\ ~(image.magic /\ mem[ELFHDR] = 0)
     THEN at' = "bad" /\ UNCHANGED <<ph, pa, end_pa, offset>>
     ELSE /\ ph' = ph + 1
          /\ \/ /\ ph' < Len(Segs) /\ mem[HeaderAt(ph')] = image.phoff + ph'
                /\ LET seg == Segs[ph' + 1] IN ReadSeg(seg.pa, seg.memsz, seg.off)
             \/ /\ ph' < Len(Segs) /\ mem[HeaderAt(ph')] # image.phoff + ph'
                /\ at' = "lost" /\ UNCHANGED <<pa, end_pa, offset>>
             \/ /\ ph' = Len(Segs)
                /\ at' = IF mem[ELFHDR] = 0 THEN "entry" ELSE "lost"
                /\ UNCHANGED <<pa, end_pa, offset>>
  /\ UNCHANGED <<image, mem, status, requested>>

(* The kernel's first act: memset(edata, 0, end - edata). *)
Bss == image.edata..(image.end - 1)

ClearBss ==
  /\ at = "entry" /\ at' = "running"
  /\ mem' = [a \in Memory |-> IF a \in Bss THEN Zero ELSE mem[a]]
  /\ UNCHANGED <<image, ph, pa, end_pa, offset, status, requested>>

Load(dst) == NextSector \/ WaitDisk \/ Command \/ Insl(dst) \/ NextHeader

-----------------------------------------------------------------------------
(* Types; the loader writes whole sectors inside memory and reads the kernel's
   sectors only, never the boot sector; it tells the disk nothing before it is ready,
   and takes from it nothing but the sector it asked for. *)
LoaderTypeOK ==
  /\ image \in Images /\ ph \in -1..Len(Segs)
  /\ at \in {"readseg", "waitidle", "command", "waitdata", "insl", "nextph",
             "entry", "running", "bad", "lost"}
  /\ \A a \in Memory : mem[a] \in {Padding, Zero, Junk} \union 0..(image.length - 1)
  /\ status \in {"busy", "ready"}
  /\ at \in {"waitidle", "command", "waitdata", "insl"} =>
       /\ pa % SECTSIZE = 0 /\ pa..(pa + SECTSIZE - 1) \subseteq Memory /\ offset >= 1
  /\ at \in {"command", "insl"} => status = "ready"
  /\ at = "insl" => requested = offset

InBss(a) == image.edata <= a /\ a < image.end

(* Byte a of segment i shares its sector with a later segment that comes from
   elsewhere in the file. *)
Lost(i, a) ==
  \E j \in (i + 1)..Len(Segs) :
    InSectors(a, Segs[j].pa, Segs[j].memsz) /\ Segs[j].pa - Segs[j].off # Segs[i].pa - Segs[i].off

(* Byte a of the scratch space is as it was read, after n segments: the last of them to
   come over it, if one does, holds it too. *)
StillThere(a, n) ==
  \A k \in 1..n :
    /\ InSectors(a, Segs[k].pa, Segs[k].memsz)
    /\ \A j \in (k + 1)..n : ~InSectors(a, Segs[j].pa, Segs[j].memsz)
    => Segs[k].pa - Segs[k].off = ELFHDR

(* No program header, nor the entry point, is loaded over before it is read. *)
HeadersKept ==
  /\ \A i \in 0..(Len(Segs) - 1) : StillThere(HeaderAt(i), i)
  /\ StillThere(ELFHDR, Len(Segs))

(* init.c:33-35, main.c:84-86.  When the kernel runs, its bss is all zero and every
   byte of its image is where it was linked to be, whatever the disk did meanwhile;
   copying more than asked costs only what shares a sector with a later segment that
   the file does not hold right behind it.  All other memory is untouched, which may
   be the loader's own. *)
Loaded ==
  at = "running" =>
    /\ \A i \in 1..Len(Segs) : \A b \in 0..(Segs[i].filesz - 1) :
         LET a == Segs[i].pa + b
         IN  ~InBss(a) /\ ~Lost(i, a) => mem[a] = Segs[i].off + b
    /\ \A a \in Memory : InBss(a) => mem[a] = Zero
    /\ \A a \in Memory :
         mem[a] # Junk => \/ InSectors(a, ELFHDR, HdrSectors * SECTSIZE)
                          \/ \E i \in 1..Len(Segs) : InSectors(a, Segs[i].pa, Segs[i].memsz)
===============================================================================
