----------------------------------- MODULE MCBoot ------------------------------
(* Kernels of up to two segments behind a header of two sectors, or over it.  kernel.ld
   starts the second segment on a page of its own and puts the bss at its end;
   other linkers pack the segments in the file, in memory, or in both. *)
EXTENDS Boot

CONSTANTS MaxSize

HdrBytes == HdrSectors * SECTSIZE
Base == ELFHDR + HdrBytes        \* where kernels are loaded
Up(x) == x + ((-x) % SECTSIZE)

(* A segment's file offset is congruent to its address. *)
Seg(pa_, off_, filesz_, memsz_) == [pa |-> pa_, off |-> off_, filesz |-> filesz_, memsz |-> memsz_]

Image(ok, segs_, bss) ==
  LET s == segs_[Len(segs_)]
  IN  [magic |-> ok, phoff |-> SECTSIZE, segs |-> segs_, length |-> s.off + s.filesz,
       edata |-> s.pa + s.memsz - bss, end |-> s.pa + s.memsz]

Sizes == {<<f, m>> \in (1..MaxSize) \X (1..MaxSize) : f <= m}

(* The bss is in the last segment: all that is not in the file, or more. *)
OneSegment ==
  UNION {{Image(ok, <<Seg(Base + skew, HdrBytes + skew, f[1], f[2])>>, b) :
            ok \in BOOLEAN, b \in (f[2] - f[1])..f[2]} :
         skew \in 0..1, f \in Sizes}

TwoSegments ==
  UNION {UNION {{Image(TRUE,
                  <<Seg(Base, HdrBytes, n, n),
                    Seg(p, Up(HdrBytes + n) + gap * SECTSIZE + (p % SECTSIZE), f[1], f[2])>>, f[2] - f[1]) :
                 f \in Sizes, gap \in 0..1} : p \in {Up(Base + n), Up(Base + n) + 1}} : n \in 1..MaxSize}

Packed ==
  UNION {{Image(TRUE, <<Seg(Base, HdrBytes, n, n), Seg(Base + n, off, f[1], f[2])>>, f[2] - f[1]) :
            off \in {HdrBytes + n, HdrBytes + n + SECTSIZE}, f \in Sizes} : n \in 1..MaxSize}

(* Segments that come over the scratch space: over the ELF header, over the program
   header in use or one still to come; or harmless, because the header is part of the
   segment or has been used. *)
One(p, off, n) == Image(TRUE, <<Seg(p, off, n, n)>>, 1)
Two(p, q) ==
  Image(TRUE, <<Seg(p, HdrBytes, SECTSIZE, SECTSIZE),
                Seg(q, HdrBytes + SECTSIZE, SECTSIZE, SECTSIZE)>>, 1)
Overlapping ==
  {One(ELFHDR, HdrBytes, SECTSIZE), One(ELFHDR, 0, HdrBytes), One(ELFHDR + SECTSIZE, HdrBytes, SECTSIZE),
   Two(ELFHDR + SECTSIZE, Base), Two(Base, ELFHDR + SECTSIZE), Two(ELFHDR, ELFHDR + SECTSIZE)}

Linked == OneSegment \union TwoSegments \union Packed \union Overlapping

(* A color display alone and no port; a port in the middle of setting its speed, its
   FIFO on and full; both displays and a port that holds one byte. *)
Uart(lcr, fcr) == [DLL |-> 1, DLM |-> 1, IER |-> 0, FCR |-> fcr, LCR |-> lcr, MCR |-> 3, TX |-> -1]
PCs ==
  {[cards |-> {"color"}, cursor |-> [color |-> 1999], serial |-> FALSE, uart |-> Uart(0, 0), rx |-> 0],
   [cards |-> {"mono"}, cursor |-> [mono |-> 80], serial |-> TRUE, uart |-> Uart(128, 1), rx |-> 2],
   [cards |-> {"color", "mono"}, cursor |-> [color |-> 256, mono |-> 0],
    serial |-> TRUE, uart |-> Uart(7, 0), rx |-> 1]}

MCMemory == 0..(Base + 4 * MaxSize)
===============================================================================
