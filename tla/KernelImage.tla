------------------------------- MODULE KernelImage -----------------------------
(***************************************************************************)
(* How make writes the disk image: boot/Makefrag and boot/sign.pl,         *)
(* kern/Makefrag and the rule of GNUmakefile about targets half made.  An  *)
(* error or an interrupt may stop make at any line of a recipe; it is then *)
(* run again on what it finds.  (Of a make that is killed outright nothing *)
(* is promised.)  A file is a sequence of bytes, a kernel one token.       *)
(***************************************************************************)
EXTENDS Integers, Sequences

CONSTANTS
  BOOTSIZE,    \* 510 in the source
  CodeSizes    \* sizes of the boot loader's code that its sources may have

ASSUME CodeAssumption == BOOTSIZE \in Nat /\ CodeSizes \subseteq Nat

VARIABLES
  code,                    \* the size of the boot loader's code as its sources stand
  boot, kernel,            \* obj/boot/boot and obj/kern/kernel
  img_tmp, img,            \* kernel.img~ and kernel.img: sector 0, and the rest
  making                   \* the line of a recipe make is at

imageVars == <<code, boot, kernel, img_tmp, img, making>>

None == <<"none">>
Zeros == <<"zeros">>
OldKernel == <<"old kernel">>
NewKernel == <<"new kernel">>

(* .text of the boot loader, as objcopy writes it. *)
Text(word, n) == [k \in 1..n |-> word]

(* boot/sign.pl on a boot block that is not too large. *)
Sign(buf) == buf \o Text("00", BOOTSIZE - Len(buf)) \o <<"55", "AA">>
Signed(s) == Len(s) = BOOTSIZE + 2 /\ SubSeq(s, BOOTSIZE + 1, BOOTSIZE + 2) = <<"55", "AA">>

(* What an earlier make left, if anything: made from sources that have changed. *)
OldBoot == Sign(Text("old code", BOOTSIZE))
NoImage == <<None, None>>

BuildInit ==
  /\ code \in CodeSizes
  /\ boot \in {None, OldBoot} /\ kernel \in {None, OldKernel}
  /\ img_tmp = NoImage /\ img \in {NoImage, <<OldBoot, OldKernel>>}
  /\ making = "no"

-----------------------------------------------------------------------------
(* The next line of the recipes, in make's order; a recipe is left out if its
   target is newer than the sources.  The image is always older than one of its
   parts when make is run. *)
Line(from, to) == making = from /\ making' = to /\ UNCHANGED code

Make ==
  /\ making \in {"no", "failed"} /\ making' = "kernel"
  /\ UNCHANGED <<code, boot, kernel, img_tmp, img>>

Ld ==
  /\ IF kernel \in {None, OldKernel} THEN Line("kernel", "kernel.asm") /\ kernel' = NewKernel
     ELSE Line("kernel", "boot") /\ UNCHANGED kernel
  /\ UNCHANGED <<boot, img_tmp, img>>

Listings == Line("kernel.asm", "boot") /\ UNCHANGED <<boot, kernel, img_tmp, img>>

Objcopy ==
  /\ IF boot \in {None, OldBoot} THEN Line("boot", "sign") /\ boot' = Text("code", code)
     ELSE Line("boot", "zeros") /\ UNCHANGED boot
  /\ UNCHANGED <<kernel, img_tmp, img>>

SignBoot ==
  /\ Line("sign", "zeros") /\ Len(boot) <= BOOTSIZE /\ boot' = Sign(boot)
  /\ UNCHANGED <<kernel, img_tmp, img>>

Dd ==
  /\ \/ Line("zeros", "sector 0") /\ img_tmp' = <<Zeros, Zeros>>
     \/ Line("sector 0", "sector 1") /\ img_tmp' = [img_tmp EXCEPT ![1] = boot]
     \/ Line("sector 1", "mv") /\ img_tmp' = [img_tmp EXCEPT ![2] = kernel]
  /\ UNCHANGED <<boot, kernel, img>>

Mv == Line("mv", "made") /\ img' = img_tmp /\ img_tmp' = NoImage /\ UNCHANGED <<boot, kernel>>

Lines == {"kernel", "kernel.asm", "boot", "sign", "zeros", "sector 0", "sector 1", "mv"}

(* Mutant of Kept: make leaves a target half made, as it does without the rule. *)
KeptHalf(target, lines) == target

(* .DELETE_ON_ERROR: the target of a recipe that stops at one of these lines,
   after the first has changed it, is deleted. *)
Kept(target, lines) == IF making \in lines THEN None ELSE target

(* A line fails or make is interrupted; sign.pl fails if the block is too large. *)
Fail ==
  /\ making \in Lines /\ making' = "failed"
  /\ kernel' = Kept(kernel, {"kernel.asm"}) /\ boot' = Kept(boot, {"sign"})
  /\ UNCHANGED <<code, img_tmp, img>>

(* The boot loader's sources are changed, to make it smaller. *)
Edit ==
  /\ making = "failed" /\ making' = "no" /\ code' \in CodeSizes
  /\ boot' = IF boot = None THEN None ELSE OldBoot
  /\ UNCHANGED <<kernel, img_tmp, img>>

Build == Make \/ Ld \/ Listings \/ Objcopy \/ SignBoot \/ Dd \/ Mv \/ Fail \/ Edit

-----------------------------------------------------------------------------
(* GNUmakefile:115.  Whatever stopped make before, kernel.img is never half made:
   it starts with a signed boot sector and goes on with a kernel, and after a make
   that succeeded both come from the sources as they stand. *)
ImageWhole ==
  /\ img # NoImage => Signed(img[1]) /\ img[2] \in {OldKernel, NewKernel}
  /\ making = "made" => code <= BOOTSIZE /\ img = <<Sign(Text("code", code)), NewKernel>>
===============================================================================
