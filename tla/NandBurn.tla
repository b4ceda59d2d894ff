------------------------------ MODULE NandBurn ------------------------------
(***************************************************************************)
(* burn_image_loop (infotm/strategy/burn/burn.c) copying one image of an   *)
(* IUS package to a storage device, the NAND operations it calls           *)
(* (infotm/drivers/nand/nand_base.c), and the reader nnd_vs_read that      *)
(* fetches the image back when the system boots.                           *)
(*                                                                         *)
(* The writer and the reader never exchange the list of blocks they skip:  *)
(* each walks over the bad blocks on its own, and both must skip the same  *)
(* ones for the system to boot.                                            *)
(*                                                                         *)
(* Offsets and lengths are in units of which a page has PageSize.  The     *)
(* content of a page is the number of the source page it holds, or one of  *)
(* the markers below.                                                      *)
(***************************************************************************)
EXTENDS Integers, FiniteSets

CONSTANTS
  PageSize,    \* nand_config.pagesize
  SysInfo,     \* nand_config.sysinfosize: spare bytes fnd images carry per page
  Step,        \* IR_MAX_BUFFER, what one turn of the loop moves
  BlockSize,   \* nand_config.blocksize
  BootMin,     \* BL_SIZE_FIXED, the least size of a bnd image
  NBlocks,     \* blocks of the chip
  SkipMax,     \* 30 in nnd_vs_read: consecutive bad blocks a read steps over
  Devs,        \* output devices, a subset of AllDevs
  Offsets, Lengths, Maxes,   \* descriptor fields: offo, length, maxsize
  MaxIoErrors  \* bound: how many erase/program operations may fail

AllDevs == {"bnd", "nnd", "fnd", "mmc"}

ASSUME SizesAssumption ==
  /\ PageSize \in Nat \ {0} /\ Step \in Nat \ {0} /\ BlockSize \in Nat \ {0}
  /\ SysInfo \in Nat /\ BootMin \in Nat /\ NBlocks \in Nat \ {0}
  /\ SkipMax \in Nat /\ MaxIoErrors \in Nat

\* The sizes are powers of two in the code: a step is whole pages and a block
\* whole steps.
ASSUME StrideAssumption == Step % PageSize = 0 /\ BlockSize % Step = 0

ASSUME DescAssumption ==
  /\ Devs \subseteq AllDevs
  /\ Offsets \subseteq Nat /\ Lengths \subseteq Nat /\ Maxes \subseteq Nat

Blocks == 0 .. NBlocks - 1
Pages  == 0 .. ((NBlocks * BlockSize) \div PageSize) - 1

\* Markers for what a page can hold besides source page k \in Nat.
Erased == -1
Old    == -2     \* what was there before the burn
Torn   == -3     \* programmed without being erased, or a program that failed

VARIABLES
  pc,       \* where burn_image_loop or the reader stands
  desc,     \* the descriptor being burned
  bad,      \* blocks whose bad mark is set
  flash,    \* what every page holds
  offs_i, offs_o, remain, leeway,   \* locals of burn_image_loop
  ret,      \* its result
  ioerr,    \* how many erase/program operations have failed
  rd        \* the reader: start, remain, skip, pages read, result

vars == <<pc, desc, bad, flash, offs_i, offs_o, remain, leeway, ret, ioerr, rd>>

locals == <<offs_i, offs_o, remain, leeway>>

Desc == [dev : Devs, offo : Offsets, length : Lengths, max : Maxes,
         same : BOOLEAN, cfg : BOOLEAN]

---------------------------------------------------------------------------
(* The devices.                                                            *)

IsNand(dev) == dev \in {"bnd", "nnd", "fnd"}

vs_device_erasable(dev) == IsNand(dev)

fnd_align == PageSize + SysInfo
fnd_size_match(size) == size % fnd_align = 0
fnd_size_shrink(size) == (size \div fnd_align) * PageSize

BlockOf(o) == o \div BlockSize
BlockOfPage(p) == (p * PageSize) \div BlockSize

\* The blocks base_vs_erase visits: the range force-aligned to blocks.
EraseRange(start, size) ==
  LET n == (size + (start % BlockSize) + BlockSize - 1) \div BlockSize
  IN  BlockOf(start) .. BlockOf(start) + n - 1

\* fnd_vs_erase converts the size to main-area units; bnd_vs_erase scrubs.
EraseSize(dev, size) == IF dev = "fnd" THEN fnd_size_shrink(size) ELSE size

\* Pages a transfer of `length` starting at `start` touches, in order.
FirstPage(start) == start \div PageSize
PageCount(length) == length \div PageSize

\* Programming needs an erased page, except on the managed mmc device.
Program(dev, old, new) ==
  IF dev = "mmc" \/ old = Erased THEN new ELSE Torn

---------------------------------------------------------------------------
(* burn_image_loop.                                                        *)

StepOf(dev)    == IF dev = "fnd" THEN PageSize ELSE Step
SrcStepOf(dev) == IF dev = "fnd" THEN fnd_align ELSE Step
\* The source page a source offset falls in.
SrcPage(dev, o) == o \div (IF dev = "fnd" THEN fnd_align ELSE PageSize)

\* `remain` as the loop starts: shrunk for fnd, at least BootMin for bnd.
BurnLength(d) ==
  IF d.dev = "fnd" THEN fnd_size_shrink(d.length)
  ELSE IF d.dev = "bnd" /\ d.length < BootMin THEN BootMin
  ELSE d.length

\* What is erased is good blocks only, except that a scrub spares nothing.
ErasedBlocks(d) ==
  LET range == EraseRange(d.offo, EraseSize(d.dev, d.max))
  IN  IF d.dev = "bnd" THEN range ELSE range \ bad

vs_erase(d, failed) ==
  LET done == ErasedBlocks(d) \ failed
  IN  /\ flash' = [p \in Pages |-> IF BlockOfPage(p) \in done
                                   THEN Erased ELSE flash[p]]
      /\ bad' = IF d.dev = "bnd" THEN bad \ done ELSE bad

\* Entry: refuse a copy onto the source, then erase the output range.  The
\* result of the erase is not looked at.
Begin ==
  LET d == desc IN
  /\ pc = "idle"
  /\ IF d.same
       THEN /\ pc' = "done" /\ ret' = "same"
            /\ UNCHANGED <<flash, bad, ioerr>>
       ELSE /\ pc' = "setup" /\ UNCHANGED ret
            /\ IF vs_device_erasable(d.dev) /\ d.cfg
                 THEN \E failed \in SUBSET ErasedBlocks(d) :
                        /\ ioerr + Cardinality(failed) <= MaxIoErrors
                        /\ ioerr' = ioerr + Cardinality(failed)
                        /\ vs_erase(d, failed)
                 ELSE UNCHANGED <<flash, bad, ioerr>>
  /\ UNCHANGED <<desc, locals, rd>>

\* Sizes and the leeway; both refusals come after the erase.
Setup ==
  /\ pc = "setup"
  /\ offs_i' = 0
  /\ offs_o' = desc.offo
  /\ remain' = BurnLength(desc)
  /\ leeway' = desc.max - BurnLength(desc)
  /\ \/ /\ desc.dev = "fnd" /\ ~fnd_size_match(desc.length)
        /\ pc' = "done" /\ ret' = "mismatch"
     \/ /\ IsNand(desc.dev) /\ ~desc.cfg
        /\ pc' = "done" /\ ret' = "enocfg"
     \/ /\ desc.dev = "fnd" => fnd_size_match(desc.length)
        /\ IsNand(desc.dev) => desc.cfg
        /\ pc' = "loop" /\ UNCHANGED ret
  /\ UNCHANGED <<desc, bad, flash, ioerr, rd>>

\* Mutant: only the first block of the range is looked at.
AtBadBlock_FirstOnly ==
  /\ IsNand(desc.dev)
  /\ offs_o = desc.offo
  /\ BlockOf(offs_o) \in bad

\* The bad mark is looked at only when offs_o is at a block boundary.
AtBadBlock ==
  /\ IsNand(desc.dev)
  /\ offs_o % BlockSize = 0
  /\ BlockOf(offs_o) \in bad

\* Mutants: the guard dropped; one block too many kept back.
CanSkip_Always(room) == TRUE
CanSkip_KeepsTwo(room) == room > 2 * BlockSize

CanSkip(room) == room > BlockSize

\* Mutant: the skip is not charged.
AfterSkip_Free(room) == room

AfterSkip(room) == room - BlockSize

\* Mutant: the loop over vs_isbad forgets to move on.
SkipBad_Stuck ==
  /\ pc = "loop" /\ remain > 0
  /\ AtBadBlock
  /\ CanSkip(leeway)
  /\ UNCHANGED vars

SkipBad ==
  /\ pc = "loop" /\ remain > 0
  /\ AtBadBlock
  /\ CanSkip(leeway)
  /\ offs_o' = offs_o + BlockSize
  /\ leeway' = AfterSkip(leeway)
  /\ UNCHANGED <<pc, desc, bad, flash, offs_i, remain, ret, ioerr, rd>>

NoMoreGood ==
  /\ pc = "loop" /\ remain > 0
  /\ AtBadBlock
  /\ ~CanSkip(leeway)
  /\ pc' = "done" /\ ret' = "ebadblk"
  /\ UNCHANGED <<desc, bad, flash, locals, ioerr, rd>>

\* One step of data goes out whole, whatever `remain` says.  `good` pages of
\* it are programmed; fewer than all is a failed vs_write, whose result the
\* loop does not look at.
vs_write(good) ==
  LET first == FirstPage(offs_o)
      src   == SrcPage(desc.dev, offs_i)
  IN  flash' = [p \in Pages |->
                  IF first <= p /\ p < first + good
                    THEN Program(desc.dev, flash[p], src + (p - first))
                  ELSE IF p = first + good /\ good < PageCount(StepOf(desc.dev))
                    THEN Torn
                  ELSE flash[p]]

\* Mutant: the last, partial step takes a whole step off.
AfterStep_NoMin(left, step) == left - step

\* remain -= min(remain, step)
AfterStep(left, step) == IF left < step THEN 0 ELSE left - step

WriteStep ==
  /\ pc = "loop" /\ remain > 0
  /\ ~AtBadBlock
  /\ \E good \in 0 .. PageCount(StepOf(desc.dev)) :
       LET fails == IF good < PageCount(StepOf(desc.dev)) THEN 1 ELSE 0
       IN  /\ ioerr + fails <= MaxIoErrors
           /\ ioerr' = ioerr + fails
           /\ vs_write(good)
  /\ offs_o' = offs_o + StepOf(desc.dev)
  /\ offs_i' = offs_i + SrcStepOf(desc.dev)
  /\ remain' = AfterStep(remain, StepOf(desc.dev))
  /\ UNCHANGED <<pc, desc, bad, leeway, ret, rd>>

Finish ==
  /\ pc = "loop" /\ remain = 0
  /\ pc' = "done" /\ ret' = "ok"
  /\ UNCHANGED <<desc, bad, flash, locals, ioerr, rd>>

\* Power is lost at any point of the burn; what is on the device stays.
PowerCut ==
  /\ pc \in {"setup", "loop"}
  /\ pc' = "done" /\ ret' = "powercut"
  /\ UNCHANGED <<desc, bad, flash, locals, ioerr, rd>>

---------------------------------------------------------------------------
(* nnd_vs_read, called by load_image through vs_read, which rounds the     *)
(* length up to whole pages.                                               *)

ImagePages(d) == (BurnLength(d) + PageSize - 1) \div PageSize

ReadBegin ==
  /\ pc = "done" /\ desc.dev = "nnd" /\ desc.cfg
  /\ pc' = "read"
  /\ rd' = [start |-> desc.offo, remain |-> ImagePages(desc) * PageSize,
            skip |-> 0, data |-> {}, count |-> 0, ret |-> "none"]
  /\ UNCHANGED <<desc, bad, flash, locals, ret, ioerr>>

\* Mutant: the reader does not look at the bad marks.
ReadAtBad_Never == FALSE

ReadAtBad == BlockOf(rd.start) \in bad

ReadSkip ==
  /\ pc = "read" /\ rd.remain > 0
  /\ ReadAtBad
  /\ IF rd.skip > SkipMax
       THEN pc' = "end" /\ rd' = [rd EXCEPT !.ret = "error"]
       ELSE /\ pc' = pc
            /\ rd' = [rd EXCEPT !.start = @ + BlockSize, !.skip = @ + 1]
  /\ UNCHANGED <<desc, bad, flash, locals, ret, ioerr>>

\* base_vs_read of what is left of the block; a torn page fails its ECC.
ReadChunk ==
  LET left  == BlockSize - (rd.start % BlockSize)
      w     == IF left < rd.remain THEN left ELSE rd.remain
      first == FirstPage(rd.start)
      got   == {p \in Pages : first <= p /\ p < first + PageCount(w)}
  IN  /\ pc = "read" /\ rd.remain > 0
      /\ ~ReadAtBad
      /\ IF \E p \in got : flash[p] = Torn
           THEN pc' = "end" /\ rd' = [rd EXCEPT !.ret = "error"]
           ELSE /\ pc' = pc
                /\ rd' = [rd EXCEPT
                     !.data = @ \cup {<<rd.count + (p - first), flash[p]>> : p \in got},
                     !.count = @ + PageCount(w),
                     !.start = @ + w, !.remain = @ - w, !.skip = 0]
      /\ UNCHANGED <<desc, bad, flash, locals, ret, ioerr>>

ReadEnd ==
  /\ pc = "read" /\ rd.remain = 0
  /\ pc' = "end" /\ rd' = [rd EXCEPT !.ret = "ok"]
  /\ UNCHANGED <<desc, bad, flash, locals, ret, ioerr>>

---------------------------------------------------------------------------
NoRead == [start |-> 0, remain |-> 0, skip |-> 0, data |-> {}, count |-> 0,
           ret |-> "none"]

\* A descriptor a caller can pass: only a copy between mmc devices can have
\* its source as its output; burn_images resets the output device first, which
\* fails without a chip configuration, and burn_single_image, which does not,
\* only burns to bnd and nnd.
CallerDesc ==
  {d \in Desc : (d.same => d.dev = "mmc") /\ (~d.cfg => d.dev \in {"bnd", "nnd"})}

Init ==
  /\ pc = "idle"
  /\ desc \in CallerDesc
  /\ bad \in SUBSET Blocks
  /\ flash = [p \in Pages |-> Old]
  /\ offs_i = 0 /\ offs_o = 0 /\ remain = 0 /\ leeway = 0
  /\ ret = "none" /\ ioerr = 0
  /\ rd = NoRead

BurnNext ==
  \/ Begin
  \/ Setup
  \/ SkipBad
  \/ NoMoreGood
  \/ WriteStep
  \/ Finish

ReadNext ==
  \/ ReadBegin
  \/ ReadSkip
  \/ ReadChunk
  \/ ReadEnd

Next == BurnNext \/ PowerCut \/ ReadNext

Spec == Init /\ [][Next]_vars

\* burn_image_loop is one thread that runs until it returns.
FairSpec == Spec /\ WF_vars(BurnNext)

---------------------------------------------------------------------------
(* Properties.                                                             *)

Results == {"none", "ok", "same", "mismatch", "enocfg", "ebadblk", "powercut"}

\* Type invariant: the locals of burn_image_loop keep their types; leeway is
\* the one that may go below zero, when the image is larger than its range.
TypeOK ==
  /\ pc \in {"idle", "setup", "loop", "done", "read", "end"}
  /\ desc \in CallerDesc
  /\ bad \subseteq Blocks
  /\ flash \in [Pages -> Int]
  /\ offs_i \in Nat /\ offs_o \in Nat /\ remain \in Nat /\ leeway \in Int
  /\ ret \in Results
  /\ ioerr \in 0 .. MaxIoErrors

\* The image is no larger than its range and starts where the loop's own
\* stride can meet every block boundary.
Fits(d)    == BurnLength(d) <= d.max
OnStride(d) == d.offo % StepOf(d.dev) = 0
\* Block-aligned, or the first block, which the loop does not look at, is good.
StartsWell(d) == OnStride(d) /\ (d.offo % BlockSize = 0 \/ BlockOf(d.offo) \notin bad)

\* What the loop variables mean (burn.c:111-172): as long as data remains, the
\* offset reached, the data to come and the leeway add up to the end of the
\* range, however many blocks were skipped; an image that fits never runs the
\* leeway below zero.
Accounting ==
  pc = "loop" =>
    /\ remain > 0 => offs_o + remain + leeway = desc.offo + desc.max
    /\ Fits(desc) => leeway >= 0

\* A burn changes no block outside the blocks of [offo, offo + max): what is
\* next to an image survives its burn, however many bad blocks are skipped
\* and wherever power fails (burn.c:60-63 and 151-165).
StaysInRange ==
  [][Fits(desc) /\ OnStride(desc) =>
       \A p \in Pages : flash'[p] # flash[p] =>
         BlockOfPage(p) \in EraseRange(desc.offo, desc.max)]_vars

\* No page of a block marked bad is programmed (burn.c:138-163).
NeverProgramsBad ==
  [][IsNand(desc.dev) /\ StartsWell(desc) =>
       \A p \in Pages : flash'[p] # flash[p] /\ flash'[p] # Erased =>
         BlockOfPage(p) \notin bad]_vars

\* Where page k of an image belongs: the k-th page of the good blocks.
GoodPages(d) ==
  {p \in Pages : p >= FirstPage(d.offo)
                 /\ (IsNand(d.dev) => BlockOfPage(p) \notin bad)}
HomeOf(d, k) ==
  CHOOSE p \in GoodPages(d) : Cardinality({q \in GoodPages(d) : q < p}) = k

LaidOut(d) ==
  \A k \in 0 .. ImagePages(d) - 1 : flash[HomeOf(d, k)] = k

BurnSucceeded ==
  ret = "ok" /\ ioerr = 0 /\ Fits(desc) /\ StartsWell(desc)

\* A burn of an image with spare data that returns 0, no device operation
\* having failed, has laid the image over the good blocks of its range, in
\* order, as the comment in burn.c:142-144 promises for every NAND device: "if
\* the leeway used up the write process is failed".
FndBurnedLayout ==
  pc = "done" /\ BurnSucceeded /\ desc.dev = "fnd" => LaidOut(desc)

\* -EBADBLK is returned only when the good blocks of the range have no whole
\* block of room beyond the image.  A range whose good blocks just hold it may
\* be refused: the last block of leeway is not used (leeway > skip,
\* burn.c:153-160).
RefusesOnlyWhenFull ==
  pc = "done" /\ ret = "ebadblk" /\ desc.offo % BlockSize = 0 =>
    BlockSize * Cardinality(EraseRange(desc.offo, desc.max) \ bad)
      < BurnLength(desc) + BlockSize

\* The loop of burn_image_loop ends whatever the bad blocks are
\* (burn.c:115 and 152).
BurnEnds == <>(pc \in {"done", "read", "end"})
=============================================================================
