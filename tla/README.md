# A TLA+ model of the InfoTM bootloader

The repository is U-Boot 2009 with InfoTM's own boot loader code for the
iMAPx800 (`imapx800-develop/`; paths below are relative to it).  Upstream U-Boot
is left alone here.  What is modelled is the code InfoTM wrote on top of it: what
decides how the machine starts, and what writes its flash.  The build looked at
is `include/configs/imapx820.h`: verification of images at boot off
(`verify=no`), environment not stored, fastboot on.

## Inventory

| component | source | state | operations | what is hard |
|---|---|---|---|---|
| burn loop, NAND access | `infotm/strategy/burn/burn.c`, `infotm/drivers/nand/nand_base.c` | descriptor, `offs_i`, `offs_o`, `remain`, `leeway`; flash pages, bad marks | `burn_image_loop`, `vs_erase`, `vs_write`, `vs_isbad`, `nnd_vs_read` | bad blocks, failing operations nobody looks at, power cuts, a reader that repeats the writer's walk without knowing it |
| boot sequence | `common/main.c`, `infotm/strategy/boots/bootl.c`, `nand_spl/.../boot_main.c`, `infotm/drivers/pmu/batt_imapx800.c` | boot type, RTC registers INFO4 and INFO6, power-up status, skip word in DRAM | `boot_main`, `boot_verify_type`, `abortboot`, `burn`, `batt_main`, `bootl`, `load_image` | requests that must survive one reset and not two; power cuts between any two steps; alternates |
| update from separate files | `infotm/strategy/burn/seperate.c` | card content, boot type | `try_seperate_source`, `update_images`, `burn_single_image` | the boot type a card leads to |
| IUW server | `infotm/strategy/iuw/*.c` | one packet buffer, locals of `iuw_process_rw` | handshakes, reads, writes, hash, cipher, identification, partition images | two sides without buffers, counting handshakes on their own |
| fastboot server | `infotm/commands/cmd_fastboot.c`, `infotm/strategy/fastboot/fastboot.c` | `download_size`, `download_bytes`, transfer and command buffers | `rx_handler` and its commands | short and abandoned transfers, replies that are one too many |
| USB device controller | `infotm/drivers/udc/imapx800_udc.c` | one transfer | `udc_read`, `udc_write` | no time limit, length received not reported |
| virtual storage | `infotm/strategy/vstorage/vstorage.c` and the drivers' `*_vs_*` entries | current device | `vs_assign_by_id`, `vs_read`, `vs_write`, ... | unaligned ends of a read, one of three device reads failing, counts that are no byte counts |
| partition layout | `infotm/strategy/burn/storage.c`, `block.c` | partition sizes, tables, MBR, configuration sector | `storage_part`, `block_partition`, `storage_offset`, ... | arithmetic in two units done in place, tables written one by one, bases recorded apart from the tables |
| sparse images | `infotm/strategy/burn/sparse.c`, `burn_extra.c` | copy buffer and places in it, in the package and in the target | `sparse_burn`, `get_data_from_source`, `process_*_chunk` | refills that move the buffer, headers cut by its end, sources that miscount |
| yaffs images | `infotm/strategy/burn/yaffs.c`, `yaffs_conv.c`, `burn_extra.c` | page buffer, group being put together, place in the partition | `yaffs_burn`, `yaffs_conv`, `page_fit`, `yaffs_put_page` | tags that lie where the next page goes, bad blocks that use up the partition |
| headers and items | `infotm/strategy/{ius,isi,items}` | none after start-up | accessors, CRCs | - |

How they interact: the SPL starts U-Boot, `main_loop` reads the RTC registers and
the skip word, looks for an update card (`burn`, `try_seperate_source`), checks the
battery and calls `bootl`, which loads a kernel and a ramdisk through the virtual
storage layer.  `burn` and `update_images` write images with `burn_image_loop`;
partition images of a package go through `burn_extra`, which lays out the disk
(`storage_part`) and feeds the sparse decoder on block devices and the yaffs
converter on NAND.
From the shell or by a key the fastboot server runs instead; a machine without a
system serves a PC by IUW.  Both talk through `udc_read` and `udc_write`.
Nothing runs in parallel on the device: concurrency is between the device and the
PC, and between the device and the power supply.

The properties that make each part correct: *burn* - an image ends up where its
reader looks for it and nowhere else; *boot* - a request is honoured once, a torn
image is replaced by its alternate, every start ends in a kernel, a shutdown, a
shell, or a halt that has its reason; *update* - a recovery system that a card renewed is
the one that starts next; *storage* - a read delivers the bytes
asked for and an honest result; *layout* - tables, recorded bases and the disk agree;
*decoders* - what is written is what the image decodes to; *IUW, fastboot* - both sides agree on
whose turn it is, and what is stored is what was sent.

## Modules

**NandBurn** models `burn_image_loop` with the NAND operations it calls, one
action per part of the function (`Begin` refuses or erases, `Setup` computes the
sizes, `SkipBad`, `NoMoreGood`, `WriteStep` and `Finish` are the loop), `PowerCut`,
and `nnd_vs_read` as it walks the same range afterwards.  A page holds the number
of the source page it was given, or `Erased`, `Old`, or `Torn`.  Offsets keep the
code's arithmetic (`% BlockSize` where the code masks).  Every erase or program
may fail, up to `MaxIoErrors` times; the code does not look at the results, nor
does the model.

**ImageSlot** is what burner and reader promise together, without pages, blocks
or bad marks: a slot holds what was there before, something in between, or the
image; a burn that says "ok" and met no fault has left the image, and a load then
returns it or an error.  **NandBurnSlot** has the refinement mapping: `content` is
the image when the pages lie over the good blocks in order (`LaidOut`), `burn` is
read off the program counter and the result, `fault` is a failed device operation
or a request outside of what the code supports (a range too small or off the end of the
chip, a start in a bad block, images with spare data, for which `nand_burn_fnd` shows the
promise broken).

**BootFlow** models a machine through several starts: `PowerOn`, `LinuxReboot`,
`LinuxSuspend`, `LinuxOff` and `PowerCut` are the outside; `Spl`,
`boot_verify_type`, `abortboot`, `burn`, `try_seperate_source`, `BattSkips` and
`BattChecks`, `RecoveryKey`, `bootl_*` the code in its order.  An image on the
store is good, torn or missing; keys and the card are chosen freely.  Where
`boot_verify_type` returns an uninitialised value the model takes either.  Of U-Boot's
`bootm` only one thing counts here: it starts a good pair of images, and it may return for
one whose body could not be read (or reset the machine, `BootmReset`), whereupon
`do_boot` halts (`bootl.c:190-197`).  `hist.renewed` remembers that this start has written
a recovery image.
**MCBootFlow** has the boards, cards and file sets for TLC.

**Iuw** models `iuw_connect` and `iuw_server` against a PC.  `dpc` is where the
device stands in the functions of `iuw_base.c`; each transfer is a step.  A side
that writes waits until the other reads, as `udc_write` and `udc_read` do.  `pack`
is the one buffer, overwritten by handshakes.  Storage, memory and NAND commands
are `wr` and `rd`, encryption with the PC's key is `enckey`, the device's own `enc`;
partition images take the NAND path.  The first chunk of any command that takes data may
be a secure isi image: from there on `encrypt` holds and every chunk is encrypted in the
buffer before it is stored, hashed or ciphered (`iuw_base.c:436-449`).  With the fault `io` a
read or write of the device fails; `iuw_local_rw` and `yaffs_put_page` drop the result,
so that the chunk is `Lost`, or the buffer sent as it was, and the session goes on.  The
crypto engine is taken to be there (`ECFG_ENABLE_CRYPTO`); which key it uses is left
out, as is the padding of the last chunk.  The PC (actions `Host...`) is external: it
does what the device's side of the protocol requires, and repeats the length of
its command in READY packets, because `iuw_extra` reads it there.

**Fastboot** models `fastboot`, `rx_handler` and its commands in the same way.
`rx` is what `udc_read` still wants: it reads in pieces, and a short packet ends a
piece.  Images have a kind and are whole or not.  `adr` has erased the partition before it
fails, so that a failing one leaves a part of the image there (`hist.torn`) under a reply
of OKAY.  The PC may be stopped at any time (`HostAbort`), also while the device waits in
`udc_write`; the next command then meets a reply nobody has read.  The cable is
always there: `udc_get_cable_state` returns 1 and `cable_in`, which the transfers look
at, is set to 1 and never changed (`imapx800_udc.c:830-833, 899`).  The new enumeration
after `setserial` is left out.

**VsRead** has the arithmetic of `vs_read` (head, middle and tail of a request)
and the counts the drivers answer, for the two modules that use them.
**VStorage** models the layer itself: the current device, `vs_write`, and `vs_read`
with one action per part, each a driver call that may fail.  A byte of a device is
its offset, so that a wrong byte is a wrong number.  The ramdisk's driver never fails but
refuses what starts below `IUS_DEFAULT_LOCATION`: it answers 0 and moves nothing (`Denied`).

**Partition** models `storage_part` from the configured sizes to the three kinds of
sectors it writes.  `storage_get_new_config`, `reformat_part_size` and
`init_part_location` are one action each; `WriteLogical`, `WriteMbr` and `WriteConfig`
are separate, because `Restart` may come between them and bring another
configuration.  Arithmetic is modulo 2^32 where the code's is; what the code reads
from fresh memory is `Junk`.  `dirty` remembers that the tables on the disk are not those
of the MBR: one is newer or was lost, or its place was computed from a size that
`init_part_location` did not fill in (`Unfilled`).  With eight partitions leaving out
local runs over the end of `sectors` (`LeaveOutLocal`): the last size then comes from what
lies behind the array, fresh memory or `spare_area`, and that is cleared; `RunsOver` names
the case.  **MCPartition** has configurations and disks.

**Sparse** models `sparse_burn` reading through `get_data_from_source` and
`ius_sparse_data` from a card or from memory; the reads use VsRead.  A byte of the
image is its place in the stream, the copy buffer a sequence of such places.  An image
comes with two tables that follow from its chunks: where each lies in the stream (`pos`)
and where it goes on the target (`out`); `ImageAssumption` says so, and that the image is not
cut off in a header or in the value of a checksum.  A chunk may be `bogus`: its
`total_sz`, which says where the next one lies, is not what the decoder takes for its type.
The code compares the two for raw, fill and don't-care chunks only; behind a checksum
of a wrong size, or an unknown chunk with anything behind its header, it goes on
decoding at the wrong place (`sparse.c:443-475`, `NextChunk`).  When the
decoder takes for a header what is none, there or in the bytes of a failed read, anything
may follow: it is then `lost`, and nothing is claimed but that no sector outside of the
target was written.
**MCSparse** has the images.

**Yaffs** models `yaffs_conv` over its page buffer, in cells of an input page, and
`yaffs_put_page` over the bad blocks.  Where an object begins, in the image and on the
flash, is a sum over the objects before it; `SumTo` writes it as the size of a set, which
can be reasoned about without recursion.  `Full` is the byte count of a whole chunk.
Device operations work here: that `yaffs_put_page` drops the result of its write
(`yaffs.c:56`) is part of Iuw, where a lost page is one the PC is not told of.
**MCYaffs** has the images.

**NandBurnProof**, **BootFlowProof**, **FastbootProof**, **IuwProof**,
**VStorageProof**, **PartitionProof**, **SparseProof** and **YaffsProof** have the theorems
about the modules they are named after (NandBurnProof also about NandBurnSlot); see Proofs.

How they compose: Sparse and VStorage share VsRead; NandBurnSlot ties burner and
reader of NandBurn to ImageSlot, and BootFlow uses an image the way ImageSlot
presents it (good, torn, or with a bad header).  BootFlow's system disk is the NAND;
see the disagreements for cards.

## Runs

Every passing run takes two minutes or less.

| run | shows | bounds |
|---|---|---|
| `nand_burn` | accounting of the loop, range, bad blocks, refusals, termination, and that burner and reader implement ImageSlot | 5 blocks of 4 pages, every set of bad blocks, aligned and half-aligned starts, images smaller, equal and larger than a block, ranges too small, exact and with leeway, one failing operation; all four devices |
| `nand_burn_fnd` | violation: a yaffs image is written past what was erased | one descriptor is enough |
| `boot_images` | torn images, cards of every kind, alternates, halts and their reasons, renewed recovery systems, every boot settles | two starts: what one start leaves is seen by the next; two faults: both images of a pair |
| `boot_requests` | requests in RTC registers and skip word | three starts: one to leave a request, one to honour it, one to see that it is gone |
| `boot_unread` | violation: an unreadable body counts as loaded | as `boot_images` |
| `iuw` | both sides in step, results, refusals, end of session, with failing reads and writes, plain and secure images | three commands of every kind of one or two chunks: a command after one that failed, and one after that |
| `fastboot` | partitions, replies, buffer limit, what an OKAY means | four commands: download, spoil, download, flash; sizes around the buffer size, the page size and the piece size; the PC stopped anywhere |
| `vstorage` | `ReadExact`: the bytes asked for and no other memory; `HonestResult`: failures and counts | units of 4 and 8, starts on, before and behind a unit, lengths from nothing to several units; the ramdisk's limit at 8, so that requests lie below, across and above it; three operations (select, write, read back), one failure |
| `partition` | `TablesInv`: the chain of tables; `SoundLayout`: overlaps and the end of the disk; `RecordedBases` | thirteen configurations that reach every branch of `reformat_part_size`, six disks (too small, ending inside the first logical table, less than 32 MB over, ample, odd); 64 blocks to the MB and words of 24 bits, as TLC's integers end before 2^32; two starts, one lost write |
| `partition_inside` | violation: local ends behind the disk | the same |
| `sparse` | `StreamInv`: the copy buffer; `Decoded`, `LostOnlyAstray`, `StaysInTarget`, `BurnEnds` | sector 4, step 16, buffer 64, so that the step is the square of the sector and a quarter of the buffer as in the code; every image of three chunks of five kinds, a chunk of each kind with a wrong size in each place, raw chunks larger than the buffer, and one image (`Split`) with chunk headers across the ends of steps; two failures |
| `yaffs` | `ConversionInv`: data and tags of every page; `OnFlash`: where it lies | objects of 0, 1, 2, 3, 4 and 6 chunks, NAND pages of 1, 2 and 4 input pages, 5 blocks, up to 2 bad |

`SessionInv`, `ReadExact`, `TablesInv`, `SoundLayout`, `StreamInv` and
`ConversionInv` are conjunctions of named parts; each part has its own comment.

Each property of a passing run comes with a mutant of the code it fails for
(`PROJECT.json`).

The properties of `iuw` and `fastboot` name the ways in which the code blocks:
`ErrorMeetsData` (the device writes ERROR while the PC writes data),
`Unanswered` (no NAND configuration), `Swallowing` (an abandoned download eats
commands), the second reply of `boot` and of `flash:system`, and a reply that the PC
was stopped before reading.  In every other case sessions end and commands are answered.

Deadlock checking is off: a burn ends, a session ends, a machine is switched off.

What the properties of the storage modules except, because the code has no defence:
`ReachesBoundary` (a request shorter than the way to the next unit, which makes a
length negative; no caller of this build makes one), a ramdisk read that starts below the
limit and ends above it (its length is answered although its start was not
read), `nomem` (a fill buffer that
could not be allocated), `spoiled` (bytes of a failed read that were used, or a
failed write), `Starved` (a card that answers the end of an image short when there is
no room to ask again), `lost` in Sparse (the decoder off its place, exactly when
`LostOnlyAstray` says), `Closing` (the tags of the last open group of a yaffs image), `lost`
in Partition (a table that was not written), `RunsOver` (the array overrun above), and
`Fits` (sizes that exceed the disk, which the code does not always notice), this one only
where the end of the disk is concerned: partitions do not overlap even then.

## Fairness

`burn_image_loop`, `sparse_burn`, the boot sequence and both servers are single loops that poll and
never sleep, so weak fairness of the device's steps is what the code gives.
For the PC `Iuw` assumes weak fairness of its program as a whole, `Fastboot` only
that it reads its replies and sends the data it announced.  Keys, power and
cards have none.

## Proofs

Each proof module extends the module it is about and holds its theorems for every
value of the constants that satisfies the named assumptions there.  An invariant
that a run checks is seldom inductive; what each module adds to it, and why, is the
substance of the proof.

**NandBurnProof** (`SizesAssumption`, `StrideAssumption`, `DescAssumption`: sizes are
positive, a step is whole pages, a block whole steps; the code's sizes are powers of
two).  `TypeCorrect`, `LoopInvariant`, `AccountingHolds`, `RangeRespected`,
`BadBlocksSpared`, `RefusalsAreRight`.  `Accounting` alone says what the locals add
up to.  To conclude where a step writes it also takes that the offset is at or after
the start and on the stride of the loop (so that a step stays within one block) and
that a block the loop is in the middle of has been found good (`InsideGood`), because
the code looks at the mark only at block boundaries.  These are `LoopInv`, and
`IInv == TypeOK /\ Accounting /\ LoopInv` is inductive.  The lemmas `StrideInBlock`,
`StepPages`, `InEraseRange` and `EraseRangeMono` carry the arithmetic from offsets to
blocks and pages; the theorems about steps look at `Begin` and `WriteStep`, the only
actions that change the flash.  That refusals are right takes `Charged` as well: the
leeway lost so far is at most a block for each bad block behind the offset, a count of
a set that grows by one with every `SkipBad`.

`SlotImplemented` is the refinement: NandBurn implements ImageSlot under the mapping of
NandBurnSlot.  It rests on `SameWalk`, the invariant `SlotInv == IInv /\ BurnInv /\
ReadInv`.  `Rank(p)` counts the good pages before `p`; while no fault has occurred the
source offset of the loop is the rank of its output offset and that many pages of the
image lie on as many good pages (`Progress`), and the reader has collected as many pages
as the rank of its own offset (`ReadProgress`).  Neither walk knows of the other: that both
are tied to the same count is why they meet.  Over a run of good pages the count grows by
their number (`RankRun`) and over a bad block not at all (`RankGap`), so no induction over
the flash is needed.  Then every step of NandBurn is a step of ImageSlot or changes nothing in it
(`SlotBegin`, `SlotWork`, `SlotSucceed`, `SlotFail`, `SlotRead`, `SlotQuiet`).

**BootFlowProof** (`BootAssumption`: only what kinds of things the constants are).
`TypesHold`; `RequestReachesSystem`, `ChargerModeHasReason`, `TagConsumed`,
`HaltHasReason`; the action properties `MarkedResetSparesImages`,
`MarkedResetSkipsCheck`, `RenewedRecoveryIsStarted`.  The properties speak of the end of a
start; `Safe` follows each request on its way: the tag is gone past `abortboot`
(`TagInv`), the skip buffer says how this start came about until `batt_main` has
answered (`SkipInv`), a recovery request is first in the register, then in `boottype`,
then in the ramdisk, then in the running system, which a suspend keeps
(`RequestInv`), and charger mode has its reason from `boot_verify_type` on
(`ChargerInv`); a start that has renewed the recovery system keeps it through
battery check, keys and the choice of images (`RenewInv`); and a kernel is looked for only
when a ramdisk was found (`LoadInv`).  The number of starts and of torn images is not
bounded.

**FastbootProof** (`FastbootAssumption`).  `ServerTypes`, `OkayIsTrue`,
`OneSideWrites`, `DataStaysData`, and `LatestIsFlashed`, an action property.
`ServerInv` adds what may be on its way: nothing, one reply, or two replies to a
command that is answered twice (`DataTypes`); that a side which has sent something
waits, unless the PC was stopped (`Turns`); that a download is under way from its DATA
reply to its last piece (`Expected`); and that what the buffer keeps is the last thing
asked for (`Latest`).  `OkayIsTrue` needs more: the PC cannot see which image the buffer
holds, only which of its transfers ended well, and `InStep`, `Kept` and `Told` tie the
two together from the download to the reply to the flash.

**IuwProof** (`IuwAssumption`).  `SidesInStep`, `RefusalTouchesNothing`,
`DataNotDispatched`, `OneSideWrites`, `StoredAsSent`, `ComputedFromInput`.  `PhaseInv`
is a table: for each place of the PC, where the device can be, what is on the wire and
by how much the two counts of chunks differ.  It is inductive by looking at every step
in every row, one lemma per row or action.  On top of it `Bounds`, `OnWire`,
`WriteInv`, `HashInv`, `EncInv` and `ImageInv` say which of the chunks are stored, `Lost`, fed
to the engines or back at the PC, and `ModeInv` that `encrypt` is what the first chunk
said; they need the table to know that the chunk in the
one buffer is the one the counts stand for.

**VStorageProof** (`UnitAssumption`, `RequestAssumption`).  `ReadsAreExact` and
`ResultsAreHonest`.  `ReadInv` says at each of the three parts of `vs_read` what the
locals are and that what is before the place in the caller's memory is there and nothing
behind it; the lemma `Cut` makes the parts meet.  What the ramdisk refuses is added up
like a failure that no part reports.  Every unit size, start and length, and every
limit of the ramdisk on a unit boundary.

**PartitionProof** (`LayoutAssumption`: a MB and the word are whole 0x40 blocks, the number
of blocks of a disk fits an int, as `block_partition` takes it; `SizeAssumption`: no
configured size is above a sixteenth of the word, 128 GB, so that adding the sizes up does
not overflow; `AbsentAssumption`: the mark of a missing sector is not a sector).  `TablesHold`,
`LayoutSound`, `BasesRecorded`, for every configuration, disk, content of fresh memory and
number of starts and failures.  The inductive invariant `IInv` (theorem `LayoutInv`) follows the layout
from stage to stage: the sizes read, in MB, with what they add up to (`SizesRead`); in
blocks, where `InBlocks` says which of them are whole 0x40 blocks, which are not 0, that
no table that can be written lies behind the end of the word, and what the size of the
extended partition covers; the places, which follow each other without a gap (`Located`);
and how many tables are on the disk (`Tabled`).  Apart from the stages, `Chained` says that
an MBR that is newer than the tables leads through them, which is what survives a restart.
One lemma for each branch of `reformat_part_size` (`RefusedBlocks`, `GivenBlocks`,
`RestBlocks`, `LeftOutBlocks`) carries the unsigned subtractions from MB to blocks.

Three statements about the code came out of failed attempts at these proofs and corrected
the model: a table may be placed by a size that was never filled in (`Unfilled`), the array
overrun may hit `spare_area`, and userdata is not found (-1) on a disk that ends inside the
first logical table.  `PartitionsApart` in turn needs no `Fits`.

**YaffsProof** (`YaffsAssumption`).  `PagesFindTheirPlace` and `ConversionHolds`, for every
image, every ratio of page sizes, every partition and set of bad blocks.

* `PagesFindTheirPlace`: `PlaceInv` says that the pages put so far lie on the first good
  pages, that the rank of the place is their number or no good page is left, and that the
  place and what is left of the partition add up to the partition (`Placed`); `SkipsTo` is
  what the loop over bad blocks reaches.
* `ConversionHolds`: `ConvInv` says which object, group and chunk the converter stands at
  and what the cells of its page buffer hold of it (`Reading`), and that every page put
  has the data and tags of its place (`AllGood`).  That a place in the image belongs to one
  object and one chunk of it follows from `SumStep` and `Stretch`; where a least object is
  needed, `Least` finds it without an induction scheme.

**SparseProof** (`UnitAssumption`, `SparseAssumption` and `ImageAssumption`: a step is a sector
squared, 512 * 512 in the code; the buffer is at least two whole steps, four in the
code; headers fit in a sector; blocks are whole sectors; the tables `pos` and `out` of
an image are the running sums of its chunks, and headers and checksums are not cut off).  The
images, of any length and with chunks of wrong sizes, and the
number of failures are not bounded.  `RamCount` and `CardCount` say what the drivers'
counts come to for the requests of the decoder.

* `BufferIsStream`: `SInv` adds to `StreamInv` where the decoder stands in a chunk
  (`Places`), that package, buffer and source agree on what is left and that memory is
  read from sector boundaries (`Supply`), and that a read is only made with room for a
  step behind the buffer (`Reading`), which is what "will not overflow the copy
  buffer" rests on.
* `BurnsTheImage`: `DInv` adds that `target.index` follows the chunks (`Target`) and
  that at every moment the sectors before it are the decoded ones and those behind it
  untouched (`Written`).
* `TargetRespected`: from `DInv`, as a write ends at `target.index`.
* `RefusesOnlyBadImages`: `LInv` adds that the loop asks for what the decoder needs
  next and ends with it, or starved (`Fed`), and that all chunks the decoder has left
  behind had the right size (`Sound`), so that a wrong one it meets is the first
  (`FirstIsOne`).  From these follows for which images it is lost, for which it refuses, and
  that it burns all others to the end.  The exception `Starved` came out of this proof;
  see the disagreements.

Only model-checked: liveness (`BootSettles`, `CommandAnswered`, `SessionEnds`, and
`BurnEnds` of NandBurn and of Sparse), which the prover does not do under fairness.  Every
other property of a passing run is a theorem.

## Disagreements found

With a run: the leeway of yaffs images (`nand_burn_fnd`), the unsigned comparison in
`load_image` (`boot_unread`), the local partition that ends behind the disk
(`partition_inside`); see `PROJECT.json`.

Seen while modelling, without a run of their own:

* burn: off the 16 KB stride no block is ever checked, although the comment at
  `burn.c:146-150` speaks of the first one only;
* update: a card with only early images (0 to 6) boots normally, although
  `seperate.c:308` says "if there is any image, system boot in recovery mode directly";
* boot: an uninitialised power-on reason reaches the battery check (`bootl.c:203`);
  `getenv("boottype")` may be NULL at `main.c:562`; a bad burn of a package still ends
  in a factory start (`burn.c:323`); an image with a good header and a body that could
  not be read halts the machine when `bootm` returns, although its alternate is good
  (`bootl.c:190-197`);
* IUW: the PC's ERROR in a handshake counts as READY over USB, because `udc_read`
  returns 0 (`iuw_base.c:175`); pages without a good block are lost and the PC is told
  that all is well (`yaffs_conv.c:46`), and so are chunks whose write fails
  (`iuw_base.c:467-469`, `yaffs.c:56`), while of a failing read the PC gets the buffer
  as it was; a secure image is encrypted before any command, also before it is
  hashed or ciphered, which the TODO at `iuw_base.c:436` admits; a NAND command without
  configuration is not
  answered (`iuw_base.c:376`); an error in the middle of data blocks both sides
  (`iuw_base.c:460`); `iuw_extra` takes the length from a buffer it has overwritten
  (`iuw_extra.c:124`); a packet that is no command is reported and dispatched
  (`iuw_base.c:538`); the last, partial chunk is written with the full step
  (`iuw_base.c:469`); a sparse image over USB never gets past its header, and a
  yaffs image whose length is not a multiple of 2064 does not end (`iuw_extra.c:74`);
* fastboot: a download cut short is answered OKAY (`fastboot.c:44`,
  `cmd_fastboot.c:161`); `boot` of a bad image replies twice (`cmd_fastboot.c:398`);
  `bootos` is shadowed by `boot` (`cmd_fastboot.c:591`); `flash:logo` never matches
  after a download (`cmd_fastboot.c:520`); a failed `adr` is OKAY (`cmd_fastboot.c:487`)
  over a partition that is erased and partly written;
* storage: the mmc entries answer blocks asked times blocks read (`mmc.c:1184-1196`),
  a byte count only for 512 blocks.  The sparse source gets by because its step is 512
  sectors; `load_image` reads a header of 0x1000 bytes, gets 64 and refuses it, so a
  system on a card does not start this way (`bootl.c:53-57`); the ramdisk answers 0 below
  16 MB instead of an error (`ramdisk.c:14-17, 33-36`), which a `vs_read` cut in parts
  may add to a count that looks complete;
* layout: `block_partition` ignores the refusals of `reformat_part_size`; the spare
  area is missing in the first of its checks, so that `sectors[3]` may wrap; a
  configured local size is never checked; "partnum will never be 5" (`block.c:276`) is
  false; with 6 or 7 partitions the last one is recorded under `add2`; eight
  partitions read `sectors[8]` and clear it when local is left out (`block.c:86-90`), and seven configured ones look at `default_cfg[17]`;
  sizes below 10M count as gigabytes, the M being cut off before (`storage.c:94,75`);
  the comments name `part.user`, the code reads `part.userdata`, and `burn_extra` asks
  for `user`, which no entry matches, so that a user image is always refused; on NAND
  `item_integer`'s -ITEMS_EINT is compared with +ITEMS_EINT (`storage.c:195,239`), so
  that the default sizes are never used there;
* sparse: fill buffers are never freed, and `chunk_blks<0` is never true
  (`sparse.c:299,477`); the result of the CRC, failing writes and a wrong total are
  ignored; the size of a CRC32 chunk is not checked and an unknown chunk not skipped
  (`sparse.c:470-475`), so that the next header is looked for in the wrong place; a
  truncated image may loop for ever in a raw chunk; a card answers the end
  of an image with the square of the blocks read, down to one byte, and when no room for
  a step is left behind the buffer the loop stops there (`sparse.c:142-160`), so that a
  well-formed image whose last chunk header is cut at that place is refused
  (`sparse.c:427-437`; found by a proof of `LostOnlyAstray` that failed);
* yaffs: the group left open at the end keeps the tags of its first chunk
  (`yaffs_conv.c:87`); the partition is erased as if its size counted spare bytes
  (`nand_base.c:556`), so that its end stays unerased; failing reads of the source are
  ignored (`burn_extra.c:82`).

## Not modelled

Most of the repository's 1.2 million lines are upstream U-Boot for other boards, its
network and file system drivers, fonts and pictures: nothing of InfoTM's.  Of
InfoTM's own code: clock, DRAM and pad set-up of the SPL, ECC and read-retry, USB
enumeration, Ethernet, and the register level of MMC and SATA.  Items, IUS and ISI
headers: pure accessors; a checked header is a value.  `vs_erase`, `vs_isbad`,
`vs_scrub` and `vs_special` hand the call on; what they do on NAND is in NandBurn.
`storage_offset` and `storage_size` on NAND are pure sums over a table (see above).
`bootm` is upstream's: only that it may return is modelled, and it resets where a
decompressor fails.  A USB cable that is pulled and the reconnection after
`setserial` (see Fastboot).
`block_is_parted` and `block_get_part_info` have no callers.  `storage_part` runs once
per power-on (`burn_extra` boots after it), so a second scaling of the sizes in place
cannot happen and the model starts it from the static values.  Sparse images over USB
and from mmc0 and mmc2 (masked out in `main.c:546`).  The secure-burn lock of IUW is
never set in this build.

## Plan

1. Done: NandBurn with ImageSlot, BootFlow, Iuw, Fastboot, VStorage, Partition, Sparse
   and Yaffs, with their runs.
2. Done: the safety and action properties of every module as theorems, and the refinement
   of ImageSlot by NandBurn.
3. If the hardware level is ever of interest: read-retry of `nand_base.c`, the
   endpoint handling of `imapx800_udc.c`.
