------------------------------ MODULE Partition ------------------------------
(***************************************************************************)
(* Where images live: the layout of the system disk                        *)
(* (infotm/strategy/burn/storage.c) and the partition tables of block      *)
(* devices (infotm/strategy/burn/block.c).                                 *)
(*                                                                         *)
(* storage_part reads the sizes of the configuration, lays the partitions  *)
(* out and writes one table per logical partition, then the MBR, then the  *)
(* configuration sector from which storage_offset finds a partition.       *)
(* Power may fail between two writes, and the next start may find another  *)
(* configuration.  Positions are in blocks, configured sizes in MB.        *)
(***************************************************************************)
EXTENDS Integers, FiniteSets

CONSTANTS
  Multip,     \* blocks of a MB: 2048
  Word,       \* 2^32: sectors and partition sizes are unsigned int
  Absent,     \* a model value: not configured, not written
  Configs,    \* configurations: a function from FsNames to a size or Absent
  Disks,      \* sizes of the system disk, in blocks
  Junk,       \* what fresh memory may hold where a table is not filled in
  MaxStarts,  \* bound: starts of the machine
  MaxIoErrors \* bound: writes that fail

\* The number of blocks of a disk is passed on as an int.
ASSUME LayoutAssumption ==
  /\ Multip \in Nat /\ Multip % 64 = 0 /\ Multip > 0
  /\ Word \in Nat /\ Word % 64 = 0 /\ Disks \subseteq 1 .. (Word \div 2) - 1
  /\ Junk \subseteq 0 .. Word - 1
  /\ MaxStarts \in Nat /\ MaxIoErrors \in Nat

\* default_cfg, the images of the spare area: name and offset in MB.
Spare ==
  [uboot0 |-> 2, uboot1 |-> 8, items |-> 16, logo |-> 24, ramdisk |-> 32,
   flags |-> 40, reserved |-> 48, kernel0 |-> 56, kernel1 |-> 72,
   recovery_rd |-> 88]
SpareEnd == 112

\* default_cfg, the partitions: name and default size in MB.
FsNames == <<"system", "misc", "cache", "userdata", "local", "add1", "add2">>
default_size == <<152, 20, 64, 164, 0, 0, 0>>
Fs == 0 .. 6
name(i) == FsNames[i + 1]

\* INFO_MAX_PARTITIONS = 8
Parts == 0 .. 7

VARIABLES
  items,      \* the configuration of this start
  lba,        \* capacity of the system disk
  pc, starts, ioerr,
  \* static state, lost with the power
  cfg_size,   \* sizes of default_cfg
  sectors, partnum, spare_area,
  ret,        \* result of reformat_part_size
  \* locals of block_partition
  loc,        \* locationtable
  imagebase, step, lasttableaddr,
  \* the disk
  ebr,        \* tables of the logical partitions, by address
  mbr,        \* the table of block 0, or Absent
  cfgsec,     \* offsets recorded in block 1, or Absent
  \* history
  lost,       \* a write of this start was lost
  dirty       \* the MBR is not newer than the logical tables, or they are not
              \* those of a layout: one is lost, or its place is not known

vars == <<items, lba, pc, starts, ioerr, cfg_size, sectors, partnum, spare_area,
          ret, loc, imagebase, step, lasttableaddr, ebr, mbr, cfgsec, lost, dirty>>
static == <<cfg_size, sectors, partnum, spare_area>>
disk   == <<ebr, mbr, cfgsec, dirty>>
alldisk == <<disk, lost>>

\* The sum of the f[i] with i in S, a part of Parts.
Sum(f, S) ==
  LET t(i) == IF i \in S THEN f[i] ELSE 0
  IN  t(0) + t(1) + t(2) + t(3) + t(4) + t(5) + t(6) + t(7)

---------------------------------------------------------------------------
(* Sizes in the configuration.                                             *)

\* item_strtoul: MB; a G is 1024 of them, and so is a number below 10, the
\* M after which has been cut off by then.
item_strtoul(v) ==
  IF v = Absent THEN 0
  ELSE IF v.unit = "G" \/ v.n \in 1 .. 9 THEN v.n * 1024
  ELSE v.n

SizeOf(i) == item_strtoul(items[name(i)])

\* The mark of what is missing is none of the values it stands for.
ASSUME AbsentAssumption == Absent \notin [{name(i) : i \in Fs} -> Int]

\* Every size is a number, and none is above 2^28 blocks: together they stay
\* within the int they are added up in.
ASSUME SizeAssumption ==
  /\ 16 * 164 * Multip <= Word
  /\ \A c \in Configs : \A i \in Fs :
       \/ c[name(i)] = Absent
       \/ /\ c[name(i)].n \in Nat
          /\ 16 * item_strtoul(c[name(i)]) * Multip <= Word

\* storage_get_new_config ends after a partition of no size, local apart,
\* and before a partition behind userdata that is not configured.
Entered(i) ==
  \A j \in 0 .. i :
    /\ j < 4 \/ items[name(j)] # Absent
    /\ j < i => ~(SizeOf(j) = 0 /\ j >= 3 /\ j # 4)

storage_get_new_config ==
  LET n    == Cardinality({i \in Fs : Entered(i)})
      size == [i \in Fs |-> IF Entered(i) /\ SizeOf(i) # 0 THEN SizeOf(i)
                            ELSE cfg_size[i]]
  IN  /\ pc = "config"
      /\ cfg_size' = size
      /\ sectors' = [i \in Parts |-> IF i < n THEN size[i] ELSE sectors[i]]
      /\ partnum' = n
      /\ pc' = "reformat"
      /\ UNCHANGED <<items, lba, starts, ioerr, spare_area, ret, loc, imagebase,
                     step, lasttableaddr, alldisk>>

---------------------------------------------------------------------------
(* reformat_part_size: from MB to blocks; the fourth partition becomes the *)
(* extended one and the rest of the disk, if it is worth it, local.        *)

\* The spare area and the configuration sector, in whole 0x40 blocks.
AlignedSpare(mb) == (((mb * Multip + 2) + 2) \div 64) * 64 + 64

\* In blocks, and from userdata on one place further.
Shifted == [i \in Parts |-> (sectors[IF i > 3 THEN i - 1 ELSE i] * Multip) % Word]

First3(s) == Sum(s, 0 .. 2)

Extended(s, spare) == (lba - First3(s) - spare) % Word

\* Mutant: the gap of the logical tables is not taken off.
Gap_None(s, n) == s

\* 0x10 blocks of each configured logical partition go to its table.
Gap(s, n) ==
  [i \in Parts |-> IF i \in 4 .. n - 1 /\ s[i] # 0 THEN (s[i] - 16) % Word ELSE s[i]]

LastUsed(s) == CHOOSE i \in Parts : s[i] # 0 /\ \A j \in Parts : j > i => s[j] = 0

\* local is left out, what is behind it moves up.
WithoutLocal(s, n, behind) ==
  [i \in Parts |-> IF i \in 5 .. n - 1 THEN (IF i = 7 THEN behind ELSE s[i + 1])
                   ELSE IF i = n THEN 0 ELSE s[i]]

Accept(s, n) ==
  /\ sectors' = Gap(s, n)
  /\ partnum' = LastUsed(Gap(s, n)) + 1
  /\ ret' = 0

\* With eight partitions that runs over the end of the array: the last size
\* comes from what lies behind it, which is then cleared.  The build may have
\* put spare_area there.
LeaveOutLocal(s, n, spare) ==
  \E behind \in Junk \cup {spare} :
    /\ Accept(WithoutLocal(s, n, behind), n)
    /\ spare_area' \in IF n = 8 THEN {spare, 0} ELSE {spare}

reformat_part_size ==
  LET spare == AlignedSpare(spare_area)
      n  == partnum + 1
      s2 == Shifted
      s3 == [s2 EXCEPT ![3] = Extended(s2, spare)]
      count == Sum(s3, 4 .. n - 1)
      rest  == s3[3] - count
      Refuse(s) == sectors' = s /\ partnum' = n /\ ret' = -1
  IN  /\ pc = "reformat"
      /\ \/ /\ spare_area' = spare
            /\ \/ lba <= First3(s2) /\ Refuse(s2)
               \/ lba > First3(s2) /\ s3[5] # 0 /\ Accept(s3, n)
               \/ lba > First3(s2) /\ s3[5] = 0 /\ rest <= 0 /\ Refuse(s3)
               \/ /\ lba > First3(s2) /\ s3[5] = 0 /\ rest > Multip * 32
                  /\ Accept([s3 EXCEPT ![5] = rest], n)
         \/ /\ lba > First3(s2) /\ s3[5] = 0 /\ rest \in 1 .. Multip * 32
            /\ LeaveOutLocal(s3, n, spare)
      /\ pc' = "locate"
      /\ UNCHANGED <<items, lba, starts, ioerr, cfg_size, loc, imagebase, step,
                     lasttableaddr, alldisk>>

---------------------------------------------------------------------------
(* init_part_location: starts and sizes; logical partitions start 0x10     *)
(* blocks behind their table.  block_partition does not look at the result *)
(* of reformat_part_size.                                                  *)

Filled(i) == i < partnum /\ \A j \in 1 .. i : sectors[j] # 0

\* The place of a table is computed from a size that was not filled in.
Unfilled == \E i \in 4 .. partnum - 2 : ~Filled(i)

AlignUp(x) == IF x % 64 = 0 THEN x ELSE x + 64 - (x % 64)

\* The place behind partition p for one of size sz.
Behind(p, sz) ==
  LET at == (p.start + p.size) % Word
  IN  [start |-> AlignUp(at) % Word,
       size |-> IF at % 64 = 0 THEN sz ELSE (sz - 64) % Word]

init_part_location ==
  \E junk \in Junk :
  LET size == [i \in Parts |-> IF Filled(i) THEN sectors[i] ELSE junk]
      p0 == [start |-> spare_area % Word, size |-> size[0]]
      p1 == Behind(p0, size[1])
      p2 == Behind(p1, size[2])
      p3 == Behind(p2, size[3])
      place == [i \in Parts |->
                  IF i < 4 THEN <<p0, p1, p2, p3>>[i + 1]
                  ELSE [start |-> 16, size |-> size[i]]]
  IN  /\ pc = "locate"
      /\ loc' = place
      /\ imagebase' = [i \in Parts |-> IF i < 4 THEN place[i].start ELSE 0]
      /\ step' = 1
      /\ pc' = "tables"
      /\ UNCHANGED <<items, lba, starts, ioerr, static, ret, lasttableaddr, alldisk>>

---------------------------------------------------------------------------
(* The tables.                                                             *)

\* vs_write: refused behind the end of the card, lost when the card fails;
\* the result is not looked at.
Write(addr, done, nothing) ==
  \/ addr < lba /\ done /\ UNCHANGED <<ioerr, lost>>
  \/ addr >= lba /\ nothing /\ lost' = TRUE /\ UNCHANGED ioerr
  \/ /\ ioerr < MaxIoErrors /\ ioerr' = ioerr + 1
     /\ lost' = TRUE /\ nothing

tablecnt == IF partnum > 3 THEN partnum - 3 ELSE 1

\* The logical table `st`: its partition, and where the next table lies,
\* counted from the start of the extended partition.
init_part_table(st) ==
  [start |-> loc[st + 3].start, size |-> loc[st + 3].size,
   next |-> IF st < partnum - 4
            THEN Sum([i \in Parts |-> 16 + loc[i].size], 4 .. st + 3) % Word
            ELSE 0]

\* The addresses chain on from the extended partition.
TableAddr(st) ==
  IF st = 1 THEN loc[3].start ELSE (lasttableaddr + 16 + loc[st + 2].size) % Word

WriteLogical ==
  LET addr == TableAddr(step)
  IN  /\ pc = "tables" /\ step < tablecnt
      /\ lasttableaddr' = addr
      /\ imagebase' = [imagebase EXCEPT ![step + 3] = addr + 16]
      /\ step' = step + 1
      /\ dirty' = TRUE
      /\ Write(addr,
               ebr' = [a \in DOMAIN ebr \cup {addr} |->
                         IF a = addr THEN init_part_table(step) ELSE ebr[a]],
               UNCHANGED ebr)
      /\ UNCHANGED <<items, lba, pc, starts, static, ret, loc, mbr, cfgsec>>

\* Mutant: the MBR is written as soon as the tables are computed.
MbrTurn_Early == step >= 1

MbrTurn == step >= tablecnt

\* Block 0: the first four entries and the mark; a logical table that was
\* lost is not noticed.
WriteMbr ==
  /\ pc = "tables" /\ MbrTurn
  /\ lasttableaddr' = 0
  /\ Write(0,
           /\ mbr' = [i \in 0 .. 3 |-> loc[i]]
           /\ dirty' = (lost \/ Unfilled),
           UNCHANGED <<mbr, dirty>>)
  /\ pc' = "record"
  /\ UNCHANGED <<items, lba, starts, static, ret, loc, imagebase, step, ebr, cfgsec>>

\* Mutant: userdata is recorded where the extended partition is.
Recorded_Extended(i) ==
  CASE i < 4 -> imagebase[i]
    [] OTHER -> 0

\* Which base is recorded for which name: add2 takes the last partition,
\* whichever it is.
Recorded(i) ==
  CASE i < 3 -> imagebase[i]
    [] i = 3 /\ partnum > 4 -> imagebase[4]
    [] i = 4 /\ partnum \in {7, 8} -> imagebase[5]
    [] i = 5 /\ partnum = 8 -> imagebase[6]
    [] i = 6 /\ partnum \in 6 .. 8 -> imagebase[partnum - 1]
    [] OTHER -> 0

WriteConfig ==
  /\ pc = "record"
  /\ Write(1, cfgsec' = [p \in {name(i) : i \in Fs} |->
                           Recorded(CHOOSE i \in Fs : name(i) = p)],
           UNCHANGED cfgsec)
  /\ pc' = "done"
  /\ UNCHANGED <<items, lba, starts, static, ret, loc, imagebase, step,
                 lasttableaddr, ebr, mbr, dirty>>

---------------------------------------------------------------------------
(* Finding an image.                                                       *)

\* block_get_base, from the configuration sector.
block_get_base(p) ==
  LET base == IF cfgsec # Absent /\ p \in DOMAIN cfgsec THEN cfgsec[p] ELSE 0
  IN  IF base > lba THEN -1 ELSE base

\* storage_offset on a block device.
block_storage_offset(p) ==
  IF p \in DOMAIN Spare THEN Spare[p] * Multip ELSE block_get_base(p)

---------------------------------------------------------------------------
PowerOnStatic ==
  /\ cfg_size = [i \in Fs |-> default_size[i + 1]]
  /\ sectors = [i \in Parts |-> IF i < 4 THEN 256 ELSE 0]
  /\ partnum = 0 /\ spare_area = 128

Init ==
  /\ items \in Configs /\ lba \in Disks
  /\ pc = "config" /\ starts = 1 /\ ioerr = 0
  /\ PowerOnStatic
  /\ ret = 0
  /\ loc = [i \in Parts |-> [start |-> 0, size |-> 0]]
  /\ imagebase = [i \in Parts |-> 0] /\ step = 0 /\ lasttableaddr = 0
  /\ ebr = [a \in {} |-> 0] /\ mbr = Absent /\ cfgsec = Absent /\ dirty = TRUE
  /\ lost = FALSE

\* The power fails, or the machine is started again, and the update repeated
\* with another configuration.
Restart ==
  /\ starts < MaxStarts /\ starts' = starts + 1
  /\ items' \in Configs
  /\ pc' = "config"
  /\ cfg_size' = [i \in Fs |-> default_size[i + 1]]
  /\ sectors' = [i \in Parts |-> IF i < 4 THEN 256 ELSE 0]
  /\ partnum' = 0 /\ spare_area' = 128 /\ ret' = 0
  /\ loc' = [i \in Parts |-> [start |-> 0, size |-> 0]]
  /\ imagebase' = [i \in Parts |-> 0] /\ step' = 0 /\ lasttableaddr' = 0
  /\ lost' = FALSE
  /\ UNCHANGED <<lba, ioerr, disk>>

Next ==
  \/ storage_get_new_config \/ reformat_part_size \/ init_part_location
  \/ WriteLogical \/ WriteMbr \/ WriteConfig \/ Restart

Spec == Init /\ [][Next]_vars

---------------------------------------------------------------------------
(* Properties.                                                             *)

Table == [start : Nat, size : Nat]

\* Type invariant: sizes and positions are unsigned words, and a partition
\* layout never has more than eight partitions nor more tables than logical
\* ones.
TypeOK ==
  /\ items \in Configs /\ lba \in Disks
  /\ pc \in {"config", "reformat", "locate", "tables", "record", "done"}
  /\ cfg_size \in [Fs -> Nat]
  /\ sectors \in [Parts -> 0 .. Word - 1]
  /\ partnum \in 0 .. 8 /\ spare_area \in Nat /\ ret \in {0, -1}
  /\ loc \in [Parts -> Table]
  /\ imagebase \in [Parts -> Nat] /\ lasttableaddr \in Nat
  /\ step \in Nat /\ (pc = "tables" => step \in 1 .. partnum - 3)
  /\ \A a \in DOMAIN ebr : a \in Nat /\ ebr[a] \in [start : Nat, size : Nat, next : Nat]
  /\ mbr = Absent \/ mbr \in [0 .. 3 -> Table]
  /\ lost \in BOOLEAN /\ dirty \in BOOLEAN

\* What a kernel finds: the table of the k-th logical partition, from the
\* extended partition on; 0 behind the last one, -1 where no table is.
Found(at) == IF at = 0 \/ at \in DOMAIN ebr THEN at ELSE -1
After(t) ==
  IF t <= 0 THEN 0
  ELSE IF ebr[t].next = 0 THEN 0
  ELSE Found(mbr[3].start + ebr[t].next)

Walk ==
  LET w1 == Found(mbr[3].start)
      w2 == After(w1)
      w3 == After(w2)
      w4 == After(w3)
  IN  <<w1, w2, w3, w4, After(w4)>>

Logicals == {k \in 1 .. 5 : Walk[k] > 0}

\* First block and first block behind it of the tables and partitions.
LogicalExtent(k) ==
  LET t == Walk[k] IN [from |-> t, to |-> t + ebr[t].start + ebr[t].size]
PrimaryExtent(i) == [from |-> mbr[i].start, to |-> mbr[i].start + mbr[i].size]

\* The configured sizes, spare area included, fit the disk.
Used == AlignedSpare(128) + Multip * Sum(cfg_size, {i \in Fs : Entered(i)})
Fits == Used <= lba

\* All seven partitions are named, local has no size and the rest of the disk
\* is too small for it: leaving it out runs over the end of the array.
RunsOver == Entered(6) /\ SizeOf(4) = 0 /\ lba <= Used + Multip * 32

Partitioned == pc = "done" /\ ret = 0 /\ ~lost

\* Whenever the MBR is newer than the logical tables, power cuts and starts
\* with another configuration included, and no table was placed by memory
\* that init_part_location left as it was, the chain from the extended
\* partition runs through written tables, and each partition ends before the
\* next table (block.c:151-183, the order of the writes in 226-264).
ChainComplete ==
  mbr # Absent /\ ~dirty =>
    /\ \A k \in 1 .. 5 : Walk[k] # -1
    /\ \A k \in 1 .. 4 : Walk[k + 1] > 0 => LogicalExtent(k).to <= Walk[k + 1]

\* The tables on the disk, with the types of all the state.
TablesInv == TypeOK /\ ChainComplete

\* A finished layout has no two partitions on the same block, and none on the
\* images of the spare area, the one case apart where the array is left
\* (block.c:45-110, 131-147).
PartitionsApart ==
  Partitioned /\ ~RunsOver =>
    LET ext == [j \in (0 .. 2) \cup {k + 3 : k \in Logicals} |->
                  IF j < 3 THEN PrimaryExtent(j) ELSE LogicalExtent(j - 3)]
    IN  /\ \A i, j \in DOMAIN ext : i < j => ext[i].to <= ext[j].from
        /\ \A i \in DOMAIN ext : ext[i].from >= SpareEnd * Multip

\* Every logical partition lies in the extended one and on the disk.
Inside ==
  /\ mbr[3].start + mbr[3].size <= lba
  /\ \A k \in Logicals : LogicalExtent(k).to <= mbr[3].start + mbr[3].size

\* When the configuration names the local partition and fits, nothing lies
\* behind the end of the disk (block.c:94-99).
InsideWhenLocalNamed ==
  Partitioned /\ Fits /\ Entered(4) /\ ~RunsOver => Inside

\* No two partitions meet, and none leaves the disk.
SoundLayout == PartitionsApart /\ InsideWhenLocalNamed

\* The same for every layout that reformat_part_size lets pass: it refuses
\* the others as "too large to overflow the disk capacity" (block.c:78-81).
InsideDisk == Partitioned => Inside

\* Where storage_offset finds the partitions the burner writes is where the
\* tables say they are, and userdata is not found when it starts behind the
\* end of the disk (block.c:266-291, storage.c:199-218).
RecordedBases ==
  Partitioned =>
    /\ \A i \in 0 .. 2 : block_storage_offset(name(i)) = mbr[i].start
    /\ LET user == Walk[1] + ebr[Walk[1]].start
       IN  block_storage_offset("userdata") = IF user > lba THEN -1 ELSE user
=============================================================================
