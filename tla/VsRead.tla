------------------------------- MODULE VsRead -------------------------------
(***************************************************************************)
(* The arithmetic of vs_read (infotm/strategy/vstorage/vstorage.c) and the *)
(* counts the device drivers return, shared by VStorage, which models the  *)
(* layer itself, and Sparse, which reads its images through it.            *)
(*                                                                         *)
(* A device transfers whole units of vs_align.  vs_read cuts a request in  *)
(* a head up to the next unit, a middle of whole units, and a tail; head   *)
(* and tail go through a bounce buffer of one unit.                        *)
(***************************************************************************)
EXTENDS Integers

CONSTANTS
  Sector,    \* 512: mmc_blksz, ram_vs_align, sata_vs_align
  Page,      \* nand_config.pagesize
  SysInfo    \* nand_config.sysinfosize: spare bytes of a page of fnd data

ASSUME UnitAssumption ==
  Sector \in Nat \ {0} /\ Page \in Nat \ {0} /\ SysInfo \in Nat

\* vs_list, in this build: CONFIG_ENABLE_UDISK is not defined, so the udisk
\* entries have a name and nothing else.
vs_list ==
  <<"bnd", "nnd", "fnd", "eeprom", "flash", "hd", "mmc0", "mmc1", "mmc2",
    "udisk0", "udisk1", "udc", "eth", "ram">>

id_valid(id) == id \in 0 .. 13
vs_device_name(id) == vs_list[id + 1]

IsMmc(dev) == dev \in {"mmc0", "mmc1", "mmc2"}
HasRead(dev)  == dev \notin {"udisk0", "udisk1", "udc", "eth"}
HasWrite(dev) == HasRead(dev)
HasReset(dev) == dev \notin {"udisk0", "udisk1"}

\* The unit of the NAND, disk, card and memory devices; eeprom and flash, which
\* have units of their own, are not looked at.
vs_align(dev) == IF dev \in {"bnd", "nnd", "fnd"} THEN Page ELSE Sector

\* Whole units that cover `length`.
RoundUp(length, unit) == ((length + unit - 1) \div unit) * unit

\* Mutant: the distance from the last boundary instead of to the next one.
PreLen_Back(start, unit) == start % unit

PreLen(start, unit) == IF start % unit = 0 THEN 0 ELSE unit - (start % unit)

PostLen(start, length, unit) == (length - PreLen(start, unit)) % unit

\* What the driver's read returns after moving `length` bytes.  The mmc
\* entries multiply the blocks asked for by the blocks mmc_bread reports.  The
\* ramdisk's driver moves nothing and returns 0 below IUS_DEFAULT_LOCATION:
\* VStorage adds that (Denied), the images of Sparse lie above (ius.h:30).
DevCount(dev, length) ==
  CASE IsMmc(dev)  -> (length \div Sector) * (length \div Sector)
    [] dev = "nnd" -> (length \div Page) * Page
    [] dev = "fnd" -> (length \div (Page + SysInfo)) * (Page + SysInfo)
    [] OTHER       -> length

\* What it returns when the device fails.
DevFailure(dev) == IF IsMmc(dev) THEN 0 ELSE -1

\* The parts of a request, as sets of places in the caller's buffer.
ReadParts(dev, start, length) ==
  LET u == vs_align(dev)
      pre == PreLen(start, u)
      post == PostLen(start, length, u)
  IN  [pre |-> 0 .. pre - 1, middle |-> pre .. length - post - 1,
       post |-> length - post .. length - 1]

\* What vs_read returns when the parts in `bad` fail on a device that
\* reports a failure as 0: head and tail count as the unit read for them.
ReadCount(dev, start, length, bad) ==
  LET u == vs_align(dev)
      parts == ReadParts(dev, start, length)
      count(p) == IF parts[p] = {} \/ p \in bad THEN 0
                  ELSE IF p = "middle"
                    THEN DevCount(dev, length - PreLen(start, u) - PostLen(start, length, u))
                  ELSE DevCount(dev, u)
  IN  count("pre") + count("middle") + count("post")
=============================================================================
