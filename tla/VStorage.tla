------------------------------ MODULE VStorage ------------------------------
(***************************************************************************)
(* The virtual storage layer (infotm/strategy/vstorage/vstorage.c): the    *)
(* current device, which every user of the layer sets and relies on, and   *)
(* vs_read with its unaligned ends over drivers that may fail.             *)
(*                                                                         *)
(* A byte of a device is its offset until a write changes it; `mem` is the *)
(* memory from the caller's buffer on.                                     *)
(***************************************************************************)
EXTENDS VsRead

CONSTANTS
  Devs,        \* the devices looked at, names of vs_list
  DevSize,     \* bytes of each
  IUS_DEFAULT_LOCATION,   \* the ramdisk's driver serves no offset below it
  Starts, Lengths,   \* requests of the callers
  MaxOps,      \* bound: operations of the callers
  MaxIoErrors  \* bound: device operations that fail

ASSUME RequestAssumption ==
  /\ Starts \subseteq Nat /\ Lengths \subseteq Nat
  /\ DevSize \in Nat /\ MaxOps \in Nat /\ MaxIoErrors \in Nat
  /\ IUS_DEFAULT_LOCATION \in Nat /\ IUS_DEFAULT_LOCATION % Sector = 0

None      == "none"
Untouched == -1
Junk      == -2
Mem       == 0 .. 3 * DevSize
Written   == 1000    \* added to an offset by a write

VARIABLES
  vs_current,  \* the device selected, None for NULL
  disk,        \* bytes of every device
  pc,          \* where vs_read stands
  req,         \* the request as the caller made it
  loc,         \* locals of vs_read: buf, start, length, prelen, postlen, read
  mem,
  res,         \* what the last operation returned
  failed,      \* a device operation of this request failed
  ops, ioerr

vars == <<vs_current, disk, pc, req, loc, mem, res, failed, ops, ioerr>>

NoReq == [start |-> 0, length |-> 0]
NoLoc == [buf |-> 0, start |-> 0, length |-> 0, prelen |-> 0, postlen |-> 0,
          read |-> 0]

Fresh == [i \in Mem |-> Untouched]

Called == pc = "idle" /\ ops < MaxOps /\ ops' = ops + 1

\* The low part of the ramdisk: its driver answers 0 and moves nothing.
Denied(dev, from) == dev = "ram" /\ from < IUS_DEFAULT_LOCATION

---------------------------------------------------------------------------
(* The current device.                                                     *)

\* The device is selected before it is reset, and stays selected when the
\* reset fails.  A device without a reset answers -3.
vs_assign_by_id(id, reset) ==
  /\ Called
  /\ IF id_valid(id)
       THEN /\ vs_current' = vs_device_name(id)
            /\ \/ ~reset /\ res' = 0 /\ UNCHANGED ioerr
               \/ reset /\ ~HasReset(vs_device_name(id)) /\ res' = -3 /\ UNCHANGED ioerr
               \/ /\ reset /\ HasReset(vs_device_name(id))
                  /\ \/ res' = 0 /\ UNCHANGED ioerr
                     \/ ioerr < MaxIoErrors /\ ioerr' = ioerr + 1 /\ res' = -1
       ELSE vs_current' = None /\ res' = -1 /\ UNCHANGED ioerr
  /\ req' = NoReq
  /\ UNCHANGED <<disk, pc, loc, mem, failed>>

---------------------------------------------------------------------------
(* vs_write: the request goes to the driver as it is.  The sector devices  *)
(* shift the start down and drop a partial end.                            *)

WrittenBytes(dev, start, length) ==
  LET u == vs_align(dev)
      first == IF dev = "ram" THEN start ELSE (start \div u) * u
      count == CASE dev = "ram" -> length
                 [] dev = "fnd" -> (length \div (Page + SysInfo)) * Page
                 [] OTHER       -> (length \div u) * u
  IN  first .. first + count - 1

AfterWrite(start, length) ==
  [disk EXCEPT ![vs_current] =
     [o \in DOMAIN @ |-> IF o \in WrittenBytes(vs_current, start, length)
                         THEN o + Written ELSE @[o]]]

\* A driver that fails has written all of the request or none of it.
vs_write(start, length) ==
  /\ Called
  /\ \/ length = 0 /\ res' = 0 /\ UNCHANGED <<disk, ioerr>>
     \/ length # 0 /\ vs_current = None /\ res' = -2 /\ UNCHANGED <<disk, ioerr>>
     \/ length # 0 /\ vs_current # None /\ ~HasWrite(vs_current)
        /\ res' = -3 /\ UNCHANGED <<disk, ioerr>>
     \/ /\ length # 0 /\ vs_current \in Devs
        /\ start + length <= DevSize
        /\ \/ Denied(vs_current, start) /\ res' = 0 /\ UNCHANGED <<disk, ioerr>>
           \/ /\ ~Denied(vs_current, start)
              /\ res' = DevCount(vs_current, length)
              /\ disk' = AfterWrite(start, length) /\ UNCHANGED ioerr
           \/ /\ ioerr < MaxIoErrors /\ vs_current # "ram"
              /\ ioerr' = ioerr + 1 /\ res' = DevFailure(vs_current)
              /\ disk' \in {disk, AfterWrite(start, length)}
  /\ req' = NoReq
  /\ UNCHANGED <<vs_current, pc, loc, mem, failed>>

---------------------------------------------------------------------------
(* vs_read.                                                                *)

\* The early returns.
ReadRefused(start, length) ==
  /\ Called
  /\ \/ vs_current = None /\ res' = -2
     \/ vs_current # None /\ ~HasRead(vs_current) /\ res' = -3
     \/ vs_current # None /\ HasRead(vs_current) /\ length = 0 /\ res' = 0
  /\ req' = NoReq
  /\ UNCHANGED <<vs_current, disk, pc, loc, mem, failed, ioerr>>

ForcedLength(dev, length) ==
  IF dev = "nnd" THEN RoundUp(length, Page) ELSE length

vs_read(start, length) ==
  LET u == vs_align(vs_current)
      l == ForcedLength(vs_current, length)
  IN  /\ Called
      /\ vs_current \in Devs /\ HasRead(vs_current) /\ length # 0
      /\ RoundUp(start + l, u) + u <= DevSize
      /\ req' = [start |-> start, length |-> length]
      /\ loc' = [buf |-> 0, start |-> start, length |-> l, read |-> 0,
                 prelen |-> PreLen(start, u), postlen |-> PostLen(start, l, u)]
      /\ mem' = Fresh /\ failed' = FALSE
      /\ pc' = IF vs_current = "fnd" THEN "direct" ELSE "pre"
      /\ UNCHANGED <<vs_current, disk, res, ioerr>>

\* A driver's read: it works, or fails and leaves what was in the buffer, or
\* is the ramdisk's and refused, which leaves the buffer too.
DeviceRead(from, length, Done(_, _)) ==
  \/ /\ ~Denied(vs_current, from)
     /\ Done(DevCount(vs_current, length),
             [k \in 0 .. length - 1 |-> disk[vs_current][from + k]])
     /\ UNCHANGED <<ioerr, failed>>
  \/ /\ Denied(vs_current, from)
     /\ failed' = TRUE /\ UNCHANGED ioerr
     /\ Done(0, [k \in 0 .. length - 1 |-> Junk])
  \/ /\ ioerr < MaxIoErrors /\ vs_current # "ram"
     /\ ioerr' = ioerr + 1 /\ failed' = TRUE
     /\ Done(DevFailure(vs_current), [k \in 0 .. length - 1 |-> Junk])

\* memcpy of n bytes of `data`, from `skip` on, to mem[at].
Copied(at, data, skip, n) ==
  [i \in Mem |-> IF i \in at .. at + n - 1 THEN data[skip + i - at] ELSE mem[i]]

Return(r) ==
  /\ pc' = "idle" /\ res' = r
  /\ loc' = NoLoc

\* fnd pages carry their spare bytes; the request goes down as it is.
ReadDirect ==
  /\ pc = "direct"
  /\ \/ /\ Return(DevCount("fnd", loc.length))
        /\ mem' = [i \in Mem |-> IF i < DevCount("fnd", loc.length) THEN Junk ELSE mem[i]]
        /\ UNCHANGED <<ioerr, failed>>
     \/ /\ ioerr < MaxIoErrors /\ ioerr' = ioerr + 1 /\ failed' = TRUE
        /\ Return(DevFailure("fnd")) /\ UNCHANGED mem
  /\ UNCHANGED <<vs_current, disk, req, ops>>

ReadPre ==
  /\ pc = "pre"
  /\ LET u == vs_align(vs_current) IN
     IF loc.prelen = 0
       THEN /\ pc' = "middle" /\ loc' = [loc EXCEPT !.length = @ - loc.postlen]
            /\ UNCHANGED <<mem, res, ioerr, failed>>
       ELSE DeviceRead(loc.start - (loc.start % u), u,
              LAMBDA r, data :
                IF r < 0
                  THEN Return(r) /\ UNCHANGED mem
                  ELSE /\ mem' = Copied(0, data, u - loc.prelen, loc.prelen)
                       /\ loc' = [loc EXCEPT !.buf = loc.prelen,
                                    !.start = @ + loc.prelen,
                                    !.length = @ - loc.prelen - loc.postlen,
                                    !.read = r]
                       /\ pc' = "middle" /\ UNCHANGED res)
  /\ UNCHANGED <<vs_current, disk, req, ops>>

\* With a head longer than the request the length is negative here: the
\* driver is called with it and what it does to the memory is anyone's guess.
ReadMiddle ==
  /\ pc = "middle"
  /\ IF loc.length = 0
       THEN pc' = "post" /\ UNCHANGED <<loc, mem, res, ioerr, failed>>
     ELSE IF loc.length < 0
       THEN /\ Return(Junk)
            /\ mem' = [i \in Mem |-> Junk] /\ UNCHANGED <<ioerr, failed>>
       ELSE DeviceRead(loc.start, loc.length,
              LAMBDA r, data :
                IF r < 0
                  THEN Return(r) /\ UNCHANGED mem
                  ELSE /\ mem' = Copied(loc.buf, data, 0, loc.length)
                       /\ loc' = [loc EXCEPT !.buf = @ + loc.length,
                                    !.start = @ + loc.length,
                                    !.length = 0, !.read = @ + r]
                       /\ pc' = "post" /\ UNCHANGED res)
  /\ UNCHANGED <<vs_current, disk, req, ops>>

\* Mutant: a failing tail does not change the result.
TailResult_Ignored(r) == IF r < 0 THEN loc.read ELSE loc.read + r

TailResult(r) == IF r < 0 THEN r ELSE loc.read + r

ReadPost ==
  /\ pc = "post"
  /\ IF loc.postlen = 0
       THEN Return(loc.read) /\ UNCHANGED <<mem, ioerr, failed>>
       ELSE DeviceRead(loc.start, vs_align(vs_current),
              LAMBDA r, data :
                /\ Return(TailResult(r))
                /\ mem' = IF r < 0 THEN mem
                          ELSE Copied(loc.buf, data, 0, loc.postlen))
  /\ UNCHANGED <<vs_current, disk, req, ops>>

---------------------------------------------------------------------------
Init ==
  /\ vs_current = None
  /\ disk = [d \in Devs |-> [o \in 0 .. DevSize - 1 |-> o]]
  /\ pc = "idle" /\ req = NoReq /\ loc = NoLoc
  /\ mem = Fresh /\ res = 0 /\ failed = FALSE
  /\ ops = 0 /\ ioerr = 0

\* Ids of the devices looked at, of one without operations, and of none.
Ids == {id \in 0 .. 13 : vs_device_name(id) \in Devs \cup {"udisk0", "udc"}} \cup {15}

Next ==
  \/ \E id \in Ids, reset \in BOOLEAN : vs_assign_by_id(id, reset)
  \/ \E s \in Starts, l \in Lengths :
       vs_write(s, l) \/ ReadRefused(s, l) \/ vs_read(s, l)
  \/ ReadDirect \/ ReadPre \/ ReadMiddle \/ ReadPost

Spec == Init /\ [][Next]_vars

---------------------------------------------------------------------------
(* Properties.                                                             *)

\* Type invariant: a device that is not selected is None, the locals are
\* integers of which only length may be negative.
TypeOK ==
  /\ vs_current \in {vs_device_name(id) : id \in 0 .. 13} \cup {None}
  /\ disk \in [Devs -> [0 .. DevSize - 1 -> Nat]]
  /\ pc \in {"idle", "direct", "pre", "middle", "post"}
  /\ req \in [start : Nat, length : Nat]
  /\ loc \in [buf : Nat, start : Nat, length : Int, prelen : Nat,
              postlen : Nat, read : Nat]
  /\ mem \in [Mem -> Int]
  /\ res \in Int /\ failed \in BOOLEAN
  /\ ops \in 0 .. MaxOps /\ ioerr \in 0 .. MaxIoErrors

\* The request reaches the unit boundary after its start: with less vs_read
\* computes a negative length (vstorage.c:282).
ReachesBoundary == req.length >= PreLen(req.start, vs_align(vs_current))

ReadOver == pc = "idle" /\ req # NoReq /\ vs_current # "fnd"

\* A read whose device operations all worked puts the bytes asked for in the
\* buffer, wherever it starts and ends, also after they were rewritten
\* (vstorage.c:277-327).
DeliversRequest ==
  ReadOver /\ ReachesBoundary /\ ~failed =>
    \A i \in 0 .. req.length - 1 : mem[i] = disk[vs_current][req.start + i]

\* It writes no memory behind the request; only nnd reads fill whole pages,
\* which their callers have to make room for (vstorage.c:270-274).
BufferRespected ==
  ReadOver /\ ReachesBoundary =>
    \A i \in Mem : i >= (IF vs_current = "nnd" THEN RoundUp(req.length, Page)
                         ELSE req.length) => mem[i] = Untouched

\* The drivers that report a failure: those of mmc and ram answer 0 instead,
\* which vs_read cannot tell from a count.
Reports(dev) == ~IsMmc(dev) /\ dev # "ram"

\* A failure in any of the three parts is the result of the read, for the
\* drivers that report one (vstorage.c:295-299, 311-315, 321-325).
FailureReported ==
  ReadOver /\ ReachesBoundary /\ Reports(vs_current) => (res < 0 <=> failed)

\* A read of the ramdisk is never negative and fails exactly when it starts
\* below the limit; one that also ends there answers 0, so its callers see a
\* short read (ramdisk.c:14-17).  One that runs across the limit may be
\* answered with all of its length, although its start was not read.
DenialIsShort ==
  ReadOver /\ ReachesBoundary /\ vs_current = "ram" =>
    /\ res >= 0
    /\ failed <=> req.start < IUS_DEFAULT_LOCATION
    /\ req.start + req.length <= IUS_DEFAULT_LOCATION => res = 0

\* What a read returns is at least the length asked for: load_image takes
\* less for a failure (bootl.c:53-57 and 70-74).
CountCoversRequest ==
  ReadOver /\ ReachesBoundary /\ ~failed /\ ~IsMmc(vs_current) => res >= req.length

\* The memory after a read: the bytes asked for, and nothing behind them.
ReadExact == TypeOK /\ DeliversRequest /\ BufferRespected

\* The result of a read: a failure when there was one, a count otherwise that
\* no caller takes for a short read.
HonestResult == FailureReported /\ DenialIsShort /\ CountCoversRequest
=============================================================================
