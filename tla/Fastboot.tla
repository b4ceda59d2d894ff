------------------------------ MODULE Fastboot ------------------------------
(***************************************************************************)
(* The fastboot server: fastboot and rx_handler                            *)
(* (infotm/commands/cmd_fastboot.c), fastboot_poll and fastboot_rx         *)
(* (infotm/strategy/fastboot/fastboot.c) over udc_read and udc_write       *)
(* (infotm/drivers/udc/imapx800_udc.c).                                    *)
(*                                                                         *)
(* udc_read takes pieces; a short packet ends a piece and not the read,    *)
(* and the handler is told the length that was asked for, not the length   *)
(* that came.  As in module Iuw a side that writes does nothing else until *)
(* the other side reads.  Commands and images carry the number of the      *)
(* command they belong to, as history.                                     *)
(***************************************************************************)
EXTENDS Integers, Sequences

CONSTANTS
  Sizes,      \* sizes the PC announces
  BufSize,    \* interface.transfer_buffer_size
  PageSize,   \* CFG_FASTBOOT_MKBOOTIMAGE_PAGE_SIZE
  Piece,      \* 0x40000, what udc_read asks for at a time
  Kinds,      \* what the PC downloads, a subset of AllKinds
  MaxCmds,    \* bound: commands of a session
  Faults      \* what may go wrong, a subset of AllFaults

\* An image with a uImage header and CRCs, an isi image with a CRC of its
\* header, an Android boot image, and anything else.
AllKinds == {"uimage", "isi", "bootimg", "raw"}

\* The PC sends less than it announced; the PC program is stopped and started
\* again; adr, or a write behind it, fails; bootl finds no system and returns.
AllFaults == {"short", "abort", "write", "bootl"}

ASSUME FastbootAssumption ==
  /\ Sizes \subseteq Nat /\ BufSize \in Nat \ {0} /\ PageSize \in Nat
  /\ Piece \in Nat \ {0} /\ MaxCmds \in Nat
  /\ Kinds \subseteq AllKinds /\ Faults \subseteq AllFaults

\* uboot0 stands for uboot1 too, kernel0 for kernel1, ramdisk and recovery,
\* items for burninit, and nosuch for every other name.
Parts == {"uboot0", "kernel0", "items", "system", "logo", "nosuch"}

Packet(c, p, n, kind) == [c |-> c, p |-> p, n |-> n, kind |-> kind]
Commands ==
  {Packet("download", "nosuch", n, k) : n \in Sizes, k \in Kinds}
    \cup {Packet("flash", p, 1, "raw") : p \in Parts}
    \cup {Packet(c, "nosuch", 1, "raw") :
            c \in {"boot", "bootrecovery", "bootos", "continue", "getvar",
                   "erase", "reboot", "other"}}
    \cup {Packet("setserial", "nosuch", n, "raw") : n \in 0 .. 1}

None == Packet("none", "nosuch", 0, "raw")
\* A reply and the command it is to, and a second reply to the same command.
Reply(c, k) == <<[k |-> k, c |-> c, again |-> FALSE]>>
Again(c, k) == <<[k |-> k, c |-> c, again |-> TRUE]>>
NoImage == [id |-> 0, kind |-> "raw", whole |-> FALSE]

VARIABLES
  dpc,      \* "poll", or "left" once a kernel or a reset has been started
  dsize, dbytes,   \* download_size, download_bytes
  rx,       \* what udc_read still wants of a download
  tail,     \* TRUE: a character of an older command follows the 10th of cmdbuf
  buf,      \* the image in the transfer buffer
  parts,    \* the images on the partitions
  boottype, \* set_boot_type
  dl,       \* history: number of the download command last dispatched
  dout,     \* replies the device is writing
  hpc, hcmd, hres,   \* the PC: place, command, reply it got
  hout,     \* what the PC is writing
  serial,   \* commands sent so far
  hist      \* history: sent, the PC sent all it announced; kept, number of
            \* the download it saw end well, 0 once it sent another; torn,
            \* partitions whose last write failed; gone, it was stopped with
            \* a reply on its way

server == <<dsize, dbytes, rx, tail, buf, parts, boottype, dl>>
pc     == <<hpc, hcmd, hres, serial>>
vars   == <<dpc, server, dout, pc, hout, hist>>

---------------------------------------------------------------------------
(* Receiving a download.                                                   *)

\* The unit of sizes holds any command.
Length(p) == IF p.c = "data" THEN p.n ELSE 1

\* Whole pieces, the last one ended by a short packet.
Pieces(n) == ((n + (Piece - 1)) \div Piece) * Piece
Wants(n) == IF Pieces(n) < rx THEN rx - Pieces(n) ELSE 0

\* A packet goes into the transfer buffer, whatever it is.
Received(p) ==
  [id    |-> dl,
   kind  |-> IF rx = dsize THEN (IF p.c = "data" THEN p.kind ELSE "raw") ELSE buf.kind,
   whole |-> p.c = "data" /\ rx = dsize /\ p.n = dsize]

fastboot_download_image ==
  /\ dpc = "poll" /\ dout = <<>> /\ hout # None /\ dsize > 0
  /\ hout' = None
  /\ buf' = Received(hout)
  /\ rx' = Wants(Length(hout))
  /\ IF rx' > 0
       THEN UNCHANGED <<dsize, dbytes, dout>>
       ELSE /\ dbytes' = dsize /\ dsize' = 0 /\ dout' = Reply("download", "OKAY")
  /\ UNCHANGED <<dpc, tail, parts, boottype, dl, pc, hist>>

---------------------------------------------------------------------------
(* Commands: rx_handler with download_size = 0.                            *)

\* Mutants: the image downloaded before stays; the limit is not checked.
fastboot_pre_download_Keeps(n) ==
  /\ dbytes' = IF n \in 1 .. BufSize THEN 0 ELSE dbytes
  /\ dl' = serial
  /\ IF n \in 1 .. BufSize THEN dsize' = n /\ rx' = n /\ dout' = Reply("download", "DATA")
     ELSE dsize' = 0 /\ dout' = Reply("download", "FAIL") /\ UNCHANGED rx
fastboot_pre_download_NoLimit(n) ==
  /\ dbytes' = 0 /\ dl' = serial
  /\ IF n > 0 THEN dsize' = n /\ rx' = n /\ dout' = Reply("download", "DATA")
     ELSE dsize' = 0 /\ dout' = Reply("download", "FAIL") /\ UNCHANGED rx

fastboot_pre_download(n) ==
  /\ dbytes' = 0 /\ dl' = serial
  /\ IF n \in 1 .. BufSize
       THEN dsize' = n /\ rx' = n /\ dout' = Reply("download", "DATA")
       ELSE dsize' = 0 /\ dout' = Reply("download", "FAIL") /\ UNCHANGED rx

\* bootl starts the system, or returns.
bootl(first, then) ==
  \/ dpc' = "left" /\ dout' = first
  \/ "bootl" \in Faults /\ dpc' = dpc /\ dout' = first \o then

\* Mutant: both CRCs are left to the boot.
Flashable_Any(p) == TRUE

\* isi_check_header for uboot0, both CRCs for what starts as uImage.
Flashable(p) ==
  CASE p = "uboot0"  -> buf.kind = "isi"
    [] p = "kernel0" -> buf.kind = "uimage" /\ buf.whole
    [] OTHER         -> TRUE

\* strncmp(pname, "logo", 5) needs the end of the string.
IsSystem(p) == p = "system" \/ (p = "logo" /\ ~tail)

\* The range is erased and written in steps: a failing adr, or a failing write
\* that adr does not notice, leaves it as it was or with a part of the image.
adr(p) ==
  \/ /\ parts' = [parts EXCEPT ![p] = buf]
     /\ hist' = [hist EXCEPT !.torn = @ \ {p}]
  \/ /\ "write" \in Faults
     /\ parts' \in {parts, [parts EXCEPT ![p] = [buf EXCEPT !.whole = FALSE]]}
     /\ hist' = [hist EXCEPT !.torn = @ \cup {p}]

\* A uboot0 that is refused and an adr that failed are answered OKAY too.
fastboot_do_flash(p) ==
  LET R(k) == Reply("flash", k) IN
  \/ /\ dbytes = 0 \/ (p \in {"nosuch", "logo"} /\ ~IsSystem(p))
     /\ dout' = R("FAIL")
     /\ UNCHANGED <<dpc, parts, boottype, hist>>
  \/ /\ dbytes > 0 /\ IsSystem(p)
     /\ boottype' = "factory" /\ bootl(R("OKAY"), Again("flash", "OKAY"))
     /\ UNCHANGED <<parts, hist>>
  \/ /\ dbytes > 0 /\ p \in {"uboot0", "kernel0", "items"}
     /\ IF Flashable(p) THEN adr(p) ELSE UNCHANGED <<parts, hist>>
     /\ dout' = IF Flashable(p) \/ p = "uboot0" THEN R("OKAY") ELSE R("FAIL")
     /\ UNCHANGED <<dpc, boottype>>

\* OKAY is sent before the image is looked at.
fastboot_do_boot(c) ==
  LET R(k) == Reply(c, k) IN
  /\ \/ dbytes = 0 /\ bootl(<<>>, R("FAIL"))
     \/ dbytes > 0 /\ PageSize > dbytes /\ dout' = R("FAIL") /\ UNCHANGED dpc
     \/ /\ dbytes > 0 /\ PageSize <= dbytes
        /\ IF buf.kind = "bootimg" /\ buf.whole
             THEN dout' = R("OKAY") /\ dpc' = "left"
             ELSE dout' = R("OKAY") \o Again(c, "FAIL") /\ UNCHANGED dpc
  /\ boottype' = IF dbytes = 0 /\ c = "bootrecovery" THEN "factory" ELSE boottype

\* Mutants: a command without a reply; a second one on top of the handler's.
Answer_Silent(p) == IF p.c = "erase" THEN <<>> ELSE Reply(p.c, "OKAY")
Answer_Twice(p) == Reply(p.c, "OKAY") \o Reply(p.c, "FAIL")

\* Commands that only answer; erase leaves the generic FAIL.  A setserial
\* without a number takes what an older command left behind it.
Answer(p) ==
  Reply(p.c, IF p.c = "getvar" \/ (p.c = "setserial" /\ (p.n > 0 \/ tail))
               THEN "OKAY" ELSE "FAIL")

\* Commands longer than ten characters.
Long(p) ==
  \/ p.c \in {"download", "bootrecovery", "getvar"}
  \/ p.c = "flash" /\ p.p # "logo"
  \/ p.c = "setserial" /\ p.n > 0

rx_handler ==
  LET c == hout.c IN
  /\ dpc = "poll" /\ dout = <<>> /\ hout # None /\ dsize = 0
  /\ hout' = None
  /\ \/ /\ c = "download" /\ fastboot_pre_download(hout.n)
        /\ UNCHANGED <<dpc, parts, boottype, hist>>
     \/ /\ c = "flash" /\ fastboot_do_flash(hout.p)
        /\ UNCHANGED <<dsize, dbytes, rx, dl>>
     \/ /\ c \in {"boot", "bootrecovery", "bootos"} /\ fastboot_do_boot(c)
        /\ UNCHANGED <<dsize, dbytes, rx, parts, dl, hist>>
     \/ /\ c = "continue" /\ boottype' = "factory" /\ bootl(<<>>, Reply(c, "FAIL"))
        /\ UNCHANGED <<dsize, dbytes, rx, parts, dl, hist>>
     \/ /\ c = "reboot" /\ dpc' = "left" /\ dout' = Reply(c, "OKAY")
        /\ UNCHANGED <<dsize, dbytes, rx, parts, boottype, dl, hist>>
     \/ /\ c \in {"getvar", "setserial", "erase", "other"} /\ dout' = Answer(hout)
        /\ UNCHANGED <<dpc, dsize, dbytes, rx, parts, boottype, dl, hist>>
  /\ tail' = (tail \/ Long(hout))
  /\ UNCHANGED <<buf, pc>>

---------------------------------------------------------------------------
(* The PC.                                                                 *)

HostCommand ==
  /\ hpc = "idle" /\ hout = None /\ serial < MaxCmds
  /\ \E c \in Commands :
       /\ hcmd' = c /\ hout' = c
       /\ hist' = [hist EXCEPT !.sent = FALSE, !.kept = IF c.c = "download" THEN 0 ELSE @]
  /\ hpc' = "await" /\ serial' = serial + 1 /\ hres' = "none"
  /\ UNCHANGED <<dpc, server, dout>>

\* It reads one reply, and sends its data after DATA.
HostReply ==
  /\ hpc \in {"await", "sent"} /\ hout = None /\ dout # <<>>
  /\ hpc' = IF Head(dout).k = "DATA" /\ hcmd.c = "download" THEN "data" ELSE "idle"
  /\ hres' = Head(dout).k /\ dout' = Tail(dout)
  /\ hist' = [hist EXCEPT !.kept = IF hpc = "sent" /\ hist.sent /\ Head(dout).k = "OKAY"
                                     THEN serial ELSE @]
  /\ UNCHANGED <<dpc, server, hcmd, hout, serial>>

HostData ==
  /\ hpc = "data" /\ hout = None
  /\ \E n \in 1 .. hcmd.n :
       /\ n = hcmd.n \/ "short" \in Faults
       /\ hout' = Packet("data", "nosuch", n, hcmd.kind)
       /\ hist' = [hist EXCEPT !.sent = (n = hcmd.n)]
  /\ hpc' = "sent"
  /\ UNCHANGED <<dpc, server, dout, hcmd, hres, serial>>

\* The PC program is stopped, at any point: what it was writing is taken back,
\* the reply it was to read is not.
HostAbort ==
  /\ "abort" \in Faults /\ hpc \in {"data", "await", "sent"}
  /\ hpc' = "idle" /\ hres' = "none" /\ hout' = None
  /\ hist' = [hist EXCEPT !.gone = @ \/ dout # <<>>]
  /\ UNCHANGED <<dpc, server, dout, hcmd, serial>>

---------------------------------------------------------------------------
Init ==
  /\ dpc = "poll" /\ dsize = 0 /\ dbytes = 0 /\ rx = 0
  /\ tail \in BOOLEAN      \* cmdbuf is not cleared
  /\ buf = NoImage /\ parts = [p \in Parts |-> NoImage] /\ boottype = "normal"
  /\ dl = 0 /\ dout = <<>>
  /\ hpc = "idle" /\ hcmd = None /\ hres = "none" /\ hout = None /\ serial = 0
  /\ hist = [sent |-> FALSE, kept |-> 0, torn |-> {}, gone |-> FALSE]

Device == fastboot_download_image \/ rx_handler
Host   == HostCommand \/ HostReply \/ HostData \/ HostAbort
Next   == Device \/ Host

Spec == Init /\ [][Next]_vars

\* The server polls for ever; the PC sends its data and reads its replies.
FairSpec == Spec /\ WF_vars(Device) /\ WF_vars(HostReply) /\ WF_vars(HostData)

---------------------------------------------------------------------------
(* Properties.                                                             *)

\* Type invariant; what is announced and kept never exceeds the buffer.
TypeOK ==
  /\ dpc \in {"poll", "left"} /\ tail \in BOOLEAN
  /\ dsize \in 0 .. BufSize /\ dbytes \in 0 .. BufSize /\ rx \in 0 .. BufSize
  /\ buf.id \in 0 .. serial /\ dl \in 0 .. serial
  /\ boottype \in {"normal", "factory"}
  /\ \A i \in DOMAIN dout : dout[i].k \in {"OKAY", "FAIL", "DATA"}
  /\ hpc \in {"idle", "await", "data", "sent"}

\* What the PC is told: after a download it saw end well and no other one, an
\* OKAY to its flash of a kernel or ramdisk means that this very image is on
\* the partition, complete and with good CRCs, unless the write itself failed
\* unnoticed; however many downloads were refused, cut short, abandoned or
\* swallowed other commands before (cmd_fastboot.c:473-542).
OkayMeansFlashed ==
  /\ hpc = "idle" /\ hres = "OKAY" /\ hist.kept > 0
  /\ hcmd.c = "flash" /\ hcmd.p = "kernel0" /\ "kernel0" \notin hist.torn
  => parts["kernel0"] = [id |-> hist.kept, kind |-> "uimage", whole |-> TRUE]

\* What is flashed is what the last download command asked for: a download
\* that was refused also takes back the one before it (cmd_fastboot.c:297-329
\* and 475).
FlashesLatest == [][parts' # parts => buf.id = dl]_vars

\* The device and the PC never both write, which blocks them both for ever
\* (imapx800_udc.c:962), but for two reasons: the device has a second reply to
\* a boot of a bad image or to a flash of the system that did not start
\* (cmd_fastboot.c:394-403 and 525-527), or the PC program was stopped before
\* it read the reply.
NeverBothWriting ==
  dout # <<>> /\ hout # None => Head(dout).again \/ hist.gone

\* The server takes what the PC sends for more of a download the PC has given up.
Swallowing == dsize > 0 /\ hpc = "await" /\ hout = None /\ dout = <<>>

\* Every command is answered or starts the system, unless a second reply or a
\* download given up is in its way (cmd_fastboot.c:549-617).
CommandAnswered ==
  hpc = "await" ~>
    (hpc # "await" \/ dpc = "left" \/ Swallowing \/ (dout # <<>> /\ hout # None))
=============================================================================
