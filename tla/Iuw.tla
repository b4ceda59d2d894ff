-------------------------------- MODULE Iuw --------------------------------
(***************************************************************************)
(* The IUW protocol: iuw_connect and iuw_server                            *)
(* (infotm/strategy/iuw/iuw_base.c, iuw_extra.c) serving the commands of a *)
(* PC over USB (infotm/drivers/udc/imapx800_udc.c).                        *)
(*                                                                         *)
(* udc_write returns when the other side has taken the transfer and        *)
(* udc_read when one has arrived, so neither side buffers: `dout` is what  *)
(* the device is writing, `hout` what the PC is writing, and a side that   *)
(* writes does nothing else until the other side reads.                    *)
(*                                                                         *)
(* All packets and all data go through one buffer, `pack`, and a handshake *)
(* overwrites it.  udc_read returns 0 when it succeeds, which              *)
(* iuw_shake_hand takes for its result: over USB every reply is accepted.  *)
(*                                                                         *)
(* Partition images go to NAND here (yaffs_burn), a page being a chunk.    *)
(***************************************************************************)
EXTENDS Integers, Sequences

CONSTANTS
  Ops,          \* commands the PC sends, a subset of AllOps
  Lengths,      \* how many chunks a command may announce
  MaxCmds,      \* bound: commands of a session
  Faults        \* what may go wrong, a subset of AllFaults

\* Storage write and read, hash, en-/decryption with the PC's key or the
\* device's, partition images, identification, and commands not supported.
AllOps == {"wr", "rd", "hash", "enckey", "enc", "extra", "identify", "jump"}

\* A device cannot be assigned, an engine fails; NAND runs out of good blocks;
\* a read or write of the device fails; NAND has no configuration; the PC
\* answers READY with ERROR and goes away.
AllFaults == {"refuse", "runout", "io", "noconfig", "cancel"}

ASSUME IuwAssumption ==
  /\ Ops \subseteq AllOps /\ Lengths \subseteq Nat /\ MaxCmds \in Nat
  /\ Faults \subseteq AllFaults

VARIABLES
  dpc,      \* where the device stands
  op, remain, offs, encrypt,   \* locals of iuw_process_rw: command, chunks to
            \* go, position on the device, "secure" when data is encrypted
  pack,     \* the packet buffer
  half,     \* its second half, where ss_aes_data leaves its result
  digest,   \* what the hash engine has been fed
  stored,   \* the chunks on the storage range
  dout,     \* what the device is writing
  hpc, hcmd, hleft, hgot, hres,   \* the PC: place, command, chunks to go,
            \* what it was sent back, how its last command ended
  hout,     \* what the PC is writing
  serial,   \* commands sent so far
  before    \* history: `stored` when the last command was sent

dev  == <<dpc, op, remain, offs, encrypt, pack, half, digest, stored>>
host == <<hpc, hcmd, hleft, hgot, hres, serial, before>>
vars == <<dev, dout, host, hout>>

\* A transfer: its kind, the chunk it carries, and the length field that a
\* command has at byte 12.
Packet(kind, v, n) == [k |-> kind, v |-> v, n |-> n]
None  == Packet("none", <<>>, 0)
READY == Packet("ready", <<>>, 0)
ERROR == Packet("error", <<>>, 0)
Data(v) == Packet("data", v, 0)
\* The first chunk of a secure isi image says so in its header.
Chunk(k) == <<serial, k, IF k = 1 THEN hcmd.isi ELSE "plain">>
Cipher(v) == <<"cipher">> \o v
Encrypted(mode, v) == IF mode = "secure" THEN <<"isk">> \o v ELSE v
HashOf(s) == <<"hash">> \o s
Seen(p) == IF p.k = "data" THEN p.v ELSE <<p.k>>

---------------------------------------------------------------------------
(* The device.                                                             *)

Idle == dout = None

\* iuw_send_cmd: the packet is made up in `pack`.
iuw_send_cmd(p) == dout' = p /\ pack' = p

\* ptdev->write of what is in a buffer.
Send(v) == dout' = Data(v) /\ UNCHANGED pack

\* ptdev->read into `pack`.
Receive ==
  /\ Idle /\ hout # None
  /\ pack' = hout /\ hout' = None

\* iuw_connect: connect, then the first handshake.
iuw_connect ==
  /\ dpc = "connect" /\ Idle
  /\ iuw_send_cmd(READY) /\ dpc' = "connect_reply"
  /\ UNCHANGED <<op, remain, offs, encrypt, half, digest, stored, host, hout>>

\* A handshake of which only the next place differs.
Handshakes == [connect_reply |-> "serve", id_reply |-> "id_card", id_done |-> "serve",
               rw_reply |-> "loop", enc_reply |-> "enc_send", enc_done |-> "loop",
               hash_reply |-> "hash_send", final_reply |-> "serve"]

Reply ==
  /\ dpc \in DOMAIN Handshakes /\ Receive
  /\ dpc' = Handshakes[dpc]
  /\ UNCHANGED <<op, remain, offs, encrypt, half, digest, stored, dout, host>>

\* iuw_server: a packet that is no command is reported and dispatched all the
\* same; what is not a known command ends in an ERROR packet.
Dispatch ==
  [wr |-> "assign", rd |-> "assign", hash |-> "assign", enc |-> "assign",
   enckey |-> "assign", extra |-> "extra", identify |-> "identify",
   finish |-> "closed"]

iuw_server ==
  /\ dpc = "serve" /\ Idle /\ hout # None /\ hout' = None
  /\ IF hout.k \in DOMAIN Dispatch
       THEN /\ dpc' = Dispatch[hout.k] /\ pack' = hout /\ UNCHANGED dout
       ELSE /\ iuw_send_cmd(ERROR) /\ UNCHANGED dpc
  /\ op' = hout.k /\ remain' = hout.n /\ offs' = 0 /\ encrypt' = "plain"
  /\ UNCHANGED <<half, digest, stored, host>>

\* iuw_check_identity: handshake, card, and the result of the check.
iuw_check_identity ==
  /\ dpc = "identify" /\ Idle
  /\ iuw_send_cmd(READY) /\ dpc' = "id_reply"
  /\ UNCHANGED <<op, remain, offs, encrypt, half, digest, stored, host, hout>>

CheckCard ==
  /\ dpc = "id_card" /\ Idle /\ hout # None /\ hout' = None
  /\ IF Seen(hout) = <<"card">>
       THEN iuw_send_cmd(READY) /\ dpc' = "id_done"
       ELSE iuw_send_cmd(ERROR) /\ dpc' = "serve"
  /\ UNCHANGED <<op, remain, offs, encrypt, half, digest, stored, host>>

\* Mutant: the range is erased before anything is checked.
Refuse_Erased ==
  /\ "refuse" \in Faults /\ iuw_send_cmd(ERROR) /\ dpc' = "serve"
  /\ stored' = <<>> /\ UNCHANGED digest

\* goto __exit_error__ before any data: the device cannot be assigned or has
\* other sizes, or the AES engine does not start.
Refuse ==
  /\ "refuse" \in Faults /\ iuw_send_cmd(ERROR) /\ dpc' = "serve"
  /\ UNCHANGED <<digest, stored>>

\* return -ENOCFG: nothing is sent.
NoConfig ==
  /\ "noconfig" \in Faults /\ dpc' = "serve"
  /\ UNCHANGED <<dout, pack, digest, stored>>

\* The range is erased for a write, the engines are set up, and the PC is told.
Prepare ==
  /\ iuw_send_cmd(READY) /\ dpc' = "rw_reply"
  /\ stored' = IF op = "wr" THEN <<>> ELSE stored
  /\ digest' = <<>>

\* Mutant: the engine is set up before the key is read.
iuw_process_rw_KeyLate ==
  /\ dpc = "assign" /\ Idle
  /\ Prepare \/ (op # "hash" /\ Refuse)
  /\ UNCHANGED <<op, remain, offs, encrypt, half, host, hout>>

\* iuw_process_rw up to the first handshake; a key of the PC's is read first.
iuw_process_rw ==
  /\ dpc = "assign" /\ Idle
  /\ \/ op # "enckey" /\ Prepare
     \/ op \in {"wr", "rd", "enc"} /\ Refuse
     \/ op \in {"wr", "rd"} /\ NoConfig
     \/ op = "enckey" /\ dpc' = "key" /\ UNCHANGED <<dout, pack, digest, stored>>
  /\ UNCHANGED <<op, remain, offs, encrypt, half, host, hout>>

ReadKey ==
  /\ dpc = "key" /\ Idle /\ hout # None /\ hout' = None
  /\ Prepare \/ Refuse
  /\ UNCHANGED <<op, remain, offs, encrypt, half, host>>

\* Mutant: the loop runs one turn short.
LoopDone_Early == remain <= 1

\* while(remain > 0)
LoopDone == remain = 0

TakesData(o) == o \in {"wr", "hash", "enc", "enckey"}

\* "no more good block availible"
RunsOut ==
  /\ "runout" \in Faults /\ op \in {"wr", "rd"}
  /\ iuw_send_cmd(ERROR) /\ dpc' = "serve"
  /\ UNCHANGED <<remain, offs, half, digest, stored>>

\* isi_check_header and isi_is_secure, on the first packet of any command that
\* takes data.
isi_is_secure(v) == IF Len(v) = 3 THEN v[3] ELSE "plain"
Mode == IF offs = 0 THEN isi_is_secure(Seen(hout)) ELSE encrypt

\* Mutant: the buffer is used before the data is in it.
LocalData_Stale == Encrypted(Mode, Seen(pack))

\* What iuw_local_rw works on: the data just read, encrypted in place when the
\* first packet asked for it.
LocalData == Encrypted(Mode, Seen(hout))

\* vs_write's result is not looked at: what failed is passed over.
Lost == <<"lost">>
Writes(v) == {v} \cup (IF "io" \in Faults THEN {Lost} ELSE {})

\* One turn of the loop that takes data from the PC.
LoopWrite ==
  /\ dpc = "loop" /\ ~LoopDone /\ TakesData(op)
  /\ Idle /\ hout # None /\ hout' = None
  /\ \/ RunsOut
     \/ /\ remain' = remain - 1 /\ offs' = offs + 1
        /\ IF op = "wr" THEN \E w \in Writes(LocalData) : stored' = Append(stored, w)
           ELSE UNCHANGED stored
        /\ digest' = IF op = "hash" THEN Append(digest, LocalData) ELSE digest
        /\ IF op \in {"enc", "enckey"}
             THEN /\ half' = Cipher(LocalData) /\ iuw_send_cmd(READY)
                  /\ dpc' = "enc_reply"
             ELSE /\ pack' = Data(LocalData) /\ UNCHANGED <<dpc, half, dout>>
  /\ encrypt' = Mode
  /\ UNCHANGED <<op, host>>

\* Mutant: the result is sent from the start of the buffer.
CipherText_First == Seen(pack)

\* ptdev->write(pack + (IR_MAX_BUFFER >> 1), len), then a second handshake.
CipherText == half

SendCipher ==
  /\ dpc = "enc_send" /\ Idle
  /\ Send(CipherText) /\ dpc' = "enc_after"
  /\ UNCHANGED <<op, remain, offs, encrypt, half, digest, stored, host, hout>>

AfterCipher ==
  /\ dpc = "enc_after" /\ Idle
  /\ iuw_send_cmd(READY) /\ dpc' = "enc_done"
  /\ UNCHANGED <<op, remain, offs, encrypt, half, digest, stored, host, hout>>

\* What vs_read leaves in the buffer; a range shorter than the command asks for
\* reads as erased, and a read that fails leaves what was there.
Reads == {IF offs < Len(stored) THEN stored[offs + 1] ELSE <<"erased">>}
           \cup (IF "io" \in Faults THEN {Seen(pack)} ELSE {})

\* One turn of the loop that sends data to the PC.
LoopRead ==
  /\ dpc = "loop" /\ ~LoopDone /\ op = "rd" /\ Idle
  /\ \/ RunsOut
     \/ /\ remain' = remain - 1 /\ offs' = offs + 1
        /\ \E v \in Reads : dout' = Data(v) /\ pack' = Data(v)
        /\ UNCHANGED <<dpc, half, digest, stored>>
  /\ UNCHANGED <<op, encrypt, host, hout>>

\* Mutant: every command ends with a handshake.
NeedsFinalShake_Always(o) == TRUE

\* "crypte mode do not need final shake"
NeedsFinalShake(o) == o \notin {"enc", "enckey"}

LoopEnd ==
  /\ dpc = "loop" /\ LoopDone /\ Idle
  /\ IF op = "hash" THEN iuw_send_cmd(READY) /\ dpc' = "hash_reply"
     ELSE IF NeedsFinalShake(op) THEN iuw_send_cmd(READY) /\ dpc' = "final_reply"
     ELSE dpc' = "serve" /\ UNCHANGED <<dout, pack>>
  /\ UNCHANGED <<op, remain, offs, encrypt, half, digest, stored, host, hout>>

\* hash_value comes after the handshake, so that it is not overwritten by it.
SendHash ==
  /\ dpc = "hash_send" /\ Idle
  /\ \/ dout' = Data(HashOf(digest)) /\ pack' = dout' /\ dpc' = "hash_after"
     \/ "refuse" \in Faults /\ iuw_send_cmd(ERROR) /\ dpc' = "serve"
  /\ UNCHANGED <<op, remain, offs, encrypt, half, digest, stored, host, hout>>

AfterHash ==
  /\ dpc = "hash_after" /\ Idle
  /\ iuw_send_cmd(READY) /\ dpc' = "final_reply"
  /\ UNCHANGED <<op, remain, offs, encrypt, half, digest, stored, host, hout>>

\* iuw_extra: the partition is looked up, then the handshake.
iuw_extra ==
  /\ dpc = "extra" /\ Idle
  /\ \/ iuw_send_cmd(READY) /\ dpc' = "extra_reply"
     \/ "refuse" \in Faults /\ iuw_send_cmd(ERROR) /\ dpc' = "serve"
  /\ UNCHANGED <<op, remain, offs, encrypt, half, digest, stored, host, hout>>

\* The length is taken from `pack`, which now holds the reply; yaffs_burn
\* erases the range.
ExtraReply ==
  /\ dpc = "extra_reply" /\ Receive
  /\ remain' = pack'.n /\ dpc' = "extra_burn" /\ stored' = <<>>
  /\ UNCHANGED <<op, offs, encrypt, half, digest, dout, host>>

\* yaffs_conv gets a page and puts it; it does not look at put_page's result,
\* nor put_page at vs_write's.
ExtraData ==
  /\ dpc = "extra_burn" /\ remain > 0 /\ Receive
  /\ \/ \E w \in Writes(Seen(hout)) : stored' = Append(stored, w)
     \/ "runout" \in Faults /\ UNCHANGED stored
  /\ remain' = remain - 1
  /\ UNCHANGED <<dpc, op, offs, encrypt, half, digest, dout, host>>

ExtraEnd ==
  /\ dpc = "extra_burn" /\ remain = 0 /\ Idle
  /\ iuw_send_cmd(READY) /\ dpc' = "final_reply"
  /\ UNCHANGED <<op, remain, offs, encrypt, half, digest, stored, host, hout>>

---------------------------------------------------------------------------
(* The PC, as the device's side of the protocol needs it.                  *)

HostReads == hout = None /\ dout # None /\ dout' = None
\* The PC repeats the length of its command in READY: iuw_extra, which takes the
\* length from there, reads no image otherwise.
HReady == [READY EXCEPT !.n = hcmd.n]
End(res) == hpc' = "idle" /\ hres' = res

HostStart ==
  /\ hpc = "start" /\ HostReads
  /\ hout' = HReady /\ hpc' = "idle"
  /\ UNCHANGED <<dev, hcmd, hleft, hgot, hres, serial, before>>

HostCommand ==
  /\ hpc = "idle" /\ hout = None /\ serial < MaxCmds
  /\ \E o \in Ops, n \in Lengths, isi \in {"plain", "secure"} :
       /\ isi = "secure" => TakesData(o)
       /\ hcmd' = [op |-> o, n |-> n, isi |-> isi]
       /\ hout' = Packet(o, <<>>, n)
       /\ hleft' = n
       /\ hpc' = IF o = "enckey" THEN "sendkey" ELSE "await"
  /\ serial' = serial + 1 /\ before' = stored /\ hgot' = <<>> /\ hres' = "none"
  /\ UNCHANGED <<dev, dout>>

HostFinish ==
  /\ hpc = "idle" /\ hout = None
  /\ hout' = Packet("finish", <<>>, 0) /\ hpc' = "done"
  /\ UNCHANGED <<dev, dout, hcmd, hleft, hgot, hres, serial, before>>

HostKey ==
  /\ hpc = "sendkey" /\ hout = None
  /\ hout' = Data(<<"key">>) /\ hpc' = "await"
  /\ UNCHANGED <<dev, dout, hcmd, hleft, hgot, hres, serial, before>>

\* Where READY takes the PC: it answers READY and goes on.
AfterReady ==
  [await |-> CASE hcmd.op = "identify" -> "card"
               [] hcmd.op = "rd" -> "fetch"
               [] hcmd.op \in {"enc", "enckey"} -> "enc_send"
               [] OTHER -> "stream",
   id_result |-> "idle", enc_wait |-> "enc_get", enc_next |-> "enc_send",
   hash_wait |-> "hash_get", final |-> "idle"]

HostReady ==
  /\ hpc \in DOMAIN AfterReady /\ HostReads /\ dout.k = "ready"
  /\ \/ hout' = HReady /\ hpc' = AfterReady[hpc]
        /\ hres' = IF AfterReady[hpc] = "idle" THEN "ok" ELSE hres
     \/ /\ "cancel" \in Faults /\ hpc = "await"
        /\ hout' = ERROR /\ hpc' = "done" /\ hres' = "cancelled"
  /\ UNCHANGED <<dev, hcmd, hleft, hgot, serial, before>>

\* An ERROR packet ends the command.
HostError ==
  /\ hpc \notin {"start", "idle", "done"} /\ HostReads /\ dout.k = "error"
  /\ End(IF hpc = "await" THEN "refused" ELSE "failed")
  /\ UNCHANGED <<dev, hout, hcmd, hleft, hgot, serial, before>>

HostCard ==
  /\ hpc = "card" /\ hout = None
  /\ \E card \in {"card", "wrong"} : hout' = Data(<<card>>)
  /\ hpc' = "id_result"
  /\ UNCHANGED <<dev, dout, hcmd, hleft, hgot, hres, serial, before>>

HostSends ==
  /\ hpc \in {"stream", "enc_send"} /\ hout = None /\ hleft > 0
  /\ hout' = Data(Chunk((hcmd.n - hleft) + 1)) /\ hleft' = hleft - 1
  /\ hpc' = IF hpc = "stream" THEN "stream" ELSE "enc_wait"
  /\ UNCHANGED <<dev, dout, hcmd, hgot, hres, serial, before>>

HostSent ==
  /\ hpc \in {"stream", "enc_send"} /\ hout = None /\ hleft = 0
  /\ IF hpc = "enc_send" THEN End("ok")
     ELSE /\ hpc' = IF hcmd.op = "hash" THEN "hash_wait" ELSE "final"
          /\ UNCHANGED hres
  /\ UNCHANGED <<dev, dout, hout, hcmd, hleft, hgot, serial, before>>

HostGets ==
  /\ hpc \in {"fetch", "enc_get", "hash_get"} /\ (hpc = "fetch" => hleft > 0)
  /\ HostReads /\ dout.k = "data"
  /\ hgot' = Append(hgot, dout.v)
  /\ hleft' = IF hpc = "fetch" THEN hleft - 1 ELSE hleft
  /\ hpc' = CASE hpc = "fetch" -> "fetch" [] hpc = "enc_get" -> "enc_next"
              [] hpc = "hash_get" -> "final"
  /\ UNCHANGED <<dev, hout, hcmd, hres, serial, before>>

HostFetched ==
  /\ hpc = "fetch" /\ hout = None /\ hleft = 0
  /\ hpc' = "final"
  /\ UNCHANGED <<dev, dout, hout, hcmd, hleft, hgot, hres, serial, before>>

---------------------------------------------------------------------------
Init ==
  /\ dpc = "connect" /\ op = "none" /\ remain = 0 /\ offs = 0 /\ encrypt = "plain"
  /\ pack = None /\ half = <<>> /\ digest = <<>> /\ stored = <<>>
  /\ dout = None /\ hout = None
  /\ hpc = "start" /\ hcmd = [op |-> "none", n |-> 0, isi |-> "plain"]
  /\ hleft = 0 /\ hgot = <<>> /\ hres = "none" /\ serial = 0 /\ before = <<>>

Device ==
  \/ iuw_connect \/ Reply \/ iuw_server \/ iuw_check_identity \/ CheckCard
  \/ iuw_process_rw \/ ReadKey \/ LoopWrite \/ SendCipher \/ AfterCipher \/ LoopRead
  \/ LoopEnd \/ SendHash \/ AfterHash
  \/ iuw_extra \/ ExtraReply \/ ExtraData \/ ExtraEnd

Host ==
  \/ HostStart \/ HostCommand \/ HostFinish \/ HostKey \/ HostReady \/ HostError
  \/ HostCard \/ HostSends \/ HostSent \/ HostGets \/ HostFetched

Next == Device \/ Host

Spec == Init /\ [][Next]_vars

\* The server is one loop that never sleeps; the PC program goes on until it
\* has sent its last command.
FairSpec == Spec /\ WF_vars(Device) /\ WF_vars(Host)

---------------------------------------------------------------------------
(* Properties.                                                             *)

\* Type invariant.
TypeOK ==
  /\ dpc \in {"connect", "serve", "closed", "identify", "id_card", "assign", "key",
              "loop", "enc_send", "enc_after", "hash_send", "hash_after", "extra",
              "extra_reply", "extra_burn"} \cup DOMAIN Handshakes
  /\ remain \in Nat /\ offs \in Nat /\ hleft \in Nat /\ serial \in 0 .. MaxCmds
  /\ hpc \in {"start", "idle", "done", "sendkey", "card", "stream", "fetch", "enc_send",
              "enc_get", "hash_get"} \cup DOMAIN AfterReady
  /\ hres \in {"none", "ok", "refused", "failed", "cancelled"}

\* Between two commands both sides agree that nothing is going on: when the PC
\* is about to send a command, the device is waiting for one or is just
\* taking the last READY, and nothing is on its way to the PC.
InStep ==
  hpc = "idle" /\ hres # "none" =>
    /\ dout = None
    /\ \/ dpc = "serve" /\ hout = None
       \/ hout # None /\ dpc \in {"id_done", "final_reply", "enc_done"}
       \/ hout = None /\ dpc = "loop" /\ remain = 0 /\ ~NeedsFinalShake(op)

\* The state of a session: its types, and both sides in step.
SessionInv == TypeOK /\ InStep

\* What a command that takes data has to work on: its chunks, all of them
\* encrypted when the first one has the header of a secure image.
Work(k) == Encrypted(hcmd.isi, Chunk(k))

\* A write that ended well has a place for every chunk of its command and the
\* chunk in it, encrypted where the image asks for it, whatever commands came
\* before; only a chunk whose device write failed is missing from its place,
\* which the code lets pass (iuw_base.c:391-479).
WriteStoresAll ==
  hpc = "idle" /\ hres = "ok" /\ hcmd.op = "wr" =>
    /\ Len(stored) = hcmd.n
    /\ \A k \in 1 .. hcmd.n : stored[k] \in Writes(Work(k))

\* What a partition image that ended well leaves on its range is pages of that
\* image, in order, and nothing of earlier commands (iuw_extra.c:117-138,
\* yaffs.c:27-61).
ImageStoresOnly ==
  hpc = "idle" /\ hres = "ok" /\ hcmd.op = "extra" =>
    /\ \A k \in DOMAIN stored : \E c \in 1 .. hcmd.n : stored[k] \in Writes(Chunk(c))
    /\ \A j, k \in DOMAIN stored :
         j < k /\ stored[j] # Lost /\ stored[k] # Lost => stored[j][2] < stored[k][2]

\* What is stored is what was sent, by either kind of command, where the
\* device took it.
StoresWhatWasSent == WriteStoresAll /\ ImageStoresOnly

\* What the PC gets back is computed from what it sent, although all of it
\* passes through the one packet buffer; from its ciphertext when it sent a
\* secure image, since the check is made for every command (iuw_base.c:435-496).
ResultsMatchInput ==
  hpc = "idle" /\ hres = "ok" =>
    /\ hcmd.op = "hash" => hgot = <<HashOf([k \in 1 .. hcmd.n |-> Work(k)])>>
    /\ hcmd.op \in {"enc", "enckey"} => hgot = [k \in 1 .. hcmd.n |-> Cipher(Work(k))]

\* A command that is answered with ERROR before any data has not touched the
\* storage (iuw_base.c:354-406).
RefusedUntouched == hres = "refused" /\ hpc = "idle" => stored = before

\* The server, which reports a packet that is no command and dispatches it all
\* the same (iuw_base.c:537-541), is never waiting for a command when the PC
\* sends data.
DataNeverDispatched == dpc = "serve" /\ Idle /\ hout # None => hout.k # "data"

\* The device reports that it ran out of good blocks while the PC is writing
\* its next chunk.
ErrorMeetsData == dout.k = "error" /\ hout.k = "data" /\ hpc = "stream"

\* The two sides never both write, which blocks them both for ever, but for
\* that one case (iuw_base.c:450-462).
NeverBothWriting == dout # None /\ hout # None => ErrorMeetsData

\* A NAND command met no NAND configuration and was not answered.
Unanswered == hpc = "await" /\ dpc = "serve" /\ dout = None /\ hout = None

\* A session ends, the device returning to its caller (iuw_base.c:509-601),
\* unless the PC went away, or it blocks in one of the two ways above.
SessionEnds ==
  <>(dpc = "closed" \/ hres = "cancelled" \/ []ErrorMeetsData \/ []Unanswered)
=============================================================================
