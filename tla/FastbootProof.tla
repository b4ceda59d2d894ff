--------------------------- MODULE FastbootProof ---------------------------
(***************************************************************************)
(* Theorems about Fastboot for every buffer, page and piece size, every    *)
(* set of announced sizes and any number of commands.                      *)
(***************************************************************************)
EXTENDS Fastboot, SequenceTheorems, TLAPS

Names == {"download", "flash", "boot", "bootrecovery", "bootos", "continue", "getvar",
          "setserial", "erase", "reboot", "other", "data", "none"}
Message == [c : Names, p : Parts, n : Nat, kind : AllKinds]
Image == [id : Nat, kind : AllKinds, whole : BOOLEAN]
Answers == [k : {"OKAY", "FAIL", "DATA"}, c : Names, again : BOOLEAN]

\* What the device may have to write: nothing, one reply, or two of which the
\* second is marked as such.  Only a download is answered DATA.
Outgoing(s) ==
  \/ s = <<>>
  \/ \E r \in Answers : s = <<r>> /\ (r.k = "DATA" => r.c = "download")
  \/ \E r1, r2 \in Answers : s = <<r1, r2>> /\ r2.again /\ "DATA" \notin {r1.k, r2.k}

\* Types of what TypeOK leaves open.
DataTypes ==
  /\ hout \in Message /\ hcmd \in Message /\ serial \in Nat
  /\ buf \in Image /\ parts \in [Parts -> Image]
  /\ hist \in [sent : BOOLEAN, kept : Nat, torn : SUBSET Parts, gone : BOOLEAN]
  /\ Outgoing(dout)

\* A message on its way is a command or the data of one, and a side that has
\* sent something waits for the reply.  A PC that was stopped before it read
\* its reply is idle or blocked from then on.
Turns ==
  /\ hout # None => hpc \in {"await", "sent"}
  /\ dout # <<>> /\ (hpc \in {"idle", "data"} \/ hout # None) => Head(dout).again \/ hist.gone
  /\ hist.gone => dout # <<>> /\ (hpc = "idle" \/ (hpc = "await" /\ hout # None))

\* A download is under way from its DATA reply on: while the reply is on its
\* way, while the PC has data to send, and while the data is on its way.
Expected ==
  /\ dout # <<>> /\ Head(dout).k = "DATA" => dsize > 0
  /\ hpc = "data" => dsize > 0 /\ dout = <<>>
  /\ hout.c = "data" => dsize > 0

\* What is kept of the buffer is what the last download command asked for.
Latest == dbytes > 0 => buf.id = dl /\ dsize = 0

\* The download the PC works on is the one the server works on: the command
\* while it is on its way, what DATA promised, the data, and its end.
Agreed(n) == dl = serial /\ dsize = n /\ rx = n
Complete == dsize = 0 /\ dbytes > 0 /\ buf.id = dl /\ buf.whole
InStep ==
  /\ hpc = "await" /\ hout # None => hout = hcmd
  /\ hpc = "await" /\ hout = None /\ dout # <<>> /\ Head(dout).k = "DATA" =>
       hcmd.c = "download" /\ Agreed(hcmd.n)
  /\ hpc \in {"data", "sent"} => hcmd.c = "download" /\ dl = serial
  /\ hpc = "data" => Agreed(hcmd.n)
  /\ hpc = "sent" /\ hout # None =>
       hout.c = "data" /\ Agreed(hcmd.n) /\ (hist.sent => hout.n = hcmd.n) /\ dout = <<>>
  /\ hpc = "sent" /\ hout = None /\ hist.sent => Complete
  /\ hpc = "sent" /\ dout # <<>> => Head(dout).k = "OKAY"

\* A download that the PC saw end well stays in the buffer until it sends
\* another download command.
Kept ==
  /\ hist.kept > 0 => Complete /\ dl = hist.kept
  /\ hpc # "idle" /\ hcmd.c = "download" => hist.kept = 0

\* What an OKAY to a flash says, from the moment it is written.
Holds == parts["kernel0"] = [id |-> hist.kept, kind |-> "uimage", whole |-> TRUE]
Asked == hist.kept > 0 /\ hcmd.c = "flash" /\ hcmd.p = "kernel0" /\ "kernel0" \notin hist.torn
Told ==
  /\ hpc = "await" /\ hout = None /\ dout # <<>> /\ Head(dout).k = "OKAY" /\ Asked => Holds
  /\ hpc = "idle" /\ hres = "OKAY" /\ Asked => Holds

\* The inductive invariant.
ServerInv ==
  TypeOK /\ DataTypes /\ Turns /\ Expected /\ Latest /\ InStep /\ Kept /\ Told

\* The data of a download is never dispatched as a command.
DataNotDispatched == hout.c = "data" => dsize > 0

---------------------------------------------------------------------------
(* Operators.                                                              *)

LEMMA WantsType ==
  ASSUME NEW n \in Nat, rx \in 0 .. BufSize
  PROVE  Wants(n) \in 0 .. BufSize
  <1> DEFINE q == (n + (Piece - 1)) \div Piece
  <1>1. q \in Nat
    BY FastbootAssumption
  <1>2. Pieces(n) \in Nat
    BY <1>1, FastbootAssumption DEF Pieces
  <1>3. QED
    BY <1>2, FastbootAssumption DEF Wants

\* A packet of the whole length leaves nothing to want.
LEMMA WholeIsAll ==
  ASSUME NEW n \in Nat, rx = n
  PROVE  Wants(n) = 0
  <1> DEFINE q == (n + (Piece - 1)) \div Piece
  <1>1. q \in Nat /\ q * Piece <= n + (Piece - 1) /\ n + (Piece - 1) < q * Piece + Piece
    BY FastbootAssumption
  <1>2. Pieces(n) = q * Piece
    BY DEF Pieces
  <1> HIDE DEF q
  <1>3. q * Piece \in Nat
    BY <1>1, FastbootAssumption
  <1>4. ~(q * Piece < n)
    BY <1>1, <1>3, FastbootAssumption
  <1>5. QED
    BY <1>2, <1>4 DEF Wants

\* A reply is a sequence of one answer, two replies one of two.
LEMMA ReplyShape ==
  ASSUME NEW c, NEW k, NEW k2
  PROVE  /\ Reply(c, k) \o Again(c, k2) = <<[k |-> k, c |-> c, again |-> FALSE],
                                            [k |-> k2, c |-> c, again |-> TRUE]>>
         /\ <<>> \o Reply(c, k) = Reply(c, k)
  <1> DEFINE a == [k |-> k, c |-> c, again |-> FALSE]
             b == [k |-> k2, c |-> c, again |-> TRUE]
  <1>1. <<a>> \in Seq({a, b}) /\ <<b>> \in Seq({a, b})
    OBVIOUS
  <1> HIDE DEF a, b
  <1>2. <<a>> \o <<b>> = <<a, b>>
    <2>1. <<a, b>> \in Seq({a, b}) /\ Len(<<a, b>>) = 2
      OBVIOUS
    <2>2. <<a>> \o <<b>> \in Seq({a, b}) /\ Len(<<a>> \o <<b>>) = 2
      BY <1>1, ConcatProperties
    <2>3. (<<a>> \o <<b>>)[1] = a /\ (<<a>> \o <<b>>)[2] = b
      BY <1>1
    <2>4. \A i \in 1 .. 2 : (<<a>> \o <<b>>)[i] = <<a, b>>[i]
      BY <2>3
    <2>5. QED
      BY <2>1, <2>2, <2>4, SeqEqual
  <1>3. <<>> \o <<a>> = <<a>>
    BY <1>1
  <1>4. QED
    BY <1>2, <1>3 DEF a, b, Reply, Again

LEMMA OneReply ==
  ASSUME NEW c \in Names, NEW k \in {"OKAY", "FAIL", "DATA"}, k = "DATA" => c = "download"
  PROVE  /\ Outgoing(Reply(c, k)) /\ Reply(c, k) # <<>>
         /\ Head(Reply(c, k)).k = k
  <1> DEFINE r == [k |-> k, c |-> c, again |-> FALSE]
  <1>1. r \in Answers /\ r.k = k /\ r.c = c /\ Reply(c, k) = <<r>>
    BY DEF Answers, Reply
  <1> HIDE DEF r
  <1>2. QED
    BY <1>1 DEF Outgoing

LEMMA TwoReplies ==
  ASSUME NEW c \in Names, NEW k \in {"OKAY", "FAIL"}, NEW k2 \in {"OKAY", "FAIL"}
  PROVE  /\ Outgoing(Reply(c, k) \o Again(c, k2)) /\ Reply(c, k) \o Again(c, k2) # <<>>
         /\ Head(Reply(c, k) \o Again(c, k2)).k = k
  <1> DEFINE r1 == [k |-> k, c |-> c, again |-> FALSE]
             r2 == [k |-> k2, c |-> c, again |-> TRUE]
  <1>1. Reply(c, k) \o Again(c, k2) = <<r1, r2>>
    BY ReplyShape
  <1>2. r1 \in Answers /\ r2 \in Answers /\ r1.k = k /\ r2.k = k2 /\ r2.again
    BY DEF Answers
  <1> HIDE DEF r1, r2
  <1>3. QED
    BY <1>1, <1>2 DEF Outgoing

\* Taking the first reply leaves nothing, or the second of two.
LEMMA TailShape ==
  ASSUME NEW s, Outgoing(s), s # <<>>
  PROVE  /\ Outgoing(Tail(s))
         /\ Head(s).k = "DATA" => Head(s).c = "download" /\ Tail(s) = <<>>
         /\ Tail(s) # <<>> => Head(Tail(s)).again /\ Head(Tail(s)).k # "DATA"
  <1>1. CASE \E r \in Answers : s = <<r>> /\ (r.k = "DATA" => r.c = "download")
    BY <1>1 DEF Outgoing
  <1>2. CASE \E r1, r2 \in Answers : s = <<r1, r2>> /\ r2.again /\ "DATA" \notin {r1.k, r2.k}
    <2>1. PICK r1 \in Answers, r2 \in Answers :
            s = <<r1, r2>> /\ r2.again /\ "DATA" \notin {r1.k, r2.k}
      BY <1>2
    <2>2. Head(s) = r1 /\ Tail(s) = <<r2>> /\ Head(Tail(s)) = r2
      BY <2>1
    <2>3. r1.k # "DATA" /\ r2.k # "DATA" /\ r2.again
      BY <2>1
    <2>4. QED
      BY <2>2, <2>3 DEF Outgoing
  <1>3. QED
    BY <1>1, <1>2 DEF Outgoing

LEMMA AnswerKinds ==
  ASSUME NEW s, Outgoing(s)
  PROVE  \A i \in DOMAIN s : s[i].k \in {"OKAY", "FAIL", "DATA"}
  BY DEF Outgoing, Answers

---------------------------------------------------------------------------
LEMMA CommandType ==
  ASSUME NEW c \in Commands
  PROVE  c \in Message /\ c.c # "data" /\ c.c # "none"
  BY FastbootAssumption DEF Commands, Packet, Message, Names, Parts, AllKinds

LEMMA NoneType == None \in Message /\ None.c = "none"
  BY DEF None, Packet, Message, Names, Parts, AllKinds

LEMMA InitServer ==
  ASSUME Init
  PROVE  ServerInv
  <1> USE FastbootAssumption DEF Init
  <1>1. NoImage \in Image
    BY DEF NoImage, Image, AllKinds
  <1>2. TypeOK
    BY <1>1 DEF TypeOK, NoImage
  <1>3. hist \in [sent : BOOLEAN, kept : Nat, torn : SUBSET Parts, gone : BOOLEAN]
    OBVIOUS
  <1>4. DataTypes
    BY <1>1, <1>3, NoneType DEF DataTypes, Outgoing
  <1>5. Turns /\ Expected /\ Latest
    BY NoneType DEF Turns, Expected, Latest
  <1>6. InStep /\ Kept /\ Told
    BY NoneType DEF InStep, Kept, Told, Asked
  <1>7. QED
    BY <1>2, <1>4, <1>5, <1>6 DEF ServerInv

\* What a device step has to show of the turns: the device has taken the PC's
\* message, so the PC awaits a reply and nothing is on its way from it.
LEMMA DeviceReplies ==
  ASSUME ServerInv, hout # None, hout' = None, dout = <<>>, UNCHANGED pc,
         Outgoing(dout'), hist'.gone = hist.gone,
         dout' # <<>> /\ Head(dout').k = "DATA" => dsize' > 0
  PROVE  Turns' /\ Expected' /\ hpc \in {"await", "sent"} /\ ~hist.gone
  <1>1. hpc \in {"await", "sent"} /\ ~hist.gone
    BY DEF ServerInv, Turns
  <1>2. None.c # "data" /\ None' = None
    BY NoneType DEF None
  <1>3. QED
    BY <1>1, <1>2 DEF pc, Turns, Expected

LEMMA DownloadStep ==
  ASSUME ServerInv, fastboot_download_image
  PROVE  ServerInv'
  <1> USE FastbootAssumption DEF ServerInv
  <1>1. hout \in Message /\ Length(hout) \in Nat
    BY DEF DataTypes, Message, Length
  <1>2. Wants(Length(hout)) \in 0 .. BufSize
    BY <1>1, WantsType DEF TypeOK
  <1>3. /\ hout # None /\ hout' = None /\ buf' = Received(hout) /\ rx' = Wants(Length(hout))
        /\ dsize > 0 /\ dout = <<>>
        /\ UNCHANGED <<dpc, tail, parts, boottype, dl, pc, hist>>
        /\ \/ rx' > 0 /\ UNCHANGED <<dsize, dbytes, dout>>
           \/ ~(rx' > 0) /\ dbytes' = dsize /\ dsize' = 0 /\ dout' = Reply("download", "OKAY")
    BY DEF fastboot_download_image
  <1>4. /\ Received(hout) \in Image /\ Received(hout).id = dl
        /\ Received(hout).whole = (hout.c = "data" /\ rx = dsize /\ hout.n = dsize)
    <2>1. (hout.c = "data" /\ rx = dsize /\ hout.n = dsize) \in BOOLEAN
      OBVIOUS
    <2>2. dl \in Nat /\ buf.kind \in AllKinds /\ hout.kind \in AllKinds /\ "raw" \in AllKinds
      BY <1>1 DEF DataTypes, TypeOK, Message, Image, AllKinds
    <2>3. QED
      BY <2>1, <2>2 DEF Received, Image
  <1>5. Outgoing(dout') /\ (dout' # <<>> => Head(dout').k = "OKAY")
    <2>1. "download" \in Names
      BY DEF Names
    <2>2. QED
      BY <1>3, <2>1, OneReply DEF DataTypes
  <1>6. Turns' /\ Expected' /\ hpc \in {"await", "sent"}
    BY <1>3, <1>5, DeviceReplies
  <1>7. DataTypes'
    BY <1>3, <1>4, <1>5, NoneType DEF DataTypes, pc
  <1>8. TypeOK'
    BY <1>2, <1>3, <1>4, <1>5, AnswerKinds DEF TypeOK, pc
  <1>9. Latest'
    BY <1>3, <1>4 DEF Latest, TypeOK
  <1>10. hist.kept = 0
    BY <1>3 DEF Kept, Complete, DataTypes
  <1>11. Kept' /\ Told'
    BY <1>3, <1>6, <1>10 DEF Kept, Told, Asked, pc
  <1>12. hpc = "sent" /\ hist.sent => Complete'
    <2> SUFFICES ASSUME hpc = "sent", hist.sent
                 PROVE  Complete'
      OBVIOUS
    <2>1. hout.c = "data" /\ Agreed(hcmd.n) /\ hout.n = hcmd.n
      BY <1>3 DEF InStep
    <2>2. rx = hout.n /\ dsize = hout.n /\ Length(hout) = hout.n /\ hout.n \in Nat
      BY <1>1, <2>1 DEF Agreed, Length
    <2>3. Wants(Length(hout)) = 0
      BY <2>2, WholeIsAll
    <2>4. dsize' = 0 /\ dbytes' = dsize
      BY <1>3, <2>3
    <2>5. Received(hout).whole
      BY <1>4, <2>1, <2>2
    <2>6. QED
      BY <1>3, <1>4, <2>4, <2>5 DEF Complete
  <1>13. InStep'
    BY <1>3, <1>5, <1>6, <1>12 DEF InStep, pc
  <1>14. QED
    BY <1>6, <1>7, <1>8, <1>9, <1>11, <1>13

\* What the PC can find coming from a command that is no download: one reply,
\* two, or none once the system has been started.
LEMMA HandlerReplies ==
  ASSUME ServerInv, rx_handler, hout.c # "download"
  PROVE  Outgoing(dout') /\ (dout' # <<>> => Head(dout').k # "DATA")
  <1> DEFINE c == hout.c
             Fine(s) == Outgoing(s) /\ (s # <<>> => Head(s).k # "DATA")
  <1>1. Fine(<<>>)
    BY DEF Outgoing
  <1>2. ASSUME NEW n \in Names, NEW k \in {"OKAY", "FAIL"}
        PROVE  Fine(Reply(n, k)) /\ Fine(<<>> \o Reply(n, k))
    BY OneReply, ReplyShape
  <1>3. ASSUME NEW n \in Names, NEW k \in {"OKAY", "FAIL"}, NEW k2 \in {"OKAY", "FAIL"}
        PROVE  Fine(Reply(n, k) \o Again(n, k2))
    BY TwoReplies
  <1> HIDE DEF Fine
  <1>4. CASE c = "flash" /\ fastboot_do_flash(hout.p)
    <2>1. dout' \in {Reply("flash", "OKAY"), Reply("flash", "FAIL"),
                     Reply("flash", "OKAY") \o Again("flash", "OKAY")}
      BY <1>4 DEF fastboot_do_flash, bootl
    <2>2. "flash" \in Names
      BY DEF Names
    <2>3. Fine(dout')
      BY <2>1, <2>2, <1>2, <1>3
    <2>4. QED
      BY <2>3 DEF Fine
  <1>5. CASE c \in {"boot", "bootrecovery", "bootos"} /\ fastboot_do_boot(c)
    <2>1. dout' \in {<<>>, Reply(c, "OKAY"), Reply(c, "FAIL"), <<>> \o Reply(c, "FAIL"),
                     Reply(c, "OKAY") \o Again(c, "FAIL")}
      BY <1>5 DEF fastboot_do_boot, bootl
    <2>2. c \in Names
      BY <1>5 DEF Names
    <2>3. Fine(dout')
      BY <2>1, <2>2, <1>1, <1>2, <1>3
    <2>4. QED
      BY <2>3 DEF Fine
  <1>6. CASE c \in {"continue", "reboot", "getvar", "setserial", "erase", "other"}
    <2>1. dout' \in {<<>>, Reply(c, "OKAY"), Reply(c, "FAIL"), <<>> \o Reply(c, "FAIL")}
      BY <1>6 DEF rx_handler, bootl, Answer
    <2>2. c \in Names
      BY <1>6 DEF Names
    <2>3. Fine(dout')
      BY <2>1, <2>2, <1>1, <1>2
    <2>4. QED
      BY <2>3 DEF Fine
  <1>7. QED
    BY <1>4, <1>5, <1>6 DEF rx_handler

\* Only a flash changes a partition or its history, and only where the image
\* may be flashed: the partition gets the buffer, or has been torn.
LEMMA FlashedPart ==
  ASSUME ServerInv, rx_handler, hist' # hist \/ parts' # parts
  PROVE  /\ dbytes > 0 /\ hout.c = "flash" /\ hout.p \in {"uboot0", "kernel0", "items"}
         /\ Flashable(hout.p) /\ adr(hout.p)
  <1>1. hout.c = "flash" /\ fastboot_do_flash(hout.p)
    BY DEF rx_handler
  <1>2. QED
    BY <1>1, Zenon DEF fastboot_do_flash

\* What adr leaves.
LEMMA AdrEffect ==
  ASSUME ServerInv, NEW p \in {"uboot0", "kernel0", "items"}, adr(p)
  PROVE  /\ parts' \in [Parts -> Image]
         /\ hist' \in [sent : BOOLEAN, kept : Nat, torn : SUBSET Parts, gone : BOOLEAN]
         /\ hist'.sent = hist.sent /\ hist'.kept = hist.kept /\ hist'.gone = hist.gone
         /\ p \notin hist'.torn => parts'[p] = buf
  <1>1. p \in Parts /\ buf \in Image /\ parts \in [Parts -> Image]
        /\ hist \in [sent : BOOLEAN, kept : Nat, torn : SUBSET Parts, gone : BOOLEAN]
    BY DEF ServerInv, DataTypes, Parts
  <1>2. [buf EXCEPT !.whole = FALSE] \in Image
    BY <1>1 DEF Image
  <1>3. CASE /\ parts' = [parts EXCEPT ![p] = buf]
             /\ hist' = [hist EXCEPT !.torn = @ \ {p}]
    BY <1>1, <1>3
  <1>4. CASE /\ parts' \in {parts, [parts EXCEPT ![p] = [buf EXCEPT !.whole = FALSE]]}
             /\ hist' = [hist EXCEPT !.torn = @ \cup {p}]
    BY <1>1, <1>2, <1>4
  <1>5. QED
    BY <1>3, <1>4 DEF adr

LEMMA CommandStep ==
  ASSUME ServerInv, rx_handler
  PROVE  ServerInv'
  <1> USE FastbootAssumption DEF ServerInv
  <1>1. /\ hout # None /\ hout' = None /\ dsize = 0 /\ dpc = "poll" /\ dout = <<>>
        /\ UNCHANGED <<buf, pc>>
    BY DEF rx_handler
  <1>2. hout \in Message /\ serial \in Nat
    BY DEF DataTypes
  <1>3. /\ UNCHANGED <<dsize, dbytes, rx, dl>> \/ (hout.c = "download" /\ fastboot_pre_download(hout.n))
        /\ dpc' \in {"poll", "left"} /\ boottype' \in {boottype, "factory"}
    BY DEF rx_handler, fastboot_do_flash, fastboot_do_boot, bootl, TypeOK
  <1>4. tail' \in BOOLEAN
    BY Zenon DEF rx_handler
  <1>5. /\ dsize' \in 0 .. BufSize /\ dbytes' \in 0 .. BufSize /\ rx' \in 0 .. BufSize
        /\ dl' \in 0 .. serial
    BY <1>2, <1>3 DEF fastboot_pre_download, TypeOK
  <1>6. /\ Outgoing(dout')
        /\ dout' # <<>> /\ Head(dout').k = "DATA" =>
             hout.c = "download" /\ dsize' > 0 /\ dsize' = hout.n /\ rx' = hout.n /\ dl' = serial
    <2>1. CASE hout.c = "download"
      <3>1. fastboot_pre_download(hout.n) /\ "download" \in Names
        BY <2>1 DEF rx_handler, Names
      <3>2. \/ /\ dout' = Reply("download", "DATA") /\ dsize' > 0
               /\ dsize' = hout.n /\ rx' = hout.n /\ dl' = serial
            \/ dout' = Reply("download", "FAIL")
        BY <1>2, <3>1 DEF fastboot_pre_download, Message
      <3>3. QED
        BY <2>1, <3>1, <3>2, OneReply
    <2>2. QED
      BY <2>1, HandlerReplies
  <1>7. /\ parts' \in [Parts -> Image]
        /\ hist' \in [sent : BOOLEAN, kept : Nat, torn : SUBSET Parts, gone : BOOLEAN]
        /\ hist'.sent = hist.sent /\ hist'.kept = hist.kept /\ hist'.gone = hist.gone
    BY FlashedPart, AdrEffect DEF DataTypes
  <1>8. DataTypes'
    BY <1>1, <1>6, <1>7, NoneType DEF DataTypes, pc
  <1>9. TypeOK'
    BY <1>1, <1>3, <1>4, <1>5, <1>6, AnswerKinds DEF TypeOK, pc
  <1>10. Turns' /\ Expected' /\ hpc \in {"await", "sent"}
    BY <1>1, <1>6, <1>7, DeviceReplies
  <1>11. Latest'
    BY <1>1, <1>3 DEF Latest, fastboot_pre_download
  <1>12. hpc = "await" /\ hout = hcmd
    BY <1>1, <1>10 DEF InStep, Agreed, Expected, TypeOK
  <1>13. hist.kept > 0 => hout.c # "download"
    BY <1>7, <1>12 DEF Kept
  <1>14. Kept'
    BY <1>1, <1>3, <1>7, <1>13 DEF Kept, Complete, pc
  <1>15. InStep'
    BY <1>1, <1>6, <1>12 DEF InStep, Agreed, pc
  <1>16. Told'
    <2> SUFFICES ASSUME Head(dout').k = "OKAY", dout' # <<>>, Asked'
                 PROVE  Holds'
      BY <1>1, <1>12 DEF Told, pc
    <2>1. /\ hist.kept > 0 /\ hout.c = "flash" /\ hout.p = "kernel0"
          /\ "kernel0" \notin hist'.torn
      BY <1>1, <1>7, <1>12 DEF Asked, pc
    <2>2. fastboot_do_flash("kernel0")
      BY <2>1 DEF rx_handler
    <2>3. dbytes > 0
      BY <2>1 DEF Kept, Complete
    <2>4. Flashable("kernel0") /\ adr("kernel0")
      <3>1. /\ IF Flashable("kernel0") THEN adr("kernel0") ELSE UNCHANGED <<parts, hist>>
            /\ dout' = IF Flashable("kernel0") THEN Reply("flash", "OKAY") ELSE Reply("flash", "FAIL")
        BY <2>2, <2>3 DEF fastboot_do_flash, IsSystem
      <3>2. Head(Reply("flash", "FAIL")).k = "FAIL"
        BY OneReply DEF Names
      <3>3. QED
        BY <3>1, <3>2
    <2>5. parts'["kernel0"] = buf
      BY <2>1, <2>4, AdrEffect
    <2>6. buf.id = hist.kept /\ buf.whole /\ buf.kind = "uimage" /\ buf \in Image
      BY <2>1, <2>4 DEF Kept, Complete, Flashable, DataTypes
    <2>7. buf.whole = TRUE
      BY <2>6 DEF Image
    <2>8. buf = [id |-> hist.kept, kind |-> "uimage", whole |-> TRUE]
      BY <2>6, <2>7 DEF Image
    <2>9. QED
      BY <1>7, <2>5, <2>8 DEF Holds
  <1>17. QED
    BY <1>8, <1>9, <1>10, <1>11, <1>14, <1>15, <1>16

LEMMA HostStep ==
  ASSUME ServerInv, Host
  PROVE  ServerInv'
  <1> USE FastbootAssumption DEF ServerInv, server
  <1> DEFINE Histories == [sent : BOOLEAN, kept : Nat, torn : SUBSET Parts, gone : BOOLEAN]
  <1>0. hist \in Histories /\ serial \in Nat
    BY DEF DataTypes
  <1>1. CASE HostCommand
    <2>1. PICK c \in Commands :
            /\ hcmd' = c /\ hout' = c
            /\ hist' = [hist EXCEPT !.sent = FALSE, !.kept = IF c.c = "download" THEN 0 ELSE @]
      BY <1>1 DEF HostCommand
    <2>2. /\ hpc' = "await" /\ serial' = serial + 1 /\ hpc = "idle" /\ hout = None
          /\ UNCHANGED <<dpc, server, dout>>
      BY <1>1 DEF HostCommand
    <2>3. c \in Message /\ c.c # "data" /\ c # None
      BY CommandType, NoneType
    <2>4. hist' \in Histories /\ hist'.gone = hist.gone /\ ~hist'.sent
          /\ hist'.kept = IF c.c = "download" THEN 0 ELSE hist.kept
      BY <1>0, <2>1
    <2>5. DataTypes'
      BY <2>1, <2>2, <2>3, <2>4 DEF DataTypes
    <2>6. TypeOK'
      BY <2>2 DEF TypeOK, DataTypes
    <2>7. Turns' /\ Expected'
      BY <2>1, <2>2, <2>3, <2>4 DEF Turns, Expected
    <2>8. Latest' /\ InStep' /\ Told'
      BY <2>1, <2>2, <2>3 DEF Latest, InStep, Told
    <2>9. Kept'
      BY <2>1, <2>2, <2>4 DEF Kept, Complete
    <2>10. QED
      BY <2>5, <2>6, <2>7, <2>8, <2>9
  <1>2. CASE HostReply
    <2>1. /\ hpc \in {"await", "sent"} /\ hout = None /\ dout # <<>>
          /\ hpc' = IF Head(dout).k = "DATA" /\ hcmd.c = "download" THEN "data" ELSE "idle"
          /\ hres' = Head(dout).k /\ dout' = Tail(dout)
          /\ hist' = [hist EXCEPT !.kept = IF hpc = "sent" /\ hist.sent /\ Head(dout).k = "OKAY"
                                              THEN serial ELSE @]
          /\ UNCHANGED <<dpc, server, hcmd, hout, serial>>
      BY <1>2 DEF HostReply
    <2>2. /\ Outgoing(Tail(dout))
          /\ Head(dout).k = "DATA" => Head(dout).c = "download" /\ Tail(dout) = <<>>
          /\ Tail(dout) # <<>> => Head(Tail(dout)).again /\ Head(Tail(dout)).k # "DATA"
      BY <2>1, TailShape DEF DataTypes
    <2>3. /\ hist' \in Histories /\ hist'.gone = hist.gone /\ hist'.sent = hist.sent
          /\ hist'.torn = hist.torn
          /\ hist'.kept = IF hpc = "sent" /\ hist.sent /\ Head(dout).k = "OKAY"
                             THEN serial ELSE hist.kept
      BY <1>0, <2>1
    <2>4. ~hist.gone
      BY <2>1 DEF Turns
    <2>5. DataTypes'
      BY <2>1, <2>2, <2>3 DEF DataTypes
    <2>6. TypeOK'
      BY <2>1, <2>2, AnswerKinds DEF TypeOK
    <2>7. hpc = "sent" => hpc' = "idle"
      BY <2>1 DEF InStep
    <2>8. hpc' = "data" => /\ hpc = "await" /\ Head(dout).k = "DATA" /\ hcmd.c = "download"
                           /\ Agreed(hcmd.n) /\ dout' = <<>> /\ dsize > 0
      BY <2>1, <2>2, <2>7 DEF InStep, Expected
    <2>9. Turns'
      BY <2>1, <2>2, <2>3, <2>4 DEF Turns
    <2>10. Expected'
      BY <2>1, <2>2, <2>8, NoneType DEF Expected
    <2>11. InStep'
      BY <2>1, <2>8 DEF InStep, Agreed
    <2>12. Kept'
      <3>1. CASE hpc = "sent" /\ hist.sent
        <4>1. Complete /\ dl = serial /\ hpc' = "idle" /\ Head(dout).k = "OKAY"
          BY <2>1, <2>7, <3>1 DEF InStep
        <4>2. Complete' /\ dl' = hist'.kept
          BY <2>1, <2>3, <3>1, <4>1 DEF Complete
        <4>3. QED
          BY <4>1, <4>2 DEF Kept
      <3>2. CASE ~(hpc = "sent" /\ hist.sent)
        <4>1. hist'.kept = hist.kept
          BY <2>3, <3>2
        <4>2. QED
          BY <2>1, <2>8, <4>1 DEF Kept, Complete
      <3>3. QED
        BY <3>1, <3>2
    <2>13. Told'
      <3> SUFFICES ASSUME hpc' = "idle", hres' = "OKAY", Asked'
                   PROVE  Holds'
        BY <2>1 DEF Told
      <3>1. hpc = "await"
        BY <2>1 DEF InStep, Asked
      <3>2. hist'.kept = hist.kept /\ Asked
        BY <2>1, <2>3, <3>1 DEF Asked
      <3>3. Holds
        BY <2>1, <3>1, <3>2 DEF Told
      <3>4. QED
        BY <2>1, <3>2, <3>3 DEF Holds
    <2>14. QED
      BY <2>1, <2>5, <2>6, <2>9, <2>10, <2>11, <2>12, <2>13 DEF Latest
  <1>3. CASE HostData
    <2>1. PICK n \in 1 .. hcmd.n :
            /\ hout' = Packet("data", "nosuch", n, hcmd.kind)
            /\ hist' = [hist EXCEPT !.sent = (n = hcmd.n)]
      BY <1>3 DEF HostData
    <2>2. /\ hpc = "data" /\ hpc' = "sent" /\ hout = None
          /\ UNCHANGED <<dpc, server, dout, hcmd, hres, serial>>
      BY <1>3 DEF HostData
    <2>3. hout' \in Message /\ hout'.c = "data" /\ hout'.n = n /\ hout' # None
      BY <2>1, NoneType DEF DataTypes, Message, Packet, Names, Parts
    <2>4. /\ hist' \in Histories /\ hist'.gone = hist.gone /\ hist'.kept = hist.kept
          /\ hist'.sent => n = hcmd.n
      BY <1>0, <2>1
    <2>5. DataTypes' /\ TypeOK'
      BY <2>2, <2>3, <2>4 DEF DataTypes, TypeOK
    <2>6. Turns' /\ Expected'
      BY <2>2, <2>3, <2>4 DEF Turns, Expected
    <2>7. InStep'
      BY <2>2, <2>3, <2>4 DEF InStep, Agreed, Expected
    <2>8. Latest' /\ Told' /\ Kept'
      BY <2>2, <2>4 DEF Latest, Told, Kept, Complete
    <2>9. QED
      BY <2>5, <2>6, <2>7, <2>8
  <1>4. CASE HostAbort
    <2>1. /\ hpc' = "idle" /\ hres' = "none" /\ hout' = None
          /\ hist' = [hist EXCEPT !.gone = @ \/ dout # <<>>]
          /\ UNCHANGED <<dpc, server, dout, hcmd, serial>>
      BY <1>4 DEF HostAbort
    <2> DEFINE g == hist.gone \/ dout # <<>>
    <2>2. g \in BOOLEAN
      BY Zenon
    <2>3. hist' \in Histories /\ hist'.gone = g /\ hist'.kept = hist.kept
      BY <1>0, <2>1, <2>2
    <2>4. DataTypes' /\ TypeOK'
      BY <2>1, <2>3, NoneType DEF DataTypes, TypeOK
    <2>5. hist.gone => dout # <<>>
      BY DEF Turns
    <2>6. Turns'
      BY <2>1, <2>3, <2>5 DEF Turns
    <2>7. Expected' /\ InStep' /\ Told'
      BY <2>1, NoneType DEF Expected, InStep, Told
    <2>8. Kept' /\ Latest'
      BY <2>1, <2>3 DEF Kept, Complete, Latest
    <2>9. QED
      BY <2>4, <2>6, <2>7, <2>8
  <1>5. QED
    BY <1>1, <1>2, <1>3, <1>4 DEF Host

LEMMA ServerInvariant == Spec => []ServerInv
  <1>1. Init => ServerInv
    BY InitServer
  <1>2. ServerInv /\ [Next]_vars => ServerInv'
    <2>1. ServerInv /\ UNCHANGED vars => ServerInv'
      BY DEF vars, server, pc, ServerInv, TypeOK, DataTypes, Turns, Expected, Latest,
             InStep, Agreed, Kept, Complete, Told, Asked, Holds
    <2>2. QED
      BY <2>1, DownloadStep, CommandStep, HostStep DEF Next, Device
  <1>3. QED
    BY <1>1, <1>2, PTL DEF Spec

---------------------------------------------------------------------------
(* Results.                                                                *)

\* What rx_handler and udc_read keep has its type; in particular what is
\* announced, kept and still wanted of a download fits the transfer buffer,
\* however large the sizes the PC names and however its data is cut.
THEOREM ServerTypes == Spec => []TypeOK
  BY ServerInvariant, PTL DEF ServerInv

\* An OKAY to the flash of a kernel or ramdisk after a download the PC saw end
\* well means that this image is on the partition, unless writing it failed:
\* the buffer has been the PC's own since that download, whatever was refused,
\* abandoned or swallowed before it.
THEOREM OkayIsTrue == Spec => []OkayMeansFlashed
  <1>1. ServerInv => OkayMeansFlashed
    BY DEF ServerInv, Told, Asked, Holds, OkayMeansFlashed
  <1>2. QED
    BY <1>1, ServerInvariant, PTL

\* Server and PC are never both in a write, but behind a second reply or
\* behind a reply the PC was stopped before.
THEOREM OneSideWrites == Spec => []NeverBothWriting
  <1>1. ServerInv => NeverBothWriting
    BY DEF ServerInv, Turns, NeverBothWriting
  <1>2. QED
    BY <1>1, ServerInvariant, PTL

\* Data sent after DATA is received as data: rx_handler never looks for a
\* command in it, although an aborted PC makes it take commands for data.
THEOREM DataStaysData == Spec => []DataNotDispatched
  <1>1. ServerInv => DataNotDispatched
    BY DEF ServerInv, Expected, DataNotDispatched
  <1>2. QED
    BY <1>1, ServerInvariant, PTL

\* A flash writes what the last download command asked for: a download that
\* was refused or is not complete leaves nothing to flash.
THEOREM LatestIsFlashed == Spec => FlashesLatest
  <1>1. ServerInv /\ [Next]_vars => [parts' # parts => buf.id = dl]_vars
    <2> SUFFICES ASSUME ServerInv, Next, parts' # parts
                 PROVE  buf.id = dl
      BY DEF vars
    <2>1. rx_handler
      BY DEF Next, Device, Host, fastboot_download_image, HostCommand, HostReply, HostData,
             HostAbort, server
    <2>2. dbytes > 0
      BY <2>1, FlashedPart
    <2>3. QED
      BY <2>2 DEF ServerInv, Latest
  <1>2. QED
    BY <1>1, ServerInvariant, PTL DEF Spec, FlashesLatest
=============================================================================
