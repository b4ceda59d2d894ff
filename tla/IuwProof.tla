------------------------------ MODULE IuwProof ------------------------------
(***************************************************************************)
(* Theorems about Iuw for every set of commands and lengths and sessions   *)
(* of any length.                                                          *)
(*                                                                         *)
(* The inductive invariant lists, for each place of the PC, where the      *)
(* device can be, what is on its way, and how many chunks either side has  *)
(* still to go.                                                            *)
(***************************************************************************)
EXTENDS Iuw, SequenceTheorems, TLAPS

\* What is on its way to the PC and to the device.
Wire(d, h) == dout.k = d /\ hout.k = h
Quiet == Wire("none", "none")

Enc == {"enc", "enckey"}

\* The device is done with the last command, or knows that it will be without
\* another packet.
Between == dpc = "serve" \/ (dpc = "loop" /\ remain = 0 /\ op \in Enc)

\* Both sides have as many chunks to go; or one is on its way.
Level == remain = hleft
Ahead == remain = hleft + 1
Over  == remain = 0 /\ hleft = 0

Starting ==
  /\ hpc = "start" /\ hres = "none"
  /\ \/ dpc = "connect" /\ Quiet
     \/ dpc = "connect_reply" /\ Wire("ready", "none")

\* Between two commands; the last READY may still be on its way.
Resting ==
  /\ hpc = "idle" /\ (hres = "refused" => stored = before)
  /\ \/ Between /\ Quiet
     \/ dpc \in {"id_done", "final_reply"} /\ Wire("none", "ready")
     \/ dpc = "connect_reply" /\ Wire("none", "ready") /\ hres = "none"

\* The PC has gone, with a last ERROR or finish on its way or without.
Gone ==
  /\ hpc = "done"
  /\ \/ hout.k = "none"
     \/ dpc \in {"rw_reply", "id_reply", "extra_reply"} /\ Wire("none", "error")
     \/ Between /\ Wire("none", "finish")

\* A command is on its way.
Ordering ==
  /\ hpc = IF hcmd.op = "enckey" THEN "sendkey" ELSE "await"
  /\ hcmd.op \in AllOps /\ Between /\ Wire("none", hcmd.op)
  /\ hout.n = hcmd.n /\ hleft = hcmd.n /\ stored = before

\* A command that is dispatched and not yet answered, or just answered; the
\* storage is as it was up to READY.
Awaiting ==
  /\ op = hcmd.op /\ hleft = hcmd.n /\ Level
  /\ dout.k # "ready" => stored = before
  /\ \/ hpc = "sendkey" /\ op = "enckey" /\ dpc \in {"assign", "key"} /\ Quiet
     \/ /\ hpc = "await"
        /\ \/ op = "enckey" /\ dpc \in {"assign", "key"} /\ Wire("none", "data")
           \/ op \in {"wr", "rd", "hash", "enc"} /\ dpc = "assign" /\ Quiet
           \/ op = "extra" /\ dpc = "extra" /\ Quiet
           \/ op = "identify" /\ dpc = "identify" /\ Quiet
           \/ op = "extra" /\ dpc = "extra_reply" /\ Wire("ready", "none")
           \/ op = "identify" /\ dpc = "id_reply" /\ Wire("ready", "none")
           \/ op \in {"wr", "rd", "hash", "enc", "enckey"} /\ dpc = "rw_reply" /\ Wire("ready", "none")
           \/ dpc = "serve" /\ dout.k \in {"error", "none"} /\ hout.k = "none"

Identifying ==
  /\ op = hcmd.op /\ op = "identify"
  /\ \/ hpc = "card" /\ dpc = "id_reply" /\ Wire("none", "ready")
     \/ hpc = "card" /\ dpc = "id_card" /\ Quiet
     \/ hpc = "id_result" /\ dpc = "id_card" /\ Wire("none", "data")
     \/ hpc = "id_result" /\ dpc = "id_done" /\ Wire("ready", "none")
     \/ hpc = "id_result" /\ dpc = "serve" /\ Wire("error", "none")

\* The PC sends chunks: to storage, to the hash engine, or to a partition.
Streaming ==
  /\ hpc = "stream" /\ op = hcmd.op
  /\ \/ /\ op \in {"wr", "hash"}
        /\ \/ dpc = "rw_reply" /\ Wire("none", "ready") /\ Level
           \/ dpc = "loop" /\ Quiet /\ Level
           \/ dpc = "loop" /\ Wire("none", "data") /\ Ahead
     \/ /\ op = "extra"
        /\ \/ dpc = "extra_reply" /\ Wire("none", "ready") /\ hout.n = hleft
           \/ dpc = "extra_burn" /\ Quiet /\ Level
           \/ dpc = "extra_burn" /\ Wire("none", "data") /\ Ahead
     \/ op = "hash" /\ dpc = "hash_reply" /\ Wire("ready", "none") /\ Over
     \/ op \in {"wr", "extra"} /\ dpc = "final_reply" /\ Wire("ready", "none") /\ Over
     \/ op = "wr" /\ dpc = "serve" /\ dout.k = "error" /\ hout.k \in {"none", "data"}

Hashing ==
  /\ op = hcmd.op /\ op = "hash" /\ Over
  /\ \/ hpc = "hash_wait" /\ dpc = "loop" /\ Quiet
     \/ hpc = "hash_wait" /\ dpc = "hash_reply" /\ Wire("ready", "none")
     \/ hpc = "hash_get" /\ dpc = "hash_reply" /\ Wire("none", "ready")
     \/ hpc = "hash_get" /\ dpc = "hash_send" /\ Quiet
     \/ hpc = "hash_get" /\ dpc = "hash_after" /\ Wire("data", "none")
     \/ hpc = "hash_get" /\ dpc = "serve" /\ Wire("error", "none")

Fetching ==
  /\ hpc = "fetch" /\ op = hcmd.op /\ op = "rd"
  /\ \/ dpc = "rw_reply" /\ Wire("none", "ready") /\ Level
     \/ dpc = "loop" /\ Quiet /\ Level
     \/ dpc = "loop" /\ Wire("data", "none") /\ hleft = remain + 1
     \/ dpc = "final_reply" /\ Wire("ready", "none") /\ Over
     \/ dpc = "serve" /\ Wire("error", "none")

\* The PC has sent or fetched all and awaits the last READY.
Closing ==
  /\ hpc = "final" /\ op = hcmd.op /\ hleft = 0
  /\ \/ op = "extra" /\ dpc = "extra_burn" /\ Quiet /\ Over
     \/ op = "hash" /\ dpc = "hash_after" /\ Quiet /\ Over
     \/ op \in {"rd", "wr"} /\ dpc = "loop" /\ Quiet /\ Over
     \/ op \in {"rd", "wr", "hash", "extra"} /\ dpc = "final_reply" /\ Wire("ready", "none") /\ Over
     \/ op \in {"rd", "wr"} /\ dpc = "serve" /\ Wire("error", "none")

\* A chunk goes to the AES engine and its result comes back.
Ciphering ==
  /\ op = hcmd.op /\ op \in Enc
  /\ \/ hpc = "enc_send" /\ dpc \in {"rw_reply", "enc_done"} /\ Wire("none", "ready") /\ Level
     \/ hpc = "enc_send" /\ dpc = "loop" /\ Quiet /\ Level
     \/ hpc = "enc_send" /\ dpc = "serve" /\ Quiet /\ Over
     \/ hpc = "enc_wait" /\ dpc = "loop" /\ Wire("none", "data") /\ Ahead
     \/ hpc = "enc_wait" /\ dpc = "enc_reply" /\ Wire("ready", "none") /\ Level
     \/ hpc = "enc_get" /\ dpc = "enc_reply" /\ Wire("none", "ready") /\ Level
     \/ hpc = "enc_get" /\ dpc = "enc_send" /\ Quiet /\ Level
     \/ hpc = "enc_get" /\ dpc = "enc_after" /\ Wire("data", "none") /\ Level
     \/ hpc = "enc_next" /\ dpc = "enc_after" /\ Quiet /\ Level
     \/ hpc = "enc_next" /\ dpc = "enc_done" /\ Wire("ready", "none") /\ Level

\* Packets, and the length a command announces.
Packets ==
  /\ hout.n \in Nat /\ hcmd.n \in Nat
  /\ dout.k = "none" => dout = None
  /\ hout.k = "none" => hout = None

Phase ==
  \/ Starting \/ Resting \/ Gone \/ Ordering \/ Awaiting \/ Identifying
  \/ Streaming \/ Hashing \/ Fetching \/ Closing \/ Ciphering

\* The inductive invariant of the session.
PhaseInv == TypeOK /\ Packets /\ Phase

---------------------------------------------------------------------------
(* Packets and tables.                                                     *)

LEMMA PacketFields ==
  /\ None.k = "none" /\ READY.k = "ready" /\ ERROR.k = "error"
  /\ None.n = 0 /\ READY.n = 0 /\ ERROR.n = 0
  /\ HReady.k = "ready" /\ HReady.n = hcmd.n
  /\ \A v : Data(v).k = "data" /\ Data(v).n = 0 /\ Data(v).v = v
  /\ \A k, v, n : Packet(k, v, n).k = k /\ Packet(k, v, n).n = n
  BY DEF None, READY, ERROR, HReady, Data, Packet

LEMMA HandshakeTable ==
  /\ DOMAIN Handshakes = {"connect_reply", "id_reply", "id_done", "rw_reply", "enc_reply",
                          "enc_done", "hash_reply", "final_reply"}
  /\ Handshakes["connect_reply"] = "serve" /\ Handshakes["id_reply"] = "id_card"
  /\ Handshakes["id_done"] = "serve" /\ Handshakes["rw_reply"] = "loop"
  /\ Handshakes["enc_reply"] = "enc_send" /\ Handshakes["enc_done"] = "loop"
  /\ Handshakes["hash_reply"] = "hash_send" /\ Handshakes["final_reply"] = "serve"
  BY DEF Handshakes

LEMMA DispatchTable ==
  /\ DOMAIN Dispatch = {"wr", "rd", "hash", "enc", "enckey", "extra", "identify", "finish"}
  /\ \A o \in {"wr", "rd", "hash", "enc", "enckey"} : Dispatch[o] = "assign"
  /\ Dispatch["extra"] = "extra" /\ Dispatch["identify"] = "identify"
  /\ Dispatch["finish"] = "closed"
  BY DEF Dispatch

LEMMA ReadyTable ==
  /\ DOMAIN AfterReady = {"await", "id_result", "enc_wait", "enc_next", "hash_wait", "final"}
  /\ hcmd.op = "identify" => AfterReady["await"] = "card"
  /\ hcmd.op = "rd" => AfterReady["await"] = "fetch"
  /\ hcmd.op \in Enc => AfterReady["await"] = "enc_send"
  /\ hcmd.op \notin {"identify", "rd"} \cup Enc => AfterReady["await"] = "stream"
  /\ AfterReady["id_result"] = "idle" /\ AfterReady["enc_wait"] = "enc_get"
  /\ AfterReady["enc_next"] = "enc_send" /\ AfterReady["hash_wait"] = "hash_get"
  /\ AfterReady["final"] = "idle"
  BY DEF AfterReady, Enc

LEMMA InitPhase ==
  ASSUME Init
  PROVE  PhaseInv
  BY PacketFields, HandshakeTable, ReadyTable, IuwAssumption
     DEF Init, PhaseInv, TypeOK, Packets, Phase, Starting, Wire, Quiet

LEMMA DeviceTypes ==
  ASSUME TypeOK, Packets, Device
  PROVE  TypeOK' /\ Packets'
  <1> USE PacketFields, HandshakeTable, ReadyTable DEF TypeOK, Packets, Idle, iuw_send_cmd, host
  <1>0. (DOMAIN AfterReady)' = DOMAIN AfterReady /\ (DOMAIN Handshakes)' = DOMAIN Handshakes
    BY DEF AfterReady, Handshakes
  <1>1. CASE iuw_connect
    BY <1>0, <1>1 DEF iuw_connect
  <1>2. CASE Reply
    BY <1>0, <1>2 DEF Reply, Receive
  <1>3. CASE iuw_server
    BY <1>0, <1>3, DispatchTable DEF iuw_server
  <1>4. CASE iuw_check_identity
    BY <1>0, <1>4 DEF iuw_check_identity
  <1>5. CASE CheckCard
    BY <1>0, <1>5 DEF CheckCard
  <1>6. CASE iuw_process_rw
    BY <1>0, <1>6 DEF iuw_process_rw, Prepare, Refuse, NoConfig
  <1>7. CASE ReadKey
    BY <1>0, <1>7 DEF ReadKey, Prepare, Refuse
  <1>8. CASE LoopWrite
    BY <1>0, <1>8 DEF LoopWrite, RunsOut, TakesData, LoopDone
  <1>9. CASE SendCipher
    BY <1>0, <1>9 DEF SendCipher, Send
  <1>10. CASE AfterCipher
    BY <1>0, <1>10 DEF AfterCipher
  <1>11. CASE LoopRead
    BY <1>0, <1>11 DEF LoopRead, RunsOut, LoopDone
  <1>12. CASE LoopEnd
    BY <1>0, <1>12 DEF LoopEnd, LoopDone, NeedsFinalShake
  <1>13. CASE SendHash
    BY <1>0, <1>13 DEF SendHash
  <1>14. CASE AfterHash
    BY <1>0, <1>14 DEF AfterHash
  <1>15. CASE iuw_extra
    BY <1>0, <1>15 DEF iuw_extra
  <1>16. CASE ExtraReply
    BY <1>0, <1>16 DEF ExtraReply, Receive
  <1>17. CASE ExtraData
    BY <1>0, <1>17 DEF ExtraData, Receive
  <1>18. CASE ExtraEnd
    BY <1>0, <1>18 DEF ExtraEnd
  <1>19. QED
    BY <1>0, <1>1, <1>2, <1>3, <1>4, <1>5, <1>6, <1>7, <1>8, <1>9, <1>10, <1>11, <1>12, <1>13, <1>14, <1>15, <1>16, <1>17, <1>18 DEF Device

LEMMA DeviceAlone ==
  ASSUME TypeOK, Packets, Gone, Device
  PROVE  Gone'
  <1> USE PacketFields, HandshakeTable DEF Packets, Gone, Between, Wire, Enc, Idle, iuw_send_cmd, host
  <1>1. CASE iuw_connect
    BY <1>1 DEF iuw_connect
  <1>2. CASE Reply
    BY <1>2 DEF Reply, Receive
  <1>3. CASE iuw_server
    BY <1>3, DispatchTable DEF iuw_server
  <1>4. CASE iuw_check_identity
    BY <1>4 DEF iuw_check_identity
  <1>5. CASE CheckCard
    BY <1>5 DEF CheckCard
  <1>6. CASE iuw_process_rw
    BY <1>6 DEF iuw_process_rw, Prepare, Refuse, NoConfig
  <1>7. CASE ReadKey
    BY <1>7 DEF ReadKey, Prepare, Refuse
  <1>8. CASE LoopWrite
    BY <1>8 DEF LoopWrite, RunsOut, TakesData, LoopDone
  <1>9. CASE SendCipher
    BY <1>9 DEF SendCipher, Send
  <1>10. CASE AfterCipher
    BY <1>10 DEF AfterCipher
  <1>11. CASE LoopRead
    BY <1>11 DEF LoopRead, RunsOut, LoopDone
  <1>12. CASE LoopEnd
    BY <1>12 DEF LoopEnd, LoopDone, NeedsFinalShake
  <1>13. CASE SendHash
    BY <1>13 DEF SendHash
  <1>14. CASE AfterHash
    BY <1>14 DEF AfterHash
  <1>15. CASE iuw_extra
    BY <1>15 DEF iuw_extra
  <1>16. CASE ExtraReply
    BY <1>16 DEF ExtraReply, Receive
  <1>17. CASE ExtraData
    BY <1>17 DEF ExtraData, Receive
  <1>18. CASE ExtraEnd
    BY SMTT(30), <1>18 DEF ExtraEnd
  <1>19. QED
    BY <1>1, <1>2, <1>3, <1>4, <1>5, <1>6, <1>7, <1>8, <1>9, <1>10, <1>11, <1>12, <1>13, <1>14, <1>15, <1>16, <1>17, <1>18 DEF Device

LEMMA DevicePhase ==
  ASSUME TypeOK, Packets, Phase, hpc # "done", Device
  PROVE  Phase'
  <1> USE PacketFields, HandshakeTable
      DEF Packets, Phase, Starting, Resting, Gone, Ordering, Awaiting, Identifying,
          Streaming, Hashing, Fetching, Closing, Ciphering, Between, Level, Ahead, Over,
          Wire, Quiet, Enc, Idle, iuw_send_cmd, host
  <1>1. CASE iuw_connect
    BY <1>1 DEF iuw_connect
  <1>2. CASE Reply
    BY <1>2 DEF Reply, Receive
  <1>3. CASE iuw_server
    <2>1. Ordering
      BY <1>3 DEF iuw_server
    <2>2. CASE hcmd.op \in DOMAIN Dispatch
      <3>1. dpc' = Dispatch[hcmd.op] /\ UNCHANGED dout /\ hout' = None /\ op' = hcmd.op /\ remain' = hcmd.n
        BY <1>3, <2>1, <2>2 DEF iuw_server
      <3>2. hcmd.op \in {"wr", "rd", "hash", "enc", "enckey", "extra", "identify"}
        BY <2>1, <2>2, DispatchTable DEF AllOps
      <3>3. Awaiting'
        BY <1>3, <2>1, <3>1, <3>2, DispatchTable DEF iuw_server
      <3>4. QED
        BY <3>3
    <2>3. CASE hcmd.op \notin DOMAIN Dispatch
      <3>1. dpc' = "serve" /\ dout' = ERROR /\ hout' = None /\ op' = hcmd.op /\ remain' = hcmd.n
        BY <1>3, <2>1, <2>3 DEF iuw_server
      <3>2. hcmd.op # "enckey"
        BY <2>3, DispatchTable
      <3>3. Awaiting'
        BY <1>3, <2>1, <3>1, <3>2 DEF iuw_server
      <3>4. QED
        BY <3>3
    <2>4. QED
      BY <2>2, <2>3
  <1>4. CASE iuw_check_identity
    BY <1>4 DEF iuw_check_identity
  <1>5. CASE CheckCard
    BY <1>5 DEF CheckCard
  <1>6. CASE iuw_process_rw
    BY <1>6 DEF iuw_process_rw, Prepare, Refuse, NoConfig
  <1>7. CASE ReadKey
    BY <1>7 DEF ReadKey, Prepare, Refuse
  <1>8. CASE LoopWrite
    <2>1. /\ op = hcmd.op /\ Wire("none", "data") /\ Ahead
          /\ \/ hpc = "stream" /\ op \in {"wr", "hash"}
             \/ hpc = "enc_wait" /\ op \in Enc
      BY <1>8 DEF LoopWrite, LoopDone
    <2>2. /\ hout' = None /\ UNCHANGED <<op, host>>
          /\ \/ op = "wr" /\ dout' = ERROR /\ dpc' = "serve"
             \/ op \in Enc /\ remain' = remain - 1 /\ dout' = READY /\ dpc' = "enc_reply"
             \/ op \notin Enc /\ remain' = remain - 1 /\ UNCHANGED <<dpc, dout>>
      BY <1>8, <2>1 DEF LoopWrite, RunsOut
    <2>3. CASE op = "wr" /\ dout' = ERROR /\ dpc' = "serve"
      BY <2>1, <2>2, <2>3
    <2>4. remain' = remain - 1 => Level'
      BY <2>1, <2>2 DEF TypeOK
    <2>5. CASE op \in Enc /\ remain' = remain - 1 /\ dout' = READY /\ dpc' = "enc_reply"
      <3>1. Ciphering'
        BY <2>1, <2>2, <2>4, <2>5
      <3>2. QED
        BY <3>1
    <2>6. CASE op \notin Enc /\ remain' = remain - 1 /\ UNCHANGED <<dpc, dout>>
      <3>1. Streaming'
        BY <1>8, <2>1, <2>2, <2>4, <2>6 DEF LoopWrite
      <3>2. QED
        BY <3>1
    <2>7. QED
      BY <2>2, <2>3, <2>5, <2>6
  <1>9. CASE SendCipher
    BY <1>9 DEF SendCipher, Send
  <1>10. CASE AfterCipher
    BY <1>10 DEF AfterCipher
  <1>11. CASE LoopRead
    <2>1. hpc = "fetch" /\ op = hcmd.op /\ op = "rd" /\ Quiet /\ Level
      BY <1>11 DEF LoopRead, LoopDone, TypeOK
    <2>2. /\ UNCHANGED <<op, host, hout>>
          /\ \/ dout' = ERROR /\ dpc' = "serve"
             \/ remain' = remain - 1 /\ dout'.k = "data" /\ dpc' = "loop"
      BY <1>11 DEF LoopRead, RunsOut
    <2>3. remain' = remain - 1 => hleft' = remain' + 1
      BY <2>1, <2>2 DEF TypeOK
    <2>4. Fetching'
      BY <2>1, <2>2, <2>3
    <2>5. QED
      BY <2>4
  <1>12. CASE LoopEnd
    <2>1. /\ dpc = "loop" /\ remain = 0 /\ UNCHANGED <<op, remain, stored, host, hout>>
          /\ \/ op = "hash" /\ dout' = READY /\ dpc' = "hash_reply"
             \/ op \notin Enc \cup {"hash"} /\ dout' = READY /\ dpc' = "final_reply"
             \/ op \in Enc /\ UNCHANGED dout /\ dpc' = "serve"
      BY <1>12 DEF LoopEnd, LoopDone, NeedsFinalShake
    <2>2. CASE Resting \/ Ordering
      BY <2>1, <2>2
    <2>3. CASE Ciphering
      <3>1. hpc = "enc_send" /\ Quiet /\ Over
        BY <2>1, <2>3 DEF TypeOK
      <3>2. Ciphering'
        BY <2>1, <2>3, <3>1
      <3>3. QED
        BY <3>2
    <2>4. CASE Streaming
      <3>1. Quiet /\ Over /\ op \in {"wr", "hash"}
        BY <2>1, <2>4 DEF TypeOK
      <3>2. Streaming'
        BY <2>1, <2>4, <3>1
      <3>3. QED
        BY <3>2
    <2>5. CASE Hashing
      BY <2>1, <2>5
    <2>6. CASE Fetching
      <3>1. Quiet /\ Over
        BY <1>12, <2>1, <2>6 DEF LoopEnd, TypeOK
      <3>2. Fetching'
        BY <2>1, <2>6, <3>1
      <3>3. QED
        BY <3>2
    <2>7. CASE Closing
      <3>1. Closing'
        BY <2>1, <2>7
      <3>2. QED
        BY <3>1
    <2>8. QED
      BY <2>1, <2>2, <2>3, <2>4, <2>5, <2>6, <2>7
  <1>13. CASE SendHash
    BY <1>13 DEF SendHash
  <1>14. CASE AfterHash
    BY <1>14 DEF AfterHash
  <1>15. CASE iuw_extra
    BY <1>15 DEF iuw_extra
  <1>16. CASE ExtraReply
    BY <1>16 DEF ExtraReply, Receive
  <1>17. CASE ExtraData
    <2>1. hpc = "stream" /\ op = hcmd.op /\ op = "extra" /\ Wire("none", "data") /\ Ahead
      BY <1>17 DEF ExtraData, Receive
    <2>2. /\ hout' = None /\ dpc' = "extra_burn" /\ remain' = remain - 1
          /\ UNCHANGED <<op, dout, host>>
      BY <1>17 DEF ExtraData, Receive
    <2>3. Level'
      BY <2>1, <2>2 DEF TypeOK
    <2>4. Streaming'
      BY <2>1, <2>2, <2>3
    <2>5. QED
      BY <2>4
  <1>18. CASE ExtraEnd
    <2>1. op = hcmd.op /\ op = "extra" /\ Quiet /\ Over /\ hpc \in {"stream", "final"}
      BY <1>18 DEF ExtraEnd, TypeOK
    <2>2. dout' = READY /\ dpc' = "final_reply" /\ UNCHANGED <<op, remain, host, hout>>
      BY <1>18 DEF ExtraEnd
    <2>3. Streaming' \/ Closing'
      BY <2>1, <2>2
    <2>4. QED
      BY <2>3
  <1>19. QED
    BY <1>1, <1>2, <1>3, <1>4, <1>5, <1>6, <1>7, <1>8, <1>9, <1>10, <1>11, <1>12, <1>13, <1>14, <1>15, <1>16, <1>17, <1>18 DEF Device

LEMMA HostTypes ==
  ASSUME TypeOK, Packets, Host
  PROVE  TypeOK' /\ Packets'
  <1> USE PacketFields, HandshakeTable, ReadyTable, IuwAssumption
      DEF TypeOK, Packets, HostReads, dev
  <1>0. (DOMAIN AfterReady)' = DOMAIN AfterReady /\ (DOMAIN Handshakes)' = DOMAIN Handshakes
    BY DEF AfterReady, Handshakes
  <1>1. CASE HostStart
    BY <1>0, <1>1 DEF HostStart
  <1>2. CASE HostCommand
    <2>1. PICK o \in Ops, n \in Lengths, isi \in {"plain", "secure"} :
            /\ hcmd' = [op |-> o, n |-> n, isi |-> isi]
            /\ hout' = Packet(o, <<>>, n) /\ hleft' = n
            /\ hpc' = IF o = "enckey" THEN "sendkey" ELSE "await"
      BY <1>2 DEF HostCommand
    <2>2. n \in Nat /\ hout'.n = n /\ hout'.k = o /\ o # "none" /\ hcmd'.n = n
      BY <2>1 DEF AllOps
    <2>3. QED
      BY <1>0, <1>2, <2>1, <2>2 DEF HostCommand
  <1>3. CASE HostFinish
    BY <1>0, <1>3 DEF HostFinish
  <1>4. CASE HostKey
    BY <1>0, <1>4 DEF HostKey
  <1>5. CASE HostReady
    <2>1. hpc \in DOMAIN AfterReady => AfterReady[hpc] \in
            {"idle", "card", "stream", "fetch", "enc_send", "enc_get", "hash_get"}
      BY DEF Enc
    <2>2. QED
      BY <1>0, <1>5, <2>1 DEF HostReady
  <1>6. CASE HostError
    BY <1>0, <1>6 DEF HostError, End
  <1>7. CASE HostCard
    BY <1>0, <1>7 DEF HostCard
  <1>8. CASE HostSends
    BY <1>0, <1>8 DEF HostSends
  <1>9. CASE HostSent
    BY <1>0, <1>9 DEF HostSent, End
  <1>10. CASE HostGets
    BY SMTT(30), <1>0, <1>10 DEF HostGets
  <1>11. CASE HostFetched
    BY <1>0, <1>11 DEF HostFetched
  <1>12. QED
    BY <1>1, <1>2, <1>3, <1>4, <1>5, <1>6, <1>7, <1>8, <1>9, <1>10, <1>11 DEF Host

LEMMA HostPhase ==
  ASSUME TypeOK, Packets, Phase, Host
  PROVE  Phase'
  <1> USE PacketFields
      DEF Packets, Phase, Starting, Resting, Gone, Ordering, Awaiting, Identifying,
          Streaming, Hashing, Fetching, Closing, Ciphering, Between, Level, Ahead, Over,
          Wire, Quiet, Enc, HostReads, dev
  <1>1. CASE HostStart
    BY <1>1 DEF HostStart
  <1>2. CASE HostCommand
    <2>1. PICK o \in Ops, n \in Lengths, isi \in {"plain", "secure"} :
            /\ hcmd' = [op |-> o, n |-> n, isi |-> isi]
            /\ hout' = Packet(o, <<>>, n) /\ hleft' = n
            /\ hpc' = IF o = "enckey" THEN "sendkey" ELSE "await"
      BY <1>2 DEF HostCommand
    <2>2. hcmd'.op = o /\ hcmd'.n = n /\ hout'.k = o /\ hout'.n = n /\ o \in AllOps
      BY <2>1, IuwAssumption
    <2>3. Between /\ dout.k = "none"
      BY <1>2 DEF HostCommand
    <2>4. before' = stored /\ UNCHANGED <<dev, dout>>
      BY <1>2 DEF HostCommand
    <2>5. Ordering'
      BY <2>1, <2>2, <2>3, <2>4
    <2>6. QED
      BY <2>5
  <1>3. CASE HostFinish
    BY <1>3 DEF HostFinish
  <1>4. CASE HostKey
    BY <1>4 DEF HostKey
  <1>5. CASE HostReady
    <2>1. /\ hpc \in DOMAIN AfterReady /\ Wire("ready", "none") /\ dout' = None
          /\ UNCHANGED <<dev, hcmd, hleft, before>>
      BY <1>5 DEF HostReady
    <2>2. CASE hout' = ERROR /\ hpc' = "done" /\ hpc = "await"
      BY <2>1, <2>2, ReadyTable
    <2>3. CASE hout' = HReady /\ hpc' = AfterReady[hpc] /\ hres' = IF AfterReady[hpc] = "idle" THEN "ok" ELSE hres
      <3>1. CASE Awaiting
        BY <2>1, <2>3, <3>1, ReadyTable DEF TypeOK
      <3>2. CASE Identifying
        BY <2>1, <2>3, <3>2, ReadyTable
      <3>3. CASE Hashing
        BY <2>1, <2>3, <3>3, ReadyTable
      <3>4. CASE Closing
        BY <2>1, <2>3, <3>4, ReadyTable
      <3>5. CASE Ciphering
        BY <2>1, <2>3, <3>5, ReadyTable
      <3>6. QED
        BY <2>1, <3>1, <3>2, <3>3, <3>4, <3>5, ReadyTable
    <2>4. QED
      BY <1>5, <2>2, <2>3 DEF HostReady
  <1>6. CASE HostError
    BY <1>6 DEF HostError, End
  <1>7. CASE HostCard
    BY <1>7 DEF HostCard
  <1>8. CASE HostSends
    <2>1. hout.k = "none" /\ hleft # 0 /\ hpc \in {"stream", "enc_send"}
      BY <1>8 DEF HostSends
    <2>2. /\ hout'.k = "data" /\ hleft' = hleft - 1 /\ UNCHANGED <<dev, dout, hcmd>>
          /\ hpc' = IF hpc = "stream" THEN "stream" ELSE "enc_wait"
      BY <1>8 DEF HostSends
    <2>3. Level => Ahead'
      BY <2>2 DEF TypeOK
    <2>4. CASE hpc = "stream"
      <3>1. Streaming
        BY <2>4
      <3>2. \/ Quiet /\ Level /\ dpc = "loop" /\ op \in {"wr", "hash"}
            \/ Quiet /\ Level /\ dpc = "extra_burn" /\ op = "extra"
            \/ op = "wr" /\ dpc = "serve" /\ Wire("error", "none")
        BY <2>1, <3>1
      <3>3. Streaming'
        BY <2>2, <2>3, <2>4, <3>1, <3>2
      <3>4. QED
        BY <3>3
    <2>5. CASE hpc = "enc_send"
      <3>1. Ciphering
        BY <2>5
      <3>2. Quiet /\ Level /\ dpc = "loop"
        BY <2>1, <2>5, <3>1
      <3>3. Ciphering'
        BY <2>2, <2>3, <2>5, <3>1, <3>2
      <3>4. QED
        BY <3>3
    <2>6. QED
      BY <2>1, <2>4, <2>5
  <1>9. CASE HostSent
    BY <1>9 DEF HostSent, End
  <1>10. CASE HostGets
    <2>1. /\ UNCHANGED <<dev, hout, hcmd>> /\ dout' = None /\ Wire("data", "none")
          /\ hleft' = IF hpc = "fetch" THEN hleft - 1 ELSE hleft
          /\ hpc' = CASE hpc = "fetch" -> "fetch" [] hpc = "enc_get" -> "enc_next"
                      [] hpc = "hash_get" -> "final"
      BY <1>10 DEF HostGets
    <2>2. CASE hpc = "fetch"
      <3>1. dpc = "loop" /\ hleft = remain + 1 /\ op = hcmd.op /\ op = "rd"
        BY <2>1, <2>2
      <3>2. Level'
        BY <2>1, <2>2, <3>1 DEF TypeOK
      <3>3. Fetching'
        BY <2>1, <2>2, <3>1, <3>2
      <3>4. QED
        BY <3>3
    <2>3. CASE hpc = "enc_get"
      <3>1. Ciphering'
        BY <2>1, <2>3
      <3>2. QED
        BY <3>1
    <2>4. CASE hpc = "hash_get"
      <3>1. Closing'
        BY <2>1, <2>4
      <3>2. QED
        BY <3>1
    <2>5. QED
      BY <1>10, <2>2, <2>3, <2>4 DEF HostGets
  <1>11. CASE HostFetched
    <2>1. Fetching
      BY <1>11 DEF HostFetched
    <2>2. hpc' = "final" /\ hleft = 0 /\ UNCHANGED <<dev, dout, hout, hcmd, hleft>>
      BY <1>11 DEF HostFetched
    <2>3. Closing'
      BY <1>11, <2>1, <2>2 DEF HostFetched, TypeOK
    <2>4. QED
      BY <2>3
  <1>12. QED
    BY <1>1, <1>2, <1>3, <1>4, <1>5, <1>6, <1>7, <1>8, <1>9, <1>10, <1>11 DEF Host

LEMMA PhaseInvariant == Spec => []PhaseInv
  <1>1. Init => PhaseInv
    BY InitPhase
  <1>2. PhaseInv /\ [Next]_vars => PhaseInv'
    <2>1. PhaseInv /\ Device => PhaseInv'
      <3>1. Gone' => Phase'
        BY DEF Phase
      <3>2. Phase /\ hpc = "done" => Gone
        BY DEF Phase, Starting, Resting, Ordering, Awaiting, Identifying, Streaming, Hashing,
               Fetching, Closing, Ciphering
      <3>3. QED
        BY <3>1, <3>2, DeviceTypes, DeviceAlone, DevicePhase DEF PhaseInv
    <2>2. PhaseInv /\ Host => PhaseInv'
      BY HostTypes, HostPhase DEF PhaseInv
    <2>3. PhaseInv /\ UNCHANGED vars => PhaseInv'
      BY DEF vars, dev, host, PhaseInv, TypeOK, AfterReady, Packets, Phase, Starting, Resting, Gone,
             Ordering, Awaiting, Identifying, Streaming, Hashing, Fetching, Closing, Ciphering,
             Between, Level, Ahead, Over, Wire, Quiet
    <2>4. QED
      BY <2>1, <2>2, <2>3 DEF Next
  <1>3. QED
    BY <1>1, <1>2, PTL DEF Spec

---------------------------------------------------------------------------
(* Results about the course of a session.                                  *)

\* Between two commands the server waits for the next one or is about to,
\* whatever commands, refusals and failures came before.
THEOREM SidesInStep == Spec => []SessionInv
  <1>1. PhaseInv => SessionInv
    <2> SUFFICES ASSUME PhaseInv, hpc = "idle", hres # "none"
                 PROVE  InStep
      BY DEF PhaseInv, SessionInv, InStep
    <2>1. Resting
      BY DEF PhaseInv, Phase, Starting, Gone, Ordering, Awaiting, Identifying, Streaming,
             Hashing, Fetching, Closing, Ciphering
    <2>2. QED
      BY <2>1, PacketFields DEF PhaseInv, Packets, Resting, Between, Enc, Wire, Quiet, InStep,
         NeedsFinalShake
  <1>2. QED
    BY <1>1, PhaseInvariant, PTL

\* iuw_process_rw and iuw_extra refuse before they erase.
THEOREM RefusalTouchesNothing == Spec => []RefusedUntouched
  <1>1. PhaseInv => RefusedUntouched
    BY DEF PhaseInv, Phase, Starting, Resting, Gone, Ordering, Awaiting, Identifying, Streaming,
           Hashing, Fetching, Closing, Ciphering, RefusedUntouched
  <1>2. QED
    BY <1>1, PhaseInvariant, PTL

\* iuw_server never takes a chunk for a command.
THEOREM DataNotDispatched == Spec => []DataNeverDispatched
  <1>1. PhaseInv => DataNeverDispatched
    <2> SUFFICES ASSUME PhaseInv, dpc = "serve", Idle, hout # None
                 PROVE  hout.k # "data"
      BY DEF DataNeverDispatched
    <2>1. hout.k \in AllOps \cup {"finish", "none"}
      BY PacketFields DEF PhaseInv, Phase, Starting, Resting, Gone, Ordering, Awaiting, Identifying,
         Streaming, Hashing, Fetching, Closing, Ciphering, Wire, Quiet, Idle
    <2>2. QED
      BY <2>1 DEF AllOps
  <1>2. QED
    BY <1>1, PhaseInvariant, PTL

\* udc_write meets udc_write only where the server gives up on a write while
\* the PC is sending its next chunk.
THEOREM OneSideWrites == Spec => []NeverBothWriting
  <1>1. PhaseInv => NeverBothWriting
    BY PacketFields DEF PhaseInv, Packets, Phase, Starting, Resting, Gone, Ordering, Awaiting,
       Identifying, Streaming, Hashing, Fetching, Closing, Ciphering, Wire, Quiet,
       NeverBothWriting, ErrorMeetsData
  <1>2. QED
    BY <1>1, PhaseInvariant, PTL

---------------------------------------------------------------------------
(* What is stored and sent back.  n - remain chunks of the command have been *)
(* taken by the device, n - hleft have been sent by the PC.                  *)

\* The chunk on its way is the last the PC has sent.
Bounds == hleft \in 0 .. hcmd.n
OnWire == hpc \in {"stream", "enc_wait"} /\ hout.k = "data" => hout.v = Chunk(hcmd.n - hleft)

\* The position of a command that takes data follows from what is left of it,
\* and behind its first chunk it is settled whether data is encrypted.
Taking == {"rw_reply", "loop", "enc_reply", "enc_send", "enc_after", "enc_done"}
ModeInv ==
  /\ dpc \in {"assign", "key"} => offs = 0
  /\ hpc # "done" /\ TakesData(op) /\ dpc \in Taking /\ remain > 0 =>
       offs = hcmd.n - remain /\ (offs # 0 => encrypt = hcmd.isi)

\* m chunks are in their places, but for those whose device write failed.
Written(s, m) ==
  /\ s \in Seq(UNION {Writes(Work(c)) : c \in 1 .. m}) /\ Len(s) = m
  /\ \A k \in 1 .. m : s[k] \in Writes(Work(k))

\* A write has stored the chunks taken.
WriteInv ==
  hpc # "done" /\ hcmd.op = "wr" /\ op = "wr" /\ dpc \in {"rw_reply", "loop", "final_reply"} =>
    remain \in 0 .. hcmd.n /\ Written(stored, hcmd.n - remain)

Chunks(n) == [k \in 1 .. n |-> Work(k)]

\* The hash engine has been fed the chunks taken, and its result reaches the PC.
HashInv ==
  hcmd.op = "hash" =>
    /\ hpc # "done" /\ op = "hash" /\ dpc \in {"rw_reply", "loop", "hash_reply", "hash_send"} =>
         remain \in 0 .. hcmd.n /\ digest = Chunks(hcmd.n - remain)
    /\ hpc = "hash_get" /\ dpc = "hash_after" => dout.v = HashOf(Chunks(hcmd.n))
    /\ hpc \in {"await", "stream", "hash_wait", "hash_get"} => hgot = <<>>
    /\ hpc = "final" => hgot = <<HashOf(Chunks(hcmd.n))>>

\* The PC has got back the result of every chunk but the one it waits for, and
\* that one is in the second half of the buffer, then on its way.
Results(m) == [k \in 1 .. m |-> Cipher(Work(k))]
Last == Cipher(Work(hcmd.n - hleft))
EncInv ==
  hcmd.op \in Enc =>
    /\ hpc \in {"sendkey", "await", "enc_send", "enc_next"} => hgot = Results(hcmd.n - hleft)
    /\ hpc \in {"enc_wait", "enc_get"} => hleft < hcmd.n /\ hgot = Results((hcmd.n - hleft) - 1)
    /\ hpc \in {"enc_wait", "enc_get"} /\ dpc \in {"enc_reply", "enc_send"} => half = Last
    /\ hpc = "enc_get" /\ dpc = "enc_after" => dout.v = Last

\* A partition image has stored some of the chunks taken, in their order.
Pages(m) == UNION {Writes(Chunk(c)) : c \in 1 .. m}
Ordered(s) ==
  \A j, k \in DOMAIN s : j < k /\ s[j] # Lost /\ s[k] # Lost => s[j][2] < s[k][2]
ImageInv ==
  hpc # "done" /\ hcmd.op = "extra" /\ op = "extra" /\ dpc \in {"extra_burn", "final_reply"} =>
    /\ remain \in 0 .. hcmd.n
    /\ stored \in Seq(Pages(hcmd.n - remain)) /\ Ordered(stored)

LEMMA NoChunks == Chunks(0) = <<>> /\ Results(0) = <<>>
  BY DEF Chunks, Results

LEMMA ChunksGrow ==
  ASSUME NEW m \in Nat
  PROVE  /\ Append(Chunks(m), Work(m + 1)) = Chunks(m + 1)
         /\ Append(Results(m), Cipher(Work(m + 1))) = Results(m + 1)
  <1> DEFINE S == {Work(k) : k \in 1 .. m + 1}
             T == {Cipher(Work(k)) : k \in 1 .. m + 1}
  <1>1. Chunks(m) \in Seq(S) /\ Len(Chunks(m)) = m /\ Work(m + 1) \in S
    BY DEF Chunks
  <1>2. Chunks(m + 1) \in Seq(S) /\ Len(Chunks(m + 1)) = m + 1
    BY DEF Chunks
  <1>3. Results(m) \in Seq(T) /\ Len(Results(m)) = m /\ Cipher(Work(m + 1)) \in T
    BY DEF Results
  <1>4. Results(m + 1) \in Seq(T) /\ Len(Results(m + 1)) = m + 1
    BY DEF Results
  <1> HIDE DEF S, T
  <1>5. Append(Chunks(m), Work(m + 1)) = Chunks(m + 1)
    <2>1. /\ Append(Chunks(m), Work(m + 1)) \in Seq(S)
          /\ Len(Append(Chunks(m), Work(m + 1))) = m + 1
      BY <1>1
    <2>2. ASSUME NEW i \in 1 .. m + 1
          PROVE  Append(Chunks(m), Work(m + 1))[i] = Chunks(m + 1)[i]
      BY <1>1 DEF Chunks
    <2>3. QED
      BY <1>2, <2>1, <2>2, SeqEqual
  <1>6. Append(Results(m), Cipher(Work(m + 1))) = Results(m + 1)
    <2>1. /\ Append(Results(m), Cipher(Work(m + 1))) \in Seq(T)
          /\ Len(Append(Results(m), Cipher(Work(m + 1)))) = m + 1
      BY <1>3
    <2>2. ASSUME NEW i \in 1 .. m + 1
          PROVE  Append(Results(m), Cipher(Work(m + 1)))[i] = Results(m + 1)[i]
      BY <1>3 DEF Results
    <2>3. QED
      BY <1>4, <2>1, <2>2, SeqEqual
  <1>7. QED
    BY <1>5, <1>6

\* Chunks are numbered with the command, which only HostCommand changes.
LEMMA SameChunks ==
  ASSUME UNCHANGED <<hcmd, serial>>
  PROVE  /\ \A k : Chunk(k)' = Chunk(k) /\ Work(k)' = Work(k)
         /\ \A m : Chunks(m)' = Chunks(m) /\ Results(m)' = Results(m) /\ Pages(m)' = Pages(m)
         /\ \A q, m : Written(q, m)' = Written(q, m)
  <1>1. \A k : Chunk(k)' = Chunk(k)
    BY DEF Chunk
  <1>2. \A k : Work(k)' = Work(k)
    BY <1>1 DEF Work, Encrypted
  <1>3. \A m : Chunks(m)' = Chunks(m) /\ Results(m)' = Results(m) /\ Pages(m)' = Pages(m)
    BY <1>1, <1>2 DEF Chunks, Results, Cipher, Pages, Writes
  <1>4. \A q, m : Written(q, m)' = Written(q, m)
    BY <1>2 DEF Written, Writes
  <1>5. QED
    BY <1>1, <1>2, <1>3, <1>4

LEMMA DeviceFrame ==
  ASSUME Device
  PROVE  UNCHANGED <<hpc, hcmd, hleft, hgot, hres, serial, before>>
  BY DEF Device, iuw_connect, Reply, iuw_server, iuw_check_identity, CheckCard, iuw_process_rw,
         ReadKey, LoopWrite, SendCipher, AfterCipher, LoopRead, LoopEnd, SendHash, AfterHash,
         iuw_extra, ExtraReply, ExtraData, ExtraEnd, host

LEMMA HostFrame ==
  ASSUME Host
  PROVE  /\ UNCHANGED <<dpc, op, remain, offs, encrypt, pack, half, digest, stored>>
         /\ hpc # "done"
         /\ HostCommand \/ UNCHANGED <<hcmd, serial, before>>
  BY DEF Host, HostStart, HostCommand, HostFinish, HostKey, HostReady, HostError, HostCard,
         HostSends, HostSent, HostGets, HostFetched, dev, AfterReady

\* The places where a command's data is handled, as the phases have them.
LEMMA LoopWriteAt ==
  ASSUME PhaseInv, LoopWrite, hpc # "done"
  PROVE  /\ op = hcmd.op /\ hout.k = "data" /\ remain = hleft + 1
         /\ \/ hpc = "stream" /\ op \in {"wr", "hash"}
            \/ hpc = "enc_wait" /\ op \in Enc
  BY PacketFields
     DEF LoopWrite, LoopDone, Idle, PhaseInv, Packets, Phase, Starting, Resting, Gone, Ordering, Awaiting, Identifying,
         Streaming, Hashing, Fetching, Closing, Ciphering, Between, Level, Ahead, Over, Wire, Quiet, Enc

LEMMA ExtraDataAt ==
  ASSUME PhaseInv, ExtraData, hpc # "done"
  PROVE  op = hcmd.op /\ hout.k = "data" /\ remain = hleft + 1 /\ hpc = "stream" /\ op = "extra"
  BY PacketFields
     DEF ExtraData, Receive, Idle, PhaseInv, Packets, Phase, Starting, Resting, Gone, Ordering, Awaiting, Identifying,
         Streaming, Hashing, Fetching, Closing, Ciphering, Between, Level, Ahead, Over, Wire, Quiet, Enc

LEMMA PrepareAt ==
  ASSUME PhaseInv, iuw_process_rw \/ ReadKey, hpc # "done"
  PROVE  hcmd.op = op /\ remain = hcmd.n /\ hleft = hcmd.n /\ hpc \in {"sendkey", "await"}
  BY PacketFields
     DEF iuw_process_rw, ReadKey, Idle, PhaseInv, Phase, Starting, Resting, Gone, Ordering, Awaiting, Identifying,
         Streaming, Hashing, Fetching, Closing, Ciphering, Between, Level, Ahead, Over, Wire, Quiet, Enc

LEMMA PlacesOfOps ==
  ASSUME PhaseInv, hpc # "done"
  PROVE  /\ dpc \in {"enc_reply", "enc_send", "enc_after", "enc_done"} => op \in Enc
         /\ dpc \in {"hash_reply", "hash_send", "hash_after"} => op = "hash"
         /\ dpc \in {"extra_reply", "extra_burn"} => op = "extra"
         /\ dpc \in {"rw_reply", "loop"} => op # "extra"
  BY DEF PhaseInv, Phase, Starting, Resting, Gone, Ordering, Awaiting, Identifying, Streaming,
         Hashing, Fetching, Closing, Ciphering, Between, Enc

LEMMA CommandAt ==
  ASSUME PhaseInv, HostCommand
  PROVE  Between
  BY PacketFields
     DEF HostCommand, PhaseInv, Phase, Starting, Resting, Gone, Ordering, Awaiting, Identifying,
         Streaming, Hashing, Fetching, Closing, Ciphering, Between, Level, Ahead, Over, Wire, Quiet, Enc

\* Nothing of a command's outcome changes while the PC rests.
LEMMA RestFrame ==
  ASSUME PhaseInv, Next, hpc = "idle", hpc' = "idle"
  PROVE  UNCHANGED <<stored, hgot, hcmd, hres, serial>>
  <1>1. Resting
    BY DEF PhaseInv, Phase, Starting, Gone, Ordering, Awaiting, Identifying, Streaming,
           Hashing, Fetching, Closing, Ciphering
  <1>2. CASE Host
    BY <1>2 DEF Host, HostStart, HostCommand, HostFinish, HostKey, HostReady, HostError, HostCard,
         HostSends, HostSent, HostGets, HostFetched, dev, AfterReady
  <1>3. CASE Device
    <2>1. UNCHANGED <<hgot, hcmd, hres, serial>>
      BY <1>3, DeviceFrame
    <2>2. UNCHANGED stored
      BY <1>1, <1>3, PacketFields
         DEF PhaseInv, Packets, Resting, Between, Wire, Quiet, Enc, Device, iuw_connect, Reply, iuw_server, iuw_check_identity,
             CheckCard, iuw_process_rw, ReadKey, LoopWrite, LoopDone, SendCipher, AfterCipher,
             LoopRead, LoopEnd, SendHash, AfterHash, iuw_extra, ExtraReply, ExtraData, ExtraEnd
    <2>3. QED
      BY <2>1, <2>2
  <1>4. QED
    BY <1>2, <1>3 DEF Next

\* A command that ends well ends with the last READY, or with the last result.
LEMMA EndsWell ==
  ASSUME PhaseInv, Next, hpc # "idle", hpc' = "idle", hres' = "ok"
  PROVE  /\ UNCHANGED <<stored, hgot, hcmd, serial>> /\ op = hcmd.op
         /\ \/ hpc = "final" /\ dpc = "final_reply" /\ remain = 0 /\ op \notin Enc
            \/ op = "identify"
            \/ hpc = "enc_send" /\ op \in Enc /\ hleft = 0
  <1>1. \/ HostReady /\ hpc \in {"id_result", "final"}
        \/ HostSent /\ hpc = "enc_send" /\ hleft = 0
    <2>1. Host
      BY DeviceFrame DEF Next
    <2>2. hpc = "start" => hres = "none"
      BY DEF PhaseInv, Phase, Starting, Resting, Gone, Ordering, Awaiting, Identifying, Streaming,
             Hashing, Fetching, Closing, Ciphering
    <2>3. HostStart \/ HostReady \/ HostError \/ HostSent
      BY <2>1 DEF Host, HostCommand, HostFinish, HostKey, HostCard, HostSends, HostGets,
                  HostFetched
    <2>4. ~HostStart /\ ~HostError
      BY <2>2 DEF HostStart, HostError, End
    <2>5. HostReady => hpc \in {"id_result", "final"}
      BY ReadyTable DEF HostReady, Enc
    <2>6. HostSent => hpc = "enc_send" /\ hleft = 0
      BY DEF HostSent
    <2>7. QED
      BY <2>3, <2>4, <2>5, <2>6
  <1>2. UNCHANGED <<stored, hgot, hcmd, serial>>
    BY <1>1 DEF HostReady, HostSent, dev
  <1>3. CASE HostReady /\ hpc \in {"id_result", "final"}
    BY <1>2, <1>3, PacketFields DEF HostReady, HostReads, PhaseInv, Phase, Starting, Resting, Gone, Ordering, Awaiting, Identifying,
         Streaming, Hashing, Fetching, Closing, Ciphering, Between, Level, Ahead, Over, Wire, Quiet, Enc
  <1>4. CASE HostSent /\ hpc = "enc_send" /\ hleft = 0
    BY <1>2, <1>4 DEF PhaseInv, Phase, Starting, Resting, Gone, Ordering, Awaiting, Identifying,
         Streaming, Hashing, Fetching, Closing, Ciphering, Between, Level, Ahead, Over, Wire, Quiet, Enc
  <1>5. QED
    BY <1>1, <1>3, <1>4

LEMMA WireStep ==
  ASSUME PhaseInv, Bounds, OnWire, Next
  PROVE  Bounds' /\ OnWire'
  <1> USE DEF Bounds, OnWire
  <1>0. hcmd.n \in Nat /\ hleft \in Nat
    BY DEF PhaseInv, TypeOK, Packets
  <1>1. CASE Device
    <2>1. hout' \in {hout, None}
      BY <1>1 DEF Device, iuw_connect, Reply, iuw_server, iuw_check_identity, CheckCard,
         iuw_process_rw, ReadKey, LoopWrite, SendCipher, AfterCipher, LoopRead, LoopEnd, SendHash,
         AfterHash, iuw_extra, ExtraReply, ExtraData, ExtraEnd, Receive
    <2>2. UNCHANGED <<hpc, hcmd, hleft, serial>>
      BY <1>1, DeviceFrame
    <2>3. QED
      BY <2>1, <2>2, PacketFields DEF Chunk
  <1>2. CASE HostCommand
    <2>1. PICK n \in Lengths : hleft' = n /\ hcmd'.n = n
      BY <1>2 DEF HostCommand
    <2>2. hpc' \in {"sendkey", "await"}
      BY <1>2 DEF HostCommand
    <2>3. QED
      BY <2>1, <2>2, IuwAssumption
  <1>3. CASE HostSends
    <2>1. /\ hout' = Data(Chunk((hcmd.n - hleft) + 1)) /\ hleft' = hleft - 1 /\ hleft > 0
          /\ UNCHANGED <<hcmd, serial>>
      BY <1>3 DEF HostSends
    <2>2. hout'.v = Chunk((hcmd.n - hleft) + 1)
      BY <2>1, PacketFields
    <2>3. (hcmd.n - hleft) + 1 = hcmd.n - hleft' /\ hleft' \in 0 .. hcmd.n
      BY <1>0, <2>1
    <2>4. QED
      BY <2>1, <2>2, <2>3, SameChunks DEF Chunk
  <1>4. CASE Host /\ ~HostCommand /\ ~HostSends
    <2>1. UNCHANGED <<hcmd, serial>>
      BY <1>4, HostFrame
    <2>2. hleft' \in {hleft, hleft - 1} /\ (hleft' # hleft => hleft > 0)
      BY <1>4 DEF Host, HostStart, HostFinish, HostKey, HostReady, HostError, HostCard, HostSent,
         HostGets, HostFetched
    <2>3. hpc' \in {"stream", "enc_wait"} => hout'.k # "data"
      BY <1>4, PacketFields, ReadyTable DEF Host, HostStart, HostFinish, HostKey, HostReady,
         HostError, HostCard, HostSent, HostGets, HostFetched, End, HostReads
    <2>4. QED
      BY <1>0, <2>1, <2>2, <2>3
  <1>5. QED
    BY <1>1, <1>2, <1>3, <1>4 DEF Next, Host

\* One more place.
LEMMA WrittenAppend ==
  ASSUME NEW m \in Nat, NEW s, Written(s, m), NEW w \in Writes(Work(m + 1))
  PROVE  Written(Append(s, w), m + 1)
  <1> DEFINE S == UNION {Writes(Work(c)) : c \in 1 .. m}
             T == UNION {Writes(Work(c)) : c \in 1 .. m + 1}
  <1>1. S \subseteq T /\ w \in T
    OBVIOUS
  <1>2. s \in Seq(S) /\ Len(s) = m /\ \A k \in 1 .. m : s[k] \in Writes(Work(k))
    BY DEF Written
  <1>3. s \in Seq(T)
    BY <1>1, <1>2, SeqMonotonic
  <1> HIDE DEF S, T
  <1>4. Append(s, w) \in Seq(T) /\ Len(Append(s, w)) = m + 1
    BY <1>1, <1>2, <1>3
  <1>5. ASSUME NEW k \in 1 .. m + 1
        PROVE  Append(s, w)[k] \in Writes(Work(k))
    <2>1. CASE k \in 1 .. m
      <3>1. Append(s, w)[k] = s[k]
        BY <1>2, <1>3, <2>1
      <3>2. QED
        BY <1>2, <2>1, <3>1
    <2>2. CASE k = m + 1
      <3>1. Append(s, w)[k] = w
        BY <1>2, <1>3, <2>2
      <3>2. QED
        BY <2>2, <3>1
    <2>3. k \in 1 .. m \/ k = m + 1
      OBVIOUS
    <2>4. QED
      BY <2>1, <2>2, <2>3
  <1>6. QED
    BY <1>4, <1>5 DEF Written, T

\* What the device works on in a turn of its loop: the chunk just read, encrypted
\* if the first one asks for it.
LEMMA ModeAt ==
  ASSUME PhaseInv, Bounds, OnWire, ModeInv, LoopWrite, hpc # "done"
  PROVE  Mode = hcmd.isi /\ LocalData = Work(hcmd.n - hleft)
  <1>1. /\ hout.k = "data" /\ remain = hleft + 1 /\ hpc \in {"stream", "enc_wait"}
        /\ dpc = "loop" /\ TakesData(op)
    BY LoopWriteAt DEF LoopWrite
  <1>2. hcmd.n \in Nat /\ hleft \in Nat /\ remain \in Nat
    BY DEF PhaseInv, TypeOK, Packets
  <1>3. Seen(hout) = Chunk(hcmd.n - hleft)
    BY <1>1 DEF OnWire, Seen
  <1>4. offs = hcmd.n - remain /\ (offs # 0 => encrypt = hcmd.isi)
    BY <1>1, <1>2 DEF ModeInv, Taking
  <1>5. Mode = hcmd.isi
    <2>1. CASE offs = 0
      <3>1. hcmd.n - hleft = 1
        BY <1>1, <1>2, <1>4, <2>1
      <3>2. Seen(hout) = <<serial, 1, hcmd.isi>>
        BY <1>3, <3>1 DEF Chunk
      <3>3. Len(Seen(hout)) = 3 /\ Seen(hout)[3] = hcmd.isi
        BY <3>2
      <3>4. QED
        BY <2>1, <3>3 DEF Mode, isi_is_secure
    <2>2. CASE offs # 0
      BY <1>4, <2>2 DEF Mode
    <2>3. QED
      BY <2>1, <2>2
  <1>6. QED
    BY <1>3, <1>5 DEF LocalData, Work

\* The position is set with the command and moves with its chunks.
LEMMA ModeStep ==
  ASSUME PhaseInv, Bounds, OnWire, ModeInv, Next
  PROVE  ModeInv'
  <1>0. hcmd.n \in Nat /\ hleft \in Nat /\ remain \in Nat /\ offs \in Nat
    BY DEF PhaseInv, TypeOK, Packets
  <1>1. CASE Host
    <2>1. UNCHANGED <<dpc, op, remain, offs, encrypt>> /\ hpc # "done"
      BY <1>1, HostFrame
    <2>2. CASE HostCommand
      <3>1. dpc = "serve" \/ (dpc = "loop" /\ remain = 0)
        BY <2>2, CommandAt DEF Between
      <3>2. QED
        BY <2>1, <3>1 DEF ModeInv, Taking
    <2>3. CASE ~HostCommand
      <3>1. UNCHANGED hcmd
        BY <1>1, <2>3, HostFrame
      <3>2. QED
        BY <2>1, <3>1 DEF ModeInv, TakesData
    <2>4. QED
      BY <2>2, <2>3
  <1>2. CASE Device
    <2>1. UNCHANGED <<hpc, hcmd, hleft, serial>>
      BY <1>2, DeviceFrame
    <2>2. dpc' \in {"assign", "key"} => offs' = 0
      BY <1>2, HandshakeTable, DispatchTable
         DEF ModeInv, Device, iuw_connect, Reply, iuw_server, iuw_check_identity, CheckCard,
             SendCipher, AfterCipher, LoopRead, LoopEnd, SendHash, AfterHash, iuw_extra,
             ExtraReply, ExtraData, ExtraEnd, RunsOut, iuw_process_rw, ReadKey, LoopWrite,
             Prepare, Refuse, NoConfig
    <2> DEFINE Goal == offs = hcmd.n - remain /\ (offs # 0 => encrypt = hcmd.isi)
    <2>3. ASSUME hpc' # "done", TakesData(op)', dpc' \in Taking, remain' > 0
          PROVE  offs' = hcmd.n - remain' /\ (offs' # 0 => encrypt' = hcmd.isi)
      <3>1. CASE iuw_process_rw \/ ReadKey
        <4>1. remain = hcmd.n
          BY <2>1, <2>3, <3>1, PrepareAt
        <4>2. offs = 0 /\ offs' = offs /\ remain' = remain
          BY <3>1 DEF ModeInv, iuw_process_rw, ReadKey
        <4>3. QED
          BY <1>0, <4>1, <4>2
      <3>2. CASE LoopWrite
        <4>1. Mode = hcmd.isi /\ remain = hleft + 1
          BY <2>1, <2>3, <3>2, ModeAt, LoopWriteAt
        <4>2. encrypt' = Mode /\ dpc = "loop" /\ TakesData(op)
          BY <3>2 DEF LoopWrite
        <4>3. remain' = remain - 1 /\ offs' = offs + 1
          BY <2>3, <3>2 DEF LoopWrite, RunsOut, Taking
        <4>4. offs = hcmd.n - remain
          BY <1>0, <2>1, <2>3, <4>1, <4>2 DEF ModeInv, Taking
        <4>5. QED
          BY <1>0, <4>1, <4>2, <4>3, <4>4
      <3>3. CASE ~(iuw_process_rw \/ ReadKey \/ LoopWrite)
        <4>1. UNCHANGED <<remain, offs, encrypt, op>> /\ dpc \in Taking
          BY <1>2, <2>3, <3>3, HandshakeTable, DispatchTable
             DEF Device, iuw_connect, Reply, iuw_server, iuw_check_identity, CheckCard, SendCipher,
                 AfterCipher, LoopRead, LoopEnd, SendHash, AfterHash, iuw_extra, ExtraReply,
                 ExtraData, ExtraEnd, RunsOut, Taking, TakesData
        <4>2. QED
          BY <2>1, <2>3, <4>1 DEF ModeInv, TakesData
      <3>4. QED
        BY <3>1, <3>2, <3>3
    <2>4. QED
      BY <2>1, <2>2, <2>3 DEF ModeInv, TakesData
  <1>3. QED
    BY <1>1, <1>2 DEF Next

LEMMA WrittenStays ==
  ASSUME UNCHANGED <<stored, remain, hcmd, serial>>
  PROVE  Written(stored, hcmd.n - remain)' = Written(stored, hcmd.n - remain)
  BY SameChunks DEF Written

\* Up to LoopWrite and the set-up before it, a step leaves what a write has
\* stored alone.
LEMMA WriteStep ==
  ASSUME PhaseInv, Bounds, OnWire, ModeInv, WriteInv, Next
  PROVE  WriteInv'
  <1> SUFFICES ASSUME hpc' # "done", hcmd'.op = "wr", op' = "wr",
                      dpc' \in {"rw_reply", "loop", "final_reply"}
               PROVE  remain' \in 0 .. hcmd'.n /\ Written(stored, hcmd.n - remain)'
    BY DEF WriteInv
  <1>0. hcmd.n \in Nat /\ hleft \in Nat /\ remain \in Nat
    BY DEF PhaseInv, TypeOK, Packets
  <1>1. CASE Host
    <2>1. UNCHANGED <<dpc, op, remain, stored>> /\ hpc # "done"
      BY <1>1, HostFrame
    <2>2. ~HostCommand
      BY <2>1, CommandAt DEF Between, Enc
    <2>3. UNCHANGED <<hcmd, serial>>
      BY <1>1, <2>2, HostFrame
    <2>4. QED
      <3>1. remain \in 0 .. hcmd.n /\ Written(stored, hcmd.n - remain)
        BY <2>1, <2>3 DEF WriteInv
      <3>2. Written(stored, hcmd.n - remain)' = Written(stored, hcmd.n - remain)
        BY <2>1, <2>3, WrittenStays
      <3>3. QED
        BY <2>1, <2>3, <3>1, <3>2
  <1>2. CASE Device
    <2>1. UNCHANGED <<hpc, hcmd, hleft, serial>>
      BY <1>2, DeviceFrame
    <2>2. CASE iuw_process_rw \/ ReadKey
      <3>1. hcmd.op = op /\ remain = hcmd.n
        BY <2>1, <2>2, PrepareAt
      <3>2. stored' = <<>> /\ remain' = remain
        BY <2>1, <2>2, <3>1 DEF iuw_process_rw, ReadKey, Prepare, Refuse, NoConfig
      <3>3. hcmd'.n - remain' = 0
        BY <1>0, <2>1, <3>1, <3>2
      <3>4. Written(<<>>, 0)'
        BY DEF Written
      <3>5. Written(stored, hcmd.n - remain)'
        BY <3>2, <3>3, <3>4 DEF Written
      <3>6. QED
        BY <1>0, <2>1, <3>1, <3>2, <3>5
    <2>3. CASE LoopWrite
      <3>1. op = hcmd.op /\ hout.k = "data" /\ remain = hleft + 1 /\ hpc = "stream" /\ op = "wr"
        BY <2>1, <2>3, LoopWriteAt DEF LoopWrite, Enc
      <3>2. /\ remain' = remain - 1
            /\ \E w \in Writes(LocalData) : stored' = Append(stored, w)
        BY <2>3, <3>1 DEF LoopWrite, RunsOut
      <3>3. /\ Written(stored, hcmd.n - remain) /\ remain \in 0 .. hcmd.n
            /\ LocalData = Work(hcmd.n - hleft)
        BY <2>1, <2>3, <3>1, ModeAt DEF WriteInv, LoopWrite
      <3>4. hcmd.n - hleft = (hcmd.n - remain) + 1 /\ hcmd.n - remain \in Nat
        BY <1>0, <3>1, <3>3
      <3>5. Written(stored', (hcmd.n - remain) + 1)
        BY <3>2, <3>3, <3>4, WrittenAppend
      <3>6. (hcmd.n - remain) + 1 = hcmd.n - remain' /\ remain' \in 0 .. hcmd.n
        BY <1>0, <3>1, <3>2, <3>3
      <3>7. QED
        <4>1. Written(stored', hcmd.n - remain')
          BY <3>5, <3>6
        <4>2. Written(stored, hcmd.n - remain)'
          BY <2>1, <4>1, SameChunks DEF Written
        <4>3. QED
          BY <2>1, <3>6, <4>2
    <2>4. CASE ~(iuw_process_rw \/ ReadKey \/ LoopWrite)
      <3>1. /\ UNCHANGED <<remain, stored, op>> /\ dpc \in {"rw_reply", "loop", "final_reply"}
        BY <1>2, <2>1, <2>4, HandshakeTable, DispatchTable, PlacesOfOps
           DEF Device, iuw_connect, Reply, iuw_server, iuw_check_identity, CheckCard, SendCipher,
               AfterCipher, LoopRead, LoopEnd, SendHash, AfterHash, iuw_extra, ExtraReply,
               ExtraData, ExtraEnd, RunsOut, Enc
      <3>2. QED
        <4>1. remain \in 0 .. hcmd.n /\ Written(stored, hcmd.n - remain)
          BY <2>1, <3>1 DEF WriteInv
        <4>2. Written(stored, hcmd.n - remain)' = Written(stored, hcmd.n - remain)
          BY <2>1, <3>1, WrittenStays
        <4>3. QED
          BY <2>1, <3>1, <4>1, <4>2
    <2>5. QED
      BY <2>2, <2>3, <2>4
  <1>3. QED
    BY <1>1, <1>2 DEF Next

LEMMA PcPlaces ==
  ASSUME PhaseInv
  PROVE  /\ hpc = "sendkey" => hcmd.op = "enckey"
         /\ hpc = "fetch" => hcmd.op = "rd"
         /\ hpc \in {"hash_wait", "hash_get"} => hcmd.op = "hash"
         /\ hpc = "hash_wait" /\ dout.k = "ready" => dpc = "hash_reply"
         /\ hpc = "hash_get" /\ dout.k = "data" => dpc = "hash_after"
         /\ hpc # "done" /\ dpc = "hash_send" => remain = 0
  BY DEF PhaseInv, Phase, Starting, Resting, Gone, Ordering, Awaiting, Identifying,
         Streaming, Hashing, Fetching, Closing, Ciphering, Between, Level, Ahead, Over, Wire, Quiet, Enc

LEMMA HashStep ==
  ASSUME PhaseInv, Bounds, OnWire, ModeInv, HashInv, Next
  PROVE  HashInv'
  <1> SUFFICES ASSUME hcmd'.op = "hash"
               PROVE  HashInv'
    BY DEF HashInv
  <1> DEFINE Fed == {"rw_reply", "loop", "hash_reply", "hash_send"}
             A == hpc # "done" /\ op = "hash" /\ dpc \in Fed =>
                    remain \in 0 .. hcmd.n /\ digest = Chunks(hcmd.n - remain)
             B == hpc = "hash_get" /\ dpc = "hash_after" => dout.v = HashOf(Chunks(hcmd.n))
             C == hpc \in {"await", "stream", "hash_wait", "hash_get"} => hgot = <<>>
             D == hpc = "final" => hgot = <<HashOf(Chunks(hcmd.n))>>
  <1>0. hcmd.n \in Nat /\ hleft \in Nat /\ remain \in Nat
    BY DEF PhaseInv, TypeOK, Packets
  <1>1. CASE HostCommand
    <2>1. UNCHANGED <<dpc, op>> /\ hpc' \in {"sendkey", "await"} /\ hgot' = <<>>
      BY <1>1 DEF HostCommand, dev
    <2>2. Between
      BY <1>1, CommandAt
    <2>3. QED
      BY <2>1, <2>2 DEF HashInv, Between, Enc
  <1>2. CASE Host /\ ~HostCommand
    <2>1. UNCHANGED <<dpc, op, remain, digest, hcmd, serial>> /\ hpc # "done"
      BY <1>2, HostFrame
    <2>2. A /\ B /\ C /\ D
      BY <2>1 DEF HashInv
    <2>3. A'
      BY <2>1, <2>2, SameChunks
    <2>4. B'
      <3>1. hpc' = "hash_get" => hpc = "hash_wait" /\ dout.k = "ready"
        BY <1>2, ReadyTable DEF Host, HostStart, HostFinish, HostKey, HostReady, HostError,
           HostCard, HostSends, HostSent, HostGets, HostFetched, End
      <3>2. QED
        BY <2>1, <3>1, PcPlaces
    <2>5. C'
      <3>1. hpc' \in {"await", "stream", "hash_wait", "hash_get"} =>
              hpc \in {"sendkey", "await", "stream", "hash_wait"} /\ hgot' = hgot
        BY <1>2, ReadyTable DEF Host, HostStart, HostFinish, HostKey, HostReady, HostError,
           HostCard, HostSends, HostSent, HostGets, HostFetched, End
      <3>2. QED
        BY <2>1, <2>2, <3>1, PcPlaces
    <2>6. D'
      <3>1. hpc' = "final" => \/ hpc = "stream" /\ hcmd.op # "hash"
                              \/ hpc = "fetch"
                              \/ hpc = "hash_get" /\ dout.k = "data" /\ hgot' = Append(hgot, dout.v)
        BY <1>2, ReadyTable DEF Host, HostStart, HostFinish, HostKey, HostReady, HostError,
           HostCard, HostSends, HostSent, HostGets, HostFetched, End
      <3>2. ASSUME hpc' = "final"
            PROVE  hgot' = <<HashOf(Chunks(hcmd.n))>>
        <4>1. hpc = "hash_get" /\ dout.k = "data" /\ hgot' = Append(hgot, dout.v)
          BY <2>1, <3>1, <3>2, PcPlaces
        <4>2. hgot = <<>> /\ dout.v = HashOf(Chunks(hcmd.n))
          BY <2>2, <4>1, PcPlaces
        <4>3. QED
          BY <4>1, <4>2
      <3>3. HashOf(Chunks(hcmd.n))' = HashOf(Chunks(hcmd.n))
        BY <2>1, SameChunks DEF HashOf
      <3>4. QED
        BY <3>2, <3>3
    <2>7. QED
      BY <2>3, <2>4, <2>5, <2>6 DEF HashInv
  <1>3. CASE Device
    <2>1. UNCHANGED <<hpc, hcmd, hleft, hgot, serial>>
      BY <1>3, DeviceFrame
    <2>2. A /\ B /\ C /\ D
      BY <2>1 DEF HashInv
    <2>3. A'
      <3> SUFFICES ASSUME hpc' # "done", op' = "hash", dpc' \in Fed
                   PROVE  remain' \in 0 .. hcmd'.n /\ digest' = Chunks(hcmd.n - remain)'
        OBVIOUS
      <3>1. CASE iuw_process_rw \/ ReadKey
        <4>1. hcmd.op = op /\ remain = hcmd.n
          BY <2>1, <3>1, PrepareAt
        <4>2. digest' = <<>> /\ remain' = remain
          BY <2>1, <3>1, <4>1 DEF iuw_process_rw, ReadKey, Prepare, Refuse, NoConfig
        <4>3. Chunks(hcmd.n - remain)' = Chunks(0)'
          BY <1>0, <2>1, <4>1, <4>2
        <4>4. QED
          BY <1>0, <2>1, <4>1, <4>2, <4>3, NoChunks, SameChunks
      <3>2. CASE LoopWrite
        <4>1. op = hcmd.op /\ hout.k = "data" /\ remain = hleft + 1 /\ hpc = "stream" /\ op = "hash"
          BY <2>1, <3>2, LoopWriteAt DEF LoopWrite, Enc
        <4>2. digest' = Append(digest, LocalData) /\ remain' = remain - 1
          BY <3>2, <4>1 DEF LoopWrite, RunsOut
        <4>3. /\ digest = Chunks(hcmd.n - remain) /\ remain \in 0 .. hcmd.n
              /\ LocalData = Work(hcmd.n - hleft)
          BY <2>1, <2>2, <3>2, <4>1, ModeAt DEF LoopWrite
        <4>4. hcmd.n - hleft = (hcmd.n - remain) + 1 /\ hcmd.n - remain \in Nat
          BY <1>0, <4>1, <4>3
        <4>5. digest' = Chunks((hcmd.n - remain) + 1)
          BY <4>2, <4>3, <4>4, ChunksGrow
        <4>6. (hcmd.n - remain) + 1 = hcmd.n - remain' /\ remain' \in 0 .. hcmd.n
          BY <1>0, <4>1, <4>2, <4>3
        <4>7. QED
          BY <2>1, <4>5, <4>6, SameChunks
      <3>3. CASE ~(iuw_process_rw \/ ReadKey \/ LoopWrite)
        <4>1. /\ UNCHANGED <<remain, digest, op>> /\ dpc \in Fed
          BY <1>3, <2>1, <3>3, HandshakeTable, DispatchTable, PlacesOfOps
             DEF Device, iuw_connect, Reply, iuw_server, iuw_check_identity, CheckCard, SendCipher,
                 AfterCipher, LoopRead, LoopEnd, SendHash, AfterHash, iuw_extra, ExtraReply,
                 ExtraData, ExtraEnd, RunsOut, Enc
        <4>2. QED
          BY <2>1, <2>2, <4>1, SameChunks
      <3>4. QED
        BY <3>1, <3>2, <3>3
    <2>4. B'
      <3> SUFFICES ASSUME hpc' = "hash_get", dpc' = "hash_after"
                   PROVE  dout'.v = HashOf(Chunks(hcmd.n))'
        OBVIOUS
      <3>1. dpc = "hash_send" /\ dout' = Data(HashOf(digest))
        BY <1>3, <2>1, HandshakeTable, DispatchTable
           DEF Device, iuw_connect, Reply, iuw_server, iuw_check_identity, CheckCard, SendCipher,
               AfterCipher, LoopRead, LoopEnd, SendHash, AfterHash, iuw_extra, ExtraReply,
               ExtraData, ExtraEnd, RunsOut, iuw_process_rw, ReadKey, LoopWrite, Prepare, Refuse,
               NoConfig
      <3>2. remain = 0 /\ op = "hash"
        BY <2>1, <3>1, PcPlaces, PlacesOfOps
      <3>3. digest = Chunks(hcmd.n)
        BY <1>0, <2>1, <2>2, <3>1, <3>2
      <3>4. HashOf(Chunks(hcmd.n))' = HashOf(Chunks(hcmd.n))
        BY <2>1, SameChunks DEF HashOf
      <3>5. QED
        BY <3>1, <3>3, <3>4, PacketFields
    <2>5. C' /\ D'
      <3>1. HashOf(Chunks(hcmd.n))' = HashOf(Chunks(hcmd.n))
        BY <2>1, SameChunks DEF HashOf
      <3>2. QED
        BY <2>1, <2>2, <3>1
    <2>6. QED
      BY <2>3, <2>4, <2>5 DEF HashInv
  <1>4. QED
    BY <1>1, <1>2, <1>3 DEF Next

LEMMA CipherPlaces ==
  ASSUME PhaseInv
  PROVE  /\ hpc \in {"fetch", "hash_get"} => hcmd.op \notin Enc
         /\ hpc = "enc_send" /\ hout.k = "none" /\ hleft # 0 => dpc = "loop"
         /\ hpc = "enc_wait" /\ dout.k = "ready" => dpc = "enc_reply"
         /\ hpc = "enc_get" /\ dout.k = "data" => dpc = "enc_after"
  BY DEF PhaseInv, Phase, Starting, Resting, Gone, Ordering, Awaiting, Identifying,
         Streaming, Hashing, Fetching, Closing, Ciphering, Between, Level, Ahead, Over, Wire, Quiet, Enc

LEMMA CipherStep ==
  ASSUME PhaseInv, Bounds, OnWire, ModeInv, EncInv, Next
  PROVE  EncInv'
  <1> SUFFICES ASSUME hcmd'.op \in Enc
               PROVE  EncInv'
    BY DEF EncInv, Enc
  <1> DEFINE A == hpc \in {"sendkey", "await", "enc_send", "enc_next"} => hgot = Results(hcmd.n - hleft)
             B == hpc \in {"enc_wait", "enc_get"} =>
                    hleft < hcmd.n /\ hgot = Results((hcmd.n - hleft) - 1)
             C == hpc \in {"enc_wait", "enc_get"} /\ dpc \in {"enc_reply", "enc_send"} => half = Last
             D == hpc = "enc_get" /\ dpc = "enc_after" => dout.v = Last
  <1>0. hcmd.n \in Nat /\ hleft \in 0 .. hcmd.n /\ remain \in Nat
    BY DEF PhaseInv, TypeOK, Packets, Bounds
  <1>1. CASE HostCommand
    <2>1. hpc' \in {"sendkey", "await"} /\ hgot' = <<>> /\ hleft' = hcmd'.n /\ hcmd'.n \in Nat
      BY <1>1, IuwAssumption DEF HostCommand
    <2>2. Results(0)' = <<>>
      BY DEF Results
    <2>3. QED
      BY <2>1, <2>2 DEF EncInv
  <1>2. CASE Host /\ ~HostCommand
    <2>1. UNCHANGED <<dpc, half, hcmd, serial>>
      BY <1>2, HostFrame
    <2>2. A /\ B /\ C /\ D
      BY <2>1 DEF EncInv
    <2>3. CASE HostSends
      <3>1. /\ hpc \in {"stream", "enc_send"} /\ hout.k = "none" /\ hleft > 0 /\ hleft' = hleft - 1
            /\ hpc' = (IF hpc = "stream" THEN "stream" ELSE "enc_wait") /\ UNCHANGED hgot
        BY <2>3, PacketFields DEF HostSends
      <3>2. CASE hpc = "enc_send"
        <4>1. hgot = Results(hcmd.n - hleft) /\ dpc = "loop"
          BY <1>0, <2>2, <3>1, <3>2, CipherPlaces
        <4>2. hcmd.n - hleft = (hcmd.n - hleft') - 1 /\ hleft' < hcmd.n
          BY <1>0, <3>1
        <4>3. hgot' = Results((hcmd.n - hleft) - 1)' /\ hleft' < hcmd'.n
          BY <2>1, <3>1, <4>1, <4>2, SameChunks
        <4>4. QED
          BY <2>1, <3>1, <3>2, <4>1, <4>3 DEF EncInv
      <3>3. CASE hpc = "stream"
        BY <3>1, <3>3 DEF EncInv
      <3>4. QED
        BY <3>1, <3>2, <3>3
    <2>4. CASE HostGets
      <3>1. CASE hpc = "enc_get"
        <4>1. hpc' = "enc_next" /\ hleft' = hleft /\ hgot' = Append(hgot, dout.v) /\ dout.k = "data"
          BY <2>4, <3>1 DEF HostGets
        <4>2. dpc = "enc_after" /\ dout.v = Last
          BY <2>2, <3>1, <4>1, CipherPlaces
        <4>3. hleft < hcmd.n /\ hgot = Results((hcmd.n - hleft) - 1)
          BY <2>2, <3>1
        <4> DEFINE m == (hcmd.n - hleft) - 1
        <4>4. m \in Nat /\ m + 1 = hcmd.n - hleft
          BY <1>0, <4>3
        <4> HIDE DEF m
        <4>5. hgot' = Append(Results(m), Cipher(Work(m + 1)))
          BY <4>1, <4>2, <4>3, <4>4 DEF Last, m
        <4>6. hgot' = Results(hcmd.n - hleft)
          BY <4>4, <4>5, ChunksGrow
        <4>7. hgot' = Results(hcmd.n - hleft)'
          BY <2>1, <4>1, <4>6, SameChunks
        <4>8. QED
          BY <4>1, <4>7 DEF EncInv
      <3>2. CASE hpc # "enc_get"
        BY <2>1, <2>4, <3>2, CipherPlaces DEF HostGets
      <3>3. QED
        BY <3>1, <3>2
    <2>5. CASE ~HostSends /\ ~HostGets
      <3>1. UNCHANGED <<hgot, hleft>>
        BY <1>2, <2>5 DEF Host, HostStart, HostFinish, HostKey, HostReady, HostError, HostCard,
           HostSent, HostFetched
      <3>2. /\ hpc' \in {"sendkey", "await", "enc_send", "enc_next"} =>
                  hpc \in {"sendkey", "await", "enc_next"}
            /\ hpc' \in {"enc_wait", "enc_get"} =>
                  hpc = "enc_wait" /\ hpc' = "enc_get" /\ dout.k = "ready"
        BY <1>2, <2>5, ReadyTable DEF Host, HostStart, HostFinish, HostKey, HostReady, HostError,
           HostCard, HostSent, HostFetched, End
      <3>3. Last' = Last
        BY <2>1, <3>1, SameChunks DEF Last, Cipher
      <3>4. A' /\ B'
        BY <2>1, <2>2, <3>1, <3>2, SameChunks
      <3>5. C' /\ D'
        BY <2>1, <2>2, <3>1, <3>2, <3>3, CipherPlaces
      <3>6. QED
        BY <3>4, <3>5 DEF EncInv
    <2>6. QED
      BY <2>3, <2>4, <2>5
  <1>3. CASE Device
    <2>1. UNCHANGED <<hpc, hcmd, hleft, hgot, serial>>
      BY <1>3, DeviceFrame
    <2>2. A /\ B /\ C /\ D
      BY <2>1 DEF EncInv
    <2>3. Last' = Last
      BY <2>1, SameChunks DEF Last, Cipher
    <2>4. A' /\ B'
      BY <2>1, <2>2, SameChunks
    <2>5. C'
      <3> SUFFICES ASSUME hpc' \in {"enc_wait", "enc_get"}, dpc' \in {"enc_reply", "enc_send"}
                   PROVE  half' = Last
        BY <2>3
      <3>1. CASE LoopWrite
        <4>1. hout.k = "data" /\ hpc = "enc_wait" /\ op \in Enc
          BY <2>1, <3>1, LoopWriteAt DEF LoopWrite, RunsOut
        <4>2. half' = Cipher(LocalData)
          BY <3>1, <4>1 DEF LoopWrite, RunsOut, Enc
        <4>3. LocalData = Work(hcmd.n - hleft)
          BY <3>1, <4>1, ModeAt
        <4>4. QED
          BY <4>2, <4>3 DEF Last
      <3>2. CASE ~LoopWrite
        <4>1. UNCHANGED half /\ dpc \in {"enc_reply", "enc_send"}
          BY <1>3, <3>2, HandshakeTable, DispatchTable
             DEF Device, iuw_connect, Reply, iuw_server, iuw_check_identity, CheckCard, SendCipher,
                 AfterCipher, LoopRead, LoopEnd, SendHash, AfterHash, iuw_extra, ExtraReply,
                 ExtraData, ExtraEnd, RunsOut, iuw_process_rw, ReadKey, Prepare, Refuse, NoConfig
        <4>2. QED
          BY <2>1, <2>2, <4>1
      <3>3. QED
        BY <3>1, <3>2
    <2>6. D'
      <3> SUFFICES ASSUME hpc' = "enc_get", dpc' = "enc_after"
                   PROVE  dout'.v = Last
        BY <2>3
      <3>1. dpc = "enc_send" /\ dout' = Data(half)
        BY <1>3, HandshakeTable, DispatchTable
           DEF Device, iuw_connect, Reply, iuw_server, iuw_check_identity, CheckCard, SendCipher,
               AfterCipher, LoopRead, LoopEnd, SendHash, AfterHash, iuw_extra, ExtraReply,
               ExtraData, ExtraEnd, RunsOut, iuw_process_rw, ReadKey, LoopWrite, Prepare, Refuse,
               NoConfig, Send, CipherText
      <3>2. QED
        BY <2>1, <2>2, <3>1, PacketFields
    <2>7. QED
      BY <2>4, <2>5, <2>6 DEF EncInv
  <1>4. QED
    BY <1>1, <1>2, <1>3 DEF Next

\* A later chunk behind earlier ones keeps the order, and so does a lost one.
LEMMA OrderedAppend ==
  ASSUME NEW m \in Nat, NEW s \in Seq(Pages(m)), Ordered(s), NEW w \in Writes(Chunk(m + 1))
  PROVE  /\ Append(s, w) \in Seq(Pages(m + 1)) /\ s \in Seq(Pages(m + 1))
         /\ Ordered(Append(s, w))
  <1> DEFINE t == Append(s, w)
  <1>1. Pages(m) \subseteq Pages(m + 1) /\ w \in Pages(m + 1)
    BY DEF Pages
  <1>2. s \in Seq(Pages(m + 1))
    BY <1>1, SeqMonotonic
  <1>3. /\ t \in Seq(Pages(m + 1)) /\ Len(t) = Len(s) + 1
        /\ DOMAIN t = 1 .. Len(s) + 1 /\ t[Len(s) + 1] = w
    BY <1>1, <1>2
  <1>4. \A i \in 1 .. Len(s) : t[i] = s[i]
    BY <1>2
  <1>5. \A i \in 1 .. Len(s) : s[i] # Lost => s[i][2] < m + 1
    <2> SUFFICES ASSUME NEW i \in 1 .. Len(s), s[i] # Lost
                 PROVE  s[i][2] < m + 1
      OBVIOUS
    <2>1. s[i] \in Pages(m)
      BY ElementOfSeq
    <2>2. PICK c \in 1 .. m : s[i] = Chunk(c)
      BY <2>1 DEF Pages, Writes
    <2>3. QED
      BY <2>2 DEF Chunk
  <1>6. w # Lost => w[2] = m + 1
    BY DEF Chunk, Writes
  <1>7. Len(s) \in Nat /\ DOMAIN s = 1 .. Len(s)
    OBVIOUS
  <1> HIDE DEF t
  <1>8. Ordered(t)
    <2> SUFFICES ASSUME NEW j \in 1 .. Len(s) + 1, NEW k \in 1 .. Len(s) + 1, j < k,
                        t[j] # Lost, t[k] # Lost
                 PROVE  t[j][2] < t[k][2]
      BY <1>3 DEF Ordered
    <2>1. j \in 1 .. Len(s)
      BY <1>7
    <2>2. CASE k \in 1 .. Len(s)
      BY <1>4, <1>7, <2>1, <2>2 DEF Ordered
    <2>3. CASE k = Len(s) + 1
      BY <1>3, <1>4, <1>5, <1>6, <2>1, <2>3
    <2>4. QED
      BY <1>7, <2>2, <2>3
  <1>9. QED
    BY <1>2, <1>3, <1>8 DEF t

LEMMA ExtraReplyAt ==
  ASSUME PhaseInv, ExtraReply, hpc # "done"
  PROVE  hout.n = hleft
  BY PacketFields
     DEF ExtraReply, Receive, Idle, PhaseInv, Packets, Phase, Starting, Resting, Gone, Ordering, Awaiting, Identifying,
         Streaming, Hashing, Fetching, Closing, Ciphering, Between, Level, Ahead, Over, Wire, Quiet, Enc

LEMMA ImageStep ==
  ASSUME PhaseInv, Bounds, OnWire, ImageInv, Next
  PROVE  ImageInv'
  <1> DEFINE Here == Pages(hcmd.n - remain)
  <1> SUFFICES ASSUME hpc' # "done", hcmd'.op = "extra", op' = "extra",
                      dpc' \in {"extra_burn", "final_reply"}
               PROVE  remain' \in 0 .. hcmd'.n /\ stored' \in Seq(Here') /\ Ordered(stored')
    BY DEF ImageInv, Ordered
  <1>0. hcmd.n \in Nat /\ hleft \in 0 .. hcmd.n /\ remain \in Nat
    BY DEF PhaseInv, TypeOK, Packets, Bounds
  <1>1. CASE Host
    <2>1. UNCHANGED <<dpc, op, remain, stored>> /\ hpc # "done"
      BY <1>1, HostFrame
    <2>2. ~HostCommand
      BY <2>1, CommandAt DEF Between, Enc
    <2>3. UNCHANGED <<hcmd, serial>>
      BY <1>1, <2>2, HostFrame
    <2>4. Here' = Here
      BY <2>1, <2>3, SameChunks
    <2>5. remain \in 0 .. hcmd.n /\ stored \in Seq(Here) /\ Ordered(stored)
      BY <2>1, <2>3 DEF ImageInv
    <2>6. QED
      BY <2>1, <2>3, <2>4, <2>5
  <1>2. CASE Device
    <2>1. UNCHANGED <<hpc, hcmd, hleft, serial>>
      BY <1>2, DeviceFrame
    <2>2. CASE ExtraReply
      <3>1. stored' = <<>> /\ remain' = hleft
        BY <2>1, <2>2, ExtraReplyAt DEF ExtraReply, Receive
      <3>2. <<>> \in Seq(Here') /\ Ordered(<<>>)
        BY DEF Ordered
      <3>3. QED
        BY <1>0, <2>1, <3>1, <3>2
    <2>3. CASE ExtraData
      <3>1. op = hcmd.op /\ hout.k = "data" /\ remain = hleft + 1 /\ hpc = "stream" /\ op = "extra"
        BY <2>1, <2>3, ExtraDataAt
      <3>2. /\ remain' = remain - 1
            /\ \/ stored' = stored
               \/ \E w \in Writes(hout.v) : stored' = Append(stored, w)
        BY <2>3, <3>1 DEF ExtraData, Seen
      <3>3. /\ stored \in Seq(Here) /\ Ordered(stored) /\ remain \in 0 .. hcmd.n
            /\ hout.v = Chunk(hcmd.n - hleft)
        BY <2>1, <2>3, <3>1 DEF ImageInv, OnWire, ExtraData
      <3> DEFINE m == hcmd.n - remain
      <3>4. m \in Nat /\ hcmd.n - hleft = m + 1 /\ hcmd.n - remain' = m + 1 /\ remain' \in 0 .. hcmd.n
        BY <1>0, <3>1, <3>2, <3>3
      <3>5. stored \in Seq(Pages(m)) /\ hout.v = Chunk(m + 1)
        BY <3>3, <3>4
      <3>6. Here' = Pages(m + 1)
        BY <2>1, <3>4, SameChunks
      <3> HIDE DEF m, Here
      <3>7. stored' \in Seq(Pages(m + 1)) /\ Ordered(stored')
        <4>1. Lost \in Writes(Chunk(m + 1)) \/ Chunk(m + 1) \in Writes(Chunk(m + 1))
          BY DEF Writes
        <4>2. QED
          BY <3>2, <3>3, <3>4, <3>5, <4>1, OrderedAppend
      <3>8. QED
        BY <2>1, <3>4, <3>6, <3>7
    <2>4. CASE ~ExtraReply /\ ~ExtraData
      <3>1. UNCHANGED <<remain, stored, op>> /\ dpc \in {"extra_burn", "final_reply"}
        BY <1>2, <2>1, <2>4, HandshakeTable, DispatchTable, PlacesOfOps
           DEF Device, iuw_connect, Reply, iuw_server, iuw_check_identity, CheckCard, SendCipher,
               AfterCipher, LoopRead, LoopEnd, SendHash, AfterHash, iuw_extra, ExtraEnd, RunsOut,
               iuw_process_rw, ReadKey, LoopWrite, Prepare, Refuse, NoConfig, Enc
      <3>2. Here' = Here
        BY <2>1, <3>1, SameChunks
      <3>3. remain \in 0 .. hcmd.n /\ stored \in Seq(Here) /\ Ordered(stored)
        BY <2>1, <3>1 DEF ImageInv
      <3>4. QED
        BY <2>1, <3>1, <3>2, <3>3
    <2>5. QED
      BY <2>2, <2>3, <2>4
  <1>3. QED
    BY <1>1, <1>2 DEF Next

\* A command that ends well leaves what it stored and what it got, and both
\* stay until the next one.
LEMMA OutcomeStep ==
  ASSUME PhaseInv, Bounds, WriteInv, HashInv, EncInv, ImageInv,
         StoresWhatWasSent, ResultsMatchInput, Next
  PROVE  StoresWhatWasSent' /\ ResultsMatchInput'
  <1> SUFFICES ASSUME hpc' = "idle", hres' = "ok"
               PROVE  StoresWhatWasSent' /\ ResultsMatchInput'
    BY DEF StoresWhatWasSent, WriteStoresAll, ImageStoresOnly, ResultsMatchInput
  <1> USE DEF StoresWhatWasSent, WriteStoresAll, ImageStoresOnly, ResultsMatchInput, Chunks, Work,
              Encrypted, Chunk, HashOf, Cipher, Writes
  <1>0. hcmd.n \in Nat
    BY DEF PhaseInv, Packets
  <1>1. CASE hpc = "idle"
    <2>1. UNCHANGED <<stored, hgot, hcmd, hres, serial>>
      BY <1>1, RestFrame
    <2>2. QED
      BY <1>1, <2>1
  <1>2. CASE hpc # "idle"
    <2>1. /\ UNCHANGED <<stored, hgot, hcmd, serial>> /\ op = hcmd.op
          /\ \/ hpc = "final" /\ dpc = "final_reply" /\ remain = 0 /\ op \notin Enc
             \/ op = "identify"
             \/ hpc = "enc_send" /\ op \in Enc /\ hleft = 0
      BY <1>2, EndsWell
    <2>2. CASE hcmd.op = "wr"
      <3>1. Len(stored) = hcmd.n /\ \A k \in 1 .. hcmd.n : stored[k] \in Writes(Work(k))
        BY <1>0, <2>1, <2>2 DEF WriteInv, Written, Enc
      <3>2. QED
        BY <2>1, <2>2, <3>1
    <2>3. CASE hcmd.op = "hash"
      <3>1. hgot = <<HashOf(Chunks(hcmd.n))>>
        BY <2>1, <2>3 DEF HashInv, Enc
      <3>2. QED
        BY <2>1, <2>3, <3>1
    <2>4. CASE hcmd.op \in Enc
      <3>1. hgot = Results(hcmd.n)
        BY <1>0, <2>1, <2>4 DEF EncInv, Enc
      <3>2. QED
        BY <2>1, <2>4, <3>1 DEF Results, Enc
    <2>5. CASE hcmd.op = "extra"
      <3>1. stored \in Seq(Pages(hcmd.n)) /\ Ordered(stored)
        BY <1>0, <2>1, <2>5 DEF ImageInv, Enc
      <3>2. ASSUME NEW k \in DOMAIN stored
            PROVE  \E c \in 1 .. hcmd.n : stored[k] \in Writes(Chunk(c))
        <4>1. stored[k] \in Pages(hcmd.n)
          BY <3>1, <3>2, ElementOfSeq
        <4>2. QED
          BY ONLY <4>1 DEF Pages
      <3>3. QED
        BY <2>1, <2>5, <3>1, <3>2 DEF Ordered
    <2>6. QED
      BY <2>1, <2>2, <2>3, <2>4, <2>5 DEF Enc
  <1>3. QED
    BY <1>1, <1>2

\* With the phases, the inductive invariant of the data.
ContentInv == Bounds /\ OnWire /\ ModeInv /\ WriteInv /\ HashInv /\ EncInv /\ ImageInv
              /\ StoresWhatWasSent /\ ResultsMatchInput

LEMMA ContentInvariant == Spec => []ContentInv
  <1>1. Init => ContentInv
    BY DEF Init, ContentInv, Bounds, OnWire, ModeInv, Taking, WriteInv, HashInv, EncInv, ImageInv, Enc,
           StoresWhatWasSent, WriteStoresAll, ImageStoresOnly, ResultsMatchInput
  <1>2. PhaseInv /\ ContentInv /\ [Next]_vars => ContentInv'
    <2>1. PhaseInv /\ ContentInv /\ Next => ContentInv'
      BY WireStep, ModeStep, WriteStep, HashStep, CipherStep, ImageStep, OutcomeStep DEF ContentInv
    <2>2. ContentInv /\ UNCHANGED vars => ContentInv'
      <3> SUFFICES ASSUME ContentInv, UNCHANGED vars
                   PROVE  ContentInv'
        OBVIOUS
      <3>0. WriteInv'
        <4>1. UNCHANGED <<stored, remain, hcmd, serial, hpc, op, dpc>>
          BY DEF vars, dev, host
        <4>2. Written(stored, hcmd.n - remain)' = Written(stored, hcmd.n - remain)
          BY <4>1, WrittenStays
        <4>3. WriteInv
          BY DEF ContentInv
        <4>4. QED
          BY <4>1, <4>2, <4>3, Zenon DEF WriteInv
      <3> USE DEF vars, dev, host, ContentInv, Chunk, Work, Encrypted, Writes, Chunks, Cipher,
                  HashOf
      <3>1. Bounds' /\ OnWire' /\ ModeInv'
        BY DEF Bounds, OnWire, ModeInv, TakesData
      <3>2. HashInv'
        BY DEF HashInv
      <3>3. EncInv'
        BY DEF EncInv, Last, Results
      <3>4. ImageInv'
        BY DEF ImageInv, Ordered, Pages
      <3>5. StoresWhatWasSent' /\ ResultsMatchInput'
        BY DEF StoresWhatWasSent, WriteStoresAll, ImageStoresOnly, ResultsMatchInput
      <3>6. QED
        BY <3>0, <3>1, <3>2, <3>3, <3>4, <3>5
    <2>3. QED
      BY <2>1, <2>2
  <1>3. QED
    BY <1>1, <1>2, PhaseInvariant, PTL DEF Spec

\* A write that the PC sees end well has a place for each of its chunks and the
\* chunk in it, encrypted when the image is a secure one, but for those whose
\* device write failed, which the code does not look at; a partition image has
\* stored nothing but its own pages, in order (iuw_base.c:435-469, yaffs.c:27-61).
THEOREM StoredAsSent == Spec => []StoresWhatWasSent
  BY ContentInvariant, PTL DEF ContentInv

\* The hash and the ciphertexts the PC gets are those of the chunks it sent, or
\* of their encryption for a secure image, although commands, handshakes and
\* data share one packet buffer.
THEOREM ComputedFromInput == Spec => []ResultsMatchInput
  BY ContentInvariant, PTL DEF ContentInv
=============================================================================
