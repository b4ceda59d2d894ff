------------------------------- MODULE Sparse -------------------------------
(***************************************************************************)
(* Burning a sparse image to a block device: the decoder of                *)
(* infotm/strategy/burn/sparse.c and the source it reads from              *)
(* (ius_sparse_data, infotm/strategy/burn/burn_extra.c).                   *)
(*                                                                         *)
(* The image is a stream of bytes that goes through the copy buffer: reads *)
(* append to it, the decoder takes bytes from `index` on, and what is left *)
(* is moved to the front when a read would not fit behind it.  A byte is   *)
(* its place in the stream.  What a read puts in the buffer and what it    *)
(* says it put there differ: an mmc driver answers with the square of the  *)
(* blocks read, a ram disk with whole units (see VsRead).                  *)
(***************************************************************************)
EXTENDS VsRead, Sequences, FiniteSets

CONSTANTS
  Step,        \* EXTRA_BUFFER_SIZE: 512 sectors
  BufSize,     \* CONFIG_SPARSE_BUF_SIZE and CONFIG_SPARSE_COPY_SIZE: four steps
  HeaderLen, ChunkLen, ValueLen,   \* sparse header, chunk header, fill value or CRC
  Srcs,        \* devices the image is read from
  Images,      \* images: valid, blk (bytes of a block), chunks, and where
               \* each chunk lies in the stream (pos) and on the target (out)
  FillRoom,    \* fill buffers the heap has room for; none is freed
  MaxIoErrors  \* bound: reads and writes that fail

\* The mmc entries answer the right count for a full step only because a
\* step is the square of a sector.
ASSUME SparseAssumption ==
  /\ Step = Sector * Sector
  /\ BufSize \in Nat /\ BufSize % Step = 0 /\ BufSize >= 2 * Step
  /\ HeaderLen \in 1 .. Sector /\ ChunkLen \in 1 .. Sector /\ ValueLen \in 1 .. Sector
  /\ Sector % ValueLen = 0
  /\ Srcs \subseteq {"mmc1", "ram"}
  /\ FillRoom \in Nat /\ MaxIoErrors \in Nat

Types == {"raw", "fill", "skip", "crc", "unknown"}

\* What the decoder takes of the stream behind a chunk's header: nothing for a
\* type it does not know.
Payload(im, c) == CASE c.type = "raw" -> c.blks * im.blk
                    [] c.type \in {"fill", "crc"} -> ValueLen
                    [] OTHER -> 0
OutLen(im, c) == IF c.type \in {"crc", "unknown"} THEN 0 ELSE c.blks * im.blk

\* The chunks follow each other, in the stream, where total_sz says how long a
\* chunk is, and on the target.  A chunk is bogus when that is not what its
\* header and what the decoder takes behind it make.  The image is not cut off:
\* it has every header, and the value of a checksum.  A block is whole sectors:
\* "the write size is always block size aligned" (sparse.c:165).
ASSUME ImageAssumption ==
  \A im \in Images :
    LET ends == 1 .. Len(im.chunks) + 1 IN
    /\ im.valid \in BOOLEAN /\ im.blk \in Nat /\ im.blk % Sector = 0
    /\ im.chunks \in Seq([type : Types, blks : Nat, bogus : BOOLEAN])
    /\ im.pos \in [ends -> Nat] /\ im.pos[1] = HeaderLen
    /\ \A k \in 1 .. Len(im.chunks) : im.chunks[k].type = "crc" =>
         im.pos[k] + ChunkLen + ValueLen <= im.pos[Len(im.chunks) + 1]
    /\ im.out \in [ends -> Nat] /\ im.out[1] = 0
    /\ \A k \in 1 .. Len(im.chunks) :
         /\ im.pos[k] + ChunkLen <= im.pos[k + 1]
         /\ im.chunks[k].bogus <=>
              im.pos[k + 1] # im.pos[k] + ChunkLen + Payload(im, im.chunks[k])
         /\ im.out[k + 1] = im.out[k] + OutLen(im, im.chunks[k])
    /\ \A j, k \in ends : j <= k => im.pos[j] <= im.pos[k] /\ im.out[j] <= im.out[k]

Junk == -1

VARIABLES
  src, img,
  pc,
  ius_offs, ius_remain,   \* place in and rest of the package
  remain,      \* data_source.remain
  buf, index,  \* the copy buffer up to deepth, and the place in it
  stillto,     \* what get_data_from_source still wants
  after,       \* where it returns to
  i,           \* the chunk
  len,         \* bytes left of a raw chunk
  at,          \* target.index
  disk,        \* sectors of the target
  fills,       \* fill buffers allocated
  ret,
  \* history
  high,        \* end of what was ever written to the buffer
  spoiled,     \* bytes of a failed read, or a failed write, were used
  nomem,       \* a fill buffer could not be allocated
  ioerr

source == <<ius_offs, ius_remain, remain>>
buffer == <<buf, index>>
vars == <<src, img, pc, source, buffer, stillto, after, i, len, at, disk, fills,
          ret, high, spoiled, nomem, ioerr>>

---------------------------------------------------------------------------
(* What the image decodes to.                                              *)

Chunks == DOMAIN img.chunks

ChunkPos(k) == img.pos[k]
StreamLen == ChunkPos(Len(img.chunks) + 1)
OutPos(k) == img.out[k]

Old == <<>>
Sectors == 0 .. OutPos(Len(img.chunks) + 1) \div Sector + 2

FillSector(from) == [b \in 1 .. Sector |-> from + ((b - 1) % ValueLen)]

\* What the sectors of the target hold when the image is burned.
Expand ==
  [s \in Sectors |->
    LET mine == {k \in Chunks : s * Sector \in OutPos(k) .. OutPos(k) + OutLen(img, img.chunks[k]) - 1}
    IN  IF mine = {} THEN Old
        ELSE LET k == CHOOSE j \in mine : TRUE
                 data == ChunkPos(k) + ChunkLen
             IN  CASE img.chunks[k].type = "raw" ->
                        [b \in 1 .. Sector |-> data + (s * Sector - OutPos(k)) + b - 1]
                   [] img.chunks[k].type = "fill" -> FillSector(data)
                   [] OTHER -> Old]

---------------------------------------------------------------------------
(* get_data_from_source.                                                   *)

Live == Len(buf) - index       \* DATA_IN_BUFFER_NOW

Realigns(want) == BufSize - Len(buf) < want \/ BufSize - Len(buf) < Step

Moved == SubSeq(buf, index + 1, Len(buf))

\* len, after the three limits; data_source.remain is compared as unsigned.
Wanted(want) ==
  LET l1 == IF Live + want > BufSize THEN BufSize - Live ELSE want
      l2 == IF l1 > Step THEN l1 - (l1 % Step) ELSE l1
  IN  IF remain >= 0 /\ l2 > remain THEN remain ELSE l2

\* Mutant: any data in the buffer is enough.
AtOnce_Any == BufSize - Live < Step \/ Live > 0

\* With a sector or more in the buffer the call returns at once.
AtOnce == BufSize - Live < Step \/ Live >= Sector

GetData(want, k) ==
  /\ after' = k
  /\ IF AtOnce
       THEN pc' = k /\ UNCHANGED <<buffer, stillto>>
       ELSE /\ stillto' = Wanted(want)
            /\ pc' = IF Wanted(want) = 0 THEN k ELSE "read"
            /\ IF index # 0 /\ Realigns(IF Live + want > BufSize THEN BufSize - Live ELSE want)
                 THEN buf' = Moved /\ index' = 0
                 ELSE UNCHANGED buffer

\* ius_sparse_data: a whole step, or what is left; of a card, whole sectors
\* and one more.
StepLen ==
  IF Step > ius_remain
    THEN IF IsMmc(src) THEN (ius_remain \div Sector) * Sector + Sector ELSE ius_remain
    ELSE Step

\* Mutant: the source is advanced by what was asked for.
Advance_Asked(count, n) == n

Advance(count, n) == count

LoopEnds(room, count) == room < Step \/ ~(stillto > count /\ count > 0)

\* One round of the loop.  A part of a read that fails leaves in the buffer
\* what was there.
ReadStep ==
  LET n == IF ius_remain = 0 THEN 0 ELSE StepLen
      parts == ReadParts(src, ius_offs, n)
  IN  /\ pc = "read"
      /\ \E bad \in {{}} \cup {{p} : p \in {q \in DOMAIN parts : parts[q] # {}}} :
           LET count == IF n = 0 THEN 0 ELSE ReadCount(src, ius_offs, n, bad)
               byte(j) == IF j >= n \/ \E p \in bad : j \in parts[p] THEN Junk
                          ELSE ius_offs + j
               got == [j \in 1 .. count |-> byte(j - 1)]
           IN  /\ bad # {} => IsMmc(src) /\ ioerr < MaxIoErrors
               /\ ioerr' = ioerr + Cardinality(bad)
               /\ buf' = buf \o got
               /\ high' = IF Len(buf) + n > high THEN Len(buf) + n ELSE high
               /\ spoiled' = (spoiled \/ \E j \in 1 .. count :
                                got[j] = Junk /\ ius_offs + j - 1 < StreamLen)
               /\ ius_offs' = ius_offs + Advance(count, n)
               /\ ius_remain' = ius_remain - count
               /\ remain' = remain - count
               /\ IF LoopEnds(BufSize - Len(buf) - count, count)
                    THEN pc' = after /\ UNCHANGED stillto
                    ELSE stillto' = stillto - count /\ UNCHANGED pc
  /\ UNCHANGED <<src, img, index, after, i, len, at, disk, fills, ret, nomem>>

\* seek_buffer
Seek(n) ==
  IF index + n = Len(buf) THEN buf' = <<>> /\ index' = 0
  ELSE index' = index + n /\ UNCHANGED buf

Taken(n) == SubSeq(buf, index + 1, index + n)
Garbled(n) == Junk \in {Taken(n)[j] : j \in 1 .. n}

\* write_data_to_disk: sectors of the target; a write that fails is not
\* noticed, the place in the target moves on.
Write(sector, count) ==
  /\ at' = at + count * Sector
  /\ \/ /\ disk' = [s \in Sectors |->
             IF s \in at \div Sector .. at \div Sector + count - 1
             THEN sector[s - at \div Sector + 1] ELSE disk[s]]
        /\ UNCHANGED <<ioerr, spoiled>>
     \/ /\ count > 0 /\ ioerr < MaxIoErrors /\ ioerr' = ioerr + 1
        /\ spoiled' = TRUE /\ UNCHANGED disk

---------------------------------------------------------------------------
(* sparse_burn.                                                            *)

Done(r) == pc' = "done" /\ ret' = r

sparse_burn ==
  /\ pc = "start"
  /\ GetData(BufSize, "header")
  /\ UNCHANGED <<src, img, source, i, len, at, disk, fills, ret, high, spoiled,
                 nomem, ioerr>>

\* With too little data the header is what the memory held, which may be the
\* header of the image burned before.
Header ==
  /\ pc = "header"
  /\ IF Live < HeaderLen \/ Garbled(HeaderLen)
       THEN /\ Done(-1) \/ (pc' = "lost" /\ UNCHANGED ret)
            /\ UNCHANGED buffer
       ELSE /\ Seek(HeaderLen)
            /\ IF img.valid THEN pc' = "chunk" /\ UNCHANGED ret ELSE Done(-1)
  /\ UNCHANGED <<src, img, source, stillto, after, i, len, at, disk, fills, high,
                 spoiled, nomem, ioerr>>

\* Mutant: a header that is partly in the buffer is taken for read.
Ensure_Some(n, k) ==
  IF Live = 0 THEN GetData(n, k)
  ELSE pc' = k /\ UNCHANGED <<buffer, stillto, after>>

\* Asks for n bytes before they are taken at k.
Ensure(n, k) ==
  IF Live < n THEN GetData(n, k)
  ELSE pc' = k /\ UNCHANGED <<buffer, stillto, after>>

Chunk ==
  /\ pc = "chunk"
  /\ IF i > Len(img.chunks)
       THEN Done(0) /\ UNCHANGED <<buffer, stillto, after>>
       ELSE Ensure(ChunkLen, "chunkheader") /\ UNCHANGED ret
  /\ UNCHANGED <<src, img, source, i, len, at, disk, fills, high, spoiled, nomem,
                 ioerr>>

\* The size in the header of chunk k is checked, and wrong.
Refused(k) == img.chunks[k].bogus /\ img.chunks[k].type \in {"raw", "fill", "skip"}

\* The loop goes on behind what it took of chunk i.  Behind a chunk whose size
\* is wrong and was not checked this is not where the next chunk lies: what it
\* takes for a chunk header is anything, unless no chunk follows.
NextChunk ==
  /\ i' = i + 1
  /\ IF ~img.chunks[i].bogus THEN pc' = "chunk" /\ UNCHANGED ret
     ELSE IF i = Len(img.chunks) THEN Done(0)
     ELSE pc' = "lost" /\ UNCHANGED ret

ChunkHeader ==
  LET c == img.chunks[i] IN
  /\ pc = "chunkheader"
  /\ IF Live < ChunkLen
       THEN Done(-1) /\ UNCHANGED <<buffer, i, len, at>>
     ELSE /\ Seek(ChunkLen)
          /\ IF Garbled(ChunkLen)
               THEN pc' = "lost" /\ UNCHANGED <<ret, i, len, at>>
             ELSE IF Refused(i)
               THEN Done(-1) /\ UNCHANGED <<i, len, at>>
             ELSE
               /\ len' = Payload(img, c)
               /\ \/ c.type = "raw" /\ pc' = "raw" /\ UNCHANGED <<ret, i, at>>
                  \/ c.type \in {"fill", "crc"} /\ pc' = "value" /\ UNCHANGED <<ret, i, at>>
                  \/ c.type \in {"skip", "unknown"} /\ NextChunk
                     /\ at' = at + OutLen(img, c)
  /\ UNCHANGED <<src, img, source, stillto, after, disk, fills, high, spoiled,
                 nomem, ioerr>>

\* process_raw_chunk
Raw ==
  /\ pc = "raw"
  /\ IF len = 0
       THEN pc' = "chunk" /\ i' = i + 1 /\ UNCHANGED <<buffer, stillto, after>>
       ELSE GetData(len, "put") /\ UNCHANGED i
  /\ UNCHANGED <<src, img, source, len, at, disk, fills, ret, high, spoiled,
                 nomem, ioerr>>

\* Mutant: the rest of a sector is thrown away.
PutSeek_All(n) == Seek(n)

PutSeek(n) == Seek((n \div Sector) * Sector)

\* Whole sectors of what the buffer has for the chunk.
Put ==
  LET n == IF Live > len THEN len ELSE Live
      count == n \div Sector
  IN  /\ pc = "put"
      /\ Write([k \in 1 .. count |->
                  SubSeq(buf, index + (k - 1) * Sector + 1, index + k * Sector)], count)
      /\ PutSeek(n)
      /\ len' = len - count * Sector
      /\ pc' = "raw"
      /\ UNCHANGED <<src, img, source, stillto, after, i, fills, ret, high, nomem>>

\* process_fill_chunk and process_crc32_chunk
Value ==
  /\ pc = "value"
  /\ Ensure(ValueLen, "valuetaken")
  /\ UNCHANGED <<src, img, source, i, len, at, disk, fills, ret, high, spoiled,
                 nomem, ioerr>>

\* Mutant: the whole fill buffer is written.
FillCount_Buffer(c) == BufSize \div Sector

FillCount(c) == OutLen(img, c) \div Sector

\* The value is taken whether it was read or not; behind the end of the
\* buffer nothing after it can be told, but for the checksum at the end, which
\* is only compared.  A fill buffer that cannot be
\* allocated makes the chunk count -1 blocks, which is not below zero in the
\* unsigned chunk_blks: the chunks that follow take its place.
ValueTaken ==
  LET c == img.chunks[i] IN
  /\ pc = "valuetaken"
  /\ IF Live < ValueLen
       THEN /\ IF c.type = "crc" /\ i = Len(img.chunks)
                 THEN Done(0) /\ i' = i + 1
                 ELSE pc' = "lost" /\ UNCHANGED <<ret, i>>
            /\ UNCHANGED <<index, at, disk, fills, spoiled, nomem, ioerr>>
       ELSE /\ index' = index + ValueLen
            /\ NextChunk
            /\ \/ /\ c.type = "crc"
                  /\ UNCHANGED <<at, disk, fills, spoiled, nomem, ioerr>>
               \/ /\ c.type = "fill" /\ fills < FillRoom /\ fills' = fills + 1
                  /\ Write([k \in 1 .. FillCount(c) |->
                              [b \in 1 .. Sector |-> Taken(ValueLen)[((b - 1) % ValueLen) + 1]]],
                           FillCount(c))
                  /\ UNCHANGED nomem
               \/ /\ c.type = "fill" /\ fills = FillRoom /\ nomem' = TRUE
                  /\ UNCHANGED <<at, disk, fills, spoiled, ioerr>>
  /\ UNCHANGED <<src, img, source, buf, stillto, after, len, high>>

---------------------------------------------------------------------------
Init ==
  /\ src \in Srcs /\ img \in Images
  /\ pc = "start" /\ after = "header" /\ stillto = 0
  /\ ius_offs = 0 /\ ius_remain = StreamLen /\ remain = StreamLen
  /\ buf = <<>> /\ index = 0
  /\ i = 1 /\ len = 0 /\ at = 0
  /\ disk = [s \in Sectors |-> Old]
  /\ fills = 0 /\ ret = 0
  /\ high = 0 /\ spoiled = FALSE /\ nomem = FALSE /\ ioerr = 0

Next ==
  \/ sparse_burn \/ ReadStep \/ Header \/ Chunk \/ ChunkHeader
  \/ Raw \/ Put \/ Value \/ ValueTaken

Spec == Init /\ [][Next]_vars

\* The burner runs alone: nothing but itself can keep it from its next step.
FairSpec == Spec /\ WF_vars(Next)

---------------------------------------------------------------------------
(* Properties.                                                             *)

Over == pc \in {"done", "lost"}

\* Type invariant: the place in the buffer never passes its end.
TypeOK ==
  /\ src \in Srcs /\ img \in Images
  /\ ius_offs \in Nat /\ ius_remain \in Int /\ remain \in Int
  /\ buf \in Seq(Int) /\ index \in 0 .. Len(buf)
  /\ stillto \in Nat /\ len \in Nat /\ at \in Nat
  /\ i \in 1 .. Len(img.chunks) + 1
  /\ fills \in 0 .. FillRoom /\ ret \in {0, -1}
  /\ spoiled \in BOOLEAN /\ nomem \in BOOLEAN /\ ioerr \in 0 .. MaxIoErrors

\* The byte of the stream the decoder takes next.
Place == IF pc = "read" THEN after ELSE pc
Cursor ==
  CASE Place \in {"start", "header"} -> 0
    [] Place \in {"chunk", "chunkheader"} -> ChunkPos(i)
    [] OTHER -> ChunkPos(i) + ChunkLen + Payload(img, img.chunks[i]) - len

\* However the reads are cut, the counts they answer and the moves of the
\* buffer: it holds the stream from the decoder's place on, without a gap,
\* a repetition or a byte left over from before, and the source goes on where
\* the buffer ends (sparse.c:112-162, burn_extra.c:49-72).
InStream ==
  ~Over /\ ~spoiled =>
    /\ \A j \in 1 .. Live : Cursor + j - 1 < StreamLen => buf[index + j] = Cursor + j - 1
    /\ ius_offs = Cursor + Live

\* "Make sure it will not overflow the copy buffer" (sparse.c:120): no read
\* ever writes behind it, whatever is left in it and in the package.
NoOverflow == high <= BufSize /\ Len(buf) <= BufSize

\* The copy buffer: its types, what it holds, and its end.
StreamInv == TypeOK /\ InStream /\ NoOverflow

\* A burn that returns 0 has written exactly what the image decodes to, reads
\* of whole sectors that failed and were repeated included; a failed write,
\* a garbled byte and a fill buffer that could not be allocated are the
\* cases the code does not notice (sparse.c:387-490).  Of an image in which
\* the decoder lost its place nothing is said.
Decoded == pc = "done" /\ ret = 0 /\ ~spoiled /\ ~nomem => disk = Expand

\* A card answers the end of an image with fewer bytes than it put in the
\* buffer, down to one.  The loop asks again, unless there is no room for a
\* step behind them: then the decoder goes on with what it has.
Starved == IsMmc(src) /\ ius_remain > 0 /\ Live < Sector /\ BufSize - Len(buf) < Step

\* Chunk k is of one of the types, and the first whose size is wrong.
FirstBogus(k, types) ==
  /\ img.chunks[k].bogus /\ img.chunks[k].type \in types
  /\ \A j \in 1 .. k - 1 : ~img.chunks[j].bogus

\* Without a failing device the decoder loses its place in exactly the images
\* whose first wrong size is one the code does not check, a checksum's or an
\* unknown chunk's, with a chunk behind it; it refuses exactly the images that
\* are not for the disk or whose first wrong size is checked; and it burns all
\* others to their end, except where the card starves it (sparse.c:142-160,
\* 427-476).
LostOnlyAstray ==
  Over /\ ioerr = 0 /\ ~Starved =>
    /\ pc = "lost" <=> /\ img.valid
                       /\ \E k \in 1 .. Len(img.chunks) - 1 :
                            FirstBogus(k, {"crc", "unknown"})
    /\ ret = -1 <=> \/ ~img.valid
                    \/ \E k \in Chunks : FirstBogus(k, {"raw", "fill", "skip"})

\* No sector outside of the image's own range of the target is written,
\* failures or not (sparse.c:163-253).
StaysInTarget ==
  [][\A s \in Sectors : disk'[s] # disk[s] =>
       s * Sector < OutPos(Len(img.chunks) + 1)]_vars

\* The decoder ends or loses its place although a read may bring one byte and
\* a loop writes nothing until a sector is complete (sparse.c:255-280).
BurnEnds == <>Over
=============================================================================
