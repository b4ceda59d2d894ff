---------------------------- MODULE SparseProof -----------------------------
(***************************************************************************)
(* Theorems about Sparse for every sector, buffer and header size, every   *)
(* image and any number of failures.                                       *)
(***************************************************************************)
EXTENDS Sparse, FiniteSetTheorems, SequenceTheorems, TLAPS

---------------------------------------------------------------------------
(* What vs_read counts for the requests of the decoder.                    *)

\* Division by a positive number: the remainder is what the multiple leaves.
LEMMA Division ==
  ASSUME NEW a \in Int, NEW u \in Nat \ {0}
  PROVE  /\ a \div u \in Int /\ a % u \in 0 .. u - 1
         /\ a = u * (a \div u) + (a % u)
         /\ a >= 0 => a \div u >= 0 /\ a % u <= a
  <1>1. a \div u \in Int /\ a % u \in 0 .. u - 1 /\ a = u * (a \div u) + (a % u)
    OBVIOUS
  <1>2. ASSUME a >= 0 PROVE a \div u >= 0
    BY <1>2
  <1>3. ASSUME a >= 0 PROVE a % u <= a
    <2> DEFINE q == a \div u
    <2>1. u * q >= 0
      BY <1>1, <1>2, <1>3
    <2>2. QED
      BY <1>1, <1>3, <2>1
  <1>4. QED
    BY <1>1, <1>2, <1>3

\* A multiple is its quotient times the unit.
LEMMA Multiple ==
  ASSUME NEW a \in Nat, NEW u \in Nat \ {0}, a % u = 0
  PROVE  (a \div u) * u = a
  OBVIOUS

\* The count of a request is that of its parts.
LEMMA CountOfParts ==
  ASSUME NEW dev, NEW s, NEW n, NEW bad
  PROVE  LET u == vs_align(dev)
             p == PreLen(s, u)
             t == PostLen(s, n, u)
             count(name, places, c) == IF places = {} \/ name \in bad THEN 0 ELSE c
         IN  ReadCount(dev, s, n, bad) =
               count("pre", 0 .. p - 1, DevCount(dev, u))
                 + count("middle", p .. n - t - 1, DevCount(dev, n - p - t))
                 + count("post", n - t .. n - 1, DevCount(dev, u))
  <1> DEFINE u == vs_align(dev)
             parts == ReadParts(dev, s, n)
             count(name) == IF parts[name] = {} \/ name \in bad THEN 0
                            ELSE IF name = "middle"
                              THEN DevCount(dev, n - PreLen(s, u) - PostLen(s, n, u))
                            ELSE DevCount(dev, u)
  <1>1. ReadCount(dev, s, n, bad) = count("pre") + count("middle") + count("post")
    BY Zenon DEF ReadCount
  <1>2. /\ parts["pre"] = 0 .. PreLen(s, u) - 1
        /\ parts["middle"] = PreLen(s, u) .. n - PostLen(s, n, u) - 1
        /\ parts["post"] = n - PostLen(s, n, u) .. n - 1
    BY DEF ReadParts
  <1>3. "pre" # "middle" /\ "post" # "middle"
    OBVIOUS
  <1> HIDE DEF u, parts
  <1>4. QED
    BY <1>1, <1>2, <1>3 DEF u

\* Memory, from a sector boundary: the request, up to whole sectors.
LEMMA RamCount ==
  ASSUME NEW s \in Nat, s % Sector = 0, NEW n \in Nat \ {0}
  PROVE  LET c == ReadCount("ram", s, n, {}) IN
         /\ c \in Nat /\ c >= n /\ c < n + Sector /\ c % Sector = 0
         /\ n % Sector = 0 => c = n
  <1> DEFINE r == n % Sector
             q == n \div Sector
  <1>1. Sector \in Nat \ {0}
    BY UnitAssumption
  <1>2. vs_align("ram") = Sector /\ PreLen(s, Sector) = 0
    BY DEF vs_align, PreLen
  <1>3. PostLen(s, n, Sector) = r
    BY <1>1, <1>2 DEF PostLen
  <1>4. r \in 0 .. Sector - 1 /\ r <= n /\ q \in Int /\ n = Sector * q + r
    <2>1. n \in Int /\ n >= 0
      OBVIOUS
    <2>2. QED
      BY ONLY <1>1, <2>1, Division
  <1> HIDE DEF r, q
  <1>5. \A l : DevCount("ram", l) = l
    BY DEF DevCount, IsMmc
  <1>6. /\ 0 .. 0 - 1 = {} /\ (0 .. n - r - 1 = {} <=> n - r = 0)
        /\ (n - r .. n - 1 = {} <=> r = 0)
    BY <1>1, <1>4
  <1>7. ReadCount("ram", s, n, {}) = (n - r) + (IF r = 0 THEN 0 ELSE Sector)
    <2>1. ReadCount("ram", s, n, {}) =
            (IF 0 .. 0 - 1 = {} THEN 0 ELSE Sector)
              + (IF 0 .. n - r - 1 = {} THEN 0 ELSE n - 0 - r)
              + (IF n - r .. n - 1 = {} THEN 0 ELSE Sector)
      BY <1>2, <1>3, <1>5, CountOfParts
    <2>2. QED
      BY <1>1, <1>4, <1>6, <2>1
  <1>8. CASE r = 0
    <2>1. ReadCount("ram", s, n, {}) = n
      BY <1>4, <1>7, <1>8
    <2>2. QED
      BY <1>1, <1>8, <2>1 DEF r
  <1>9. CASE r # 0
    <2>1. ReadCount("ram", s, n, {}) = Sector * q + Sector
      BY <1>1, <1>4, <1>7, <1>9
    <2>2. (Sector * q + Sector) % Sector = 0
      BY <1>1, <1>4
    <2>3. n % Sector # 0
      BY <1>9 DEF r
    <2>4. QED
      BY <1>1, <1>4, <1>9, <2>1, <2>2, <2>3
  <1>10. QED
    BY <1>8, <1>9

\* A card, whole sectors from anywhere: never more than was asked for, and
\* something unless a part fails.
LEMMA CardCount ==
  ASSUME NEW dev, IsMmc(dev), NEW s \in Nat, NEW k \in 1 .. Sector, NEW bad
  PROVE  LET c == ReadCount(dev, s, k * Sector, bad) IN
         /\ c \in 0 .. k * Sector
         /\ bad = {} => c > 0
         /\ s % Sector = 0 /\ bad = {} => c = k * k
  <1> DEFINE n == k * Sector
             p == PreLen(s, Sector)
             t == PostLen(s, n, Sector)
             m == n - p - t
             cm == IF p .. n - t - 1 = {} \/ "middle" \in bad THEN 0
                   ELSE (m \div Sector) * (m \div Sector)
             cp == IF 0 .. p - 1 = {} \/ "pre" \in bad THEN 0 ELSE 1
             ct == IF n - t .. n - 1 = {} \/ "post" \in bad THEN 0 ELSE 1
  <1>1. Sector \in Nat \ {0} /\ n \in Nat \ {0} /\ k \in Nat \ {0} /\ k <= Sector
    BY UnitAssumption
  <1>2. vs_align(dev) = Sector
    BY DEF vs_align, IsMmc
  <1>3. (Sector \div Sector) * (Sector \div Sector) = 1
    BY <1>1
  <1>4. ReadCount(dev, s, n, bad) = cp + cm + ct
    <2>1. \A l : DevCount(dev, l) = (l \div Sector) * (l \div Sector)
      BY DEF DevCount, IsMmc
    <2>2. DevCount(dev, Sector) = 1
      BY <1>3, <2>1
    <2> HIDE DEF n, p, t
    <2>3. QED
      BY <1>2, <2>1, <2>2, CountOfParts DEF n, p, t
  <1>6. p \in 0 .. Sector - 1 /\ t \in 0 .. Sector - 1 /\ t = (n - p) % Sector
    <2>1. s \in Int /\ s >= 0
      OBVIOUS
    <2>2. s % Sector \in 0 .. Sector - 1
      BY ONLY <1>1, <2>1, Division
    <2>3. p \in 0 .. Sector - 1
      BY <1>1, <2>2 DEF PreLen
    <2>4. t = (n - p) % Sector
      BY DEF PostLen
    <2> HIDE DEF p, n, t
    <2>5. n - p \in Int
      BY <1>1, <2>3
    <2>6. QED
      BY <1>1, <2>3, <2>4, <2>5, Division
  <1> HIDE DEF n, p, t, cm, cp, ct
  <1>7. CASE p = 0
    <2>1. t = 0
      <3>1. (k * Sector) % Sector = 0
        BY <1>1
      <3>2. QED
        BY <1>1, <1>6, <1>7, <3>1 DEF n
    <2>2. 0 .. p - 1 = {} /\ n - t .. n - 1 = {} /\ 0 \in p .. n - t - 1
      BY <1>1, <1>7, <2>1
    <2>3. m \div Sector = k
      <3>1. (k * Sector) \div Sector = k
        BY <1>1
      <3>2. m = k * Sector
        BY <1>1, <1>7, <2>1 DEF n
      <3>3. QED
        BY <3>1, <3>2
    <2>4. cp = 0 /\ ct = 0 /\ cm = IF "middle" \in bad THEN 0 ELSE k * k
      BY <2>2, <2>3 DEF cp, ct, cm
    <2>5. k * k \in 1 .. k * Sector
      BY <1>1
    <2>6. QED
      BY <1>1, <1>4, <2>4, <2>5 DEF n
  <1>8. CASE p # 0
    <2>1. s % Sector # 0
      BY <1>8 DEF p, PreLen
    <2>2. t = Sector - p
      <3>1. n - p = Sector * (k - 1) + (Sector - p)
        BY <1>1, <1>6 DEF n
      <3>2. Sector - p \in 1 .. Sector - 1 /\ k - 1 \in Nat
        BY <1>1, <1>6, <1>8
      <3>3. \A a \in Nat, r \in 0 .. Sector - 1 : (Sector * a + r) % Sector = r
        BY <1>1
      <3>4. QED
        BY <1>6, <3>1, <3>2, <3>3
    <2>3. m = (k - 1) * Sector
      BY <1>1, <1>6, <2>2 DEF n
    <2>4. m \div Sector = k - 1
      <3>1. ((k - 1) * Sector) \div Sector = k - 1
        BY <1>1
      <3>2. QED
        BY <2>3, <3>1
    <2>5. 0 \in 0 .. p - 1 /\ n - 1 \in n - t .. n - 1
      BY <1>1, <1>6, <1>8, <2>2
    <2>6. cm \in 0 .. (k - 1) * Sector
      <3>1. (k - 1) * (k - 1) \in 0 .. (k - 1) * Sector
        BY <1>1
      <3>2. QED
        BY <1>1, <2>4, <3>1 DEF cm
    <2>7. Sector >= 2
      BY <1>1, <1>6, <1>8
    <2>8. cp \in 0 .. 1 /\ ct \in 0 .. 1 /\ (bad = {} => cp = 1 /\ ct = 1)
      BY <2>5 DEF cp, ct
    <2>9. n = (k - 1) * Sector + Sector
      BY <1>1 DEF n
    <2>10. QED
      BY <1>1, <1>4, <2>1, <2>6, <2>7, <2>8, <2>9 DEF n
  <1>9. QED
    BY <1>7, <1>8

---------------------------------------------------------------------------
(* The inductive invariant.                                                *)

\* Where the decoder is, with the chunk it is in.
Places ==
  /\ pc \in {"start", "read", "header", "chunk", "chunkheader", "raw", "put",
             "value", "valuetaken", "done", "lost"}
  /\ after \in {"header", "chunkheader", "put", "valuetaken"}
  /\ pc = "start" => Live = 0
  /\ Place \in {"start", "header"} => i = 1
  /\ Place \in {"chunkheader", "raw", "put", "value", "valuetaken"} => i \in Chunks
  /\ Place \in {"raw", "put"} =>
       /\ img.chunks[i].type = "raw" /\ ~img.chunks[i].bogus
       /\ len <= Payload(img, img.chunks[i]) /\ len % Sector = 0
  /\ Place = "put" => len > 0
  /\ Place \in {"value", "valuetaken"} =>
       /\ img.chunks[i].type \in {"fill", "crc"} /\ len = ValueLen
       /\ img.chunks[i].type = "fill" => ~img.chunks[i].bogus

\* What is left in the package is what the buffer has not got yet, failed
\* reads or not; memory is read from sector boundaries only.
Supply ==
  /\ ius_remain = StreamLen - ius_offs /\ remain = ius_remain
  /\ ~Over => ius_offs = Cursor + Live
  /\ src = "ram" => ius_offs % Sector = 0

\* While reads are made there is room for a step, and something to read.
Reading ==
  pc = "read" => Len(buf) + Step <= BufSize /\ stillto > 0 /\ stillto <= remain

Contents ==
  ~Over /\ ~spoiled =>
    \A j \in 1 .. Live : Cursor + j - 1 < StreamLen => buf[index + j] = Cursor + j - 1

SInv == TypeOK /\ Places /\ Supply /\ Reading /\ NoOverflow /\ Contents

---------------------------------------------------------------------------
(* Sizes and images.                                                       *)

LEMMA Sizes ==
  /\ Sector \in Nat \ {0} /\ Step \in Nat \ {0} /\ Sector <= Step /\ Step = Sector * Sector
  /\ Step % Sector = 0
  /\ BufSize \in Nat /\ 2 * Step <= BufSize /\ BufSize % Step = 0
  /\ HeaderLen \in 1 .. Sector /\ ChunkLen \in 1 .. Sector /\ ValueLen \in 1 .. Sector
  <1>1. Sector \in Nat \ {0} /\ Step = Sector * Sector
    BY UnitAssumption, SparseAssumption
  <1>2. Sector * Sector \in Nat \ {0} /\ Sector <= Sector * Sector
    BY <1>1
  <1>3. (Sector * Sector) % Sector = 0
    BY <1>1
  <1>4. QED
    BY <1>1, <1>2, <1>3, SparseAssumption

\* Whole blocks are whole sectors.
LEMMA WholeSectors ==
  ASSUME NEW n \in Nat, NEW b \in Nat, b % Sector = 0
  PROVE  (n * b) % Sector = 0 /\ n * b \in Nat
  <1>1. Sector \in Nat \ {0}
    BY Sizes
  <1>2. PICK q \in Nat : b = Sector * q
    <2>1. (b \div Sector) * Sector = b
      BY <1>1, Multiple
    <2>2. b \div Sector \in Nat
      BY <1>1
    <2>3. QED
      BY <1>1, <2>1, <2>2
  <1> DEFINE r == n * q
  <1>3. n * b = Sector * r /\ r \in Nat
    BY <1>1, <1>2
  <1> HIDE DEF r
  <1>4. (Sector * r) % Sector = 0
    BY <1>1, <1>3
  <1>5. QED
    BY <1>1, <1>3, <1>4

\* The ends of the stream and of the target.
LEMMA Ends ==
  ASSUME img \in Images
  PROVE  /\ Len(img.chunks) \in Nat /\ Chunks = 1 .. Len(img.chunks)
         /\ ChunkPos(1) = HeaderLen /\ OutPos(1) = 0
         /\ StreamLen \in Nat /\ HeaderLen <= StreamLen
         /\ \A k \in 1 .. Len(img.chunks) + 1 :
              /\ ChunkPos(k) \in Nat /\ ChunkPos(k) <= StreamLen
              /\ OutPos(k) \in Nat /\ OutPos(k) <= OutPos(Len(img.chunks) + 1)
         /\ \A j, k \in 1 .. Len(img.chunks) + 1 : j <= k => OutPos(j) <= OutPos(k)
  <1> DEFINE n == Len(img.chunks)
  <1>1. img.chunks \in Seq([type : Types, blks : Nat, bogus : BOOLEAN])
    BY ImageAssumption
  <1>2. n \in Nat /\ Chunks = 1 .. n
    BY <1>1 DEF Chunks
  <1>3. /\ img.pos \in [1 .. n + 1 -> Nat] /\ img.pos[1] = HeaderLen
        /\ img.out \in [1 .. n + 1 -> Nat] /\ img.out[1] = 0
        /\ \A j, k \in 1 .. n + 1 : j <= k => img.pos[j] <= img.pos[k] /\ img.out[j] <= img.out[k]
    BY ImageAssumption
  <1> HIDE DEF n
  <1>4. n + 1 \in 1 .. n + 1 /\ 1 \in 1 .. n + 1 /\ 1 <= n + 1
    BY <1>2
  <1>5. \A k \in 1 .. n + 1 : k <= n + 1
    BY <1>2
  <1>6. /\ img.pos[n + 1] \in Nat /\ img.pos[1] <= img.pos[n + 1]
        /\ \A k \in 1 .. n + 1 : /\ img.pos[k] \in Nat /\ img.pos[k] <= img.pos[n + 1]
                                /\ img.out[k] \in Nat /\ img.out[k] <= img.out[n + 1]
    BY <1>3, <1>4, <1>5
  <1>7. QED
    BY <1>2, <1>3, <1>6 DEF n, ChunkPos, OutPos, StreamLen

\* A chunk: its types, its length in the stream and on the target.
LEMMA ChunkFacts ==
  ASSUME img \in Images, NEW k \in Chunks
  PROVE  LET c == img.chunks[k] IN
         /\ k \in 1 .. Len(img.chunks) /\ k + 1 \in 1 .. Len(img.chunks) + 1
         /\ c.type \in Types /\ c.bogus \in BOOLEAN
         /\ Payload(img, c) \in Nat /\ OutLen(img, c) \in Nat /\ OutLen(img, c) % Sector = 0
         /\ c.type = "raw" => Payload(img, c) = OutLen(img, c)
         /\ c.type \in {"fill", "crc"} => Payload(img, c) = ValueLen
         /\ c.type \in {"skip", "unknown"} => Payload(img, c) = 0
         /\ c.type \in {"crc", "unknown"} => OutLen(img, c) = 0
         /\ ~c.bogus => ChunkPos(k + 1) = ChunkPos(k) + ChunkLen + Payload(img, c)
         /\ ChunkPos(k) + ChunkLen <= ChunkPos(k + 1)
         /\ c.type = "crc" => ChunkPos(k) + ChunkLen + ValueLen <= StreamLen
         /\ OutPos(k + 1) = OutPos(k) + OutLen(img, c)
  <1> DEFINE c == img.chunks[k]
  <1>1. k \in 1 .. Len(img.chunks) /\ k + 1 \in 1 .. Len(img.chunks) + 1
    BY Ends
  <1>2. img.chunks \in Seq([type : Types, blks : Nat, bogus : BOOLEAN])
    BY ImageAssumption
  <1>3. c \in [type : Types, blks : Nat, bogus : BOOLEAN]
    BY <1>1, <1>2, ElementOfSeq
  <1>4. img.blk \in Nat /\ img.blk % Sector = 0
    BY ImageAssumption
  <1>5. c.type \in Types /\ c.bogus \in BOOLEAN /\ c.blks \in Nat
    BY <1>3
  <1>6. /\ ~c.bogus => img.pos[k + 1] = img.pos[k] + ChunkLen + Payload(img, c)
        /\ img.pos[k] + ChunkLen <= img.pos[k + 1]
        /\ c.type = "crc" => img.pos[k] + ChunkLen + ValueLen <= img.pos[Len(img.chunks) + 1]
        /\ img.out[k + 1] = img.out[k] + OutLen(img, c)
    BY <1>1, ImageAssumption
  <1> HIDE DEF c
  <1> DEFINE b == c.blks * img.blk
  <1>7. b \in Nat /\ b % Sector = 0
    BY <1>4, <1>5, WholeSectors
  <1>8. 0 % Sector = 0
    BY Sizes
  <1> HIDE DEF b
  <1>9. /\ c.type = "raw" => Payload(img, c) = b
        /\ c.type \in {"fill", "crc"} => Payload(img, c) = ValueLen
        /\ c.type \in {"skip", "unknown"} => Payload(img, c) = 0
    BY <1>5 DEF Payload, Types, b
  <1>10. OutLen(img, c) = IF c.type \in {"crc", "unknown"} THEN 0 ELSE b
    BY DEF OutLen, b
  <1>11. Payload(img, c) \in Nat /\ OutLen(img, c) \in Nat /\ OutLen(img, c) % Sector = 0
    BY <1>5, <1>7, <1>8, <1>9, <1>10, Sizes DEF Types
  <1>12. c.type = "raw" => Payload(img, c) = OutLen(img, c)
    BY <1>9, <1>10
  <1>13. QED
    BY <1>1, <1>5, <1>6, <1>9, <1>10, <1>11, <1>12 DEF c, ChunkPos, OutPos, StreamLen

---------------------------------------------------------------------------
(* The copy buffer.                                                        *)

\* The buffer after n bytes were taken from it, moved or not.
Kept(n) ==
  /\ buf' \in Seq(Int) /\ Len(buf') <= Len(buf)
  /\ index' \in 0 .. Len(buf') /\ Live' = Live - n
  /\ \A j \in 1 .. Live - n : buf'[index' + j] = buf[index + n + j]

LEMMA LiveType ==
  ASSUME TypeOK
  PROVE  /\ Len(buf) \in Nat /\ index \in Nat /\ index <= Len(buf)
         /\ Live \in Nat /\ Live <= Len(buf) /\ index + Live = Len(buf)
  BY DEF TypeOK, Live

LEMMA Stays ==
  ASSUME TypeOK, UNCHANGED buffer
  PROVE  Kept(0)
  <1>1. buf' = buf /\ index' = index
    BY DEF buffer
  <1>2. Live' = Live
    BY <1>1 DEF Live
  <1>3. QED
    BY <1>1, <1>2, LiveType DEF Kept, TypeOK

\* seek_buffer takes n bytes; it empties the buffer when they were the last.
LEMMA Seeks ==
  ASSUME TypeOK, NEW n \in Nat, n <= Live, Seek(n)
  PROVE  Kept(n)
  <1>1. CASE index + n = Len(buf)
    <2>1. buf' = <<>> /\ index' = 0 /\ Live = n
      BY <1>1, LiveType DEF Seek, Live
    <2>2. Live' = 0
      BY <2>1 DEF Live
    <2>3. QED
      BY <2>1, <2>2, LiveType DEF Kept
  <1>2. CASE index + n # Len(buf)
    <2>1. buf' = buf /\ index' = index + n
      BY <1>2 DEF Seek
    <2>2. Live' = Live - n
      BY <2>1, LiveType DEF Live
    <2>3. QED
      BY <2>1, <2>2, LiveType DEF Kept, TypeOK
  <1>3. QED
    BY <1>1, <1>2

\* realign_buffer: what is left goes to the front.
LEMMA Moves ==
  ASSUME TypeOK, buf' = Moved, index' = 0
  PROVE  Kept(0) /\ Len(buf') = Live
  <1>1. buf \in Seq(Int) /\ index + 1 \in 1 .. Len(buf) + 1 /\ Len(buf) \in index .. Len(buf)
    BY LiveType DEF TypeOK
  <1>2. /\ Moved \in Seq(Int)
        /\ Len(Moved) = IF index + 1 <= Len(buf) THEN Len(buf) - (index + 1) + 1 ELSE 0
        /\ \A j \in 1 .. Len(buf) - (index + 1) + 1 : Moved[j] = buf[(index + 1) + j - 1]
    BY <1>1, SubSeqProperties DEF Moved
  <1>3. Len(Moved) = Live
    BY <1>2, LiveType DEF Live
  <1>4. Live' = Live
    BY <1>3, LiveType DEF Live
  <1>5. \A j \in 1 .. Live : Moved[j] = buf[index + j]
    <2>1. Len(buf) - (index + 1) + 1 = Live
      BY LiveType DEF Live
    <2>2. \A j \in 1 .. Live : (index + 1) + j - 1 = index + j
      BY LiveType
    <2>3. QED
      BY <1>2, <2>1, <2>2
  <1>6. QED
    BY <1>2, <1>3, <1>4, <1>5, LiveType DEF Kept

---------------------------------------------------------------------------
(* get_data_from_source, up to its loop.                                   *)

\* What the loop is asked for.
LEMMA Wants ==
  ASSUME TypeOK, ~AtOnce, remain > 0, NEW want \in Nat \ {0}
  PROVE  /\ Wanted(want) \in Nat \ {0} /\ Wanted(want) <= remain
         /\ Wanted(want) = remain \/ Wanted(want) >= want \/ Wanted(want) >= Step
  <1> DEFINE l1 == IF Live + want > BufSize THEN BufSize - Live ELSE want
             q == l1 \div Step
             l2 == IF l1 > Step THEN l1 - (l1 % Step) ELSE l1
  <1>1. BufSize - Live >= Step /\ remain \in Int
    <2>1. remain \in Int
      BY DEF TypeOK
    <2>2. QED
      BY <2>1, LiveType, Sizes DEF AtOnce
  <1>2. l1 \in Nat \ {0} /\ (l1 = want \/ l1 >= Step)
    BY <1>1, LiveType, Sizes
  <1> HIDE DEF l1
  <1>3. l1 > Step => l1 - (l1 % Step) >= Step /\ l1 - (l1 % Step) \in Nat
    <2>1. l1 \in Int /\ l1 >= 0 /\ Step \in Nat \ {0}
      BY <1>2, Sizes
    <2>2. q \in Int /\ l1 % Step \in 0 .. Step - 1 /\ l1 = Step * q + (l1 % Step)
      BY ONLY <2>1, Division
    <2> HIDE DEF q
    <2>3. ASSUME l1 > Step PROVE q >= 1
      BY <2>1, <2>2, <2>3
    <2>4. q >= 1 => Step * q >= Step
      BY <2>1, <2>2
    <2>5. QED
      BY <2>1, <2>2, <2>3, <2>4
  <1>4. l2 \in Nat \ {0} /\ (l2 = want \/ l2 >= Step)
    BY <1>2, <1>3, Sizes
  <1>5. Wanted(want) = IF remain >= 0 /\ l2 > remain THEN remain ELSE l2
    BY DEF Wanted, l1
  <1> HIDE DEF l2
  <1>6. QED
    BY <1>1, <1>4, <1>5, Sizes

\* The call returns at once, or begins to read with room for a step.
Begun(want, k) ==
  /\ Kept(0) /\ after' = k /\ stillto' \in Nat
  /\ \/ AtOnce /\ pc' = k
     \/ /\ pc' = "read" /\ Len(buf') + Step <= BufSize
        /\ stillto' > 0 /\ stillto' <= remain
        /\ stillto' = remain \/ stillto' >= want \/ stillto' >= Step

LEMMA Gathers ==
  ASSUME TypeOK, AtOnce \/ remain > 0, NEW want \in Nat \ {0}, NEW k, GetData(want, k)
  PROVE  Begun(want, k)
  <1>1. CASE AtOnce
    <2>1. after' = k /\ pc' = k /\ UNCHANGED buffer /\ stillto' = stillto
      BY <1>1 DEF GetData
    <2>2. QED
      BY <1>1, <2>1, Stays DEF Begun, TypeOK
  <1>2. CASE ~AtOnce
    <2> DEFINE l1 == IF Live + want > BufSize THEN BufSize - Live ELSE want
    <2>1. /\ Wanted(want) \in Nat \ {0} /\ Wanted(want) <= remain
          /\ Wanted(want) = remain \/ Wanted(want) >= want \/ Wanted(want) >= Step
      BY <1>2, Wants
    <2>2. stillto' = Wanted(want) /\ after' = k /\ pc' = "read"
      BY <1>2, <2>1 DEF GetData
    <2>3. BufSize - Live >= Step
      BY SMTT(30), <1>2, LiveType, Sizes DEF AtOnce
    <2>4. Kept(0) /\ Len(buf') + Step <= BufSize
      <3>1. CASE index # 0 /\ Realigns(l1)
        <4>1. buf' = Moved /\ index' = 0
          BY <1>2, <3>1 DEF GetData
        <4>2. QED
          BY <2>3, <4>1, Moves, LiveType, Sizes
      <3>2. CASE ~(index # 0 /\ Realigns(l1))
        <4>1. UNCHANGED buffer
          BY <1>2, <3>2 DEF GetData
        <4>2. index = 0 => Len(buf) = Live
          BY LiveType
        <4>3. index # 0 => BufSize - Len(buf) >= Step
          BY <3>2, LiveType, Sizes DEF Realigns
        <4>4. Len(buf) + Step <= BufSize
          BY <2>3, <4>2, <4>3, LiveType, Sizes
        <4>5. QED
          BY <4>1, <4>4, Stays DEF buffer
      <3>3. QED
        BY <3>1, <3>2
    <2>5. QED
      BY <2>1, <2>2, <2>4 DEF Begun
  <1>3. QED
    BY <1>1, <1>2

---------------------------------------------------------------------------
(* The decoder's place in the stream.                                      *)

\* What the decoder is about to take lies in the stream.
LEMMA CursorAt ==
  ASSUME TypeOK, Places, ~Over
  PROVE  /\ Cursor \in Nat
         /\ Place \in {"start", "header"} => Cursor = 0 /\ HeaderLen <= StreamLen - Cursor
         /\ Place \in {"chunk", "chunkheader"} =>
              /\ Cursor = ChunkPos(i)
              /\ i \in Chunks => ChunkLen <= StreamLen - Cursor
         /\ Place \in {"raw", "put", "value", "valuetaken"} =>
              /\ ~img.chunks[i].bogus => Cursor = ChunkPos(i + 1) - len
              /\ len <= StreamLen - Cursor
  <1>1. CASE Place \in {"start", "header"}
    <2>1. Cursor = 0
      BY <1>1 DEF Cursor
    <2>2. HeaderLen <= StreamLen /\ StreamLen \in Nat
      BY Ends DEF TypeOK
    <2>3. HeaderLen <= StreamLen - Cursor
      BY <2>1, <2>2, Sizes
    <2>4. QED
      BY <1>1, <2>1, <2>3
  <1>2. CASE Place \in {"chunk", "chunkheader"}
    <2>1. Cursor = ChunkPos(i)
      BY <1>2 DEF Cursor
    <2>2. Cursor \in Nat
      BY <2>1, Ends DEF TypeOK
    <2>3. i \in Chunks => ChunkLen <= StreamLen - Cursor
      <3>1. ASSUME i \in Chunks PROVE ChunkLen <= StreamLen - Cursor
        <4>1. /\ ChunkPos(i) + ChunkLen <= ChunkPos(i + 1)
              /\ i + 1 \in 1 .. Len(img.chunks) + 1
          BY <3>1, ChunkFacts DEF TypeOK
        <4>2. ChunkPos(i + 1) <= StreamLen /\ StreamLen \in Nat /\ ChunkPos(i + 1) \in Nat
          BY <4>1, Ends DEF TypeOK
        <4>3. QED
          BY <2>1, <2>2, <4>1, <4>2, Sizes
      <3>2. QED
        BY <3>1
    <2>4. QED
      BY <1>2, <2>1, <2>2, <2>3
  <1>3. CASE Place \in {"raw", "put", "value", "valuetaken"}
    <2> DEFINE p == Payload(img, img.chunks[i])
    <2>1. i \in Chunks /\ img \in Images /\ len \in Nat
      BY <1>3 DEF Places, TypeOK
    <2>2. /\ ~img.chunks[i].bogus => ChunkPos(i + 1) = ChunkPos(i) + ChunkLen + p
          /\ p \in Nat
          /\ img.chunks[i].type \in {"fill", "crc"} => p = ValueLen
          /\ img.chunks[i].type = "crc" => ChunkPos(i) + ChunkLen + ValueLen <= StreamLen
          /\ i \in 1 .. Len(img.chunks) + 1 /\ i + 1 \in 1 .. Len(img.chunks) + 1
      <3>1. /\ ~img.chunks[i].bogus => ChunkPos(i + 1) = ChunkPos(i) + ChunkLen + p
            /\ p \in Nat
            /\ img.chunks[i].type \in {"fill", "crc"} => p = ValueLen
            /\ img.chunks[i].type = "crc" => ChunkPos(i) + ChunkLen + ValueLen <= StreamLen
            /\ i + 1 \in 1 .. Len(img.chunks) + 1
        BY <2>1, ChunkFacts
      <3>2. i \in 1 .. Len(img.chunks) + 1
        BY DEF TypeOK
      <3>3. QED
        BY <3>1, <3>2
    <2>3. ChunkPos(i) \in Nat /\ ChunkPos(i + 1) \in Nat /\ ChunkPos(i + 1) <= StreamLen /\ StreamLen \in Nat
      BY <2>1, <2>2, Ends
    <2>4. len <= p
      BY <1>3, <2>1, <2>2, Sizes DEF Places
    <2>5. Cursor = ChunkPos(i) + ChunkLen + p - len
      BY <1>3 DEF Cursor
    <2>8. ChunkPos(i) + ChunkLen + p <= StreamLen
      <3>1. CASE ~img.chunks[i].bogus
        BY <2>2, <2>3, <3>1
      <3>2. CASE img.chunks[i].bogus
        <4>1. img.chunks[i].type = "crc"
          BY <1>3, <3>2 DEF Places
        <4>2. QED
          BY <2>2, <4>1
      <3>3. QED
        BY <3>1, <3>2
    <2> HIDE DEF p
    <2>9. ChunkLen \in Nat
      BY Sizes
    <2>12. p \in Nat /\ len \in Nat /\ ChunkPos(i) \in Nat /\ StreamLen \in Nat
      BY <2>1, <2>2, <2>3
    <2>10. Cursor \in Nat /\ len <= StreamLen - Cursor
      BY ONLY <2>12, <2>4, <2>5, <2>8, <2>9
    <2>13. ~img.chunks[i].bogus => ChunkPos(i + 1) = ChunkPos(i) + ChunkLen + p
      BY <2>2, Zenon
    <2>11. ~img.chunks[i].bogus => Cursor = ChunkPos(i + 1) - len
      BY ONLY <2>12, <2>13, <2>5, <2>9
    <2>6. /\ Cursor \in Nat /\ (~img.chunks[i].bogus => Cursor = ChunkPos(i + 1) - len)
          /\ len <= StreamLen - Cursor
      BY <2>10, <2>11, Zenon
    <2>7. QED
      BY <1>3, <2>6
  <1>4. Place \in {"start", "header", "chunk", "chunkheader", "raw", "put", "value", "valuetaken"}
    BY DEF Places, Place, Over
  <1>5. QED
    BY <1>1, <1>2, <1>3, <1>4

\* Bytes taken from the front leave the rest of the stream.
LEMMA Flow ==
  ASSUME SInv, NEW n \in Nat, n <= Live, Kept(n), ~Over, ~Over', Cursor' = Cursor + n,
         UNCHANGED <<src, img, source, high>>, spoiled => spoiled'
  PROVE  Supply' /\ NoOverflow' /\ Contents'
  <1>1. TypeOK /\ Places /\ Supply /\ NoOverflow /\ Contents
    BY DEF SInv
  <1>2. /\ Cursor \in Nat /\ Live \in Nat /\ Len(buf) \in Nat /\ index \in Nat
    BY <1>1, CursorAt, LiveType
  <1>3. /\ src' = src /\ ius_offs' = ius_offs /\ ius_remain' = ius_remain /\ remain' = remain
        /\ high' = high /\ StreamLen' = StreamLen
    BY DEF source, StreamLen, ChunkPos
  <1>4. ius_offs = Cursor + Live /\ ius_offs \in Nat
    BY <1>1 DEF Supply, TypeOK
  <1>5. /\ Live' = Live - n /\ Len(buf') <= Len(buf) /\ buf' \in Seq(Int)
        /\ \A j \in 1 .. Live - n : buf'[index' + j] = buf[index + n + j]
    BY DEF Kept
  <1>6. Supply'
    <2>1. ius_offs' = Cursor' + Live'
      BY <1>2, <1>3, <1>4, <1>5
    <2>2. QED
      BY <1>1, <1>3, <2>1 DEF Supply
  <1>7. NoOverflow'
    <2>1. Len(buf') \in Nat /\ high <= BufSize /\ Len(buf) <= BufSize
      BY <1>1, <1>5 DEF NoOverflow
    <2>2. QED
      BY <1>2, <1>3, <1>5, <2>1, Sizes DEF NoOverflow
  <1>8. Contents'
    <2>1. SUFFICES ASSUME ~spoiled', NEW j \in 1 .. Live', Cursor' + j - 1 < StreamLen'
                   PROVE  buf'[index' + j] = Cursor' + j - 1
      BY DEF Contents
    <2>2. ~spoiled
      BY <2>1
    <2>3. n + j \in 1 .. Live /\ j \in 1 .. Live - n /\ j \in Nat
      BY <1>2, <1>5
    <2>4. Cursor + (n + j) - 1 = Cursor' + j - 1 /\ index + (n + j) = index + n + j
      BY <1>2, <2>3
    <2>5. buf[index + (n + j)] = Cursor + (n + j) - 1
      BY <1>1, <1>3, <2>1, <2>2, <2>3, <2>4 DEF Contents
    <2>6. QED
      BY <1>5, <2>3, <2>4, <2>5
  <1>9. QED
    BY <1>6, <1>7, <1>8

\* A decoder that is over claims nothing of its buffer but its size.
LEMMA Stopped ==
  ASSUME SInv, Over', UNCHANGED <<src, img, source, high>>,
         buf' \in Seq(Int), Len(buf') <= Len(buf)
  PROVE  Supply' /\ NoOverflow' /\ Contents' /\ Reading'
  <1>1. TypeOK /\ Supply /\ NoOverflow
    BY DEF SInv
  <1>2. /\ src' = src /\ ius_offs' = ius_offs /\ ius_remain' = ius_remain /\ remain' = remain
        /\ high' = high /\ StreamLen' = StreamLen
    BY DEF source, StreamLen, ChunkPos
  <1>3. Supply'
    BY <1>1, <1>2 DEF Supply
  <1>4. NoOverflow'
    <2>1. Len(buf') \in Nat /\ Len(buf) \in Nat
      BY <1>1, LiveType
    <2>2. QED
      BY <1>1, <1>2, <2>1, Sizes DEF NoOverflow
  <1>5. Contents' /\ Reading'
    BY DEF Contents, Reading, Over
  <1>6. QED
    BY <1>3, <1>4, <1>5

---------------------------------------------------------------------------
(* The steps that ask for data.                                            *)

Taking == {"header", "chunkheader", "put", "valuetaken"}

\* Everything but the places, after a step that goes to k, there or by way of
\* a read.
Arrives(k) ==
  /\ TypeOK' /\ Supply' /\ Reading' /\ NoOverflow' /\ Contents'
  /\ pc' \in {k, "read"} /\ Place' = k /\ after' \in Taking

LEMMA Fetch ==
  ASSUME SInv, ~Over, NEW want \in Nat \ {0}, NEW k \in Taking, GetData(want, k),
         AtOnce \/ Live < StreamLen - Cursor,
         UNCHANGED <<src, img, source, i, len, at, disk, fills, ret, high, spoiled,
                     nomem, ioerr>>,
         Place' = k => Cursor' = Cursor
  PROVE  Arrives(k)
  <1>1. TypeOK /\ Places /\ Supply
    BY DEF SInv
  <1>2. Cursor \in Nat /\ Live \in Nat /\ StreamLen \in Nat
    BY <1>1, CursorAt, LiveType, Ends DEF TypeOK
  <1>3. AtOnce \/ remain > 0
    <2>1. remain = StreamLen - (Cursor + Live)
      BY <1>1 DEF Supply
    <2>2. QED
      BY <1>2, <2>1
  <1>4. Begun(want, k)
    BY <1>1, <1>3, Gathers
  <1>5. pc' \in {k, "read"} /\ after' = k
    BY <1>4 DEF Begun
  <1>6. Place' = k
    BY <1>5 DEF Place
  <1>7. ~Over'
    BY <1>5 DEF Over, Taking
  <1>8. Kept(0)
    BY <1>4 DEF Begun
  <1>9. Cursor' = Cursor + 0 /\ 0 \in Nat /\ 0 <= Live
    BY <1>2, <1>6
  <1>10. Supply' /\ NoOverflow' /\ Contents'
    BY <1>7, <1>8, <1>9, Flow
  <1>11. TypeOK'
    <2>1. buf' \in Seq(Int) /\ index' \in 0 .. Len(buf') /\ stillto' \in Nat
      BY <1>4 DEF Begun, Kept
    <2>2. QED
      BY <1>1, <2>1 DEF TypeOK, source
  <1>12. Reading'
    <2>1. remain' = remain
      BY DEF source
    <2>2. pc' = "read" => Len(buf') + Step <= BufSize /\ stillto' > 0 /\ stillto' <= remain
      BY <1>4 DEF Begun, Taking
    <2>3. QED
      BY <2>1, <2>2 DEF Reading
  <1>13. QED
    BY <1>5, <1>6, <1>10, <1>11, <1>12 DEF Arrives

\* A step that goes on with the buffer as it is.
LEMMA Passes ==
  ASSUME SInv, ~Over, NEW k, k \notin {"read", "done", "lost"}, pc' = k,
         UNCHANGED <<buffer, stillto, after>>,
         UNCHANGED <<src, img, source, len, at, disk, fills, ret, high, spoiled,
                     nomem, ioerr>>,
         i' \in 1 .. Len(img.chunks) + 1,
         Place' = k => Cursor' = Cursor
  PROVE  Arrives(k)
  <1>1. TypeOK /\ Places
    BY DEF SInv
  <1>2. Cursor \in Nat /\ Live \in Nat
    BY <1>1, CursorAt, LiveType
  <1>3. Place' = k /\ ~Over'
    BY DEF Place, Over
  <1>4. Cursor' = Cursor + 0 /\ 0 \in Nat /\ 0 <= Live
    BY <1>2, <1>3
  <1>5. Kept(0)
    BY <1>1, Stays
  <1>6. Supply' /\ NoOverflow' /\ Contents'
    BY <1>3, <1>4, <1>5, Flow
  <1>7. TypeOK'
    BY <1>1 DEF TypeOK, source, buffer
  <1>8. Reading'
    BY DEF Reading
  <1>9. after' \in Taking
    BY <1>1 DEF Places, Taking
  <1>10. QED
    BY <1>3, <1>6, <1>7, <1>8, <1>9 DEF Arrives

LEMMA InvBurn ==
  ASSUME SInv, sparse_burn
  PROVE  SInv'
  <1>1. TypeOK /\ Places /\ pc = "start"
    BY DEF SInv, sparse_burn
  <1>2. Place = "start" /\ ~Over
    BY <1>1 DEF Place, Over
  <1>3. Cursor = 0 /\ HeaderLen <= StreamLen - Cursor /\ Live = 0
    BY <1>1, <1>2, CursorAt DEF Places
  <1>4. Live < StreamLen - Cursor
    BY <1>1, <1>3, Ends, Sizes DEF TypeOK
  <1>5. Place' = "header" => Cursor' = Cursor
    BY <1>3 DEF Cursor
  <1>6. BufSize \in Nat \ {0} /\ "header" \in Taking
    BY Sizes DEF Taking
  <1>7. Arrives("header")
    BY <1>2, <1>4, <1>5, <1>6, Fetch DEF sparse_burn
  <1>8. Places'
    <2>1. i' = i /\ i = 1
      BY <1>1, <1>2 DEF sparse_burn, Places
    <2>2. QED
      BY <1>7, <2>1 DEF Arrives, Places, Taking
  <1>9. QED
    BY <1>7, <1>8 DEF Arrives, SInv

LEMMA InvChunk ==
  ASSUME SInv, Chunk
  PROVE  SInv'
  <1>1. TypeOK /\ Places /\ pc = "chunk"
    BY DEF SInv, Chunk
  <1>2. Place = "chunk" /\ ~Over
    BY <1>1 DEF Place, Over
  <1>3. CASE i > Len(img.chunks)
    <2>1. pc' = "done" /\ ret' = 0 /\ UNCHANGED <<buffer, stillto, after>>
      BY <1>3 DEF Chunk, Done
    <2>2. Over' /\ buf' \in Seq(Int) /\ Len(buf') <= Len(buf)
      BY <1>1, <2>1, LiveType DEF Over, buffer, TypeOK
    <2>3. UNCHANGED <<src, img, source, high>>
      BY DEF Chunk
    <2>4. Supply' /\ NoOverflow' /\ Contents' /\ Reading'
      BY <2>2, <2>3, Stopped
    <2>5. TypeOK'
      BY <1>1, <2>1 DEF TypeOK, Chunk, buffer, source
    <2>6. Places'
      BY <1>1, <2>1 DEF Places, Place
    <2>7. QED
      BY <2>4, <2>5, <2>6 DEF SInv
  <1>4. CASE ~(i > Len(img.chunks))
    <2>1. i \in Chunks /\ img' = img /\ i' = i
      BY <1>1, <1>4, Ends DEF TypeOK, Chunk
    <2>2. Ensure(ChunkLen, "chunkheader")
      BY <1>4 DEF Chunk
    <2>3. UNCHANGED <<src, img, source, i, len, at, disk, fills, ret, high, spoiled, nomem, ioerr>>
      BY <1>4 DEF Chunk
    <2>4. Cursor = ChunkPos(i) /\ ChunkLen <= StreamLen - Cursor /\ Cursor \in Nat
      BY <1>1, <1>2, <2>1, CursorAt
    <2>5. Place' = "chunkheader" => Cursor' = Cursor
      BY <2>1, <2>4 DEF Cursor, ChunkPos
    <2>6. Arrives("chunkheader")
      <3>1. CASE Live < ChunkLen
        <4>1. Live < StreamLen - Cursor
          BY <1>1, <2>4, <3>1, LiveType, Ends, Sizes DEF TypeOK
        <4>2. ChunkLen \in Nat \ {0} /\ "chunkheader" \in Taking
          BY Sizes DEF Taking
        <4>3. GetData(ChunkLen, "chunkheader")
          BY <2>2, <3>1 DEF Ensure
        <4>4. QED
          BY <1>2, <2>3, <2>5, <4>1, <4>2, <4>3, Fetch
      <3>2. CASE ~(Live < ChunkLen)
        <4>1. pc' = "chunkheader" /\ UNCHANGED <<buffer, stillto, after>>
          BY <2>2, <3>2 DEF Ensure
        <4>2. i' \in 1 .. Len(img.chunks) + 1
          BY <1>1, <2>1 DEF TypeOK
        <4>3. QED
          BY <1>2, <2>3, <2>5, <4>1, <4>2, Passes
      <3>3. QED
        BY <3>1, <3>2
    <2>7. Places'
      BY <2>1, <2>6 DEF Arrives, Places, Taking, Chunks
    <2>8. QED
      BY <2>6, <2>7 DEF Arrives, SInv
  <1>5. QED
    BY <1>3, <1>4

LEMMA InvValue ==
  ASSUME SInv, Value
  PROVE  SInv'
  <1>1. TypeOK /\ Places /\ pc = "value"
    BY DEF SInv, Value
  <1>2. Place = "value" /\ ~Over
    BY <1>1 DEF Place, Over
  <1>3. /\ i \in Chunks /\ img.chunks[i].type \in {"fill", "crc"} /\ len = ValueLen
        /\ img.chunks[i].type = "fill" => ~img.chunks[i].bogus
    BY <1>1, <1>2 DEF Places
  <1>4. Ensure(ValueLen, "valuetaken")
    BY DEF Value
  <1>5. UNCHANGED <<src, img, source, i, len, at, disk, fills, ret, high, spoiled, nomem, ioerr>>
    BY DEF Value
  <1>6. ValueLen <= StreamLen - Cursor /\ Cursor \in Nat
    BY <1>1, <1>2, <1>3, CursorAt
  <1>7. Place' = "valuetaken" => Cursor' = Cursor
    BY <1>2, <1>5 DEF Cursor, ChunkPos
  <1>8. Arrives("valuetaken")
    <2>1. CASE Live < ValueLen
      <3>1. Live < StreamLen - Cursor
        BY <1>1, <1>6, <2>1, LiveType, Ends, Sizes DEF TypeOK
      <3>2. ValueLen \in Nat \ {0} /\ "valuetaken" \in Taking
        BY Sizes DEF Taking
      <3>3. GetData(ValueLen, "valuetaken")
        BY <1>4, <2>1 DEF Ensure
      <3>4. QED
        BY <1>2, <1>5, <1>7, <3>1, <3>2, <3>3, Fetch
    <2>2. CASE ~(Live < ValueLen)
      <3>1. pc' = "valuetaken" /\ UNCHANGED <<buffer, stillto, after>>
        BY <1>4, <2>2 DEF Ensure
      <3>2. i' \in 1 .. Len(img.chunks) + 1
        BY <1>1, <1>5 DEF TypeOK
      <3>3. QED
        BY <1>2, <1>5, <1>7, <3>1, <3>2, Passes
    <2>3. QED
      BY <2>1, <2>2
  <1>9. Places'
    BY <1>3, <1>5, <1>8 DEF Arrives, Places, Taking, Chunks
  <1>10. QED
    BY <1>8, <1>9 DEF Arrives, SInv

\* A rest of whole sectors that is not empty is at least one of them.
LEMMA OneSector ==
  ASSUME NEW n \in Nat \ {0}, n % Sector = 0
  PROVE  n >= Sector
  <1>1. Sector \in Nat \ {0}
    BY Sizes
  <1>2. n < Sector => n % Sector = n
    BY <1>1
  <1>3. QED
    BY <1>1, <1>2

LEMMA InvRaw ==
  ASSUME SInv, Raw
  PROVE  SInv'
  <1>1. TypeOK /\ Places /\ pc = "raw"
    BY DEF SInv, Raw
  <1>2. Place = "raw" /\ ~Over
    BY <1>1 DEF Place, Over
  <1>3. /\ i \in Chunks /\ img.chunks[i].type = "raw" /\ ~img.chunks[i].bogus /\ len \in Nat
        /\ len <= Payload(img, img.chunks[i]) /\ len % Sector = 0
    BY <1>1, <1>2 DEF Places, TypeOK
  <1>4. Cursor = ChunkPos(i + 1) - len /\ len <= StreamLen - Cursor /\ Cursor \in Nat
    BY <1>1, <1>2, <1>3, CursorAt
  <1>5. UNCHANGED <<src, img, source, len, at, disk, fills, ret, high, spoiled, nomem, ioerr>>
    BY DEF Raw
  <1>6. CASE len = 0
    <2>1. pc' = "chunk" /\ i' = i + 1 /\ UNCHANGED <<buffer, stillto, after>>
      BY <1>6 DEF Raw
    <2>2. i + 1 \in 1 .. Len(img.chunks) + 1 /\ ChunkPos(i + 1) \in Nat
      BY <1>1, <1>3, ChunkFacts, Ends DEF TypeOK
    <2>3. Place' = "chunk" => Cursor' = ChunkPos(i + 1)
      BY <1>5, <2>1 DEF Cursor, ChunkPos
    <2>4. Cursor = ChunkPos(i + 1)
      BY <1>4, <1>6, <2>2
    <2>5. Arrives("chunk")
      BY <1>2, <1>5, <2>1, <2>2, <2>3, <2>4, Passes
    <2>6. Places'
      BY <2>1, <2>5 DEF Arrives, Places, Taking
    <2>7. QED
      BY <2>5, <2>6 DEF Arrives, SInv
  <1>7. CASE len # 0
    <2>1. GetData(len, "put") /\ i' = i
      BY <1>7 DEF Raw
    <2>2. len \in Nat \ {0} /\ len >= Sector
      BY <1>3, <1>7, OneSector
    <2>3. AtOnce \/ Live < StreamLen - Cursor
      <3>1. AtOnce \/ Live < Sector
        BY <1>1, LiveType, Sizes DEF AtOnce
      <3>2. Live < Sector => Live < StreamLen - Cursor
        BY <1>1, <1>4, <2>2, LiveType, Ends, Sizes DEF TypeOK
      <3>3. QED
        BY <3>1, <3>2
    <2>4. Place' = "put" => Cursor' = Cursor
      BY <1>2, <1>5, <2>1 DEF Cursor, ChunkPos
    <2>5. "put" \in Taking
      BY DEF Taking
    <2>6. Arrives("put")
      BY <1>2, <1>5, <2>1, <2>2, <2>3, <2>4, <2>5, Fetch
    <2>7. len' > 0 /\ len' = len
      BY <1>3, <1>5, <2>2
    <2>8. Places'
      BY <1>3, <1>5, <2>1, <2>6, <2>7 DEF Arrives, Places, Taking, Chunks
    <2>9. QED
      BY <2>6, <2>8 DEF Arrives, SInv
  <1>8. QED
    BY <1>6, <1>7

---------------------------------------------------------------------------
(* The steps that take data.                                               *)

\* Everything but places and types, after a step that takes bytes and goes to k.
GoesOn(k) ==
  /\ Supply' /\ Reading' /\ NoOverflow' /\ Contents' /\ Place' = k
  /\ after' \in Taking /\ stillto' \in Nat
  /\ buf' \in Seq(Int) /\ index' \in 0 .. Len(buf')

\* n bytes are taken, and the decoder goes on at k.
LEMMA Takes ==
  ASSUME SInv, ~Over, NEW n \in Nat, n <= Live, Kept(n),
         NEW k, k \notin {"read", "done", "lost"}, pc' = k, UNCHANGED <<stillto, after>>,
         UNCHANGED <<src, img, source, high>>, spoiled => spoiled',
         Place' = k => Cursor' = Cursor + n
  PROVE  GoesOn(k)
  <1>1. TypeOK /\ Places
    BY DEF SInv
  <1>2. Place' = k /\ ~Over'
    BY DEF Place, Over
  <1>3. Supply' /\ NoOverflow' /\ Contents'
    BY <1>2, Flow
  <1>4. Reading'
    BY DEF Reading
  <1>5. after' \in Taking /\ stillto' \in Nat
    BY <1>1 DEF Places, Taking, TypeOK
  <1>6. QED
    BY <1>2, <1>3, <1>4, <1>5 DEF Kept, GoesOn

\* n bytes are taken, and the decoder gives up.
LEMMA TakesLast ==
  ASSUME SInv, NEW n \in Nat, Kept(n), pc' \in {"done", "lost"}, ret' \in {0, -1},
         i' \in 1 .. Len(img.chunks) + 1, len' \in Nat, at' \in Nat,
         UNCHANGED <<stillto, after>>,
         UNCHANGED <<src, img, source, disk, fills, high, spoiled, nomem, ioerr>>
  PROVE  SInv'
  <1>1. TypeOK /\ Places
    BY DEF SInv
  <1>2. buf' \in Seq(Int) /\ Len(buf') <= Len(buf) /\ index' \in 0 .. Len(buf')
    BY DEF Kept
  <1>3. Over'
    BY DEF Over
  <1>4. Supply' /\ NoOverflow' /\ Contents' /\ Reading'
    BY <1>2, <1>3, Stopped
  <1>5. TypeOK'
    BY <1>1, <1>2 DEF TypeOK, source
  <1>6. Places'
    BY <1>1 DEF Places, Place
  <1>7. QED
    BY <1>4, <1>5, <1>6 DEF SInv

LEMMA InvHeader ==
  ASSUME SInv, Header
  PROVE  SInv'
  <1>1. TypeOK /\ Places /\ pc = "header"
    BY DEF SInv, Header
  <1>2. Place = "header" /\ ~Over
    BY <1>1 DEF Place, Over
  <1>3. i = 1 /\ Cursor = 0
    BY <1>1, <1>2, CursorAt DEF Places
  <1>4. /\ UNCHANGED <<stillto, after>>
        /\ UNCHANGED <<src, img, source, i, len, at, disk, fills, high, spoiled, nomem, ioerr>>
    BY DEF Header
  <1>5. /\ ret \in {0, -1}
        /\ i' \in 1 .. Len(img.chunks) + 1 /\ len' \in Nat /\ at' \in Nat
    BY <1>1, <1>4 DEF TypeOK
  <1>6. CASE Live < HeaderLen \/ Garbled(HeaderLen)
    <2>1. pc' \in {"done", "lost"} /\ ret' \in {0, -1} /\ UNCHANGED buffer
      BY <1>5, <1>6 DEF Header, Done
    <2>2. Kept(0)
      BY <1>1, <2>1, Stays
    <2>3. QED
      BY <1>4, <1>5, <2>1, <2>2, TakesLast
  <1>7. CASE ~(Live < HeaderLen \/ Garbled(HeaderLen))
    <2>1. Seek(HeaderLen) /\ HeaderLen \in Nat /\ HeaderLen <= Live
      BY <1>1, <1>7, LiveType, Sizes DEF Header
    <2>2. Kept(HeaderLen)
      BY <1>1, <2>1, Seeks
    <2>3. CASE ~img.valid
      <3>1. pc' = "done" /\ ret' = -1
        BY <1>7, <2>3 DEF Header, Done
      <3>2. QED
        BY <1>4, <1>5, <2>1, <2>2, <3>1, TakesLast
    <2>4. CASE img.valid
      <3>1. pc' = "chunk" /\ ret' = ret
        BY <1>7, <2>4 DEF Header
      <3>2. Place' = "chunk" => Cursor' = ChunkPos(1)
        BY <1>3, <1>4 DEF Cursor, ChunkPos
      <3>3. Place' = "chunk" => Cursor' = Cursor + HeaderLen
        BY <1>1, <1>3, <2>1, <3>2, Ends DEF TypeOK
      <3>4. GoesOn("chunk")
        BY <1>2, <1>4, <2>1, <2>2, <3>1, <3>3, Takes
      <3>5. TypeOK'
        BY <1>1, <1>4, <3>1, <3>4 DEF TypeOK, source, GoesOn
      <3>6. Places'
        BY <3>1, <3>4 DEF Places, Taking, GoesOn
      <3>7. QED
        BY <3>4, <3>5, <3>6 DEF SInv, GoesOn
    <2>5. QED
      BY <2>3, <2>4
  <1>8. QED
    BY <1>6, <1>7

LEMMA InvChunkHeader ==
  ASSUME SInv, ChunkHeader
  PROVE  SInv'
  <1> DEFINE c == img.chunks[i]
             p == Payload(img, c)
  <1>1. TypeOK /\ Places /\ pc = "chunkheader"
    BY DEF SInv, ChunkHeader
  <1>2. Place = "chunkheader" /\ ~Over
    BY <1>1 DEF Place, Over
  <1>3. i \in Chunks /\ img \in Images
    BY <1>1, <1>2 DEF Places, TypeOK
  <1>4. Cursor = ChunkPos(i)
    BY <1>1, <1>2, CursorAt
  <1>5. /\ UNCHANGED <<stillto, after>>
        /\ UNCHANGED <<src, img, source, disk, fills, high, spoiled, nomem, ioerr>>
    BY DEF ChunkHeader
  <1>6. CASE Live < ChunkLen
    <2>1. pc' = "done" /\ ret' = -1 /\ UNCHANGED <<buffer, i, len, at>>
      BY <1>6 DEF ChunkHeader, Done
    <2>2. Kept(0)
      BY <1>1, <2>1, Stays DEF buffer
    <2>3. i' \in 1 .. Len(img.chunks) + 1 /\ len' \in Nat /\ at' \in Nat
      BY <1>1, <2>1 DEF TypeOK
    <2>4. QED
      BY <1>5, <2>1, <2>2, <2>3, TakesLast
  <1>7. CASE ~(Live < ChunkLen)
    <2>1. Seek(ChunkLen) /\ ChunkLen \in Nat /\ ChunkLen <= Live
      BY <1>1, <1>7, LiveType, Sizes DEF ChunkHeader
    <2>2. Kept(ChunkLen)
      BY <1>1, <2>1, Seeks
    <2>3. CASE Garbled(ChunkLen) \/ Refused(i)
      <3>1. pc' \in {"done", "lost"} /\ ret' \in {ret, -1} /\ UNCHANGED <<i, len, at>>
        BY <1>7, <2>3 DEF ChunkHeader, Done
      <3>2. /\ ret' \in {0, -1}
            /\ i' \in 1 .. Len(img.chunks) + 1 /\ len' \in Nat /\ at' \in Nat
        BY <1>1, <3>1 DEF TypeOK
      <3>3. QED
        BY <1>5, <2>1, <2>2, <3>1, <3>2, TakesLast
    <2>6. CASE ~(Garbled(ChunkLen) \/ Refused(i)) /\ c.bogus /\ c.type = "unknown"
      <3>1. /\ pc' \in {"done", "lost"} /\ ret' \in {ret, 0} /\ i' = i + 1 /\ len' = p
            /\ at' = at + OutLen(img, c)
        BY <1>7, <2>6 DEF ChunkHeader, NextChunk, Done
      <3>2. /\ p \in Nat /\ OutLen(img, c) \in Nat /\ i + 1 \in 1 .. Len(img.chunks) + 1
        BY <1>3, ChunkFacts
      <3> HIDE DEF p, c
      <3>3. /\ ret' \in {0, -1}
            /\ i' \in 1 .. Len(img.chunks) + 1 /\ len' \in Nat /\ at' \in Nat
        BY <1>1, <3>1, <3>2 DEF TypeOK
      <3>4. QED
        BY <1>5, <2>1, <2>2, <3>1, <3>3, TakesLast
    <2>4. CASE ~(Garbled(ChunkLen) \/ Refused(i)) /\ ~(c.bogus /\ c.type = "unknown")
      <3>0. c.type # "crc" => ~c.bogus
        <4>1. c.type \in Types
          BY <1>3, ChunkFacts
        <4>2. QED
          BY <2>4, <4>1 DEF Refused, Types
      <3>1. /\ ret' = ret /\ len' = p
            /\ \/ c.type = "raw" /\ pc' = "raw" /\ UNCHANGED <<i, at>>
               \/ c.type \in {"fill", "crc"} /\ pc' = "value" /\ UNCHANGED <<i, at>>
               \/ c.type \in {"skip", "unknown"} /\ pc' = "chunk" /\ i' = i + 1
                  /\ at' = at + OutLen(img, c)
        BY <1>7, <2>4, <3>0 DEF ChunkHeader, NextChunk
      <3>2. /\ p \in Nat /\ OutLen(img, c) \in Nat /\ OutLen(img, c) % Sector = 0
            /\ c.type = "raw" => p = OutLen(img, c)
            /\ c.type \in {"fill", "crc"} => p = ValueLen
            /\ c.type \in {"skip", "unknown"} => p = 0
            /\ ~c.bogus => ChunkPos(i + 1) = ChunkPos(i) + ChunkLen + p
            /\ i + 1 \in 1 .. Len(img.chunks) + 1 /\ i \in 1 .. Len(img.chunks) + 1
        BY <1>1, <1>3, ChunkFacts DEF TypeOK
      <3>3. ChunkPos(i) \in Nat /\ ChunkPos(i + 1) \in Nat
        BY <1>3, <3>2, Ends
      <3> DEFINE k == pc'
      <3>4. pc' \in {"raw", "value", "chunk"}
        BY <3>1
      <3>5. Place' = pc'
        BY <3>4 DEF Place
      <3>6. Cursor' = Cursor + ChunkLen
        <4>1. CASE pc' \in {"raw", "value"}
          <5>1. i' = i
            BY <3>1, <4>1
          <5>2. Cursor' = ChunkPos(i) + ChunkLen + p - len'
            BY <1>5, <3>5, <4>1, <5>1 DEF Cursor, ChunkPos
          <5>3. QED
            BY <1>4, <2>1, <3>1, <3>2, <3>3, <5>2
        <4>2. CASE pc' = "chunk"
          <5>1. i' = i + 1 /\ p = 0 /\ ~c.bogus
            BY <3>0, <3>1, <3>2, <4>2
          <5>2. Cursor' = ChunkPos(i + 1)
            BY <1>5, <3>5, <4>2, <5>1 DEF Cursor, ChunkPos
          <5>3. QED
            BY <1>4, <2>1, <3>2, <3>3, <5>1, <5>2
        <4>3. QED
          BY <3>4, <4>1, <4>2
      <3>7. GoesOn(pc')
        BY <1>2, <1>5, <2>1, <2>2, <3>4, <3>6, Takes
      <3>8. at' \in Nat /\ i' \in 1 .. Len(img.chunks) + 1 /\ len' \in Nat
        BY SMTT(30), <1>1, <3>1, <3>2 DEF TypeOK
      <3>9. TypeOK'
        BY <1>1, <1>5, <3>1, <3>7, <3>8 DEF TypeOK, source, GoesOn
      <3>10. Places'
        <4>1. p <= p
          BY <3>2
        <4>2. pc' \in {"raw", "value"} => i' \in Chunks /\ i' = i
          BY <1>3, <3>1
        <4>3. pc' = "raw" => c.type = "raw" /\ ~c.bogus /\ p % Sector = 0
          BY <3>0, <3>1, <3>2
        <4>4. pc' = "value" => /\ c.type \in {"fill", "crc"} /\ p = ValueLen
                               /\ c.type = "fill" => ~c.bogus
          BY <3>0, <3>1, <3>2
        <4>5. QED
          BY <1>5, <3>1, <3>4, <3>5, <3>7, <4>1, <4>2, <4>3, <4>4
             DEF Places, Taking, GoesOn, Chunks
      <3>11. QED
        BY <3>7, <3>9, <3>10 DEF SInv, GoesOn
    <2>5. QED
      BY <2>3, <2>4, <2>6
  <1>8. QED
    BY <1>6, <1>7

\* A write moves the place in the target and may fail.
LEMMA Writes ==
  ASSUME TypeOK, NEW sector, NEW count \in Nat, Write(sector, count)
  PROVE  /\ at' = at + count * Sector /\ at' \in Nat
         /\ spoiled' \in BOOLEAN /\ (spoiled => spoiled') /\ ioerr' \in 0 .. MaxIoErrors
  <1>1. count * Sector \in Nat
    BY Sizes
  <1>2. at' = at + count * Sector /\ at' \in Nat
    BY <1>1 DEF Write, TypeOK
  <1>3. (spoiled' = spoiled /\ ioerr' = ioerr) \/ (spoiled' = TRUE /\ ioerr < MaxIoErrors /\ ioerr' = ioerr + 1)
    BY DEF Write
  <1>4. spoiled' \in BOOLEAN /\ (spoiled => spoiled')
    BY <1>3, Zenon DEF TypeOK
  <1>5. ioerr' \in 0 .. MaxIoErrors
    BY SMTT(30), <1>3, SparseAssumption DEF TypeOK
  <1>6. QED
    BY <1>2, <1>4, <1>5

\* Whole sectors of a length.
LEMMA SectorsOf ==
  ASSUME NEW n \in Nat
  PROVE  /\ n \div Sector \in Nat /\ (n \div Sector) * Sector \in Nat
         /\ (n \div Sector) * Sector <= n
         /\ \A l \in Nat : l % Sector = 0 /\ n <= l =>
              l - (n \div Sector) * Sector \in Nat /\ (l - (n \div Sector) * Sector) % Sector = 0
  <1> DEFINE q == n \div Sector
  <1>1. Sector \in Nat \ {0} /\ n \in Int /\ n >= 0
    BY Sizes
  <1>2. q \in Int /\ q >= 0 /\ n = Sector * q + (n % Sector) /\ n % Sector \in 0 .. Sector - 1
    BY ONLY <1>1, Division
  <1> HIDE DEF q
  <1>3. q \in Nat /\ q * Sector \in Nat /\ q * Sector <= n
    BY <1>1, <1>2
  <1>4. ASSUME NEW l \in Nat, l % Sector = 0, n <= l
        PROVE  l - q * Sector \in Nat /\ (l - q * Sector) % Sector = 0
    <2> DEFINE r == l \div Sector
    <2>1. r \in Nat /\ r * Sector = l
      BY <1>1, <1>4, Multiple
    <2> HIDE DEF r
    <2>2. l - q * Sector \in Nat
      BY <1>3, <1>4
    <2> DEFINE d == r - q
    <2>3. d \in Int /\ l - q * Sector = Sector * d
      BY <1>1, <1>3, <2>1
    <2> HIDE DEF d
    <2>4. (Sector * d) % Sector = 0
      BY <1>1, <2>3
    <2>5. QED
      BY <2>2, <2>3, <2>4
  <1>5. QED
    BY <1>3, <1>4 DEF q

LEMMA InvPut ==
  ASSUME SInv, Put
  PROVE  SInv'
  <1> DEFINE n == IF Live > len THEN len ELSE Live
             count == n \div Sector
             got == [k \in 1 .. count |->
                      SubSeq(buf, index + (k - 1) * Sector + 1, index + k * Sector)]
  <1>1. TypeOK /\ Places /\ pc = "put"
    BY DEF SInv, Put
  <1>2. Place = "put" /\ ~Over
    BY <1>1 DEF Place, Over
  <1>3. /\ i \in Chunks /\ img \in Images /\ img.chunks[i].type = "raw" /\ len \in Nat
        /\ ~img.chunks[i].bogus /\ len <= Payload(img, img.chunks[i]) /\ len % Sector = 0
    BY <1>1, <1>2 DEF Places, TypeOK
  <1>4. /\ UNCHANGED <<stillto, after>>
        /\ UNCHANGED <<src, img, source, i, fills, ret, high, nomem>>
        /\ pc' = "raw" /\ len' = len - count * Sector /\ Write(got, count)
        /\ Seek(count * Sector)
    BY DEF Put, PutSeek
  <1>5. n \in Nat /\ n <= len /\ n <= Live
    BY <1>1, <1>3, LiveType
  <1> HIDE DEF n, got
  <1>6. /\ count \in Nat /\ count * Sector \in Nat /\ count * Sector <= n
        /\ len - count * Sector \in Nat /\ (len - count * Sector) % Sector = 0
    BY <1>3, <1>5, SectorsOf
  <1> HIDE DEF count
  <1> DEFINE m == count * Sector
  <1>7. m \in Nat /\ m <= Live /\ Seek(m) /\ len' = len - m /\ len' \in Nat /\ m <= len /\ len' % Sector = 0
    BY <1>1, <1>3, <1>4, <1>5, <1>6, LiveType
  <1> HIDE DEF m
  <1>8. Kept(m)
    BY <1>1, <1>7, Seeks
  <1>9. /\ at' \in Nat /\ spoiled' \in BOOLEAN /\ (spoiled => spoiled')
        /\ ioerr' \in 0 .. MaxIoErrors
    BY <1>1, <1>4, <1>6, Writes
  <1>10. Place' = "raw" => Cursor' = Cursor + m
    <2> DEFINE p == Payload(img, img.chunks[i])
    <2>1. Place' = "raw" => Cursor' = ChunkPos(i) + ChunkLen + p - len'
      BY <1>4 DEF Cursor, ChunkPos
    <2>2. Cursor = ChunkPos(i) + ChunkLen + p - len
      BY <1>2 DEF Cursor
    <2>3. p \in Nat /\ i \in 1 .. Len(img.chunks) + 1
      BY <1>1, <1>3, ChunkFacts DEF TypeOK
    <2>4. ChunkPos(i) \in Nat
      BY <1>3, <2>3, Ends
    <2> HIDE DEF p
    <2>5. QED
      BY <1>3, <1>7, <2>1, <2>2, <2>3, <2>4, Sizes
  <1>11. GoesOn("raw")
    BY <1>2, <1>4, <1>7, <1>8, <1>9, <1>10, Takes
  <1>12. TypeOK'
    BY <1>1, <1>4, <1>7, <1>9, <1>11 DEF TypeOK, source, GoesOn
  <1>13. Places'
    <2>1. Payload(img, img.chunks[i]) \in Nat
      BY <1>3, ChunkFacts
    <2>2. len' <= Payload(img, img.chunks[i])
      BY <1>3, <1>7, <2>1
    <2>3. QED
      BY <1>3, <1>4, <1>7, <1>11, <2>2 DEF Places, Taking, GoesOn, Chunks
  <1>14. QED
    BY <1>11, <1>12, <1>13 DEF SInv, GoesOn

LEMMA InvValueTaken ==
  ASSUME SInv, ValueTaken
  PROVE  SInv'
  <1> DEFINE c == img.chunks[i]
  <1>1. TypeOK /\ Places /\ pc = "valuetaken"
    BY DEF SInv, ValueTaken
  <1>2. Place = "valuetaken" /\ ~Over
    BY <1>1 DEF Place, Over
  <1>3. /\ i \in Chunks /\ img \in Images /\ c.type \in {"fill", "crc"} /\ len = ValueLen
        /\ c.type = "fill" => ~c.bogus
    BY <1>1, <1>2 DEF Places, TypeOK
  <1>4. /\ UNCHANGED <<stillto, after>>
        /\ UNCHANGED <<src, img, source, buf, len, high>>
    BY DEF ValueTaken
  <1>8. i + 1 \in 1 .. Len(img.chunks) + 1
    BY <1>3, ChunkFacts
  <1>5. CASE Live < ValueLen
    <2>1. /\ pc' \in {"done", "lost"} /\ ret' \in {ret, 0} /\ i' \in {i, i + 1}
          /\ UNCHANGED <<index, at, disk, fills, spoiled, nomem, ioerr>>
      BY <1>5 DEF ValueTaken, Done
    <2>2. Kept(0)
      BY <1>1, <1>4, <2>1, Stays DEF buffer
    <2>3. /\ ret' \in {0, -1}
          /\ i' \in 1 .. Len(img.chunks) + 1 /\ len' \in Nat /\ at' \in Nat
      BY <1>1, <1>4, <1>8, <2>1 DEF TypeOK
    <2>4. QED
      BY <1>4, <2>1, <2>2, <2>3, TakesLast
  <1>9. CASE ~(Live < ValueLen) /\ c.bogus
    <2>1. /\ pc' \in {"done", "lost"} /\ ret' \in {ret, 0} /\ i' = i + 1
          /\ index' = index + ValueLen /\ buf' = buf
          /\ UNCHANGED <<at, disk, fills, spoiled, nomem, ioerr>>
      BY <1>3, <1>4, <1>9 DEF ValueTaken, NextChunk, Done
    <2>2. ValueLen \in Nat /\ ValueLen <= Live
      BY <1>1, <1>9, LiveType, Sizes
    <2>3. Kept(ValueLen)
      <3>1. Live' = Live - ValueLen /\ index' \in 0 .. Len(buf')
        BY <1>1, <2>1, <2>2, LiveType DEF Live
      <3>2. QED
        BY <1>1, <2>1, <2>2, <3>1, LiveType DEF Kept, TypeOK
    <2>4. /\ ret' \in {0, -1}
          /\ i' \in 1 .. Len(img.chunks) + 1 /\ len' \in Nat /\ at' \in Nat
      BY <1>1, <1>4, <1>8, <2>1 DEF TypeOK
    <2>5. QED
      BY <1>4, <2>1, <2>2, <2>3, <2>4, TakesLast
  <1>6. CASE ~(Live < ValueLen) /\ ~c.bogus
    <2>1. /\ index' = index + ValueLen /\ pc' = "chunk" /\ i' = i + 1 /\ buf' = buf
          /\ ret' = ret
      BY <1>4, <1>6 DEF ValueTaken, NextChunk
    <2>2. ValueLen \in Nat /\ ValueLen <= Live
      BY <1>1, <1>6, LiveType, Sizes
    <2>3. Kept(ValueLen)
      <3>1. Live' = Live - ValueLen /\ index' \in 0 .. Len(buf')
        BY <1>1, <2>1, <2>2, LiveType DEF Live
      <3>2. QED
        BY <1>1, <2>1, <2>2, <3>1, LiveType DEF Kept, TypeOK
    <2>4. /\ i + 1 \in 1 .. Len(img.chunks) + 1 /\ OutLen(img, c) \in Nat
          /\ ChunkPos(i + 1) \in Nat
      BY <1>3, ChunkFacts, Ends
    <2>5. Place' = "chunk" => Cursor' = Cursor + ValueLen
      <3>1. Place' = "chunk" => Cursor' = ChunkPos(i + 1)
        BY <1>4, <2>1 DEF Cursor, ChunkPos
      <3>2. Cursor = ChunkPos(i + 1) - len
        BY <1>1, <1>2, <1>6, CursorAt
      <3>3. QED
        BY <1>3, <2>2, <2>4, <3>1, <3>2
    <2>6. /\ at' \in Nat /\ spoiled' \in BOOLEAN /\ (spoiled => spoiled')
          /\ ioerr' \in 0 .. MaxIoErrors /\ fills' \in 0 .. FillRoom /\ nomem' \in BOOLEAN
      <3>1. CASE c.type = "crc"
        <4>1. UNCHANGED <<at, disk, fills, spoiled, nomem, ioerr>>
          BY <1>6, <3>1 DEF ValueTaken
        <4>2. QED
          BY <1>1, <4>1 DEF TypeOK
      <3>2. CASE c.type = "fill"
        <4> DEFINE pattern ==
                     [k \in 1 .. FillCount(c) |->
                       [b \in 1 .. Sector |-> Taken(ValueLen)[((b - 1) % ValueLen) + 1]]]
        <4>1. \/ /\ fills < FillRoom /\ fills' = fills + 1 /\ nomem' = nomem
                 /\ Write(pattern, FillCount(c))
              \/ fills = FillRoom /\ nomem' = TRUE /\ UNCHANGED <<at, disk, fills, spoiled, ioerr>>
          BY <1>6, <3>2 DEF ValueTaken
        <4> HIDE DEF pattern
        <4>2. CASE fills = FillRoom /\ nomem' = TRUE /\ UNCHANGED <<at, disk, fills, spoiled, ioerr>>
          BY <1>1, <4>2 DEF TypeOK
        <4>3. CASE /\ fills < FillRoom /\ fills' = fills + 1 /\ nomem' = nomem
                   /\ Write(pattern, FillCount(c))
          <5>1. FillCount(c) \in Nat
            BY <2>4, SectorsOf DEF FillCount
          <5>2. /\ at' \in Nat /\ spoiled' \in BOOLEAN /\ (spoiled => spoiled')
                /\ ioerr' \in 0 .. MaxIoErrors
            BY <1>1, <4>3, <5>1, Writes
          <5>3. fills' \in 0 .. FillRoom
            BY <1>1, <4>3, SparseAssumption DEF TypeOK
          <5>4. nomem' \in BOOLEAN
            BY <1>1, <4>3, Zenon DEF TypeOK
          <5>5. QED
            BY <5>2, <5>3, <5>4
        <4>4. QED
          BY <4>1, <4>2, <4>3
      <3>3. QED
        BY <1>3, <3>1, <3>2
    <2>7. GoesOn("chunk")
      BY <1>2, <1>4, <2>1, <2>2, <2>3, <2>5, <2>6, Takes
    <2>8. TypeOK'
      BY <1>1, <1>4, <2>1, <2>4, <2>6, <2>7 DEF TypeOK, source, GoesOn
    <2>9. Places'
      BY <2>1, <2>7 DEF Places, Taking, GoesOn
    <2>10. QED
      BY <2>7, <2>8, <2>9 DEF SInv, GoesOn
  <1>7. QED
    BY <1>5, <1>6, <1>9

---------------------------------------------------------------------------
(* The loop of get_data_from_source.                                       *)

LEMMA SumWhole ==
  ASSUME NEW a \in Nat, NEW b \in Nat, a % Sector = 0, b % Sector = 0
  PROVE  (a + b) % Sector = 0
  <1> DEFINE p == a \div Sector
             q == b \div Sector
  <1>1. Sector \in Nat \ {0}
    BY Sizes
  <1>2. p \in Nat /\ p * Sector = a
    BY <1>1, Multiple
  <1>3. q \in Nat /\ q * Sector = b
    BY <1>1, Multiple
  <1> HIDE DEF p, q
  <1> DEFINE r == p + q
  <1>4. r \in Nat /\ a + b = Sector * r
    BY <1>1, <1>2, <1>3
  <1> HIDE DEF r
  <1>5. r \in Nat
    BY <1>4
  <1>6. (Sector * r) % Sector = 0
    BY ONLY <1>1, <1>5
  <1>7. QED
    BY <1>4, <1>6

\* ius_sparse_data asks for a step, or for what is left; of a card for whole
\* sectors, at most a step of them.
LEMMA Asking ==
  ASSUME TypeOK, ius_remain > 0
  PROVE  /\ StepLen \in 1 .. Step /\ (StepLen = Step \/ StepLen >= ius_remain)
         /\ IsMmc(src) => \E k \in 1 .. Sector : StepLen = k * Sector
         /\ ~IsMmc(src) => StepLen = Step \/ StepLen = ius_remain
  <1> DEFINE q == ius_remain \div Sector
  <1>1. Sector \in Nat \ {0} /\ ius_remain \in Int /\ Step = Sector * Sector /\ Step \in Nat \ {0}
    BY Sizes DEF TypeOK
  <1>2. CASE ~(Step > ius_remain)
    <2>1. StepLen = Step
      BY <1>2 DEF StepLen
    <2>2. Sector \in 1 .. Sector /\ Step = Sector * Sector
      BY <1>1
    <2>3. QED
      BY <1>1, <2>1, <2>2
  <1>3. CASE Step > ius_remain /\ ~IsMmc(src)
    <2>1. StepLen = ius_remain
      BY <1>3 DEF StepLen
    <2>2. QED
      BY <1>1, <1>3, <2>1
  <1>4. CASE Step > ius_remain /\ IsMmc(src)
    <2>1. StepLen = q * Sector + Sector
      BY <1>4 DEF StepLen
    <2>2. /\ q \in Int /\ q >= 0 /\ ius_remain = Sector * q + (ius_remain % Sector)
          /\ ius_remain % Sector \in 0 .. Sector - 1
      <3>1. ius_remain >= 0
        BY <1>1
      <3>2. QED
        BY ONLY <1>1, <3>1, Division
    <2> HIDE DEF q
    <2>3. q < Sector
      <3>1. Sector * q < Sector * Sector
        BY <1>1, <1>4, <2>2
      <3>2. QED
        BY <1>1, <2>2, <3>1
    <2>4. q + 1 \in 1 .. Sector /\ StepLen = (q + 1) * Sector
      BY <1>1, <2>1, <2>2, <2>3
    <2>5. StepLen >= ius_remain
      BY <1>1, <2>1, <2>2
    <2>6. (q + 1) * Sector <= Sector * Sector
      BY <1>1, <2>2, <2>3
    <2>7. StepLen \in 1 .. Step
      BY <1>1, <2>2, <2>4, <2>5, <2>6
    <2>8. QED
      BY <1>4, <2>4, <2>5, <2>7
  <1>5. QED
    BY <1>2, <1>3, <1>4

\* What the source answers fits behind the buffer; it is short of what was
\* asked for only on a card, and behind it only at the end of the stream.
LEMMA Answered ==
  ASSUME TypeOK, ius_remain > 0, ius_remain = StreamLen - ius_offs,
         src = "ram" => ius_offs % Sector = 0,
         NEW bad, bad # {} => IsMmc(src)
  PROVE  LET c == ReadCount(src, ius_offs, StepLen, bad) IN
         /\ c \in 0 .. Step
         /\ bad = {} => c > 0
         /\ bad = {} => c <= StepLen \/ ius_offs + StepLen >= StreamLen
         /\ src = "ram" => c % Sector = 0 /\ (c = Step \/ c >= ius_remain)
  <1> DEFINE c == ReadCount(src, ius_offs, StepLen, bad)
  <1>1. /\ StepLen \in 1 .. Step /\ (StepLen = Step \/ StepLen >= ius_remain)
        /\ IsMmc(src) => \E k \in 1 .. Sector : StepLen = k * Sector
        /\ ~IsMmc(src) => StepLen = Step \/ StepLen = ius_remain
    BY Asking
  <1>2. /\ Sector \in Nat \ {0} /\ Step \in Nat \ {0} /\ Step = Sector * Sector
        /\ Step % Sector = 0 /\ ius_offs \in Nat /\ ius_remain \in Int
    BY Sizes DEF TypeOK
  <1>3. CASE IsMmc(src)
    <2>1. PICK k \in 1 .. Sector : StepLen = k * Sector
      BY <1>1, <1>3
    <2>2. c \in 0 .. k * Sector /\ (bad = {} => c > 0)
      BY <1>2, <1>3, <2>1, CardCount
    <2>3. c \in 0 .. StepLen
      BY <2>1, <2>2
    <2>4. src # "ram"
      BY <1>3 DEF IsMmc
    <2> HIDE DEF c
    <2>5. c \in 0 .. Step /\ c <= StepLen
      BY <1>1, <1>2, <2>3
    <2>6. QED
      BY <2>2, <2>4, <2>5 DEF c
  <1>4. CASE ~IsMmc(src)
    <2>1. src = "ram" /\ bad = {}
      BY <1>4, SparseAssumption DEF TypeOK, IsMmc
    <2>2. StepLen \in Nat \ {0}
      BY <1>1, <1>2
    <2>3. /\ c \in Nat /\ c >= StepLen /\ c < StepLen + Sector /\ c % Sector = 0
          /\ StepLen % Sector = 0 => c = StepLen
      BY <1>2, <2>1, <2>2, RamCount
    <2> HIDE DEF c
    <2>4. CASE StepLen = Step
      <3>1. c = Step
        BY <1>2, <2>3, <2>4
      <3>2. QED
        BY <1>2, <2>1, <2>3, <2>4, <3>1 DEF c
    <2>5. CASE StepLen = ius_remain
      <3> DEFINE q == c \div Sector
      <3>1. q \in Nat /\ q * Sector = c
        BY <1>2, <2>3, Multiple
      <3> HIDE DEF q
      <3>2. q * Sector < Sector * Sector + Sector
        BY <1>1, <1>2, <2>2, <2>3, <3>1
      <3>3. q < Sector + 1
        BY <1>2, <3>1, <3>2
      <3>4. q * Sector <= Sector * Sector
        BY <1>2, <3>1, <3>3
      <3>5. c \in 0 .. Step /\ c > 0 /\ c >= ius_remain
        BY <1>2, <2>2, <2>3, <2>5, <3>1, <3>4
      <3>6. ius_offs + StepLen >= StreamLen
        <4>1. StreamLen \in Nat
          BY Ends DEF TypeOK
        <4>2. QED
          BY <1>2, <2>5, <4>1
      <3>7. QED
        BY <2>1, <2>3, <3>5, <3>6 DEF c
    <2>6. QED
      BY <1>1, <1>4, <2>4, <2>5
  <1>5. QED
    BY <1>3, <1>4

\* One round of the loop in which the parts in bad fail.
Count(bad) == ReadCount(src, ius_offs, StepLen, bad)

Got(bad) ==
  [j \in 1 .. Count(bad) |->
    IF j - 1 >= StepLen \/ \E p \in bad : j - 1 \in ReadParts(src, ius_offs, StepLen)[p]
    THEN Junk ELSE ius_offs + (j - 1)]

Round(bad) ==
  /\ bad = {} \/ \E p : bad = {p}
  /\ bad # {} => IsMmc(src) /\ ioerr < MaxIoErrors
  /\ ioerr' = ioerr + Cardinality(bad)
  /\ buf' = buf \o Got(bad)
  /\ high' = IF Len(buf) + StepLen > high THEN Len(buf) + StepLen ELSE high
  /\ spoiled' = (spoiled \/ \E j \in 1 .. Count(bad) :
                   Got(bad)[j] = Junk /\ ius_offs + j - 1 < StreamLen)
  /\ ius_offs' = ius_offs + Count(bad)
  /\ ius_remain' = ius_remain - Count(bad)
  /\ remain' = remain - Count(bad)
  /\ \/ LoopEnds(BufSize - Len(buf) - Count(bad), Count(bad)) /\ pc' = after /\ stillto' = stillto
     \/ /\ ~LoopEnds(BufSize - Len(buf) - Count(bad), Count(bad))
        /\ pc' = pc /\ stillto' = stillto - Count(bad)

LEMMA Rounds ==
  ASSUME ReadStep, ius_remain # 0, StepLen # 0
  PROVE  \E bad : Round(bad)
  <1> DEFINE parts == ReadParts(src, ius_offs, StepLen)
             Bads == {{}} \cup {{p} : p \in {q \in DOMAIN parts : parts[q] # {}}}
             byte(bad, j) == IF j >= StepLen \/ \E p \in bad : j \in parts[p] THEN Junk
                             ELSE ius_offs + j
             got(bad) == [j \in 1 .. Count(bad) |-> byte(bad, j - 1)]
  <1>1. \E bad \in Bads :
          /\ bad # {} => IsMmc(src) /\ ioerr < MaxIoErrors
          /\ ioerr' = ioerr + Cardinality(bad)
          /\ buf' = buf \o got(bad)
          /\ high' = IF Len(buf) + StepLen > high THEN Len(buf) + StepLen ELSE high
          /\ spoiled' = (spoiled \/ \E j \in 1 .. Count(bad) :
                           got(bad)[j] = Junk /\ ius_offs + j - 1 < StreamLen)
          /\ ius_offs' = ius_offs + Advance(Count(bad), StepLen)
          /\ ius_remain' = ius_remain - Count(bad)
          /\ remain' = remain - Count(bad)
          /\ IF LoopEnds(BufSize - Len(buf) - Count(bad), Count(bad))
               THEN pc' = after /\ UNCHANGED stillto
               ELSE stillto' = stillto - Count(bad) /\ UNCHANGED pc
    BY ZenonT(40) DEF ReadStep, Count
  <1>2. \A bad : got(bad) = Got(bad)
    BY DEF Got
  <1> HIDE DEF got
  <1>3. QED
    BY <1>1, <1>2 DEF Round, Advance

\* The bytes a round brings: each the right one, or spoiled; without a failure
\* nothing is spoiled before the end of the stream.
LEMMA Brings ==
  ASSUME NEW bad, Count(bad) \in Nat, ius_offs \in Nat, StepLen \in Nat
  PROVE  /\ Got(bad) \in Seq(Int) /\ Len(Got(bad)) = Count(bad)
         /\ \A j \in 1 .. Count(bad) :
              /\ Got(bad)[j] = Junk \/ Got(bad)[j] = ius_offs + j - 1
              /\ bad = {} /\ Got(bad)[j] = Junk => j - 1 >= StepLen
  <1>1. \A j \in 1 .. Count(bad) :
          Got(bad)[j] = IF j - 1 >= StepLen \/ \E p \in bad : j - 1 \in ReadParts(src, ius_offs, StepLen)[p]
                        THEN Junk ELSE ius_offs + (j - 1)
    BY DEF Got
  <1>2. \A j \in 1 .. Count(bad) :
          /\ Got(bad)[j] = Junk \/ Got(bad)[j] = ius_offs + j - 1
          /\ Got(bad)[j] \in Int
    BY <1>1 DEF Junk
  <1>3. ASSUME bad = {}, NEW j \in 1 .. Count(bad), Got(bad)[j] = Junk
        PROVE  j - 1 >= StepLen
    <2>1. j - 1 \in Nat /\ (~(j - 1 >= StepLen) => Got(bad)[j] = ius_offs + (j - 1))
      BY <1>1, <1>3
    <2>2. ius_offs + (j - 1) # Junk
      BY <2>1 DEF Junk
    <2>3. QED
      BY <1>3, <2>1, <2>2
  <1>4. Got(bad) \in [1 .. Count(bad) -> Int]
    BY <1>2 DEF Got
  <1>5. Got(bad) \in Seq(Int) /\ Len(Got(bad)) = Count(bad)
    BY <1>4
  <1>6. QED
    BY <1>2, <1>3, <1>5

\* The buffer with what a round appends to it.
LEMMA Appends ==
  ASSUME NEW s \in Seq(Int), NEW t \in Seq(Int)
  PROVE  /\ s \o t \in Seq(Int) /\ Len(s \o t) = Len(s) + Len(t)
         /\ \A j \in 1 .. Len(s) : (s \o t)[j] = s[j]
         /\ \A j \in 1 .. Len(t) : (s \o t)[Len(s) + j] = t[j]
  <1>1. /\ s \o t \in Seq(Int) /\ Len(s \o t) = Len(s) + Len(t)
        /\ \A j \in 1 .. Len(s) + Len(t) :
             (s \o t)[j] = IF j <= Len(s) THEN s[j] ELSE t[j - Len(s)]
    BY ConcatProperties
  <1>2. Len(s) \in Nat /\ Len(t) \in Nat
    OBVIOUS
  <1>3. \A j \in 1 .. Len(s) : j \in 1 .. Len(s) + Len(t) /\ j <= Len(s)
    BY <1>2
  <1>4. \A j \in 1 .. Len(t) : /\ Len(s) + j \in 1 .. Len(s) + Len(t)
                              /\ ~(Len(s) + j <= Len(s)) /\ (Len(s) + j) - Len(s) = j
    BY <1>2
  <1>5. QED
    BY <1>1, <1>3, <1>4

\* What a round leaves.
Delivered(bad) ==
  /\ Round(bad) /\ Count(bad) \in 0 .. Step /\ StepLen \in 1 .. Step
  /\ bad = {} => Count(bad) > 0
  /\ bad = {} => Count(bad) <= StepLen \/ ius_offs + StepLen >= StreamLen
  /\ src = "ram" => Count(bad) % Sector = 0 /\ (Count(bad) = Step \/ Count(bad) >= ius_remain)
  /\ buf' \in Seq(Int) /\ Len(buf') = Len(buf) + Count(bad) /\ Live' = Live + Count(bad)
  /\ \A j \in 1 .. Live : buf'[index' + j] = buf[index + j]
  /\ \A j \in 1 .. Count(bad) : buf'[index' + Live + j] = Got(bad)[j]
  /\ pc' \in {after, "read"} /\ Place' = Place /\ Cursor' = Cursor /\ ~Over'

LEMMA Reads ==
  ASSUME SInv, ReadStep
  PROVE  \E bad : Delivered(bad)
  <1>1. TypeOK /\ Places /\ Supply /\ Reading /\ pc = "read"
    BY DEF SInv, ReadStep
  <1>2. UNCHANGED <<src, img, index, after, i, len, at, disk, fills, ret, nomem>>
    BY DEF ReadStep
  <1>3. /\ stillto > 0 /\ stillto <= remain /\ remain = ius_remain /\ stillto \in Nat
        /\ ius_remain \in Int /\ ius_remain = StreamLen - ius_offs
        /\ src = "ram" => ius_offs % Sector = 0
    BY <1>1 DEF Reading, Supply, TypeOK
  <1>4. ius_remain > 0
    BY <1>3
  <1>5. StepLen \in 1 .. Step /\ StepLen \in Nat /\ StepLen # 0
    BY <1>1, <1>4, Asking, Sizes
  <1>6. PICK bad : Round(bad)
    BY <1>4, <1>5, Rounds
  <1>7. bad # {} => IsMmc(src)
    BY <1>6 DEF Round
  <1>8. /\ Count(bad) \in 0 .. Step
        /\ bad = {} => Count(bad) > 0
        /\ bad = {} => Count(bad) <= StepLen \/ ius_offs + StepLen >= StreamLen
        /\ src = "ram" => Count(bad) % Sector = 0 /\ (Count(bad) = Step \/ Count(bad) >= ius_remain)
    BY <1>1, <1>3, <1>4, <1>7, Answered DEF Count
  <1>9. Count(bad) \in Nat /\ ius_offs \in Nat /\ buf \in Seq(Int)
    BY <1>1, <1>8, Sizes DEF TypeOK
  <1>10. Got(bad) \in Seq(Int) /\ Len(Got(bad)) = Count(bad)
    BY <1>5, <1>9, Brings
  <1>11. buf' = buf \o Got(bad)
    BY <1>6 DEF Round
  <1>12. /\ buf' \in Seq(Int) /\ Len(buf') = Len(buf) + Count(bad)
         /\ \A j \in 1 .. Len(buf) : buf'[j] = buf[j]
         /\ \A j \in 1 .. Count(bad) : buf'[Len(buf) + j] = Got(bad)[j]
    <2> DEFINE g == Got(bad)
    <2> HIDE DEF g
    <2>1. g \in Seq(Int) /\ Len(g) = Count(bad) /\ buf' = buf \o g
      BY <1>10, <1>11 DEF g
    <2>2. /\ buf \o g \in Seq(Int) /\ Len(buf \o g) = Len(buf) + Len(g)
          /\ \A j \in 1 .. Len(buf) : (buf \o g)[j] = buf[j]
          /\ \A j \in 1 .. Len(g) : (buf \o g)[Len(buf) + j] = g[j]
      BY <1>9, <2>1, Appends
    <2>3. QED
      BY <2>1, <2>2, Zenon DEF g
  <1>13. /\ Len(buf) \in Nat /\ index \in Nat /\ Live \in Nat /\ index + Live = Len(buf)
         /\ index' = index
    BY <1>1, <1>2, LiveType
  <1>14. Live' = Live + Count(bad)
    BY <1>9, <1>12, <1>13 DEF Live
  <1>15. \A j \in 1 .. Live : buf'[index' + j] = buf[index + j]
    <2>1. \A j \in 1 .. Live : index + j \in 1 .. Len(buf)
      BY <1>13
    <2>2. QED
      BY <1>12, <1>13, <2>1
  <1>16. \A j \in 1 .. Count(bad) : buf'[index' + Live + j] = Got(bad)[j]
    BY <1>12, <1>13
  <1>17. pc' \in {after, "read"} /\ after' = after
    BY <1>1, <1>2, <1>6 DEF Round
  <1>18. after \in Taking
    BY <1>1 DEF Places, Taking
  <1>19. Place' = Place /\ ~Over'
    BY <1>1, <1>17, <1>18 DEF Place, Over, Taking
  <1>20. Cursor' = Cursor
    BY <1>2, <1>19 DEF Cursor, ChunkPos
  <1>21. Delivered(bad)
    BY <1>5, <1>6, <1>8, <1>12, <1>14, <1>15, <1>16, <1>17, <1>19, <1>20 DEF Delivered
  <1>22. QED
    BY <1>21

LEMMA InvRead ==
  ASSUME SInv, ReadStep
  PROVE  SInv'
  <1>1. TypeOK /\ Places /\ Supply /\ Reading /\ NoOverflow /\ Contents /\ pc = "read"
    BY DEF SInv, ReadStep
  <1>2. UNCHANGED <<src, img, index, after, i, len, at, disk, fills, ret, nomem>>
    BY DEF ReadStep
  <1>3. PICK bad : Delivered(bad)
    BY Reads
  <1> DEFINE c == Count(bad)
  <1>4. c \in 0 .. Step /\ StepLen \in 1 .. Step /\ c \in Nat
    BY <1>3, Sizes DEF Delivered
  <1>5. /\ buf' \in Seq(Int) /\ Len(buf') = Len(buf) + c /\ Live' = Live + c
        /\ pc' \in {after, "read"} /\ Place' = Place /\ Cursor' = Cursor /\ ~Over'
    BY <1>3 DEF Delivered
  <1>6. /\ bad = {} \/ \E p : bad = {p}
        /\ bad # {} => ioerr < MaxIoErrors
        /\ ioerr' = ioerr + Cardinality(bad)
        /\ high' = IF Len(buf) + StepLen > high THEN Len(buf) + StepLen ELSE high
        /\ spoiled' = (spoiled \/ \E j \in 1 .. c : Got(bad)[j] = Junk /\ ius_offs + j - 1 < StreamLen)
        /\ ius_offs' = ius_offs + c /\ ius_remain' = ius_remain - c /\ remain' = remain - c
        /\ \/ pc' = after /\ stillto' = stillto
           \/ /\ ~LoopEnds(BufSize - Len(buf) - c, c)
              /\ pc' = pc /\ stillto' = stillto - c
    BY <1>3 DEF Delivered, Round
  <1>7. /\ Len(buf) \in Nat /\ Live \in Nat /\ index \in Nat /\ Cursor \in Nat
        /\ ius_offs \in Nat /\ remain \in Int /\ ius_remain \in Int /\ StreamLen \in Nat
        /\ stillto \in Nat /\ index <= Len(buf)
    <2>1. ~Over
      BY <1>1 DEF Over
    <2>2. QED
      BY <1>1, <2>1, LiveType, CursorAt, Ends DEF TypeOK
  <1>8. /\ Len(buf) + Step <= BufSize /\ stillto > 0 /\ stillto <= remain
        /\ ius_offs = Cursor + Live /\ ius_remain = StreamLen - ius_offs /\ remain = ius_remain
    BY <1>1 DEF Reading, Supply, Over
  <1>9. StreamLen' = StreamLen
    BY <1>2 DEF StreamLen, ChunkPos
  <1> HIDE DEF c
  <1>10. Supply'
    <2>1. src = "ram" => (ius_offs + c) % Sector = 0
      <3>1. ASSUME src = "ram" PROVE ius_offs % Sector = 0 /\ c % Sector = 0
        BY <1>1, <1>3, <3>1 DEF Supply, Delivered, c
      <3>2. QED
        BY <1>4, <1>7, <3>1, SumWhole
    <2>2. /\ ius_remain' = StreamLen' - ius_offs' /\ remain' = ius_remain'
          /\ ius_offs' = Cursor' + Live'
      BY <1>4, <1>5, <1>6, <1>7, <1>8, <1>9
    <2>3. QED
      BY <1>2, <1>6, <2>1, <2>2 DEF Supply
  <1>11. Reading'
    <2>1. CASE pc' = "read"
      <3>1. ~LoopEnds(BufSize - Len(buf) - c, c) /\ stillto' = stillto - c
        BY <1>1, <1>6, <2>1 DEF Places
      <3>2. BufSize - Len(buf) - c >= Step /\ stillto > c
        BY <1>4, <1>7, <3>1, Sizes DEF LoopEnds
      <3>3. QED
        BY <1>4, <1>5, <1>6, <1>7, <1>8, <3>1, <3>2, Sizes DEF Reading
    <2>2. QED
      BY <2>1 DEF Reading
  <1>12. NoOverflow'
    <2>1. high <= BufSize
      BY <1>1 DEF NoOverflow
    <2>2. QED
      BY <1>4, <1>5, <1>6, <1>7, <1>8, <2>1, Sizes DEF NoOverflow
  <1>13. Contents'
    <2>1. SUFFICES ASSUME ~spoiled', NEW j \in 1 .. Live', Cursor' + j - 1 < StreamLen'
                   PROVE  buf'[index' + j] = Cursor' + j - 1
      BY DEF Contents
    <2>2. ~spoiled /\ ~\E m \in 1 .. c : Got(bad)[m] = Junk /\ ius_offs + m - 1 < StreamLen
      BY <1>6, <2>1
    <2>3. CASE j <= Live
      <3>1. j \in 1 .. Live
        BY <1>4, <1>5, <1>7, <2>3
      <3>2. buf[index + j] = Cursor + j - 1
        BY <1>1, <1>5, <1>9, <2>1, <2>2, <3>1 DEF Contents, Over
      <3>3. QED
        BY <1>3, <1>5, <3>1, <3>2 DEF Delivered
    <2>4. CASE ~(j <= Live)
      <3> DEFINE m == j - Live
      <3>1. m \in 1 .. c /\ m \in Nat /\ j = Live + m
        BY <1>4, <1>5, <1>7, <2>4
      <3> HIDE DEF m
      <3>2. ius_offs + m - 1 = Cursor' + j - 1 /\ index + Live + m = index + j
        BY <1>5, <1>7, <1>8, <3>1
      <3>3. Got(bad)[m] = ius_offs + m - 1
        <4>1. Got(bad)[m] = Junk \/ Got(bad)[m] = ius_offs + m - 1
          BY <1>4, <1>7, <3>1, Brings DEF c
        <4>2. ius_offs + m - 1 < StreamLen
          BY <1>9, <2>1, <3>2
        <4>3. QED
          BY <2>2, <3>1, <4>1, <4>2
      <3>4. buf'[index' + Live + m] = Got(bad)[m]
        BY <1>3, <3>1 DEF Delivered, c
      <3>5. QED
        BY <1>2, <3>2, <3>3, <3>4
    <2>5. QED
      BY <2>3, <2>4
  <1>14. TypeOK'
    <2>1. spoiled' \in BOOLEAN
      BY <1>6, Zenon
    <2>2. ioerr' \in 0 .. MaxIoErrors
      <3>1. bad = {} => Cardinality(bad) = 0
        BY FS_EmptySet
      <3>2. bad # {} => Cardinality(bad) = 1
        BY <1>6, FS_Singleton
      <3>3. ioerr \in 0 .. MaxIoErrors /\ MaxIoErrors \in Nat
        BY <1>1, SparseAssumption DEF TypeOK
      <3>4. QED
        BY <1>6, <3>1, <3>2, <3>3
    <2>3. stillto' \in Nat
      <3>1. CASE stillto' = stillto
        BY <1>7, <3>1
      <3>2. CASE ~LoopEnds(BufSize - Len(buf) - c, c) /\ stillto' = stillto - c
        <4>1. stillto > c
          BY <3>2 DEF LoopEnds
        <4>2. QED
          BY <1>4, <1>7, <3>2, <4>1
      <3>3. QED
        BY <1>6, <3>1, <3>2
    <2>4. ius_offs' \in Nat /\ ius_remain' \in Int /\ remain' \in Int
      BY <1>4, <1>6, <1>7
    <2>5. index' \in 0 .. Len(buf')
      BY <1>2, <1>4, <1>5, <1>7
    <2>6. QED
      BY <1>1, <1>2, <1>5, <2>1, <2>2, <2>3, <2>4, <2>5 DEF TypeOK
  <1>15. Places'
    <2>1. pc' # "start"
      BY <1>1, <1>5 DEF Places
    <2>2. QED
      BY <1>1, <1>2, <1>5, <2>1 DEF Places, Chunks
  <1>16. QED
    BY <1>10, <1>11, <1>12, <1>13, <1>14, <1>15 DEF SInv

---------------------------------------------------------------------------
(* The invariant holds.                                                    *)

LEMMA InvInit == Init => SInv
  <1> SUFFICES ASSUME Init PROVE SInv
    OBVIOUS
  <1>1. img \in Images /\ src \in Srcs
    BY DEF Init
  <1>2. StreamLen \in Nat /\ Len(img.chunks) \in Nat
    BY <1>1, Ends
  <1>3. buf = <<>> /\ index = 0 /\ Len(buf) = 0 /\ Live = 0
    BY DEF Init, Live
  <1>4. TypeOK
    <2>1. buf \in Seq(Int) /\ index \in 0 .. Len(buf)
      BY <1>3
    <2>2. ius_offs \in Nat /\ ius_remain \in Int /\ remain \in Int
      BY <1>2 DEF Init
    <2>3. stillto \in Nat /\ len \in Nat /\ at \in Nat /\ i \in 1 .. Len(img.chunks) + 1
      BY <1>2 DEF Init
    <2>4. fills \in 0 .. FillRoom /\ ioerr \in 0 .. MaxIoErrors /\ ret \in {0, -1}
      BY SparseAssumption DEF Init
    <2>5. spoiled \in BOOLEAN /\ nomem \in BOOLEAN
      BY DEF Init
    <2>6. QED
      BY <1>1, <2>1, <2>2, <2>3, <2>4, <2>5 DEF TypeOK
  <1>5. Place = "start" /\ Cursor = 0
    BY DEF Init, Place, Cursor
  <1>6. Places
    BY <1>3, <1>5 DEF Init, Places
  <1>7. Supply
    <2>1. 0 % Sector = 0
      BY Sizes
    <2>2. QED
      BY <1>2, <1>3, <1>5, <2>1 DEF Init, Supply
  <1>8. Reading /\ NoOverflow /\ Contents
    BY <1>3, Sizes DEF Init, Reading, NoOverflow, Contents
  <1>9. QED
    BY <1>4, <1>6, <1>7, <1>8 DEF SInv

LEMMA InvStutter ==
  ASSUME SInv, UNCHANGED vars
  PROVE  SInv'
  <1>1. UNCHANGED <<src, img, pc, ius_offs, ius_remain, remain, buf, index, stillto,
                    after, i, len, at, fills, ret, high, spoiled, nomem, ioerr>>
    BY DEF vars, source, buffer
  <1>2. Place' = Place /\ Cursor' = Cursor /\ Live' = Live /\ StreamLen' = StreamLen /\ (Over' <=> Over)
    BY <1>1 DEF Place, Cursor, Live, StreamLen, ChunkPos, Over
  <1>3. TypeOK' /\ Places'
    BY <1>1, <1>2 DEF SInv, TypeOK, Places, Chunks
  <1>4. Supply' /\ Reading' /\ NoOverflow' /\ Contents'
    BY <1>1, <1>2 DEF SInv, Supply, Reading, NoOverflow, Contents
  <1>5. QED
    BY <1>3, <1>4 DEF SInv

LEMMA InvAlways == Spec => []SInv
  <1>1. SInv /\ [Next]_vars => SInv'
    BY InvStutter, InvBurn, InvRead, InvHeader, InvChunk, InvChunkHeader, InvRaw, InvPut,
       InvValue, InvValueTaken DEF Next
  <1>2. QED
    BY <1>1, InvInit, PTL DEF Spec

\* However reads are cut, counted and repeated and wherever the buffer is
\* moved, the decoder finds the stream in it from its place on, and no read
\* passes the end of the buffer (get_data_from_source, sparse.c:112-162).
THEOREM BufferIsStream == Spec => []StreamInv
  <1>1. SInv => StreamInv
    BY DEF SInv, StreamInv, InStream, Supply, Contents
  <1>2. QED
    BY <1>1, InvAlways, PTL

---------------------------------------------------------------------------
(* The target.                                                             *)

\* How much of the target is behind the decoder.
OutCursor ==
  CASE Place \in {"start", "header"} -> 0
    [] Place \in {"raw", "put"} -> OutPos(i + 1) - len
    [] OTHER -> OutPos(i)

\* target.index follows the chunks, but for fills that found no memory.
Target ==
  ~Over => at <= OutCursor /\ (~nomem => at = OutCursor) /\ at % Sector = 0

\* What is behind it is burned, what is before it untouched.
Written ==
  ~spoiled /\ ~nomem =>
    disk = [s \in Sectors |-> IF s * Sector < at THEN Expand[s] ELSE Old]

Finished ==
  pc = "done" /\ ret = 0 => i = Len(img.chunks) + 1 /\ (~nomem => at = OutPos(i))

DInv == SInv /\ Target /\ Written /\ Finished

\* A sector of the target is described by the one chunk it lies in.
LEMMA Expands ==
  ASSUME img \in Images, NEW k \in Chunks, NEW s \in Sectors,
         OutPos(k) <= s * Sector, s * Sector < OutPos(k + 1)
  PROVE  LET data == ChunkPos(k) + ChunkLen IN
         /\ img.chunks[k].type = "raw" =>
              Expand[s] = [b \in 1 .. Sector |-> data + (s * Sector - OutPos(k)) + b - 1]
         /\ img.chunks[k].type = "fill" => Expand[s] = FillSector(data)
         /\ img.chunks[k].type \notin {"raw", "fill"} => Expand[s] = Old
  <1> DEFINE x == s * Sector
             mine == {j \in Chunks : x \in OutPos(j) .. OutPos(j) + OutLen(img, img.chunks[j]) - 1}
  <1>1. OutPos(Len(img.chunks) + 1) \in Nat /\ Sector \in Nat \ {0} /\ Len(img.chunks) \in Nat
    BY Ends, Sizes
  <1>2. s \in Nat
    BY <1>1 DEF Sectors
  <1>3. x \in Nat
    BY <1>1, <1>2
  <1>4. \A j \in Chunks :
          /\ j \in 1 .. Len(img.chunks) /\ j + 1 \in 1 .. Len(img.chunks) + 1
          /\ j \in 1 .. Len(img.chunks) + 1
          /\ OutPos(j) \in Nat /\ OutPos(j + 1) \in Nat /\ OutLen(img, img.chunks[j]) \in Nat
          /\ OutPos(j + 1) = OutPos(j) + OutLen(img, img.chunks[j])
    <2>1. ASSUME NEW j \in Chunks
          PROVE  /\ j \in 1 .. Len(img.chunks) /\ j + 1 \in 1 .. Len(img.chunks) + 1
                 /\ OutLen(img, img.chunks[j]) \in Nat
                 /\ OutPos(j + 1) = OutPos(j) + OutLen(img, img.chunks[j])
      BY ChunkFacts
    <2>2. \A j \in Chunks : j \in 1 .. Len(img.chunks) + 1
      BY <1>1, <2>1
    <2>3. \A j \in Chunks : OutPos(j) \in Nat /\ OutPos(j + 1) \in Nat
      BY <2>1, <2>2, Ends
    <2>4. QED
      BY <2>1, <2>2, <2>3
  <1>5. \A j, l \in 1 .. Len(img.chunks) + 1 : j <= l => OutPos(j) <= OutPos(l)
    BY Ends
  <1> HIDE DEF x
  <1>6. x >= OutPos(k) /\ x < OutPos(k + 1)
    BY DEF x
  <1>7. mine = {k}
    <2>1. k \in mine
      BY <1>3, <1>4, <1>6, ChunkFacts
    <2>2. ASSUME NEW j \in mine PROVE j = k
      <3>1. j \in Chunks /\ OutPos(j) <= x /\ x < OutPos(j + 1)
        <4>1. j \in Chunks /\ x \in OutPos(j) .. OutPos(j) + OutLen(img, img.chunks[j]) - 1
          OBVIOUS
        <4>2. QED
          BY SMTT(30), <1>3, <1>4, <4>1
      <3>2. ASSUME j < k PROVE FALSE
        <4>1. j + 1 <= k
          BY <1>1, <1>4, <3>1, <3>2
        <4>2. OutPos(j + 1) <= OutPos(k)
          BY <1>4, <1>5, <3>1, <4>1
        <4>3. QED
          BY SMTT(30), <1>3, <1>4, <1>6, <3>1, <4>2
      <3>3. ASSUME k < j PROVE FALSE
        <4>1. k + 1 <= j
          BY <1>1, <1>4, <3>1, <3>3
        <4>2. OutPos(k + 1) <= OutPos(j)
          BY <1>4, <1>5, <3>1, <4>1
        <4>3. QED
          BY SMTT(30), <1>3, <1>4, <1>6, <3>1, <4>2
      <3>4. QED
        BY <1>1, <1>4, <3>1, <3>2, <3>3
    <2>3. QED
      BY <2>1, <2>2
  <1>8. (CHOOSE j \in mine : TRUE) = k /\ mine # {}
    BY <1>7
  <1> HIDE DEF mine
  <1> DEFINE content(l) ==
               CASE img.chunks[l].type = "raw" ->
                      [b \in 1 .. Sector |-> ChunkPos(l) + ChunkLen + (s * Sector - OutPos(l)) + b - 1]
                 [] img.chunks[l].type = "fill" -> FillSector(ChunkPos(l) + ChunkLen)
                 [] OTHER -> Old
  <1>9. Expand[s] = IF mine = {} THEN Old ELSE content(CHOOSE j \in mine : TRUE)
    BY DEF Expand, mine, x
  <1>10. Expand[s] = content(k)
    BY <1>8, <1>9
  <1>11. QED
    BY <1>10

\* Behind the last chunk nothing is burned.
LEMMA ExpandsEnd ==
  ASSUME img \in Images, NEW s \in Sectors, ~(s * Sector < OutPos(Len(img.chunks) + 1))
  PROVE  Expand[s] = Old
  <1> DEFINE x == s * Sector
             mine == {j \in Chunks : x \in OutPos(j) .. OutPos(j) + OutLen(img, img.chunks[j]) - 1}
  <1>1. OutPos(Len(img.chunks) + 1) \in Nat /\ Sector \in Nat \ {0}
    BY Ends, Sizes
  <1>2. s \in Nat
    BY <1>1 DEF Sectors
  <1>3. x \in Nat /\ x >= OutPos(Len(img.chunks) + 1)
    BY <1>1, <1>2
  <1> HIDE DEF x
  <1>4. \A j \in Chunks :
          /\ OutPos(j) \in Nat /\ OutLen(img, img.chunks[j]) \in Nat
          /\ OutPos(j) + OutLen(img, img.chunks[j]) <= OutPos(Len(img.chunks) + 1)
    <2>1. SUFFICES ASSUME NEW j \in Chunks
                   PROVE  /\ OutPos(j) \in Nat /\ OutLen(img, img.chunks[j]) \in Nat
                          /\ OutPos(j) + OutLen(img, img.chunks[j]) <= OutPos(Len(img.chunks) + 1)
      OBVIOUS
    <2>2. /\ j \in 1 .. Len(img.chunks) + 1 /\ j + 1 \in 1 .. Len(img.chunks) + 1
          /\ OutLen(img, img.chunks[j]) \in Nat
          /\ OutPos(j + 1) = OutPos(j) + OutLen(img, img.chunks[j])
      BY ChunkFacts, Ends
    <2>3. OutPos(j) \in Nat /\ OutPos(j + 1) <= OutPos(Len(img.chunks) + 1)
      BY <2>2, Ends
    <2>4. QED
      BY <2>2, <2>3
  <1>5. mine = {}
    BY <1>1, <1>3, <1>4
  <1> HIDE DEF mine
  <1>6. mine = {} => Expand[s] = Old
    BY DEF Expand, mine, x
  <1>7. QED
    BY <1>5, <1>6

\* The sectors of a run that starts at a: they lie between its ends, and the
\* n-th is n - 1 sectors behind a.
LEMMA RunOfSectors ==
  ASSUME NEW a \in Nat, a % Sector = 0, NEW count \in Nat, NEW s \in Nat
  PROVE  LET q == a \div Sector IN
         /\ s \in q .. q + count - 1 <=> a <= s * Sector /\ s * Sector < a + count * Sector
         /\ s \in q .. q + count - 1 =>
              s - q + 1 \in 1 .. count /\ ((s - q + 1) - 1) * Sector = s * Sector - a
  <1> DEFINE q == a \div Sector
  <1>1. Sector \in Nat \ {0}
    BY Sizes
  <1>2. q \in Nat /\ q * Sector = a
    BY <1>1, Multiple
  <1> HIDE DEF q
  <1>3. a + count * Sector = (q + count) * Sector
    BY <1>1, <1>2
  <1>4. q <= s <=> q * Sector <= s * Sector
    BY <1>1, <1>2
  <1>5. s < q + count <=> s * Sector < (q + count) * Sector
    BY <1>1, <1>2
  <1>6. s \in q .. q + count - 1 <=> q <= s /\ s < q + count
    BY <1>2
  <1>7. (s - q + 1) - 1 = s - q /\ (s - q) * Sector = s * Sector - q * Sector
    BY <1>1, <1>2
  <1>8. s \in q .. q + count - 1 => s - q + 1 \in 1 .. count
    BY <1>2
  <1>9. QED
    BY <1>2, <1>3, <1>4, <1>5, <1>6, <1>7, <1>8 DEF q

\* A write that works changes the sectors from at up to at'.
LEMMA Lands ==
  ASSUME TypeOK, at % Sector = 0, NEW sector, NEW count \in Nat, Write(sector, count)
  PROVE  \/ disk' = disk /\ spoiled' = TRUE
         \/ /\ disk' = [s \in Sectors |-> disk'[s]]
            /\ \A s \in Sectors :
                 disk'[s] = IF at <= s * Sector /\ s * Sector < at'
                            THEN sector[s - at \div Sector + 1] ELSE disk[s]
  <1>1. at' = at + count * Sector /\ at \in Nat
    BY DEF Write, TypeOK
  <1>2. CASE disk' = disk /\ spoiled' = TRUE
    BY <1>2
  <1>3. CASE disk' = [s \in Sectors |->
               IF s \in at \div Sector .. at \div Sector + count - 1
               THEN sector[s - at \div Sector + 1] ELSE disk[s]]
    <2>1. \A s \in Sectors : s \in Nat
      <3>1. OutPos(Len(img.chunks) + 1) \in Nat
        BY Ends DEF TypeOK
      <3>2. QED
        BY <3>1 DEF Sectors
    <2>2. \A s \in Sectors :
            s \in at \div Sector .. at \div Sector + count - 1
              <=> at <= s * Sector /\ s * Sector < at'
      BY <1>1, <2>1, RunOfSectors
    <2>3. QED
      BY <1>3, <2>2
  <1>4. QED
    BY <1>2, <1>3 DEF Write

---------------------------------------------------------------------------
(* The steps that write nothing.                                           *)

LEMMA SameImage ==
  ASSUME img' = img
  PROVE  Sectors' = Sectors /\ Expand' = Expand /\ StreamLen' = StreamLen
  <1>1. Sectors' = Sectors /\ StreamLen' = StreamLen
    BY DEF Sectors, OutPos, StreamLen, ChunkPos
  <1>2. Expand' = Expand
    BY <1>1 DEF Expand, Chunks, OutPos, ChunkPos
  <1>3. QED
    BY <1>1, <1>2

LEMMA Unwritten ==
  ASSUME DInv, UNCHANGED <<img, at, disk, nomem>>, spoiled => spoiled',
         Over' \/ (~Over /\ OutCursor' = OutCursor),
         pc' = "done" /\ ret' = 0 => i' = Len(img.chunks) + 1 /\ (~nomem => at = OutPos(i'))
  PROVE  Target' /\ Written' /\ Finished'
  <1>1. Written'
    BY SameImage DEF DInv, Written
  <1>2. Target'
    BY DEF DInv, Target
  <1>3. Finished'
    BY DEF Finished, OutPos
  <1>4. QED
    BY <1>1, <1>2, <1>3

LEMMA GoesTo ==
  ASSUME NEW want, NEW k, k # "read", GetData(want, k) \/ Ensure(want, k)
  PROVE  Place' = k /\ pc' \in {k, "read"}
  BY DEF GetData, Ensure, Place

LEMMA OutBurn ==
  ASSUME DInv, sparse_burn
  PROVE  DInv'
  <1>1. SInv' /\ pc = "start"
    BY InvBurn DEF DInv, sparse_burn
  <1>2. Place' = "header" /\ pc' \in {"header", "read"}
    BY GoesTo DEF sparse_burn
  <1>3. ~Over /\ OutCursor' = OutCursor /\ pc' # "done"
    BY <1>1, <1>2 DEF Over, OutCursor, Place
  <1>4. UNCHANGED <<img, at, disk, nomem, spoiled>>
    BY DEF sparse_burn
  <1>5. QED
    BY <1>1, <1>3, <1>4, Unwritten DEF DInv

LEMMA OutRead ==
  ASSUME DInv, ReadStep
  PROVE  DInv'
  <1>1. SInv /\ SInv' /\ pc = "read"
    BY InvRead DEF DInv, ReadStep
  <1>2. PICK bad : Delivered(bad)
    BY <1>1, Reads
  <1>3. UNCHANGED <<src, img, index, after, i, len, at, disk, fills, ret, nomem>>
    BY DEF ReadStep
  <1>4. Place' = Place /\ ~Over' /\ (spoiled => spoiled')
    BY <1>2 DEF Delivered, Round
  <1>5. ~Over /\ OutCursor' = OutCursor /\ pc' # "done"
    BY <1>1, <1>3, <1>4 DEF Over, OutCursor, OutPos
  <1>6. QED
    BY <1>1, <1>3, <1>4, <1>5, Unwritten DEF DInv

LEMMA OutHeader ==
  ASSUME DInv, Header
  PROVE  DInv'
  <1>1. SInv /\ SInv' /\ pc = "header" /\ TypeOK /\ Places
    BY InvHeader DEF DInv, SInv, Header
  <1>2. i = 1 /\ OutPos(1) = 0 /\ Place = "header" /\ ~Over
    BY <1>1, Ends DEF Places, Place, TypeOK, Over
  <1>3. UNCHANGED <<img, i, at, disk, nomem, spoiled>>
    BY DEF Header
  <1>4. (pc' \in {"lost", "chunk"} /\ ret' = ret) \/ (pc' = "done" /\ ret' = -1)
    BY DEF Header, Done
  <1>5. pc' = "chunk" => OutCursor' = OutCursor
    BY <1>2, <1>3 DEF OutCursor, OutPos, Place
  <1>6. Over' \/ (~Over /\ OutCursor' = OutCursor)
    BY <1>2, <1>4, <1>5 DEF Over
  <1>7. ~(pc' = "done" /\ ret' = 0)
    BY <1>4
  <1>8. QED
    BY <1>1, <1>3, <1>6, <1>7, Unwritten DEF DInv

LEMMA OutChunk ==
  ASSUME DInv, Chunk
  PROVE  DInv'
  <1>1. SInv /\ SInv' /\ pc = "chunk" /\ TypeOK
    BY InvChunk DEF DInv, SInv, Chunk
  <1>2. Place = "chunk" /\ ~Over
    BY <1>1 DEF Place, Over
  <1>3. UNCHANGED <<img, i, at, disk, nomem, spoiled>>
    BY DEF Chunk
  <1>4. OutCursor = OutPos(i)
    BY <1>2 DEF OutCursor
  <1>5. CASE i > Len(img.chunks)
    <2>1. Over'
      BY <1>5 DEF Chunk, Done, Over
    <2>2. i' = Len(img.chunks) + 1
      BY <1>1, <1>3, <1>5, Ends DEF TypeOK
    <2>3. ~nomem => at = OutPos(i')
      BY <1>2, <1>3, <1>4 DEF DInv, Target
    <2>4. QED
      BY <1>1, <1>3, <2>1, <2>2, <2>3, Unwritten DEF DInv
  <1>6. CASE ~(i > Len(img.chunks))
    <2>1. Place' = "chunkheader" /\ pc' \in {"chunkheader", "read"}
      BY <1>6, GoesTo DEF Chunk
    <2>2. OutCursor' = OutCursor /\ pc' # "done"
      BY <1>3, <1>4, <2>1 DEF OutCursor, OutPos
    <2>3. QED
      BY <1>1, <1>2, <1>3, <2>2, Unwritten DEF DInv
  <1>7. QED
    BY <1>5, <1>6

LEMMA OutValue ==
  ASSUME DInv, Value
  PROVE  DInv'
  <1>1. SInv' /\ pc = "value"
    BY InvValue DEF DInv, Value
  <1>2. Place = "value" /\ ~Over
    BY <1>1 DEF Place, Over
  <1>3. UNCHANGED <<img, i, at, disk, nomem, spoiled>>
    BY DEF Value
  <1>4. Place' = "valuetaken" /\ pc' \in {"valuetaken", "read"}
    BY GoesTo DEF Value
  <1>5. OutCursor' = OutCursor /\ pc' # "done"
    BY <1>2, <1>3, <1>4 DEF OutCursor, OutPos
  <1>6. QED
    BY <1>1, <1>2, <1>3, <1>5, Unwritten DEF DInv

LEMMA OutRaw ==
  ASSUME DInv, Raw
  PROVE  DInv'
  <1>1. SInv /\ SInv' /\ pc = "raw" /\ TypeOK /\ Places
    BY InvRaw DEF DInv, SInv, Raw
  <1>2. Place = "raw" /\ ~Over /\ i \in Chunks
    BY <1>1 DEF Place, Over, Places
  <1>3. UNCHANGED <<img, len, at, disk, nomem, spoiled>>
    BY DEF Raw
  <1>4. OutCursor = OutPos(i + 1) - len
    BY <1>2 DEF OutCursor
  <1>5. OutCursor' = OutCursor /\ pc' # "done"
    <2>1. CASE len = 0
      <3>1. pc' = "chunk" /\ i' = i + 1
        BY <2>1 DEF Raw
      <3>2. OutCursor' = OutPos(i + 1)
        BY <1>3, <3>1 DEF OutCursor, OutPos, Place
      <3>3. OutPos(i + 1) \in Nat
        BY <1>1, <1>2, ChunkFacts, Ends DEF TypeOK
      <3>4. QED
        BY <1>4, <2>1, <3>1, <3>2, <3>3
    <2>2. CASE len # 0
      <3>1. Place' = "put" /\ pc' \in {"put", "read"} /\ i' = i
        BY <2>2, GoesTo DEF Raw
      <3>2. QED
        BY <1>3, <1>4, <3>1 DEF OutCursor, OutPos
    <2>3. QED
      BY <2>1, <2>2
  <1>6. QED
    BY <1>1, <1>2, <1>3, <1>5, Unwritten DEF DInv

---------------------------------------------------------------------------
(* The steps that move the place in the target.                            *)

LEMMA SectorPlaces ==
  ASSUME img \in Images
  PROVE  Sectors \subseteq Nat /\ \A s \in Sectors : s * Sector \in Nat
  <1>1. OutPos(Len(img.chunks) + 1) \in Nat
    BY Ends
  <1>2. Sectors \subseteq Nat
    BY <1>1 DEF Sectors
  <1>3. QED
    BY <1>2, Sizes

\* Where the sectors passed hold what the image decodes to, what was burned
\* grows by them.
LEMMA Grows ==
  ASSUME DInv, img' = img, at' \in Nat, at <= at',
         spoiled => spoiled', nomem => nomem',
         ~spoiled' /\ ~nomem' =>
           /\ disk' = [s \in Sectors |-> disk'[s]]
           /\ \A s \in Sectors :
                disk'[s] = IF at <= s * Sector /\ s * Sector < at' THEN Expand[s] ELSE disk[s]
  PROVE  Written'
  <1>1. SUFFICES ASSUME ~spoiled', ~nomem'
                 PROVE  disk' = [s \in Sectors |-> IF s * Sector < at' THEN Expand[s] ELSE Old]
    BY SameImage DEF Written
  <1>2. disk = [s \in Sectors |-> IF s * Sector < at THEN Expand[s] ELSE Old]
    BY <1>1 DEF DInv, Written
  <1>3. at \in Nat /\ \A s \in Sectors : s * Sector \in Nat
    <2>1. at \in Nat /\ img \in Images
      BY DEF DInv, SInv, TypeOK
    <2>2. QED
      BY <2>1, SectorPlaces
  <1>4. \A s \in Sectors : disk'[s] = IF s * Sector < at' THEN Expand[s] ELSE Old
    <2>1. SUFFICES ASSUME NEW s \in Sectors
                   PROVE  disk'[s] = IF s * Sector < at' THEN Expand[s] ELSE Old
      OBVIOUS
    <2>2. disk'[s] = IF at <= s * Sector /\ s * Sector < at' THEN Expand[s] ELSE disk[s]
      BY <1>1
    <2>3. disk[s] = IF s * Sector < at THEN Expand[s] ELSE Old
      BY <1>2
    <2> DEFINE x == s * Sector
    <2>4. x \in Nat
      BY <1>3
    <2> HIDE DEF x
    <2>5. (x < at' <=> (x < at \/ (at <= x /\ x < at'))) /\ (x < at => ~(at <= x))
      BY <1>3, <2>4
    <2>6. QED
      BY <2>2, <2>3, <2>5 DEF x
  <1>5. QED
    BY <1>1, <1>4

LEMMA OutChunkHeader ==
  ASSUME DInv, ChunkHeader
  PROVE  DInv'
  <1> DEFINE c == img.chunks[i]
  <1>1. SInv /\ SInv' /\ pc = "chunkheader" /\ TypeOK /\ Places
    BY InvChunkHeader DEF DInv, SInv, ChunkHeader
  <1>2. Place = "chunkheader" /\ ~Over /\ i \in Chunks /\ img \in Images
    BY <1>1 DEF Place, Over, Places, TypeOK
  <1>3. UNCHANGED <<src, img, disk, fills, spoiled, nomem>>
    BY DEF ChunkHeader
  <1>4. OutCursor = OutPos(i)
    BY <1>2 DEF OutCursor
  <1>5. at <= OutPos(i) /\ (~nomem => at = OutPos(i)) /\ at % Sector = 0 /\ at \in Nat
    BY <1>1, <1>2, <1>4 DEF DInv, Target, TypeOK
  <1>6. /\ c.type = "raw" => Payload(img, c) = OutLen(img, c)
        /\ OutLen(img, c) \in Nat /\ OutLen(img, c) % Sector = 0
        /\ OutPos(i + 1) = OutPos(i) + OutLen(img, c)
        /\ i \in 1 .. Len(img.chunks) + 1 /\ i + 1 \in 1 .. Len(img.chunks) + 1
    BY <1>1, <1>2, ChunkFacts DEF TypeOK
  <1>7. OutPos(i) \in Nat /\ OutPos(i + 1) \in Nat
    BY <1>2, <1>6, Ends
  <1>8. CASE Live < ChunkLen \/ Garbled(ChunkLen) \/ Refused(i)
    <2>1. UNCHANGED <<i, at>> /\ (pc' = "lost" \/ (pc' = "done" /\ ret' = -1))
      BY <1>8 DEF ChunkHeader, Done
    <2>2. Over' /\ ~(pc' = "done" /\ ret' = 0)
      BY <2>1 DEF Over
    <2>3. QED
      BY <1>1, <1>3, <2>1, <2>2, Unwritten DEF DInv
  <1>11. CASE ~(Live < ChunkLen \/ Garbled(ChunkLen) \/ Refused(i)) /\ c.bogus /\ c.type = "unknown"
    <2>1. /\ pc' = "lost" \/ (pc' = "done" /\ i = Len(img.chunks))
          /\ i' = i + 1 /\ at' = at + OutLen(img, c)
      BY <1>11 DEF ChunkHeader, NextChunk, Done
    <2>2. OutLen(img, c) = 0
      BY <1>2, <1>11, ChunkFacts
    <2>3. Over' /\ at' = at /\ OutPos(i + 1) = OutPos(i)
      BY <1>5, <1>6, <1>7, <2>1, <2>2 DEF Over
    <2>4. pc' = "done" /\ ret' = 0 => i' = Len(img.chunks) + 1 /\ (~nomem => at = OutPos(i'))
      BY <1>5, <2>1, <2>3
    <2>5. QED
      BY <1>1, <1>3, <2>3, <2>4, Unwritten DEF DInv
  <1>9. CASE ~(Live < ChunkLen \/ Garbled(ChunkLen) \/ Refused(i)) /\ ~(c.bogus /\ c.type = "unknown")
    <2>0. c.type = "skip" => ~c.bogus
      BY <1>9 DEF Refused
    <2>1. /\ len' = Payload(img, c)
          /\ \/ c.type = "raw" /\ pc' = "raw" /\ UNCHANGED <<i, at>>
             \/ c.type \in {"fill", "crc"} /\ pc' = "value" /\ UNCHANGED <<i, at>>
             \/ c.type \in {"skip", "unknown"} /\ pc' = "chunk" /\ i' = i + 1
                /\ at' = at + OutLen(img, c)
      BY <1>9, <2>0 DEF ChunkHeader, NextChunk
    <2>2. CASE pc' \in {"raw", "value"}
      <3>1. UNCHANGED <<i, at>> /\ Place' = pc' /\ ~Over' /\ pc' # "done"
        BY <2>1, <2>2 DEF Place, Over
      <3>2. OutCursor' = OutCursor
        <4>1. CASE pc' = "raw"
          <5>1. OutCursor' = OutPos(i + 1) - len'
            BY <1>3, <3>1, <4>1 DEF OutCursor, OutPos
          <5>2. len' = OutLen(img, c)
            BY <1>6, <2>1, <4>1
          <5>3. QED
            BY <1>4, <1>6, <1>7, <5>1, <5>2
        <4>2. CASE pc' = "value"
          BY <1>3, <1>4, <3>1, <4>2 DEF OutCursor, OutPos
        <4>3. QED
          BY <2>2, <4>1, <4>2
      <3>3. QED
        BY <1>1, <1>2, <1>3, <3>1, <3>2, Unwritten DEF DInv
    <2>3. CASE pc' = "chunk"
      <3>1. c.type \in {"skip", "unknown"} /\ i' = i + 1 /\ at' = at + OutLen(img, c)
        BY <2>1, <2>3
      <3>2. Place' = "chunk" /\ ~Over'
        BY <2>3 DEF Place, Over
      <3>3. OutCursor' = OutPos(i + 1)
        BY <1>3, <3>1, <3>2 DEF OutCursor, OutPos
      <3>4. at' \in Nat /\ at <= at' /\ at' % Sector = 0
        <4>1. at' \in Nat /\ at <= at'
          BY <1>5, <1>6, <3>1
        <4>2. QED
          BY <1>5, <1>6, <3>1, <4>1, SumWhole
      <3>5. Target'
        <4>1. at' <= OutPos(i + 1) /\ (~nomem => at' = OutPos(i + 1))
          BY <1>5, <1>6, <1>7, <3>1
        <4>2. QED
          BY <1>3, <3>3, <3>4, <4>1 DEF Target
      <3>6. Written'
        <4>1. ASSUME ~spoiled', ~nomem'
              PROVE  /\ disk' = [s \in Sectors |-> disk'[s]]
                     /\ \A s \in Sectors :
                          disk'[s] = IF at <= s * Sector /\ s * Sector < at' THEN Expand[s] ELSE disk[s]
          <5>1. /\ disk = [s \in Sectors |-> IF s * Sector < at THEN Expand[s] ELSE Old]
                /\ at = OutPos(i) /\ at' = OutPos(i + 1)
            BY <1>3, <1>5, <1>6, <3>1, <4>1 DEF DInv, Written
          <5>2. \A s \in Sectors : s * Sector \in Nat
            BY <1>2, SectorPlaces
          <5>3. ASSUME NEW s \in Sectors, at <= s * Sector, s * Sector < at'
                PROVE  disk[s] = Expand[s]
            <6>1. Expand[s] = Old
              BY <1>2, <3>1, <5>1, <5>3, Expands
            <6>2. ~(s * Sector < at)
              BY <1>5, <5>2, <5>3
            <6>3. QED
              BY <5>1, <6>1, <6>2
          <5>4. QED
            BY <1>3, <5>1, <5>3
        <4>2. QED
          BY <1>3, <3>4, <4>1, Grows
      <3>7. Finished'
        BY <2>3 DEF Finished
      <3>8. QED
        BY <1>1, <3>5, <3>6, <3>7 DEF DInv
    <2>4. QED
      BY <2>1, <2>2, <2>3
  <1>10. QED
    BY <1>8, <1>9, <1>11

\* Sectors cut from the buffer are the sectors of the stream.
LEMMA CutSector ==
  ASSUME SInv, ~Over, ~spoiled, NEW k \in Nat, NEW n \in Nat, (k + 1) * Sector <= n, n <= Live,
         n <= StreamLen - Cursor
  PROVE  SubSeq(buf, index + k * Sector + 1, index + (k + 1) * Sector)
           = [b \in 1 .. Sector |-> Cursor + k * Sector + b - 1]
  <1> DEFINE o == k * Sector
             m == index + o + 1
             z == index + (k + 1) * Sector
             t == SubSeq(buf, m, z)
  <1>1. Sector \in Nat \ {0} /\ o \in Nat /\ (k + 1) * Sector = o + Sector
    BY Sizes
  <1>2. /\ buf \in Seq(Int) /\ Len(buf) \in Nat /\ index \in Nat /\ Live \in Nat
        /\ index + Live = Len(buf) /\ Cursor \in Nat /\ StreamLen \in Nat
    BY LiveType, CursorAt, Ends DEF SInv, TypeOK
  <1> HIDE DEF o
  <1>3. o + Sector <= Live /\ o + Sector <= StreamLen - Cursor
    BY <1>1, <1>2
  <1>4. /\ m \in Int /\ z \in Int /\ m >= 1 /\ z <= Len(buf) /\ m <= z /\ z - m + 1 = Sector
        /\ \A b \in 1 .. Sector : m + b - 1 = index + (o + b)
    BY <1>1, <1>2, <1>3
  <1> HIDE DEF m, z
  <1>5. \A j \in m .. z : buf[j] \in Int
    <2>1. \A j \in m .. z : j \in 1 .. Len(buf)
      BY <1>2, <1>4
    <2>2. QED
      BY <1>2, <2>1, ElementOfSeq
  <1>6. /\ t \in Seq(Int)
        /\ Len(t) = IF m <= z THEN z - m + 1 ELSE 0
        /\ \A j \in 1 .. z - m + 1 : t[j] = buf[m + j - 1]
    BY SMTT(30), <1>4, <1>5, SubSeqProperties
  <1>7. t \in Seq(Int) /\ Len(t) = Sector /\ \A b \in 1 .. Sector : t[b] = buf[m + b - 1]
    BY <1>4, <1>6
  <1>8. \A b \in 1 .. Sector : t[b] = Cursor + o + b - 1
    <2>1. SUFFICES ASSUME NEW b \in 1 .. Sector PROVE t[b] = Cursor + o + b - 1
      OBVIOUS
    <2>2. m + b - 1 = index + (o + b) /\ Cursor + (o + b) - 1 = Cursor + o + b - 1
      BY <1>1, <1>2, <1>4
    <2>3. o + b \in 1 .. Live /\ Cursor + (o + b) - 1 < StreamLen
      BY <1>1, <1>2, <1>3
    <2>4. buf[index + (o + b)] = Cursor + (o + b) - 1
      BY <2>3 DEF SInv, Contents
    <2>5. QED
      BY <1>7, <2>2, <2>4
  <1> HIDE DEF t
  <1>9. t = [b \in 1 .. Sector |-> t[b]]
    BY <1>7
  <1>10. t = [b \in 1 .. Sector |-> Cursor + o + b - 1]
    BY <1>8, <1>9
  <1>11. QED
    BY <1>10 DEF o, t, m, z

LEMMA OutPut ==
  ASSUME DInv, Put
  PROVE  DInv'
  <1> DEFINE n == IF Live > len THEN len ELSE Live
             count == n \div Sector
             got == [k \in 1 .. count |->
                      SubSeq(buf, index + (k - 1) * Sector + 1, index + k * Sector)]
             p == Payload(img, img.chunks[i])
             q == at \div Sector
  <1>1. SInv /\ SInv' /\ pc = "put" /\ TypeOK /\ Places
    BY InvPut DEF DInv, SInv, Put
  <1>2. Place = "put" /\ ~Over /\ i \in Chunks /\ img \in Images /\ img.chunks[i].type = "raw"
    BY <1>1 DEF Place, Over, Places, TypeOK
  <1>3. /\ UNCHANGED <<img, i, nomem>> /\ pc' = "raw"
        /\ len' = len - count * Sector /\ Write(got, count)
    BY DEF Put
  <1>4. len \in Nat /\ len % Sector = 0 /\ len <= p /\ at \in Nat
    BY <1>1, <1>2 DEF Places, TypeOK
  <1>5. n \in Nat /\ n <= len /\ n <= Live
    BY <1>1, <1>4, LiveType
  <1> HIDE DEF n
  <1>6. count \in Nat /\ count * Sector \in Nat /\ count * Sector <= n
    BY <1>5, SectorsOf
  <1> HIDE DEF count, got
  <1>7. /\ p \in Nat /\ OutPos(i) \in Nat /\ ChunkPos(i) \in Nat
        /\ OutPos(i + 1) \in Nat /\ OutPos(i + 1) = OutPos(i) + p
    <2>1. /\ p \in Nat /\ OutPos(i + 1) = OutPos(i) + p
          /\ i \in 1 .. Len(img.chunks) + 1 /\ i + 1 \in 1 .. Len(img.chunks) + 1
      BY <1>1, <1>2, ChunkFacts DEF TypeOK
    <2>2. QED
      BY <1>2, <2>1, Ends
  <1>8. OutCursor = OutPos(i + 1) - len
    BY <1>2 DEF OutCursor
  <1>9. at <= OutPos(i + 1) - len /\ (~nomem => at = OutPos(i + 1) - len) /\ at % Sector = 0
    BY <1>2, <1>8 DEF DInv, Target
  <1>10. /\ at' = at + count * Sector /\ at' \in Nat
         /\ spoiled' \in BOOLEAN /\ (spoiled => spoiled')
    BY <1>1, <1>3, <1>6, Writes
  <1>11. Target'
    <2>1. Place' = "raw"
      BY <1>3 DEF Place
    <2>2. OutCursor' = OutPos(i + 1) - len'
      BY <1>3, <2>1 DEF OutCursor, OutPos
    <2>3. at' <= OutPos(i + 1) - len' /\ (~nomem => at' = OutPos(i + 1) - len')
      BY <1>3, <1>4, <1>6, <1>7, <1>9, <1>10
    <2>4. at' % Sector = 0
      <3>1. (count * Sector) % Sector = 0
        BY <1>6, Sizes
      <3>2. QED
        BY <1>4, <1>6, <1>9, <1>10, <3>1, SumWhole
    <2>5. QED
      BY <1>3, <2>2, <2>3, <2>4 DEF Target
  <1>12. Written'
    <2>1. ASSUME ~spoiled', ~nomem'
          PROVE  /\ disk' = [s \in Sectors |-> disk'[s]]
                 /\ \A s \in Sectors :
                      disk'[s] = IF at <= s * Sector /\ s * Sector < at' THEN Expand[s] ELSE disk[s]
      <3>1. /\ disk' = [s \in Sectors |-> disk'[s]]
            /\ \A s \in Sectors :
                 disk'[s] = IF at <= s * Sector /\ s * Sector < at' THEN got[s - q + 1] ELSE disk[s]
        BY <1>1, <1>3, <1>6, <1>9, <2>1, Lands
      <3>2. ASSUME NEW s \in Sectors, at <= s * Sector, s * Sector < at'
            PROVE  got[s - q + 1] = Expand[s]
        <4> DEFINE k == s - q
                   x == s * Sector
        <4>1. s \in Nat /\ x \in Nat
          BY <1>2, SectorPlaces
        <4>2. k + 1 \in 1 .. count /\ ((k + 1) - 1) * Sector = x - at
          <5>1. s \in q .. q + count - 1
            BY <1>4, <1>6, <1>9, <1>10, <3>2, <4>1, RunOfSectors
          <5>2. QED
            BY <1>4, <1>6, <1>9, <4>1, <5>1, RunOfSectors
        <4>3. q \in Nat
          BY <1>4, SectorsOf
        <4>4. k \in Nat /\ (k + 1) - 1 = k
          BY <1>6, <4>1, <4>2, <4>3
        <4>5. k * Sector = x - at
          BY <4>2, <4>4
        <4> HIDE DEF k, q
        <4>6. (k + 1) * Sector <= n
          <5>1. (k + 1) * Sector <= count * Sector /\ (k + 1) * Sector \in Nat
            BY <1>6, <4>2, <4>4, Sizes
          <5>2. QED
            BY <1>5, <1>6, <5>1
        <4>7. Cursor = ChunkPos(i) + ChunkLen + p - len /\ len <= StreamLen - Cursor /\ Cursor \in Nat
          <5>1. Cursor = ChunkPos(i) + ChunkLen + p - len
            BY <1>2 DEF Cursor
          <5>2. QED
            BY <1>1, <1>2, <5>1, CursorAt
        <4>8. n <= StreamLen - Cursor
          <5>1. StreamLen \in Nat
            BY <1>2, Ends
          <5>2. QED
            BY <1>4, <1>5, <4>7, <5>1
        <4>9. ~spoiled /\ ~nomem
          BY <1>3, <1>10, <2>1
        <4>10. SubSeq(buf, index + k * Sector + 1, index + (k + 1) * Sector)
                 = [b \in 1 .. Sector |-> Cursor + k * Sector + b - 1]
          BY <1>1, <1>2, <1>5, <4>4, <4>6, <4>8, <4>9, CutSector
        <4>11. got[k + 1] = SubSeq(buf, index + k * Sector + 1, index + (k + 1) * Sector)
          <5>1. got[k + 1] = SubSeq(buf, index + ((k + 1) - 1) * Sector + 1, index + (k + 1) * Sector)
            BY <4>2 DEF got
          <5>2. QED
            BY <4>4, <5>1
        <4> DEFINE data == ChunkPos(i) + ChunkLen
        <4> HIDE DEF x
        <4>12. Cursor + k * Sector = data + (x - OutPos(i))
          <5>1. at = OutPos(i) + p - len
            BY <1>4, <1>7, <1>9, <4>9
          <5> DEFINE d == k * Sector
          <5>2. d = x - at
            BY <4>5
          <5> HIDE DEF d
          <5>3. Cursor + d = data + (x - OutPos(i))
            BY <1>4, <1>7, <4>1, <4>7, <5>1, <5>2, Sizes
          <5>4. QED
            BY <5>3 DEF d
        <4>13. OutPos(i) <= x /\ x < OutPos(i + 1)
          BY <1>4, <1>5, <1>6, <1>7, <1>9, <1>10, <3>2, <4>1, <4>9 DEF x
        <4>14. Expand[s] = [b \in 1 .. Sector |-> data + (x - OutPos(i)) + b - 1]
          BY <1>2, <4>13, Expands DEF x
        <4>15. got[k + 1] = Expand[s]
          BY <4>10, <4>11, <4>12, <4>14
        <4>16. QED
          BY <4>15 DEF k
      <3>3. QED
        BY <3>1, <3>2
    <2>2. at <= at'
      BY <1>4, <1>6, <1>10
    <2>3. QED
      BY <1>3, <1>10, <2>1, <2>2, Grows
  <1>13. Finished'
    BY <1>3 DEF Finished
  <1>14. QED
    BY <1>1, <1>11, <1>12, <1>13 DEF DInv

\* A value in the buffer is the value of the stream.
LEMMA TakenValue ==
  ASSUME SInv, ~Over, ~spoiled, NEW n \in Nat, n <= Live, n <= StreamLen - Cursor
  PROVE  \A b \in 1 .. n : Taken(n)[b] = Cursor + b - 1
  <1> DEFINE m == index + 1
             z == index + n
  <1>1. /\ buf \in Seq(Int) /\ Len(buf) \in Nat /\ index \in Nat /\ Live \in Nat
        /\ index + Live = Len(buf) /\ Cursor \in Nat /\ StreamLen \in Nat
    BY LiveType, CursorAt, Ends DEF SInv, TypeOK
  <1>2. /\ m \in Int /\ z \in Int /\ m >= 1 /\ z <= Len(buf) /\ z - m + 1 = n
        /\ \A b \in 1 .. n : m + b - 1 = index + b
    BY <1>1
  <1>3. Taken(n) = SubSeq(buf, m, z)
    BY DEF Taken
  <1> HIDE DEF m, z
  <1>4. \A j \in m .. z : buf[j] \in Int
    <2>1. \A j \in m .. z : j \in 1 .. Len(buf)
      BY <1>1, <1>2
    <2>2. QED
      BY <1>1, <2>1, ElementOfSeq
  <1>5. \A j \in 1 .. z - m + 1 : SubSeq(buf, m, z)[j] = buf[m + j - 1]
    BY <1>2, <1>4, SubSeqProperties
  <1>6. SUFFICES ASSUME NEW b \in 1 .. n PROVE Taken(n)[b] = Cursor + b - 1
    OBVIOUS
  <1>7. b \in 1 .. Live /\ Cursor + b - 1 < StreamLen
    BY <1>1
  <1>8. buf[index + b] = Cursor + b - 1
    BY <1>7 DEF SInv, Contents
  <1>9. QED
    BY <1>2, <1>3, <1>5, <1>8

LEMMA OutValueTaken ==
  ASSUME DInv, ValueTaken
  PROVE  DInv'
  <1> DEFINE c == img.chunks[i]
             q == at \div Sector
             count == FillCount(c)
             sector == [b \in 1 .. Sector |-> Taken(ValueLen)[((b - 1) % ValueLen) + 1]]
             pattern == [k \in 1 .. count |-> sector]
  <1>1. SInv /\ SInv' /\ pc = "valuetaken" /\ TypeOK /\ Places
    BY InvValueTaken DEF DInv, SInv, ValueTaken
  <1>2. /\ Place = "valuetaken" /\ ~Over /\ i \in Chunks /\ img \in Images
        /\ c.type \in {"fill", "crc"} /\ len = ValueLen
    BY <1>1 DEF Place, Over, Places, TypeOK
  <1>3. img' = img /\ (c.type = "fill" => ~c.bogus)
    BY <1>1, <1>2 DEF ValueTaken, Places
  <1>4. OutCursor = OutPos(i)
    BY <1>2 DEF OutCursor
  <1>5. at <= OutPos(i) /\ (~nomem => at = OutPos(i)) /\ at % Sector = 0 /\ at \in Nat
    BY <1>1, <1>2, <1>4 DEF DInv, Target, TypeOK
  <1>6. /\ OutLen(img, c) \in Nat /\ OutLen(img, c) % Sector = 0
        /\ OutPos(i) \in Nat /\ OutPos(i + 1) \in Nat
        /\ OutPos(i + 1) = OutPos(i) + OutLen(img, c)
        /\ c.type = "crc" => OutLen(img, c) = 0
        /\ ChunkPos(i) \in Nat
        /\ ~c.bogus => ChunkPos(i + 1) = ChunkPos(i) + ChunkLen + ValueLen
    <2>1. /\ OutLen(img, c) \in Nat /\ OutLen(img, c) % Sector = 0
          /\ OutPos(i + 1) = OutPos(i) + OutLen(img, c)
          /\ c.type = "crc" => OutLen(img, c) = 0
          /\ ~c.bogus => ChunkPos(i + 1) = ChunkPos(i) + ChunkLen + ValueLen
          /\ i \in 1 .. Len(img.chunks) + 1 /\ i + 1 \in 1 .. Len(img.chunks) + 1
      BY <1>1, <1>2, ChunkFacts DEF TypeOK
    <2>2. QED
      BY <1>2, <2>1, Ends
  <1>7. CASE Live < ValueLen
    <2>1. /\ \/ pc' = "lost"
             \/ pc' = "done" /\ c.type = "crc" /\ i = Len(img.chunks) /\ i' = i + 1
          /\ UNCHANGED <<at, disk, spoiled, nomem>>
      BY <1>7 DEF ValueTaken, Done
    <2>2. Over'
      BY <2>1 DEF Over
    <2>3. pc' = "done" /\ ret' = 0 => i' = Len(img.chunks) + 1 /\ (~nomem => at = OutPos(i'))
      BY <1>5, <1>6, <2>1
    <2>4. QED
      BY <1>1, <1>3, <2>1, <2>2, <2>3, Unwritten DEF DInv
  <1>10. CASE ~(Live < ValueLen) /\ c.bogus
    <2>1. c.type = "crc"
      BY <1>2, <1>3, <1>10
    <2>2. /\ pc' = "lost" \/ (pc' = "done" /\ i = Len(img.chunks))
          /\ i' = i + 1 /\ UNCHANGED <<at, disk, spoiled, nomem>>
      BY <1>10, <2>1 DEF ValueTaken, NextChunk, Done
    <2>3. Over'
      BY <2>2 DEF Over
    <2>4. pc' = "done" /\ ret' = 0 => i' = Len(img.chunks) + 1 /\ (~nomem => at = OutPos(i'))
      BY <1>5, <1>6, <2>1, <2>2
    <2>5. QED
      BY <1>1, <1>3, <2>2, <2>3, <2>4, Unwritten DEF DInv
  <1>8. CASE ~(Live < ValueLen) /\ ~c.bogus
    <2>1. /\ pc' = "chunk" /\ i' = i + 1
          /\ \/ c.type = "crc" /\ UNCHANGED <<at, disk, spoiled, nomem>>
             \/ c.type = "fill" /\ Write(pattern, count) /\ nomem' = nomem
             \/ nomem' = TRUE /\ UNCHANGED <<at, disk, spoiled>>
      BY <1>8 DEF ValueTaken, NextChunk
    <2> HIDE DEF pattern
    <2>2. Place' = "chunk" /\ OutCursor' = OutPos(i + 1) /\ Finished'
      BY <1>3, <2>1 DEF Place, OutCursor, OutPos, Finished
    <2>3. CASE nomem' = TRUE /\ UNCHANGED <<at, disk, spoiled>>
      <3>1. Target'
        <4>1. at' <= OutPos(i + 1) /\ at' % Sector = 0
          BY <1>5, <1>6, <2>3
        <4>2. QED
          BY <2>2, <2>3, <4>1 DEF Target
      <3>2. Written'
        BY <2>3 DEF Written
      <3>3. QED
        BY <1>1, <2>2, <3>1, <3>2 DEF DInv
    <2>4. CASE c.type = "crc" /\ UNCHANGED <<at, disk, spoiled, nomem>>
      <3>1. OutCursor' = OutCursor
        BY <1>4, <1>6, <2>2, <2>4
      <3>2. pc' # "done"
        BY <2>1
      <3>3. QED
        BY <1>1, <1>2, <1>3, <2>4, <3>1, <3>2, Unwritten DEF DInv
    <2>5. CASE c.type = "fill" /\ Write(pattern, count) /\ nomem' = nomem
      <3>1. count \in Nat /\ count * Sector = OutLen(img, c)
        <4>1. Sector \in Nat \ {0}
          BY Sizes
        <4>2. QED
          BY <1>6, <4>1, Multiple, SectorsOf DEF FillCount
      <3> HIDE DEF count
      <3>2. /\ at' = at + count * Sector /\ at' \in Nat
            /\ spoiled' \in BOOLEAN /\ (spoiled => spoiled')
        BY <1>1, <2>5, <3>1, Writes
      <3>3. at' = at + OutLen(img, c) /\ at <= at'
        BY <1>5, <1>6, <3>1, <3>2
      <3>4. Target'
        <4>1. at' <= OutPos(i + 1) /\ (~nomem => at' = OutPos(i + 1))
          BY <1>5, <1>6, <3>3
        <4>2. at' % Sector = 0
          BY <1>5, <1>6, <3>3, SumWhole
        <4>3. QED
          BY <2>2, <2>5, <4>1, <4>2 DEF Target
      <3>5. Written'
        <4>1. ASSUME ~spoiled', ~nomem'
              PROVE  /\ disk' = [s \in Sectors |-> disk'[s]]
                     /\ \A s \in Sectors :
                          disk'[s] = IF at <= s * Sector /\ s * Sector < at' THEN Expand[s] ELSE disk[s]
          <5>1. /\ disk' = [s \in Sectors |-> disk'[s]]
                /\ \A s \in Sectors :
                     disk'[s] = IF at <= s * Sector /\ s * Sector < at' THEN pattern[s - q + 1] ELSE disk[s]
            BY <1>1, <1>5, <2>5, <3>1, <4>1, Lands
          <5>2. ~spoiled /\ ~nomem
            BY <2>5, <3>2, <4>1
          <5>3. Cursor = ChunkPos(i) + ChunkLen /\ ValueLen <= StreamLen - Cursor /\ Cursor \in Nat
            <6>1. Cursor = ChunkPos(i + 1) - len /\ len <= StreamLen - Cursor /\ Cursor \in Nat
              BY <1>1, <1>2, <1>8, CursorAt
            <6>2. QED
              BY <1>2, <1>6, <1>8, <6>1, Sizes
          <5>4. ValueLen \in Nat \ {0} /\ ValueLen <= Live
            BY <1>1, <1>8, LiveType, Sizes
          <5>5. \A b \in 1 .. ValueLen : Taken(ValueLen)[b] = Cursor + b - 1
            BY <1>1, <1>2, <5>2, <5>3, <5>4, TakenValue
          <5>6. sector = FillSector(ChunkPos(i) + ChunkLen)
            <6>1. \A b \in 1 .. Sector :
                    Taken(ValueLen)[((b - 1) % ValueLen) + 1] = Cursor + ((b - 1) % ValueLen)
              <7>1. SUFFICES ASSUME NEW b \in 1 .. Sector
                             PROVE  Taken(ValueLen)[((b - 1) % ValueLen) + 1]
                                      = Cursor + ((b - 1) % ValueLen)
                OBVIOUS
              <7> DEFINE r == (b - 1) % ValueLen
              <7>2. r \in 0 .. ValueLen - 1
                <8>1. b - 1 \in Int
                  BY Sizes
                <8>2. QED
                  BY ONLY <5>4, <8>1, Division
              <7> HIDE DEF r
              <7>3. r + 1 \in 1 .. ValueLen /\ Cursor + (r + 1) - 1 = Cursor + r
                BY <5>3, <5>4, <7>2
              <7>4. Taken(ValueLen)[r + 1] = Cursor + r
                BY <5>5, <7>3
              <7>5. QED
                BY <7>4 DEF r
            <6>2. QED
              BY <5>3, <6>1 DEF FillSector
          <5> HIDE DEF sector
          <5>7. ASSUME NEW s \in Sectors, at <= s * Sector, s * Sector < at'
                PROVE  pattern[s - q + 1] = Expand[s]
            <6>1. s \in Nat
              BY <1>2, SectorPlaces
            <6>2. s - q + 1 \in 1 .. count
              <7>1. s \in q .. q + count - 1
                BY <1>5, <3>1, <3>2, <5>7, <6>1, RunOfSectors
              <7>2. QED
                BY <1>5, <3>1, <6>1, <7>1, RunOfSectors
            <6>3. pattern[s - q + 1] = sector
              BY <6>2 DEF pattern
            <6>4. at = OutPos(i) /\ at' = OutPos(i + 1)
              BY <1>5, <1>6, <3>3, <5>2
            <6>5. Expand[s] = FillSector(ChunkPos(i) + ChunkLen)
              BY <1>2, <2>5, <5>7, <6>4, Expands
            <6>6. QED
              BY <5>6, <6>3, <6>5
          <5>8. QED
            BY <5>1, <5>7
        <4>2. QED
          BY <1>3, <2>5, <3>2, <3>3, <4>1, Grows
      <3>6. QED
        BY <1>1, <2>2, <3>4, <3>5 DEF DInv
    <2>6. QED
      BY <2>1, <2>3, <2>4, <2>5
  <1>9. QED
    BY <1>7, <1>8, <1>10

LEMMA OutInit == Init => DInv
  <1> SUFFICES ASSUME Init PROVE DInv
    OBVIOUS
  <1>1. SInv /\ img \in Images
    BY InvInit DEF Init
  <1>2. at = 0 /\ OutCursor = 0 /\ pc = "start" /\ disk = [s \in Sectors |-> Old]
    BY DEF Init, OutCursor, Place
  <1>3. Target
    <2>1. 0 % Sector = 0
      BY Sizes
    <2>2. QED
      BY <1>2, <2>1 DEF Target
  <1>4. Written
    <2>1. \A s \in Sectors : ~(s * Sector < 0)
      <3>1. \A s \in Sectors : s * Sector \in Nat
        BY <1>1, SectorPlaces
      <3>2. QED
        BY <3>1
    <2>2. QED
      BY <1>2, <2>1 DEF Written
  <1>5. Finished
    BY <1>2 DEF Finished
  <1>6. QED
    BY <1>1, <1>3, <1>4, <1>5 DEF DInv

LEMMA OutStutter ==
  ASSUME DInv, UNCHANGED vars
  PROVE  DInv'
  <1>1. SInv'
    BY InvStutter DEF DInv
  <1>2. UNCHANGED <<img, pc, after, i, len, at, disk, ret, spoiled, nomem>>
    BY DEF vars
  <1>3. (Over' <=> Over) /\ OutCursor' = OutCursor
    BY <1>2 DEF Over, OutCursor, OutPos, Place
  <1>4. Target'
    BY <1>2, <1>3 DEF DInv, Target
  <1>5. Written'
    BY <1>2, SameImage DEF DInv, Written
  <1>6. Finished'
    BY <1>2 DEF DInv, Finished, OutPos
  <1>7. QED
    BY <1>1, <1>4, <1>5, <1>6 DEF DInv

LEMMA OutAlways == Spec => []DInv
  <1>1. DInv /\ [Next]_vars => DInv'
    BY OutStutter, OutBurn, OutRead, OutHeader, OutChunk, OutChunkHeader, OutRaw, OutPut,
       OutValue, OutValueTaken DEF Next
  <1>2. QED
    BY <1>1, OutInit, PTL DEF Spec

\* A burn that returns 0 without a failing device and with memory for its
\* fills has written the image's sectors, all of them and no other
\* (sparse_burn, sparse.c:387-490).
THEOREM BurnsTheImage == Spec => []Decoded
  <1>1. DInv => Decoded
    <2>1. SUFFICES ASSUME DInv, pc = "done", ret = 0, ~spoiled, ~nomem PROVE disk = Expand
      BY DEF Decoded
    <2>2. img \in Images /\ disk = [s \in Sectors |-> IF s * Sector < at THEN Expand[s] ELSE Old]
      BY <2>1 DEF DInv, SInv, TypeOK, Written
    <2>3. at = OutPos(Len(img.chunks) + 1)
      BY <2>1 DEF DInv, Finished
    <2>4. \A s \in Sectors : disk[s] = Expand[s]
      BY <2>2, <2>3, ExpandsEnd
    <2>5. Expand = [s \in Sectors |-> Expand[s]] /\ disk = [s \in Sectors |-> disk[s]]
      <3>1. disk = [s \in Sectors |-> disk[s]]
        BY <2>2
      <3>2. Expand = [s \in Sectors |-> Expand[s]]
        BY DEF Expand
      <3>3. QED
        BY <3>1, <3>2
    <2>6. QED
      BY <2>4, <2>5
  <1>2. QED
    BY <1>1, OutAlways, PTL

---------------------------------------------------------------------------
(* The range of the target.                                                *)

\* The place in the target is never behind the end of the image.
Inside ==
  ~Over => /\ at \in Nat /\ OutPos(Len(img.chunks) + 1) \in Nat
           /\ at <= OutPos(Len(img.chunks) + 1)

LEMMA AtMostTheEnd == DInv => Inside
  <1> SUFFICES ASSUME DInv, ~Over
               PROVE  /\ at \in Nat /\ OutPos(Len(img.chunks) + 1) \in Nat
                      /\ at <= OutPos(Len(img.chunks) + 1)
    BY DEF Inside
  <1> DEFINE z == OutPos(Len(img.chunks) + 1)
  <1>1. /\ img \in Images /\ at \in Nat /\ len \in Nat
        /\ i \in 1 .. Len(img.chunks) + 1 /\ at <= OutCursor
    BY DEF DInv, SInv, TypeOK, Target
  <1>2. z \in Nat /\ OutPos(i) \in Nat /\ OutPos(i) <= z
    BY <1>1, Ends
  <1>3. CASE Place \in {"start", "header"}
    <2>1. OutCursor = 0
      BY <1>3 DEF OutCursor
    <2>2. QED
      BY <1>1, <1>2, <2>1
  <1>4. CASE Place \in {"raw", "put"}
    <2>1. OutCursor = OutPos(i + 1) - len
      BY <1>4 DEF OutCursor
    <2>2. i \in Chunks
      BY <1>4 DEF DInv, SInv, Places
    <2>3. i + 1 \in 1 .. Len(img.chunks) + 1
      BY <1>1, <2>2, ChunkFacts
    <2>4. OutPos(i + 1) \in Nat /\ OutPos(i + 1) <= z
      BY <1>1, <2>3, Ends
    <2> HIDE DEF z
    <2>5. at \in Nat /\ z \in Nat /\ at <= z
      BY <1>1, <1>2, <2>1, <2>4
    <2>6. QED
      BY <2>5 DEF z
  <1>5. CASE Place \notin {"start", "header", "raw", "put"}
    <2>1. OutCursor = OutPos(i)
      BY <1>5 DEF OutCursor
    <2>2. QED
      BY <1>1, <1>2, <2>1
  <1>6. QED
    BY <1>3, <1>4, <1>5

\* A sector that changes lies behind the place in the target it is written
\* to, and before the next one.
LEMMA Changes ==
  ASSUME DInv, Inside', img' = img, ~Over, ~Over',
         NEW sector, NEW count \in Nat, Write(sector, count),
         NEW s \in Sectors, disk'[s] # disk[s]
  PROVE  s * Sector < OutPos(Len(img.chunks) + 1)
  <1>1. TypeOK /\ at % Sector = 0 /\ img \in Images
    BY DEF DInv, SInv, TypeOK, Target
  <1>2. s * Sector < at'
    BY <1>1, Lands
  <1>3. at' \in Nat /\ OutPos(Len(img.chunks) + 1) \in Nat /\ at' <= OutPos(Len(img.chunks) + 1)
    <2>1. at' \in Nat /\ OutPos(Len(img.chunks) + 1)' \in Nat
            /\ at' <= OutPos(Len(img.chunks) + 1)'
      BY DEF Inside
    <2>2. OutPos(Len(img.chunks) + 1)' = OutPos(Len(img.chunks) + 1)
      BY DEF OutPos
    <2>3. QED
      BY <2>1, <2>2
  <1>4. s * Sector \in Nat
    BY <1>1, SectorPlaces
  <1> DEFINE x == s * Sector
  <1> HIDE DEF x
  <1>5. x \in Nat /\ x < at'
    BY <1>2, <1>4 DEF x
  <1>6. x < OutPos(Len(img.chunks) + 1)
    BY <1>3, <1>5
  <1>7. QED
    BY <1>6 DEF x

\* No step writes a sector of the target behind the end of the image, whether
\* reads and writes fail or not (write_data_to_disk, sparse.c:163-253).
THEOREM TargetRespected == Spec => StaysInTarget
  <1> DEFINE Within == \A s \in Sectors : disk'[s] # disk[s] =>
                         s * Sector < OutPos(Len(img.chunks) + 1)
  <1>1. ASSUME DInv, Inside', [Next]_vars PROVE [Within]_vars
    <2>1. CASE Put
      <3> DEFINE n == IF Live > len THEN len ELSE Live
                 count == n \div Sector
                 got == [k \in 1 .. count |->
                          SubSeq(buf, index + (k - 1) * Sector + 1, index + k * Sector)]
      <3>1. Write(got, count) /\ img' = img /\ pc = "put" /\ pc' = "raw"
        BY <2>1 DEF Put
      <3>2. n \in Nat
        <4>1. TypeOK /\ len \in Nat
          BY <1>1 DEF DInv, SInv, TypeOK
        <4>2. QED
          BY <4>1, LiveType
      <3> HIDE DEF n
      <3>3. count \in Nat
        BY <3>2, SectorsOf
      <3> HIDE DEF count, got
      <3>4. ~Over /\ ~Over'
        BY <3>1 DEF Over
      <3>5. QED
        BY <1>1, <3>1, <3>3, <3>4, Changes
    <2>2. CASE ValueTaken
      <3> DEFINE c == img.chunks[i]
                 count == FillCount(c)
                 pattern == [k \in 1 .. count |->
                    [b \in 1 .. Sector |-> Taken(ValueLen)[((b - 1) % ValueLen) + 1]]]
      <3>1. pc = "valuetaken" /\ img' = img
        BY <2>2 DEF ValueTaken
      <3>7. c.type = "fill" => ~c.bogus
        BY <1>1, <3>1 DEF DInv, SInv, Places, Place
      <3>2. disk' = disk \/ (pc' = "chunk" /\ Write(pattern, count))
        BY <2>2, <3>7 DEF ValueTaken, NextChunk
      <3>3. count \in Nat
        <4>1. TypeOK /\ Places /\ img \in Images
          BY <1>1 DEF DInv, SInv, TypeOK
        <4>2. i \in Chunks
          BY <3>1, <4>1 DEF Places, Place
        <4>3. OutLen(img, c) \in Nat
          BY <4>1, <4>2, ChunkFacts
        <4>4. QED
          BY <4>3, SectorsOf DEF FillCount
      <3> HIDE DEF count, pattern
      <3>4. CASE disk' = disk
        BY <3>4
      <3>5. CASE pc' = "chunk" /\ Write(pattern, count)
        <4>1. ~Over /\ ~Over'
          BY <3>1, <3>5 DEF Over
        <4>2. QED
          BY <1>1, <3>1, <3>3, <3>5, <4>1, Changes
      <3>6. QED
        BY <3>2, <3>4, <3>5
    <2>3. CASE sparse_burn \/ ReadStep \/ Header \/ Chunk \/ ChunkHeader \/ Raw \/ Value
      <3>1. disk' = disk
        BY <2>3 DEF sparse_burn, ReadStep, Header, Chunk, ChunkHeader, Raw, Value
      <3>2. QED
        BY <3>1
    <2>4. QED
      BY <1>1, <2>1, <2>2, <2>3 DEF Next
  <1>2. QED
    BY <1>1, AtMostTheEnd, OutAlways, PTL DEF Spec, StaysInTarget

---------------------------------------------------------------------------
(* Which images lose the decoder.                                          *)

\* What the decoder must find in the buffer.
Need ==
  CASE Place = "header" -> HeaderLen
    [] Place = "chunkheader" -> ChunkLen
    [] Place = "valuetaken" -> ValueLen
    [] OTHER -> 0

\* Without a failure the loop asks for what is needed, and ends with it or
\* with a card that starves the decoder.
Fed ==
  ioerr = 0 =>
    /\ ~spoiled
    /\ pc = "read" => Live + stillto >= Need
    /\ pc \in {"header", "chunkheader", "valuetaken"} => Live >= Need \/ Starved

\* What is behind the decoder was well formed.
Sound ==
  ~Over =>
    /\ ret = 0
    /\ Place \notin {"start", "header"} =>
         img.valid /\ \A k \in 1 .. i - 1 : ~img.chunks[k].bogus

LInv == SInv /\ Fed /\ Sound /\ LostOnlyAstray

\* A request for n bytes begins with them, or with a loop that asks for them.
LEMMA Begins ==
  ASSUME TypeOK, NEW want \in Nat, NEW n \in Nat, n <= want, n <= Sector,
         n <= Live + remain, NEW k, k # "read", Begun(want, k)
  PROVE  /\ pc' = "read" => Live' + stillto' >= n
         /\ pc' = k => Live' >= n
  <1>1. /\ Live \in Nat /\ remain \in Int /\ stillto' \in Nat /\ Live' = Live - 0
        /\ Sector \in Nat /\ Step \in Nat /\ Sector <= Step /\ BufSize \in Nat
        /\ 2 * Step <= BufSize
    <2>1. Live \in Nat /\ remain \in Int
      BY LiveType DEF TypeOK
    <2>2. stillto' \in Nat /\ Live' = Live - 0
      BY DEF Begun, Kept
    <2>3. QED
      BY <2>1, <2>2, Sizes
  <1>2. CASE AtOnce /\ pc' = k
    <2>1. Live >= Sector
      BY <1>1, <1>2 DEF AtOnce
    <2>2. Live' >= n
      BY <1>1, <2>1
    <2>3. QED
      BY <1>2, <2>2, Zenon
  <1>3. CASE pc' = "read" /\ (stillto' = remain \/ stillto' >= want \/ stillto' >= Step)
    <2> DEFINE w == stillto'
               l == Live'
    <2>1. w \in Nat /\ l = Live - 0 /\ (w = remain \/ w >= want \/ w >= Step)
      BY <1>1, <1>3
    <2> HIDE DEF w, l
    <2>2. l + w >= n
      BY <1>1, <2>1
    <2>3. QED
      BY <1>3, <2>2, Zenon DEF w, l
  <1>4. QED
    BY <1>2, <1>3 DEF Begun

\* The same where the bytes may be in the buffer already.
LEMMA Ensures ==
  ASSUME TypeOK, NEW n \in Nat \ {0}, n <= Sector, n <= Live + remain,
         NEW k, k # "read", Ensure(n, k)
  PROVE  /\ pc' = "read" => Live' + stillto' >= n
         /\ pc' = k => Live' >= n
  <1>1. Live \in Nat /\ remain \in Int /\ n <= n
    BY LiveType DEF TypeOK
  <1>2. CASE Live < n
    <2>1. GetData(n, k) /\ remain > 0
      BY <1>1, <1>2 DEF Ensure
    <2>2. Begun(n, k)
      BY <2>1, Gathers
    <2>3. QED
      BY <1>1, <2>2, Begins
  <1>3. CASE ~(Live < n)
    <2>1. pc' = k /\ UNCHANGED buffer
      BY <1>3 DEF Ensure
    <2>2. Live' = Live
      BY <2>1 DEF Live, buffer
    <2>3. Live' >= n
      BY <1>1, <1>3, <2>2
    <2>4. QED
      BY <2>1, <2>3
  <1>4. QED
    BY <1>2, <1>3

\* What is not in the buffer is left in the package.
LEMMA Rest ==
  ASSUME SInv, ~Over
  PROVE  /\ Live + remain = StreamLen - Cursor /\ Live \in Nat
         /\ Cursor \in Nat /\ StreamLen \in Nat
  <1>1. TypeOK /\ Places /\ Supply
    BY DEF SInv
  <1>2. Cursor \in Nat /\ Live \in Nat /\ StreamLen \in Nat
    BY <1>1, CursorAt, LiveType, Ends DEF TypeOK
  <1>3. remain = StreamLen - (Cursor + Live)
    BY <1>1 DEF Supply
  <1>4. QED
    BY <1>2, <1>3

\* Bytes of the stream are not garbled.
LEMMA Legible ==
  ASSUME SInv, ~Over, ~spoiled, NEW n \in Nat, n <= Live, n <= StreamLen - Cursor
  PROVE  ~Garbled(n)
  <1>1. \A b \in 1 .. n : Taken(n)[b] = Cursor + b - 1
    BY TakenValue
  <1>2. \A b \in 1 .. n : Cursor + b - 1 # Junk
    BY Rest DEF Junk
  <1>3. QED
    BY <1>1, <1>2 DEF Garbled

\* A decoder that goes on where it needs nothing, in an image that is well
\* formed so far.
LEMMA Continues ==
  ASSUME SInv', ~Over', pc' # "read", pc' \notin {"header", "chunkheader", "valuetaken"},
         ioerr' = 0 => ~spoiled', Sound'
  PROVE  LInv'
  <1>1. Fed'
    BY DEF Fed
  <1>2. LostOnlyAstray'
    BY DEF LostOnlyAstray
  <1>3. QED
    BY <1>1, <1>2 DEF LInv

LEMMA FedBurn ==
  ASSUME LInv, sparse_burn
  PROVE  LInv'
  <1>1. SInv /\ SInv' /\ TypeOK /\ Places /\ pc = "start"
    BY InvBurn DEF LInv, SInv, sparse_burn
  <1>2. Place = "start" /\ ~Over
    BY <1>1 DEF Place, Over
  <1>3. HeaderLen <= StreamLen - Cursor
    BY <1>1, <1>2, CursorAt
  <1>4. /\ HeaderLen \in Nat \ {0} /\ HeaderLen <= Sector /\ HeaderLen <= BufSize
        /\ BufSize \in Nat \ {0}
    BY Sizes
  <1>5. HeaderLen <= Live + remain /\ remain > 0
    <2>1. Live = 0 /\ remain \in Int
      BY <1>1 DEF Places, TypeOK
    <2>2. QED
      BY <1>1, <1>2, <1>3, <1>4, <2>1, Rest
  <1>6. Begun(BufSize, "header")
    BY <1>1, <1>4, <1>5, Gathers DEF sparse_burn
  <1>7. /\ pc' = "read" => Live' + stillto' >= HeaderLen
        /\ pc' = "header" => Live' >= HeaderLen
    BY <1>1, <1>4, <1>5, <1>6, Begins
  <1>8. pc' \in {"header", "read"} /\ Place' = "header"
    BY GoesTo DEF sparse_burn
  <1>9. Need' = HeaderLen
    BY <1>8 DEF Need
  <1>10. UNCHANGED <<ret, spoiled, ioerr>>
    BY DEF sparse_burn
  <1>11. Fed'
    BY <1>7, <1>8, <1>9, <1>10 DEF LInv, Fed
  <1>12. Sound' /\ LostOnlyAstray'
    BY <1>2, <1>8, <1>10 DEF LInv, Sound, LostOnlyAstray, Over
  <1>13. QED
    BY <1>1, <1>11, <1>12 DEF LInv

\* A round without a failure spoils nothing.
LEMMA Unspoiled ==
  ASSUME SInv, NEW bad, Delivered(bad), ioerr' = 0
  PROVE  ioerr = 0 /\ bad = {} /\ (~spoiled => ~spoiled')
  <1>1. TypeOK /\ ioerr \in Nat /\ ius_offs \in Nat
    BY SparseAssumption DEF SInv, TypeOK
  <1>2. ioerr' = ioerr + Cardinality(bad) /\ (bad = {} \/ \E p : bad = {p})
    BY DEF Delivered, Round
  <1>3. bad = {} /\ ioerr = 0
    <2>1. CASE bad = {}
      BY <1>1, <1>2, <2>1, FS_EmptySet
    <2>2. CASE \E p : bad = {p}
      <3>1. Cardinality(bad) = 1
        BY <2>2, FS_Singleton
      <3>2. QED
        BY <1>1, <1>2, <3>1
    <2>3. QED
      BY <1>2, <2>1, <2>2
  <1>4. ASSUME ~spoiled PROVE ~spoiled'
    <2>1. /\ Count(bad) \in Nat /\ StepLen \in Nat
          /\ Count(bad) <= StepLen \/ ius_offs + StepLen >= StreamLen
      BY <1>3, Sizes DEF Delivered
    <2>2. \A j \in 1 .. Count(bad) : Got(bad)[j] = Junk => j - 1 >= StepLen
      BY <1>1, <1>3, <2>1, Brings
    <2>3. StreamLen \in Nat
      BY <1>1, Ends DEF TypeOK
    <2>4. \A j \in 1 .. Count(bad) : Got(bad)[j] = Junk => ~(ius_offs + j - 1 < StreamLen)
      <3>1. \A j \in 1 .. Count(bad) : j - 1 >= StepLen => ~(ius_offs + j - 1 < StreamLen)
        BY <1>1, <2>1, <2>3
      <3>2. QED
        BY <2>2, <3>1
    <2>5. spoiled' = (spoiled \/ \E j \in 1 .. Count(bad) :
                        Got(bad)[j] = Junk /\ ius_offs + j - 1 < StreamLen)
      BY DEF Delivered, Round
    <2>6. QED
      BY <1>4, <2>4, <2>5
  <1>5. QED
    BY <1>3, <1>4

LEMMA FedRead ==
  ASSUME LInv, ReadStep
  PROVE  LInv'
  <1>1. SInv /\ SInv' /\ pc = "read" /\ TypeOK /\ Places /\ Supply /\ Reading
    BY InvRead DEF LInv, SInv, ReadStep
  <1>2. PICK bad : Delivered(bad)
    BY <1>1, Reads
  <1> DEFINE c == Count(bad)
  <1>3. UNCHANGED <<src, img, index, after, i, len, at, disk, fills, ret, nomem>>
    BY DEF ReadStep
  <1>4. /\ Live' = Live + c /\ Len(buf') = Len(buf) + c /\ c \in 0 .. Step
        /\ Place' = Place /\ ~Over' /\ pc' \in {after, "read"}
    BY <1>2 DEF Delivered
  <1>5. Need' = Need /\ Need \in Nat /\ Need <= Sector
    <2>1. Need' = Need
      BY <1>4 DEF Need
    <2>2. Need \in {HeaderLen, ChunkLen, ValueLen, 0}
      BY DEF Need
    <2>3. QED
      BY <2>1, <2>2, Sizes
  <1>6. Fed'
    <2>1. SUFFICES ASSUME ioerr' = 0
                   PROVE  /\ ~spoiled'
                          /\ pc' = "read" => Live' + stillto' >= Need'
                          /\ pc' \in {"header", "chunkheader", "valuetaken"} =>
                               Live' >= Need' \/ Starved'
      BY DEF Fed
    <2>2. ioerr = 0 /\ bad = {} /\ (~spoiled => ~spoiled')
      BY <1>1, <1>2, <2>1, Unspoiled
    <2>3. ~spoiled /\ Live + stillto >= Need
      BY <1>1, <2>2 DEF LInv, Fed
    <2>4. /\ Live \in Nat /\ Len(buf) \in Nat /\ stillto \in Nat /\ c \in Nat /\ c > 0
          /\ ius_remain \in Int /\ stillto <= ius_remain
          /\ Step \in Nat /\ Sector \in Nat /\ Sector <= Step /\ BufSize \in Nat
      <3>1. Live \in Nat /\ Len(buf) \in Nat
        BY <1>1, LiveType
      <3>2. stillto \in Nat /\ ius_remain \in Int /\ stillto <= ius_remain
        BY <1>1 DEF TypeOK, Reading, Supply
      <3>3. c \in Nat /\ c > 0
        BY <1>2, <1>4, <2>2, Sizes DEF Delivered
      <3>4. QED
        BY <3>1, <3>2, <3>3, Sizes
    <2>5. ius_remain' = ius_remain - c /\ (src = "ram" => c = Step \/ c >= ius_remain)
      BY <1>2 DEF Delivered, Round
    <2>6. \/ /\ LoopEnds(BufSize - Len(buf) - c, c) /\ pc' = after /\ stillto' = stillto
          \/ /\ ~LoopEnds(BufSize - Len(buf) - c, c) /\ pc' = pc /\ stillto' = stillto - c
      BY <1>2 DEF Delivered, Round
    <2> HIDE DEF c
    <2>7. CASE pc' = pc /\ stillto' = stillto - c
      <3>1. Live' + stillto' >= Need'
        BY <1>4, <1>5, <2>3, <2>4, <2>7
      <3>2. pc' = "read"
        BY <1>1, <2>7
      <3>3. QED
        BY <2>2, <2>3, <3>1, <3>2
    <2>8. CASE LoopEnds(BufSize - Len(buf) - c, c) /\ pc' = after
      <3>1. pc' # "read"
        BY <1>1, <2>8 DEF Places
      <3>2. Live' >= Need' \/ Starved'
        <4>1. CASE stillto <= c
          BY <1>4, <1>5, <2>3, <2>4, <4>1
        <4>2. CASE c >= Sector
          BY <1>4, <1>5, <2>4, <4>2
        <4>3. CASE ~(stillto <= c) /\ ~(c >= Sector)
          <5>1. BufSize - Len(buf) - c < Step
            <6>1. stillto > c
              BY <2>4, <4>3
            <6>2. QED
              BY <2>4, <2>8, <6>1 DEF LoopEnds
          <5>2. BufSize - Len(buf') < Step
            BY <1>4, <2>4, <5>1
          <5>3. ius_remain' > 0
            BY <2>4, <2>5, <4>3
          <5>4. src # "ram"
            BY <2>4, <2>5, <4>3
          <5>5. IsMmc(src)'
            BY <1>1, <1>3, <5>4, SparseAssumption DEF TypeOK, IsMmc
          <5>6. Live' >= Need' \/ Live' < Sector
            BY <1>4, <1>5, <2>4
          <5>7. QED
            BY <5>2, <5>3, <5>5, <5>6 DEF Starved
        <4>4. QED
          BY <4>1, <4>2, <4>3
      <3>3. QED
        BY <2>2, <2>3, <3>1, <3>2
    <2>9. QED
      BY <2>6, <2>7, <2>8
  <1>7. ~Over
    BY <1>1 DEF Over
  <1>8. Sound'
    BY <1>3, <1>4, <1>7 DEF LInv, Sound
  <1>9. LostOnlyAstray'
    BY <1>4 DEF LostOnlyAstray
  <1>10. QED
    BY <1>1, <1>6, <1>8, <1>9 DEF LInv

\* A decoder that starves ends so.
LEMMA Starves ==
  ASSUME LInv, Starved, UNCHANGED <<src, buffer, source, spoiled, ioerr>>,
         pc' \in {"done", "lost"}, SInv'
  PROVE  LInv'
  <1>1. Starved'
    BY DEF Starved, Live, buffer, source
  <1>2. Over' /\ LostOnlyAstray'
    BY <1>1 DEF LostOnlyAstray, Over
  <1>3. Fed'
    BY DEF LInv, Fed
  <1>4. Sound'
    BY <1>2 DEF Sound
  <1>5. QED
    BY <1>2, <1>3, <1>4 DEF LInv

\* A decoder that has met a failure claims nothing more when it ends.
LEMMA Fails ==
  ASSUME ioerr' # 0, pc' \in {"done", "lost"}, SInv'
  PROVE  LInv'
  <1>1. Fed' /\ LostOnlyAstray'
    BY DEF Fed, LostOnlyAstray
  <1>2. Sound'
    BY DEF Sound, Over
  <1>3. QED
    BY <1>1, <1>2 DEF LInv

\* Only one chunk is the first of a wrong size.
LEMMA FirstIsOne ==
  ASSUME img \in Images, NEW m \in Chunks, img.chunks[m].bogus,
         \A j \in 1 .. m - 1 : ~img.chunks[j].bogus,
         NEW types, NEW k \in Chunks, FirstBogus(k, types)
  PROVE  k = m /\ img.chunks[m].type \in types
  <1>1. k \in Nat \ {0} /\ m \in Nat \ {0}
    BY Ends
  <1>2. ~(k < m)
    <2>1. k < m => k \in 1 .. m - 1
      BY <1>1
    <2>2. QED
      BY <2>1 DEF FirstBogus
  <1>3. ~(m < k)
    <2>1. m < k => m \in 1 .. k - 1
      BY <1>1
    <2>2. QED
      BY <2>1 DEF FirstBogus
  <1>4. k = m
    BY <1>1, <1>2, <1>3
  <1>5. QED
    BY <1>4 DEF FirstBogus

\* How a burn may end that met no failure.
LEMMA EndsRight ==
  ASSUME LInv, SInv', img' = img, ioerr' = 0 => ~spoiled',
         \/ pc' = "done" /\ ret' = -1 /\ ~img.valid
         \/ /\ img.valid
            /\ \E m \in Chunks :
                 /\ img.chunks[m].bogus /\ \A j \in 1 .. m - 1 : ~img.chunks[j].bogus
                 /\ \/ pc' = "done" /\ ret' = -1 /\ img.chunks[m].type \in {"raw", "fill", "skip"}
                    \/ /\ img.chunks[m].type \in {"crc", "unknown"} /\ ret' = 0
                       /\ pc' = IF m = Len(img.chunks) THEN "done" ELSE "lost"
         \/ /\ img.valid /\ pc' = "done" /\ ret' = 0
            /\ \A k \in Chunks : ~img.chunks[k].bogus
  PROVE  LInv'
  <1> DEFINE sized == {"raw", "fill", "skip"}
             other == {"crc", "unknown"}
             astray == \E k \in 1 .. Len(img.chunks) - 1 : FirstBogus(k, other)
             refused == \E k \in Chunks : FirstBogus(k, sized)
  <1>1. img \in Images
    BY DEF LInv, SInv, TypeOK
  <1>2. Len(img.chunks) \in Nat /\ Chunks = 1 .. Len(img.chunks)
    BY <1>1, Ends
  <1>3. \A k \in 1 .. Len(img.chunks) - 1 : k \in Chunks
    BY <1>2
  <1>4. Over' /\ ret' \in {0, -1}
    BY DEF Over
  <1>5. (pc' = "lost" <=> img.valid /\ astray) /\ (ret' = -1 <=> ~img.valid \/ refused)
    <2>1. CASE pc' = "done" /\ ret' = -1 /\ ~img.valid
      BY <2>1
    <2>2. CASE /\ img.valid
               /\ \E m \in Chunks :
                    /\ img.chunks[m].bogus /\ \A j \in 1 .. m - 1 : ~img.chunks[j].bogus
                    /\ \/ pc' = "done" /\ ret' = -1 /\ img.chunks[m].type \in {"raw", "fill", "skip"}
                       \/ /\ img.chunks[m].type \in {"crc", "unknown"} /\ ret' = 0
                          /\ pc' = IF m = Len(img.chunks) THEN "done" ELSE "lost"
      <3>1. PICK m \in Chunks :
              /\ img.chunks[m].bogus /\ \A j \in 1 .. m - 1 : ~img.chunks[j].bogus
              /\ \/ pc' = "done" /\ ret' = -1 /\ img.chunks[m].type \in {"raw", "fill", "skip"}
                 \/ /\ img.chunks[m].type \in {"crc", "unknown"} /\ ret' = 0
                    /\ pc' = IF m = Len(img.chunks) THEN "done" ELSE "lost"
        BY <2>2
      <3>2. \A types : \A k \in Chunks :
              FirstBogus(k, types) => k = m /\ img.chunks[m].type \in types
        BY <1>1, <3>1, FirstIsOne
      <3>3. \A types : img.chunks[m].type \in types => FirstBogus(m, types)
        BY <3>1 DEF FirstBogus
      <3>4. m \in 1 .. Len(img.chunks) - 1 <=> m # Len(img.chunks)
        BY <1>2, <3>1
      <3>5. CASE pc' = "done" /\ ret' = -1 /\ img.chunks[m].type \in {"raw", "fill", "skip"}
        <4>1. refused
          BY <3>3, <3>5
        <4>2. ~astray
          BY <1>3, <3>2, <3>5
        <4>3. QED
          BY <3>5, <4>1, <4>2
      <3>6. CASE /\ img.chunks[m].type \in {"crc", "unknown"} /\ ret' = 0
                 /\ pc' = IF m = Len(img.chunks) THEN "done" ELSE "lost"
        <4>1. ~refused
          BY <3>2, <3>6
        <4>2. astray <=> m # Len(img.chunks)
          BY <1>3, <3>2, <3>3, <3>4, <3>6
        <4> HIDE DEF astray, refused
        <4>3. QED
          BY <2>2, <3>6, <4>1, <4>2
      <3>7. QED
        BY <3>1, <3>5, <3>6
    <2>3. CASE /\ img.valid /\ pc' = "done" /\ ret' = 0
               /\ \A k \in Chunks : ~img.chunks[k].bogus
      <3>1. ~astray /\ ~refused
        BY <1>3, <2>3 DEF FirstBogus
      <3> HIDE DEF astray, refused
      <3>2. QED
        BY <2>3, <3>1
    <2>4. QED
      BY <2>1, <2>2, <2>3
  <1>6. LostOnlyAstray'
    BY <1>5 DEF LostOnlyAstray, FirstBogus, Chunks
  <1>7. Fed'
    BY <1>4 DEF Fed, Over
  <1>8. Sound'
    BY <1>4 DEF Sound
  <1>9. QED
    BY <1>6, <1>7, <1>8 DEF LInv

\* An image that is not for the disk is refused.
LEMMA Refuses ==
  ASSUME LInv, SInv', UNCHANGED <<img, spoiled, ioerr>>, pc' = "done", ret' = -1,
         ~img.valid
  PROVE  LInv'
  <1>1. ioerr' = 0 => ~spoiled'
    BY DEF LInv, Fed
  <1>2. QED
    BY <1>1, EndsRight

LEMMA FedHeader ==
  ASSUME LInv, Header
  PROVE  LInv'
  <1>1. SInv /\ SInv' /\ pc = "header" /\ TypeOK /\ Places
    BY InvHeader DEF LInv, SInv, Header
  <1>2. Place = "header" /\ ~Over /\ i = 1
    BY <1>1 DEF Place, Over, Places
  <1>3. UNCHANGED <<src, img, source, i, spoiled, ioerr>>
    BY DEF Header
  <1>4. CASE ioerr # 0 /\ pc' \in {"done", "lost"}
    BY <1>1, <1>3, <1>4, Fails
  <1>5. CASE ioerr = 0 /\ Live < HeaderLen
    <2>1. Need = HeaderLen /\ Live \in Nat /\ HeaderLen \in Nat
      BY <1>1, <1>2, LiveType, Sizes DEF Need
    <2>2. Starved
      BY <1>1, <1>5, <2>1 DEF LInv, Fed
    <2>3. pc' \in {"done", "lost"} /\ UNCHANGED buffer
      BY <1>5 DEF Header, Done
    <2>4. QED
      BY <1>1, <1>3, <2>2, <2>3, Starves
  <1>6. ioerr = 0 /\ ~(Live < HeaderLen) => ~Garbled(HeaderLen)
    <2>1. HeaderLen <= StreamLen - Cursor /\ HeaderLen \in Nat
      BY <1>1, <1>2, CursorAt, Sizes
    <2>2. ~(Live < HeaderLen) => HeaderLen <= Live
      BY <1>1, <2>1, LiveType
    <2>3. QED
      BY <1>1, <1>2, <2>1, <2>2, Legible DEF LInv, Fed
  <1>7. CASE ~(Live < HeaderLen \/ Garbled(HeaderLen)) /\ ~img.valid
    <2>1. pc' = "done" /\ ret' = -1
      BY <1>7 DEF Header, Done
    <2>2. QED
      BY <1>1, <1>3, <1>7, <2>1, Refuses
  <1>8. CASE ~(Live < HeaderLen \/ Garbled(HeaderLen)) /\ img.valid
    <2>1. pc' = "chunk" /\ ret' = ret
      BY <1>8 DEF Header
    <2>2. Place' = "chunk" /\ ~Over'
      BY <2>1 DEF Place, Over
    <2>3. Sound'
      <3>1. ret = 0
        BY <1>2 DEF LInv, Sound
      <3>2. 1 .. i' - 1 = {}
        BY <1>2, <1>3
      <3>3. QED
        BY <1>3, <1>8, <2>1, <2>2, <3>1, <3>2 DEF Sound
    <2>4. QED
      BY <1>1, <1>3, <2>1, <2>2, <2>3, Continues DEF LInv, Fed
  <1>9. pc' \in {"done", "lost"} \/ ~(Live < HeaderLen \/ Garbled(HeaderLen))
    BY DEF Header, Done
  <1>10. QED
    BY <1>4, <1>5, <1>6, <1>7, <1>8, <1>9

LEMMA FedChunk ==
  ASSUME LInv, Chunk
  PROVE  LInv'
  <1>1. SInv /\ SInv' /\ pc = "chunk" /\ TypeOK /\ Places
    BY InvChunk DEF LInv, SInv, Chunk
  <1>2. Place = "chunk" /\ ~Over
    BY <1>1 DEF Place, Over
  <1>3. UNCHANGED <<src, img, source, i, spoiled, ioerr>>
    BY DEF Chunk
  <1>4. ret = 0 /\ img.valid /\ \A k \in 1 .. i - 1 : ~img.chunks[k].bogus
    BY <1>2 DEF LInv, Sound
  <1>5. CASE i > Len(img.chunks)
    <2>1. pc' = "done" /\ ret' = 0
      BY <1>5 DEF Chunk, Done
    <2>2. Chunks \subseteq 1 .. i - 1
      BY <1>1, <1>5, Ends DEF TypeOK
    <2>3. \A k \in Chunks : ~img.chunks[k].bogus
      BY <1>4, <2>2
    <2>4. ioerr' = 0 => ~spoiled'
      BY <1>3 DEF LInv, Fed
    <2>5. QED
      BY <1>1, <1>3, <1>4, <2>1, <2>3, <2>4, EndsRight
  <1>6. CASE ~(i > Len(img.chunks))
    <2>1. i \in Chunks
      BY <1>1, <1>6, Ends DEF TypeOK
    <2>2. ChunkLen <= StreamLen - Cursor
      BY <1>1, <1>2, <2>1, CursorAt
    <2>3. ChunkLen \in Nat \ {0} /\ ChunkLen <= Sector
      BY Sizes
    <2>4. ChunkLen <= Live + remain
      BY <1>1, <1>2, <2>2, Rest
    <2>5. Ensure(ChunkLen, "chunkheader") /\ ret' = ret
      BY <1>6 DEF Chunk
    <2>6. /\ pc' = "read" => Live' + stillto' >= ChunkLen
          /\ pc' = "chunkheader" => Live' >= ChunkLen
      BY <1>1, <2>3, <2>4, <2>5, Ensures
    <2>7. Place' = "chunkheader" /\ pc' \in {"chunkheader", "read"}
      BY <2>5, GoesTo
    <2>8. Need' = ChunkLen
      BY <2>7 DEF Need
    <2>9. Fed'
      BY <1>3, <2>6, <2>7, <2>8 DEF LInv, Fed
    <2>10. Sound' /\ LostOnlyAstray'
      BY <1>3, <1>4, <2>5, <2>7 DEF Sound, LostOnlyAstray, Over
    <2>11. QED
      BY <1>1, <2>9, <2>10 DEF LInv
  <1>7. QED
    BY <1>5, <1>6

LEMMA FedChunkHeader ==
  ASSUME LInv, ChunkHeader
  PROVE  LInv'
  <1> DEFINE c == img.chunks[i]
  <1>1. SInv /\ SInv' /\ pc = "chunkheader" /\ TypeOK /\ Places
    BY InvChunkHeader DEF LInv, SInv, ChunkHeader
  <1>2. Place = "chunkheader" /\ ~Over /\ i \in Chunks
    BY <1>1 DEF Place, Over, Places
  <1>3. UNCHANGED <<src, img, source, spoiled, ioerr>>
    BY DEF ChunkHeader
  <1>4. ret = 0 /\ img.valid /\ \A k \in 1 .. i - 1 : ~img.chunks[k].bogus
    BY <1>2 DEF LInv, Sound
  <1>5. CASE ioerr # 0 /\ pc' \in {"done", "lost"}
    BY <1>1, <1>3, <1>5, Fails
  <1>6. CASE ioerr = 0 /\ Live < ChunkLen
    <2>1. Need = ChunkLen /\ Live \in Nat /\ ChunkLen \in Nat
      BY <1>1, <1>2, LiveType, Sizes DEF Need
    <2>2. Starved
      BY <1>1, <1>6, <2>1 DEF LInv, Fed
    <2>3. pc' \in {"done", "lost"} /\ UNCHANGED buffer
      BY <1>6 DEF ChunkHeader, Done
    <2>4. QED
      BY <1>1, <1>3, <2>2, <2>3, Starves
  <1>7. ioerr = 0 /\ ~(Live < ChunkLen) => ~Garbled(ChunkLen)
    <2>1. ChunkLen <= StreamLen - Cursor /\ ChunkLen \in Nat
      BY <1>1, <1>2, CursorAt, Sizes
    <2>2. ~(Live < ChunkLen) => ChunkLen <= Live
      BY <1>1, <2>1, LiveType
    <2>3. QED
      BY <1>1, <1>2, <2>1, <2>2, Legible DEF LInv, Fed
  <1>12. ioerr' = 0 => ~spoiled'
    BY <1>3 DEF LInv, Fed
  <1>8. CASE ~(Live < ChunkLen) /\ ~Garbled(ChunkLen) /\ Refused(i)
    <2>1. pc' = "done" /\ ret' = -1
      BY <1>8 DEF ChunkHeader, Done
    <2>2. c.bogus /\ c.type \in {"raw", "fill", "skip"}
      BY <1>8 DEF Refused
    <2>3. QED
      BY <1>1, <1>2, <1>3, <1>4, <1>12, <2>1, <2>2, EndsRight
  <1>13. CASE ~(Live < ChunkLen) /\ ~Garbled(ChunkLen) /\ ~Refused(i) /\ c.bogus /\ c.type = "unknown"
    <2>1. pc' = (IF i = Len(img.chunks) THEN "done" ELSE "lost") /\ ret' = 0
      BY <1>4, <1>13 DEF ChunkHeader, NextChunk, Done
    <2>2. c.bogus /\ c.type \in {"crc", "unknown"}
      BY <1>13
    <2>3. QED
      BY <1>1, <1>2, <1>3, <1>4, <1>12, <2>1, <2>2, EndsRight
  <1>9. CASE ~(Live < ChunkLen) /\ ~Garbled(ChunkLen) /\ ~Refused(i) /\ ~(c.bogus /\ c.type = "unknown")
    <2>0. c.type \in {"skip", "unknown"} => ~c.bogus
      BY <1>9 DEF Refused
    <2>1. /\ ret' = ret
          /\ \/ pc' \in {"raw", "value"} /\ i' = i
             \/ pc' = "chunk" /\ i' = i + 1 /\ ~c.bogus
      BY <1>9, <2>0 DEF ChunkHeader, NextChunk
    <2>2. Place' = pc' /\ ~Over'
      BY <2>1 DEF Place, Over
    <2>3. \A k \in 1 .. i' - 1 : ~img.chunks[k].bogus
      <3>1. \A k \in 1 .. (i + 1) - 1 : k \in 1 .. i - 1 \/ k = i
        BY <1>1 DEF TypeOK
      <3>2. QED
        BY <1>4, <2>1, <3>1
    <2>4. Sound'
      BY <1>3, <1>4, <2>1, <2>2, <2>3 DEF Sound
    <2>5. QED
      BY <1>1, <1>3, <2>1, <2>2, <2>4, Continues DEF LInv, Fed
  <1>10. pc' \in {"done", "lost"} \/ ~(Live < ChunkLen \/ Garbled(ChunkLen))
    BY DEF ChunkHeader, Done
  <1>11. QED
    BY <1>5, <1>6, <1>7, <1>8, <1>9, <1>10, <1>13

LEMMA FedRaw ==
  ASSUME LInv, Raw
  PROVE  LInv'
  <1>1. SInv /\ SInv' /\ pc = "raw" /\ TypeOK /\ Places
    BY InvRaw DEF LInv, SInv, Raw
  <1>2. Place = "raw" /\ ~Over /\ i \in Nat
    BY <1>1 DEF Place, Over, TypeOK
  <1>3. UNCHANGED <<src, img, ret, spoiled, ioerr>>
    BY DEF Raw
  <1>4. /\ ret = 0 /\ img.valid /\ ~img.chunks[i].bogus
        /\ \A k \in 1 .. i - 1 : ~img.chunks[k].bogus
    BY <1>1, <1>2 DEF LInv, Sound, Places
  <1>5. CASE len = 0
    <2>1. pc' = "chunk" /\ i' = i + 1
      BY <1>5 DEF Raw
    <2>2. Place' = "chunk" /\ ~Over'
      BY <2>1 DEF Place, Over
    <2>3. \A k \in 1 .. i' - 1 : k \in 1 .. i - 1 \/ k = i
      BY <1>2, <2>1
    <2>4. Sound'
      BY <1>3, <1>4, <2>2, <2>3 DEF Sound
    <2>5. QED
      BY <1>1, <1>3, <2>1, <2>2, <2>4, Continues DEF LInv, Fed
  <1>6. CASE len # 0
    <2>1. GetData(len, "put") /\ i' = i
      BY <1>6 DEF Raw
    <2>2. Place' = "put" /\ pc' \in {"put", "read"}
      BY <2>1, GoesTo
    <2>3. Need' = 0
      BY <2>2 DEF Need
    <2>4. Live' + stillto' >= 0
      <3>1. buf' \in Seq(Int) /\ index' \in 0 .. Len(buf') /\ stillto' \in Nat
        BY <1>1 DEF SInv, TypeOK
      <3>2. Live' = Len(buf') - index'
        BY DEF Live
      <3>3. QED
        BY <3>1, <3>2
    <2>5. Fed'
      BY <1>3, <2>2, <2>3, <2>4 DEF LInv, Fed
    <2>6. Sound' /\ LostOnlyAstray'
      BY <1>3, <1>4, <2>1, <2>2 DEF Sound, LostOnlyAstray, Over
    <2>7. QED
      BY <1>1, <2>5, <2>6 DEF LInv
  <1>7. QED
    BY <1>5, <1>6

LEMMA FedPut ==
  ASSUME LInv, Put
  PROVE  LInv'
  <1>1. SInv /\ SInv' /\ pc = "put" /\ ioerr \in Nat
    BY InvPut, SparseAssumption DEF LInv, SInv, TypeOK, Put
  <1>2. Place = "put" /\ ~Over
    BY <1>1 DEF Place, Over
  <1>3. UNCHANGED <<img, i, ret>> /\ pc' = "raw"
    BY DEF Put
  <1>4. Place' = "raw" /\ ~Over'
    BY <1>3 DEF Place, Over
  <1>5. UNCHANGED <<ioerr, spoiled>> \/ ioerr' = ioerr + 1
    BY DEF Put, Write
  <1>6. ioerr' = 0 => ~spoiled'
    <2>1. ioerr + 1 # 0
      BY <1>1
    <2>2. QED
      BY <1>5, <2>1 DEF LInv, Fed
  <1>7. Sound'
    BY <1>2, <1>3, <1>4 DEF LInv, Sound
  <1>8. QED
    BY <1>1, <1>3, <1>4, <1>6, <1>7, Continues

LEMMA FedValue ==
  ASSUME LInv, Value
  PROVE  LInv'
  <1>1. SInv /\ SInv' /\ pc = "value" /\ TypeOK /\ Places
    BY InvValue DEF LInv, SInv, Value
  <1>2. Place = "value" /\ ~Over /\ len = ValueLen
    BY <1>1 DEF Place, Over, Places
  <1>3. UNCHANGED <<src, img, i, ret, spoiled, ioerr>>
    BY DEF Value
  <1>4. ValueLen <= StreamLen - Cursor
    BY <1>1, <1>2, CursorAt
  <1>5. ValueLen \in Nat \ {0} /\ ValueLen <= Sector
    BY Sizes
  <1>6. ValueLen <= Live + remain
    BY <1>1, <1>2, <1>4, Rest
  <1>7. /\ pc' = "read" => Live' + stillto' >= ValueLen
        /\ pc' = "valuetaken" => Live' >= ValueLen
    BY <1>1, <1>5, <1>6, Ensures DEF Value
  <1>8. Place' = "valuetaken" /\ pc' \in {"valuetaken", "read"}
    BY GoesTo DEF Value
  <1>9. Need' = ValueLen
    BY <1>8 DEF Need
  <1>10. Fed'
    BY <1>3, <1>7, <1>8, <1>9 DEF LInv, Fed
  <1>11. Sound' /\ LostOnlyAstray'
    BY <1>2, <1>3, <1>8 DEF LInv, Sound, LostOnlyAstray, Over
  <1>12. QED
    BY <1>1, <1>10, <1>11 DEF LInv

LEMMA FedValueTaken ==
  ASSUME LInv, ValueTaken
  PROVE  LInv'
  <1>1. SInv /\ SInv' /\ pc = "valuetaken" /\ TypeOK /\ ioerr \in Nat /\ i \in Nat
    <2>1. SInv /\ SInv' /\ TypeOK
      BY InvValueTaken DEF LInv, SInv
    <2>2. pc = "valuetaken"
      BY DEF ValueTaken
    <2>3. ioerr \in Nat /\ i \in Nat
      BY <2>1, SparseAssumption DEF TypeOK
    <2>4. QED
      BY <2>1, <2>2, <2>3
  <1>2. Place = "valuetaken" /\ ~Over
    BY <1>1 DEF Place, Over
  <1>3. UNCHANGED <<src, img, source, buf>>
    BY DEF ValueTaken
  <1> DEFINE c == img.chunks[i]
  <1>7. /\ i \in Chunks /\ c.type \in {"fill", "crc"} /\ (c.type = "fill" => ~c.bogus)
    BY <1>1, <1>2 DEF SInv, Places
  <1>8. /\ ret = 0 /\ img.valid /\ \A k \in 1 .. i - 1 : ~img.chunks[k].bogus
    BY <1>2 DEF LInv, Sound
  <1>4. CASE Live < ValueLen
    <2>1. pc' \in {"done", "lost"} /\ UNCHANGED <<index, spoiled, ioerr>>
      BY <1>4 DEF ValueTaken, Done
    <2>2. CASE ioerr # 0
      BY <1>1, <2>1, <2>2, Fails
    <2>3. CASE ioerr = 0
      <3>1. Need = ValueLen /\ Live \in Nat /\ ValueLen \in Nat
        BY <1>1, <1>2, LiveType, Sizes DEF Need
      <3>2. Starved
        BY <1>1, <1>4, <2>3, <3>1 DEF LInv, Fed
      <3>3. QED
        BY <1>1, <1>3, <2>1, <3>2, Starves DEF buffer
    <2>4. QED
      BY <2>2, <2>3
  <1>9. CASE ~(Live < ValueLen) /\ c.bogus
    <2>1. c.type = "crc"
      BY <1>7, <1>9
    <2>2. /\ pc' = (IF i = Len(img.chunks) THEN "done" ELSE "lost") /\ ret' = 0
          /\ UNCHANGED <<ioerr, spoiled>>
      BY <1>8, <1>9, <2>1 DEF ValueTaken, NextChunk, Done
    <2>3. ioerr' = 0 => ~spoiled'
      BY <2>2 DEF LInv, Fed
    <2>4. c.bogus /\ c.type \in {"crc", "unknown"}
      BY <1>9, <2>1
    <2>5. QED
      BY <1>1, <1>3, <1>7, <1>8, <2>2, <2>3, <2>4, EndsRight
  <1>5. CASE ~(Live < ValueLen) /\ ~c.bogus
    <2>1. pc' = "chunk" /\ i' = i + 1 /\ ret' = ret
      BY <1>5 DEF ValueTaken, NextChunk
    <2>2. UNCHANGED <<ioerr, spoiled>> \/ ioerr' = ioerr + 1
      BY <1>5 DEF ValueTaken, Write
    <2>3. ioerr' = 0 => ~spoiled'
      <3>1. ioerr + 1 # 0
        BY <1>1
      <3>2. QED
        BY <2>2, <3>1 DEF LInv, Fed
    <2>4. Place' = "chunk" /\ ~Over'
      BY <2>1 DEF Place, Over
    <2>5. \A k \in 1 .. i' - 1 : k \in 1 .. i - 1 \/ k = i
      BY <1>1, <2>1
    <2>6. \A k \in 1 .. i' - 1 : ~img.chunks[k].bogus
      BY <1>5, <1>8, <2>5
    <2>7. Sound'
      BY <1>3, <1>8, <2>1, <2>4, <2>6 DEF Sound
    <2>8. QED
      BY <1>1, <2>1, <2>3, <2>4, <2>7, Continues
  <1>6. QED
    BY <1>4, <1>5, <1>9

LEMMA FedInit == Init => LInv
  <1> SUFFICES ASSUME Init PROVE LInv
    OBVIOUS
  <1>1. SInv
    BY InvInit
  <1>2. pc = "start" /\ ret = 0 /\ spoiled = FALSE /\ Place = "start"
    BY DEF Init, Place
  <1>3. Fed /\ Sound /\ LostOnlyAstray
    BY <1>2 DEF Fed, Sound, LostOnlyAstray, Over
  <1>4. QED
    BY <1>1, <1>3 DEF LInv

LEMMA FedStutter ==
  ASSUME LInv, UNCHANGED vars
  PROVE  LInv'
  <1>1. SInv'
    BY InvStutter DEF LInv
  <1>2. UNCHANGED <<src, img, pc, source, buffer, stillto, after, i, ret, spoiled, ioerr>>
    BY DEF vars
  <1>3. /\ Place' = Place /\ (Over' <=> Over) /\ Live' = Live /\ Need' = Need
        /\ (Starved' <=> Starved) /\ Chunks' = Chunks
    BY <1>2 DEF Place, Over, Live, Need, Starved, Chunks, buffer, source
  <1>4. Fed'
    BY <1>2, <1>3 DEF LInv, Fed
  <1>5. Sound'
    BY <1>2, <1>3 DEF LInv, Sound
  <1>6. LostOnlyAstray'
    BY <1>2, <1>3 DEF LInv, LostOnlyAstray, FirstBogus
  <1>7. QED
    BY <1>1, <1>4, <1>5, <1>6 DEF LInv

\* Without a failing device the decoder refuses exactly the images that are not
\* for the disk or whose first wrong chunk size is one it checks, loses its
\* place in exactly those whose first wrong size is one it does not check, with
\* a chunk behind it, and burns all others to their end, except where a card
\* that answers short leaves it without a header (sparse_burn,
\* sparse.c:387-490).
THEOREM RefusesOnlyBadImages == Spec => []LostOnlyAstray
  <1>1. LInv /\ [Next]_vars => LInv'
    BY FedStutter, FedBurn, FedRead, FedHeader, FedChunk, FedChunkHeader, FedRaw, FedPut,
       FedValue, FedValueTaken DEF Next
  <1>2. LInv => LostOnlyAstray
    BY DEF LInv
  <1>3. QED
    BY <1>1, <1>2, FedInit, PTL DEF Spec
=============================================================================
