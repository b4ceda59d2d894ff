---------------------------- MODULE VStorageProof ----------------------------
(***************************************************************************)
(* Theorems about VStorage for every sector, page and device size, every   *)
(* set of devices and every request.                                       *)
(***************************************************************************)
EXTENDS VStorage, TLAPS

---------------------------------------------------------------------------
(* The arithmetic of vs_read.                                              *)

\* Division by a positive number: the remainder is what the multiple leaves.
LEMMA Division ==
  ASSUME NEW a \in Int, NEW u \in Nat \ {0}
  PROVE  /\ a \div u \in Int /\ a % u \in 0 .. u - 1
         /\ a = u * (a \div u) + (a % u)
         /\ a >= 0 => a \div u >= 0 /\ a % u <= a
  <1>1. a \div u \in Int /\ a % u \in 0 .. u - 1 /\ a = u * (a \div u) + (a % u)
    OBVIOUS
  <1>2. ASSUME a >= 0 PROVE a \div u >= 0
    BY <1>2
  <1>3. ASSUME a >= 0 PROVE a % u <= a
    <2> DEFINE q == a \div u
    <2>1. u * q >= 0
      BY <1>1, <1>2, <1>3
    <2>2. QED
      BY <1>1, <1>3, <2>1
  <1>4. QED
    BY <1>1, <1>2, <1>3

\* A multiple is its quotient times the unit.
LEMMA Multiple ==
  ASSUME NEW a \in Nat, NEW u \in Nat \ {0}, a % u = 0
  PROVE  (a \div u) * u = a
  OBVIOUS

\* Rounding up gives a number of whole units that covers the length.
LEMMA Rounding ==
  ASSUME NEW a \in Nat, NEW u \in Nat \ {0}
  PROVE  RoundUp(a, u) \in Nat /\ a <= RoundUp(a, u)
  <1> DEFINE b == a + u - 1
             q == b \div u
  <1>1. b \in Int /\ b >= 0
    OBVIOUS
  <1> HIDE DEF b
  <1>2. q \in Int /\ q >= 0 /\ b = u * q + (b % u)
    BY <1>1, Division
  <1>3. b % u \in 0 .. u - 1
    BY <1>1, Division
  <1> HIDE DEF q
  <1>4. q * u \in Nat /\ a <= q * u
    BY <1>2, <1>3 DEF b
  <1>5. QED
    BY <1>4 DEF RoundUp, q, b

\* Head and tail are shorter than a unit, and between them lie whole units;
\* only a request that ends before the next boundary makes that negative.
LEMMA Cut ==
  ASSUME NEW s \in Nat, NEW l \in Nat, NEW u \in Nat \ {0}
  PROVE  /\ PreLen(s, u) \in 0 .. u - 1 /\ PostLen(s, l, u) \in 0 .. u - 1
         /\ PreLen(s, u) # 0 => PreLen(s, u) = u - (s % u) /\ s % u \in 1 .. u - 1 /\ s % u <= s
         /\ (l - PreLen(s, u) - PostLen(s, l, u)) % u = 0
         /\ l >= PreLen(s, u) => l - PreLen(s, u) - PostLen(s, l, u) >= 0
  <1> DEFINE p == PreLen(s, u)
             m == l - p
             q == m \div u
  <1>1. s % u \in 0 .. u - 1 /\ s % u <= s
    <2>1. s \in Int /\ s >= 0
      OBVIOUS
    <2>2. QED
      BY ONLY <2>1, Division, u \in Nat \ {0}
  <1>2. p \in 0 .. u - 1
    BY <1>1 DEF PreLen
  <1>3. p # 0 => p = u - (s % u) /\ s % u \in 1 .. u - 1 /\ s % u <= s
    BY <1>1 DEF PreLen
  <1>4. PostLen(s, l, u) = m % u
    BY DEF PostLen
  <1> HIDE DEF p
  <1>5. m \in Int
    BY <1>2
  <1>6. /\ q \in Int /\ m % u \in 0 .. u - 1 /\ m = u * q + (m % u)
        /\ m >= 0 => m % u <= m
    BY <1>5, Division
  <1>7. (m - (m % u)) % u = 0
    <2>1. m - (m % u) = u * q
      BY <1>5, <1>6
    <2> HIDE DEF q
    <2>2. (u * q) % u = 0
      BY <1>6
    <2>3. QED
      BY <2>1, <2>2
  <1>8. l - p - PostLen(s, l, u) = m - (m % u)
    BY <1>4
  <1>9. (l - p - PostLen(s, l, u)) % u = 0
    BY <1>7, <1>8
  <1>10. l >= p => l - p - PostLen(s, l, u) >= 0
    BY <1>2, <1>5, <1>6, <1>8
  <1>11. QED
    BY <1>2, <1>3, <1>4, <1>6, <1>9, <1>10 DEF p

---------------------------------------------------------------------------
(* The state of a read between its three parts.                            *)

Unit   == vs_align(vs_current)
Forced == ForcedLength(vs_current, req.length)
Head   == PreLen(req.start, Unit)
Tail   == PostLen(req.start, Forced, Unit)

\* The request is one the device can answer.
Asked ==
  /\ vs_current \in Devs /\ vs_current # "fnd"
  /\ req.length # 0 /\ req.start + Forced + Unit <= DevSize

\* The first n bytes of the request are in the caller's memory, unless a
\* driver failed without saying so, and nothing is behind them.
Holds(n) ==
  \A i \in Mem : IF i < n THEN failed \/ mem[i] = disk[vs_current][req.start + i]
                 ELSE mem[i] = Untouched

\* A driver that reports its failures has had none; without a failure the
\* count is high enough; and the ramdisk, which says nothing, has failed when
\* the n bytes of the request start below its limit, and counted none of
\* those that end there.
Tally(n, fail, count) ==
  /\ Reports(vs_current) => ~fail
  /\ ~IsMmc(vs_current) /\ ~fail => count >= n
  /\ vs_current = "ram" =>
       /\ fail <=> n > 0 /\ req.start < IUS_DEFAULT_LOCATION
       /\ req.start + n <= IUS_DEFAULT_LOCATION => count = 0

Counted(n) == Tally(n, failed, loc.read)

AtDirect == pc = "direct" => vs_current = "fnd"

AtPre ==
  pc = "pre" =>
    /\ Asked
    /\ loc = [buf |-> 0, start |-> req.start, length |-> Forced, read |-> 0,
              prelen |-> Head, postlen |-> Tail]
    /\ mem = Fresh /\ ~failed

AtMiddle ==
  pc = "middle" =>
    /\ Asked
    /\ loc.buf = Head /\ loc.start = req.start + Head
    /\ loc.length = Forced - Head - Tail /\ loc.postlen = Tail
    /\ Holds(Head) /\ Counted(Head)

AtPost ==
  pc = "post" =>
    /\ Asked
    /\ loc.buf = Forced - Tail /\ loc.start = req.start + Forced - Tail
    /\ loc.postlen = Tail
    /\ Holds(Forced - Tail) /\ Counted(Forced - Tail)

\* The inductive invariant: the places of vs_read, and what is promised of a
\* finished read.
ReadInv ==
  /\ TypeOK
  /\ AtDirect /\ AtPre /\ AtMiddle /\ AtPost
  /\ DeliversRequest /\ BufferRespected
  /\ FailureReported /\ DenialIsShort /\ CountCoversRequest

---------------------------------------------------------------------------
(* What the drivers answer.                                                *)

\* A count is a number.
LEMMA CountType ==
  ASSUME NEW dev, NEW l \in Nat
  PROVE  DevCount(dev, l) \in Nat
  <1>1. l \div Sector \in Nat /\ l \div Page \in Nat
        /\ l \div (Page + SysInfo) \in Nat
    BY UnitAssumption
  <1> DEFINE a == l \div Sector
             b == l \div Page
             c == l \div (Page + SysInfo)
  <1> HIDE DEF a, b, c
  <1>2. a * a \in Nat /\ b * Page \in Nat /\ c * (Page + SysInfo) \in Nat
    BY <1>1, UnitAssumption DEF a, b, c
  <1>3. QED
    BY <1>2 DEF DevCount, a, b, c

\* A driver that reports failures counts all the bytes of whole units.
LEMMA CountWhole ==
  ASSUME NEW dev, NEW l \in Nat, ~IsMmc(dev), dev # "fnd", l % vs_align(dev) = 0
  PROVE  DevCount(dev, l) = l
  <1>1. CASE dev = "nnd"
    <2>1. (l \div Page) * Page = l
      BY <1>1, Multiple, UnitAssumption DEF vs_align
    <2>2. QED
      BY <1>1, <2>1 DEF DevCount, IsMmc
  <1>2. CASE dev # "nnd"
    BY <1>2 DEF DevCount
  <1>3. QED
    BY <1>1, <1>2

\* Rounding an offset down to its unit keeps it on its side of a limit that
\* is a multiple of the unit.
LEMMA SameSide ==
  ASSUME NEW s \in Nat, NEW u \in Nat \ {0}, NEW limit \in Nat, limit % u = 0
  PROVE  s - (s % u) < limit <=> s < limit
  <1> DEFINE q == s \div u
             k == limit \div u
  <1>1. q \in Int /\ s % u \in 0 .. u - 1 /\ s = u * q + (s % u)
    BY Division
  <1>2. k \in Int /\ limit = u * k
    <2>1. k \in Int /\ limit = u * k + (limit % u)
      BY Division
    <2>2. QED
      BY <2>1
  <1>3. ASSUME s - (s % u) < limit PROVE s < limit
    <2> HIDE DEF q, k
    <2>1. u * q < u * k
      BY <1>1, <1>2, <1>3
    <2>2. q < k
      <3>1. SUFFICES ASSUME q >= k PROVE FALSE
        BY <1>1, <1>2
      <3>2. u * q >= u * k
        BY <1>1, <1>2, <3>1
      <3>3. QED
        BY <1>1, <1>2, <2>1, <3>2
    <2>3. u * (q + 1) <= u * k
      BY <1>1, <1>2, <2>2
    <2>4. u * (q + 1) = u * q + u
      BY <1>1
    <2> DEFINE a == u * q
               b == u * k
    <2>5. a \in Int /\ b \in Int
      BY <1>1, <1>2
    <2> HIDE DEF a, b
    <2>6. a + u <= b /\ s = a + (s % u) /\ limit = b
      BY <1>1, <1>2, <2>3, <2>4 DEF a, b
    <2>7. QED
      BY <1>1, <2>5, <2>6
  <1>4. QED
    BY <1>1, <1>3

\* The numbers of a request.
LEMMA Numbers ==
  ASSUME TypeOK
  PROVE  /\ Unit \in Nat \ {0}
         /\ Forced \in Nat /\ req.start \in Nat /\ req.length \in Nat
         /\ req.length <= Forced
         /\ Head \in 0 .. Unit - 1 /\ Tail \in 0 .. Unit - 1
         /\ Head # 0 => /\ Head = Unit - (req.start % Unit)
                        /\ req.start % Unit \in 1 .. Unit - 1
                        /\ req.start % Unit <= req.start
         /\ (Forced - Head - Tail) % Unit = 0
         /\ Forced >= Head => Forced - Head - Tail >= 0
  <1>1. Unit \in Nat \ {0}
    BY UnitAssumption DEF Unit, vs_align
  <1>2. req.start \in Nat /\ req.length \in Nat
    BY DEF TypeOK
  <1>3. Forced \in Nat /\ req.length <= Forced
    BY <1>2, Rounding, UnitAssumption DEF Forced, ForcedLength
  <1> HIDE DEF Unit, Forced
  <1>4. QED
    BY <1>1, <1>2, <1>3, Cut DEF Head, Tail

---------------------------------------------------------------------------
(* The calls: between two reads the state of a read says nothing.          *)

\* Without a request under way or finished only the types matter.
LEMMA Quiet ==
  ASSUME TypeOK', pc' = "idle", req' = NoReq
  PROVE  ReadInv'
  <1>1. ~ReadOver'
    BY DEF ReadOver
  <1>2. QED
    BY <1>1 DEF ReadInv, AtDirect, AtPre, AtMiddle, AtPost, DeliversRequest,
                BufferRespected, FailureReported, DenialIsShort, CountCoversRequest

\* The current device is one of the list, or none.
LEMMA InvAssign ==
  ASSUME ReadInv, NEW id \in Ids, NEW reset \in BOOLEAN, vs_assign_by_id(id, reset)
  PROVE  ReadInv'
  <1>1. pc' = "idle" /\ req' = NoReq
    BY DEF vs_assign_by_id, Called
  <1>2. vs_current' \in {vs_device_name(d) : d \in 0 .. 13} \cup {None}
    BY DEF vs_assign_by_id, id_valid
  <1>3. res' \in Int /\ ioerr' \in 0 .. MaxIoErrors /\ ops' \in 0 .. MaxOps
    <2>1. res' \in Int
      BY DEF vs_assign_by_id
    <2>2. /\ ioerr \in 0 .. MaxIoErrors /\ ops \in 0 .. MaxOps
          /\ MaxIoErrors \in Nat /\ MaxOps \in Nat
      BY RequestAssumption DEF ReadInv, TypeOK
    <2>3. ioerr' = ioerr \/ (ioerr < MaxIoErrors /\ ioerr' = ioerr + 1)
      BY DEF vs_assign_by_id
    <2>4. ops < MaxOps /\ ops' = ops + 1
      BY DEF vs_assign_by_id, Called
    <2>5. ioerr' \in 0 .. MaxIoErrors /\ ops' \in 0 .. MaxOps
      BY ONLY <2>2, <2>3, <2>4
    <2>6. QED
      BY <2>1, <2>5
  <1>4. failed' \in BOOLEAN
    BY Zenon DEF ReadInv, TypeOK, vs_assign_by_id
  <1>5. TypeOK'
    BY <1>1, <1>2, <1>3, <1>4 DEF ReadInv, TypeOK, vs_assign_by_id, NoReq
  <1>6. QED
    BY <1>1, <1>5, Quiet

\* A write changes bytes of the current device and nothing else.
LEMMA InvWrite ==
  ASSUME ReadInv, NEW start \in Starts, NEW length \in Lengths, vs_write(start, length)
  PROVE  ReadInv'
  <1>1. pc' = "idle" /\ req' = NoReq
    BY DEF vs_write, Called
  <1>2. disk' \in [Devs -> [0 .. DevSize - 1 -> Nat]]
    <2>1. vs_current \in Devs =>
            AfterWrite(start, length) \in [Devs -> [0 .. DevSize - 1 -> Nat]]
      BY RequestAssumption DEF ReadInv, TypeOK, AfterWrite, Written
    <2>2. QED
      BY <2>1 DEF ReadInv, TypeOK, vs_write
  <1>3. DevCount(vs_current, length) \in Int
    BY CountType, RequestAssumption
  <1>4. res' \in Int /\ ioerr' \in 0 .. MaxIoErrors /\ ops' \in 0 .. MaxOps
    <2>1. res' \in Int
      BY <1>3 DEF vs_write, DevFailure
    <2>2. ioerr' \in 0 .. MaxIoErrors
      <3>1. ioerr' = ioerr \/ (ioerr < MaxIoErrors /\ ioerr' = ioerr + 1)
        BY DEF vs_write
      <3>2. ioerr \in 0 .. MaxIoErrors /\ MaxIoErrors \in Nat
        BY RequestAssumption DEF ReadInv, TypeOK
      <3>3. QED
        BY <3>1, <3>2
    <2>3. ops' \in 0 .. MaxOps
      BY RequestAssumption DEF ReadInv, TypeOK, vs_write, Called
    <2>4. QED
      BY <2>1, <2>2, <2>3
  <1>5. failed' \in BOOLEAN
    BY Zenon DEF ReadInv, TypeOK, vs_write
  <1>6. TypeOK'
    BY <1>1, <1>2, <1>4, <1>5 DEF ReadInv, TypeOK, vs_write, NoReq
  <1>7. QED
    BY <1>1, <1>6, Quiet

\* A refused read leaves everything but its result.
LEMMA InvRefused ==
  ASSUME ReadInv, NEW start \in Starts, NEW length \in Lengths, ReadRefused(start, length)
  PROVE  ReadInv'
  <1>1. pc' = "idle" /\ req' = NoReq
    BY DEF ReadRefused, Called
  <1>2. res' \in Int /\ ops' \in 0 .. MaxOps
    BY RequestAssumption DEF ReadInv, TypeOK, ReadRefused, Called
  <1>3. failed' \in BOOLEAN
    BY Zenon DEF ReadInv, TypeOK, ReadRefused
  <1>4. TypeOK'
    BY <1>1, <1>2, <1>3 DEF ReadInv, TypeOK, ReadRefused, NoReq
  <1>5. QED
    BY <1>1, <1>4, Quiet

\* The request is cut before the first part is read.
LEMMA InvRead ==
  ASSUME ReadInv, NEW start \in Starts, NEW length \in Lengths, vs_read(start, length)
  PROVE  ReadInv'
  <1> DEFINE u == vs_align(vs_current)
             l == ForcedLength(vs_current, length)
  <1>1. start \in Nat /\ length \in Nat /\ length # 0
    BY RequestAssumption DEF vs_read
  <1>2. u \in Nat \ {0} /\ l \in Nat
    BY <1>1, Rounding, UnitAssumption DEF ForcedLength, vs_align
  <1>3. start + l + u <= DevSize
    <2>1. RoundUp(start + l, u) \in Nat /\ start + l <= RoundUp(start + l, u)
      BY <1>1, <1>2, Rounding
    <2>2. RoundUp(start + l, u) + u <= DevSize
      BY DEF vs_read
    <2> HIDE DEF l, u
    <2>3. QED
      BY <1>1, <1>2, <2>1, <2>2, RequestAssumption
  <1>4. PreLen(start, u) \in Nat /\ PostLen(start, l, u) \in Nat
    <2> HIDE DEF l, u
    <2>1. PreLen(start, u) \in 0 .. u - 1 /\ PostLen(start, l, u) \in 0 .. u - 1
      BY <1>1, <1>2, Cut
    <2>2. QED
      BY <1>2, <2>1
  <1>5. /\ req' = [start |-> start, length |-> length]
        /\ loc' = [buf |-> 0, start |-> start, length |-> l, read |-> 0,
                   prelen |-> PreLen(start, u), postlen |-> PostLen(start, l, u)]
        /\ mem' = Fresh /\ vs_current' = vs_current
        /\ vs_current \in Devs
        /\ pc' = IF vs_current = "fnd" THEN "direct" ELSE "pre"
    BY DEF vs_read
  <1>6. failed' = FALSE
    BY DEF vs_read
  <1>7. TypeOK'
    <2>1. mem' \in [Mem -> Int]
      BY <1>5 DEF Fresh, Untouched
    <2>2. ops' \in 0 .. MaxOps
      BY RequestAssumption DEF ReadInv, TypeOK, vs_read, Called
    <2>3. loc' \in [buf : Nat, start : Nat, length : Int, prelen : Nat,
                    postlen : Nat, read : Nat]
      BY <1>1, <1>2, <1>4, <1>5
    <2>4. UNCHANGED <<vs_current, disk, res, ioerr>>
      BY DEF vs_read
    <2>5. QED
      BY <1>1, <1>5, <1>6, <2>1, <2>2, <2>3, <2>4 DEF ReadInv, TypeOK
  <1>8. AtPre'
    <2>1. Forced' = l /\ Unit' = u
      BY <1>5 DEF Forced, Unit
    <2>2. Head' = PreLen(start, u) /\ Tail' = PostLen(start, l, u)
      BY <1>5, <2>1 DEF Head, Tail
    <2>3. req'.length # 0 /\ req'.start + Forced' + Unit' <= DevSize
      BY <1>1, <1>3, <1>5, <2>1
    <2> HIDE DEF l, u
    <2>4. SUFFICES ASSUME pc' = "pre"
                   PROVE  /\ Asked'
                          /\ loc' = [buf |-> 0, start |-> req'.start, length |-> Forced',
                                     read |-> 0, prelen |-> Head', postlen |-> Tail']
                          /\ mem' = Fresh /\ ~failed'
      BY DEF AtPre, Fresh, Mem
    <2>5. Asked'
      BY <1>5, <2>3, <2>4 DEF Asked
    <2>6. QED
      BY <1>5, <1>6, <2>1, <2>2, <2>5
  <1>9. pc' # "idle" /\ pc' # "middle" /\ pc' # "post" /\ AtDirect'
    BY <1>5 DEF AtDirect
  <1>10. QED
    BY <1>7, <1>8, <1>9
       DEF ReadInv, AtMiddle, AtPost, ReadOver, DeliversRequest, BufferRespected,
           FailureReported, DenialIsShort, CountCoversRequest

---------------------------------------------------------------------------
(* The parts of a read.                                                    *)

\* What a driver answers to a read of a part, and the bytes it leaves.
Answered(r, data, from, length) ==
  \/ /\ ~Denied(vs_current, from)
     /\ r = DevCount(vs_current, length)
     /\ data = [k \in 0 .. length - 1 |-> disk[vs_current][from + k]]
     /\ UNCHANGED <<ioerr, failed>>
  \/ /\ Denied(vs_current, from)
     /\ failed' = TRUE /\ UNCHANGED ioerr
     /\ r = 0 /\ data = [k \in 0 .. length - 1 |-> Junk]
  \/ /\ ioerr < MaxIoErrors /\ vs_current # "ram"
     /\ ioerr' = ioerr + 1 /\ failed' = TRUE
     /\ r = DevFailure(vs_current) /\ data = [k \in 0 .. length - 1 |-> Junk]

\* A negative answer is a failure of a driver that reports it, and no other
\* answer hides one but that of a card or of the ramdisk.
Understood(r, data, from, length) ==
  /\ r \in Int /\ data \in [0 .. length - 1 -> Int]
  /\ ioerr' \in 0 .. MaxIoErrors /\ failed' \in BOOLEAN
  /\ r < 0 => failed' = TRUE /\ Reports(vs_current)
  /\ r >= 0 => \/ /\ failed' = TRUE
                  /\ IsMmc(vs_current) \/ (Denied(vs_current, from) /\ r = 0)
               \/ /\ ~Denied(vs_current, from)
                  /\ failed' = failed /\ r = DevCount(vs_current, length)
                  /\ \A k \in 0 .. length - 1 : data[k] = disk[vs_current][from + k]

\* That is how every answer for a part of the device can be read.
LEMMA Answer ==
  ASSUME TypeOK, vs_current \in Devs, NEW from \in Nat, NEW length \in Nat,
         from + length <= DevSize, NEW r, NEW data, Answered(r, data, from, length)
  PROVE  Understood(r, data, from, length)
  <1>1. DevCount(vs_current, length) \in Nat
    BY CountType
  <1>2. CASE /\ ~Denied(vs_current, from)
             /\ r = DevCount(vs_current, length)
             /\ data = [k \in 0 .. length - 1 |-> disk[vs_current][from + k]]
             /\ UNCHANGED <<ioerr, failed>>
    <2>1. \A k \in 0 .. length - 1 : disk[vs_current][from + k] \in Int
      BY RequestAssumption DEF TypeOK
    <2>2. data \in [0 .. length - 1 -> Int]
          /\ \A k \in 0 .. length - 1 : data[k] = disk[vs_current][from + k]
      BY <1>2, <2>1
    <2>3. r \in Int /\ r >= 0 /\ ~(r < 0)
      BY <1>1, <1>2
    <2>4. failed' = failed /\ failed' \in BOOLEAN
      BY <1>2, Zenon DEF TypeOK
    <2>5. QED
      BY <1>2, <2>2, <2>3, <2>4 DEF TypeOK, Understood
  <1>3. CASE /\ ioerr < MaxIoErrors /\ vs_current # "ram"
             /\ ioerr' = ioerr + 1 /\ failed' = TRUE
             /\ r = DevFailure(vs_current) /\ data = [k \in 0 .. length - 1 |-> Junk]
    <2>1. data \in [0 .. length - 1 -> Int]
      BY <1>3 DEF Junk
    <2>2. ioerr' \in 0 .. MaxIoErrors
      BY <1>3, RequestAssumption DEF TypeOK
    <2>3. r \in Int /\ (r < 0 <=> Reports(vs_current)) /\ (r >= 0 <=> IsMmc(vs_current))
      BY <1>3 DEF DevFailure, Reports
    <2>4. failed' = TRUE /\ failed' \in BOOLEAN
      BY <1>3, Zenon
    <2>5. /\ r < 0 => Reports(vs_current)
          /\ r >= 0 => IsMmc(vs_current)
      BY <2>3
    <2>6. CASE IsMmc(vs_current)
      <3>1. ~(r < 0) /\ r >= 0
        BY <2>3, <2>6 DEF Reports
      <3>2. failed' = TRUE /\ (IsMmc(vs_current) \/ (Denied(vs_current, from) /\ r = 0))
        BY <2>4, <2>6, Zenon
      <3>3. r \in Int
        BY <2>3
      <3>4. QED
        BY <2>1, <2>2, <2>4, <3>1, <3>2, <3>3, Zenon DEF Understood
    <2>7. CASE ~IsMmc(vs_current)
      <3>1. ~(r >= 0) /\ r < 0 /\ Reports(vs_current)
        BY <2>3, <2>7
      <3>2. QED
        BY <2>1, <2>2, <2>3, <2>4, <3>1 DEF Understood
    <2>8. QED
      BY <2>6, <2>7
  <1>4. CASE /\ Denied(vs_current, from)
             /\ failed' = TRUE /\ UNCHANGED ioerr
             /\ r = 0 /\ data = [k \in 0 .. length - 1 |-> Junk]
    <2>1. data \in [0 .. length - 1 -> Int]
      BY <1>4 DEF Junk
    <2>2. r \in Int /\ ~(r < 0)
      BY <1>4
    <2>3. QED
      BY <1>4, <2>1, <2>2 DEF TypeOK, Understood
  <1>5. QED
    BY <1>2, <1>3, <1>4 DEF Answered

\* What is counted grows by the n bytes of a part of `length`, all of it whole
\* units, that starts on or before the first of them and is denied exactly
\* when that one lies below the limit.
LEMMA Adds ==
  ASSUME TypeOK, NEW at \in Nat, NEW n \in Nat, NEW length \in Nat, n > 0, n <= length,
         vs_current # "fnd", length % Unit = 0, NEW from \in Nat,
         vs_current = "ram" =>
           (from < IUS_DEFAULT_LOCATION <=> req.start + at < IUS_DEFAULT_LOCATION),
         NEW r, NEW data, Understood(r, data, from, length), r >= 0,
         NEW count \in Nat, Tally(at, failed, count)
  PROVE  Tally(at + n, failed', count + r)
  <1>1. r \in Nat /\ req.start \in Nat /\ IUS_DEFAULT_LOCATION \in Nat
    BY RequestAssumption DEF Understood, TypeOK
  <1>2. ~IsMmc(vs_current) => DevCount(vs_current, length) = length
    BY CountWhole DEF Unit
  <1>3. CASE IsMmc(vs_current)
    BY <1>3 DEF Tally, Reports, IsMmc
  <1>4. CASE Reports(vs_current)
    <2>1. failed' = failed /\ r = length
      BY <1>2, <1>4 DEF Understood, Reports, Denied
    <2>2. ~failed /\ count >= at /\ vs_current # "ram"
      BY <1>4 DEF Tally, Reports
    <2>3. count + r >= at + n
      BY <1>1, <2>1, <2>2
    <2>4. QED
      BY <2>1, <2>2, <2>3 DEF Tally
  <1>5. CASE vs_current = "ram"
    <2>1. ~IsMmc(vs_current) /\ ~Reports(vs_current)
      BY <1>5 DEF IsMmc, Reports
    <2>2. /\ ~failed => count >= at
          /\ failed <=> at > 0 /\ req.start < IUS_DEFAULT_LOCATION
          /\ req.start + at <= IUS_DEFAULT_LOCATION => count = 0
      BY <1>5, <2>1 DEF Tally
    <2>3. CASE req.start + at < IUS_DEFAULT_LOCATION
      <3>1. failed' = TRUE /\ r = 0
        BY <1>5, <2>1, <2>3 DEF Understood, Denied
      <3>2. count = 0 /\ count + r = 0 /\ at + n > 0 /\ req.start < IUS_DEFAULT_LOCATION
        BY <1>1, <2>2, <2>3, <3>1
      <3>3. QED
        BY <1>5, <2>1, <3>1, <3>2 DEF Tally
    <2>4. CASE ~(req.start + at < IUS_DEFAULT_LOCATION)
      <3>1. failed' = failed /\ r = length
        BY <1>2, <1>5, <2>1, <2>4 DEF Understood, Denied
      <3>2. ~failed => count + r >= at + n
        BY <1>1, <2>2, <3>1
      <3>3. ~(req.start + (at + n) <= IUS_DEFAULT_LOCATION) /\ at + n > 0
        BY <1>1, <2>4
      <3>4. failed <=> req.start < IUS_DEFAULT_LOCATION
        BY <1>1, <2>2, <2>4
      <3>5. QED
        BY <1>5, <2>1, <3>1, <3>2, <3>3, <3>4 DEF Tally
    <2>5. QED
      BY <2>3, <2>4
  <1>6. QED
    BY <1>3, <1>4, <1>5 DEF Reports

\* A copy stays in its places and takes bytes that were read.
Placed(m, at, data, skip, n) ==
  /\ m \in [Mem -> Int]
  /\ \A i \in Mem : m[i] = IF i \in at .. at + n - 1 THEN data[skip + i - at] ELSE mem[i]

\* That is so of what memcpy makes of the memory.
LEMMA CopyType ==
  ASSUME TypeOK, NEW at \in Nat, NEW n \in Nat, NEW skip \in Nat, NEW length \in Nat,
         NEW data \in [0 .. length - 1 -> Int], skip + n <= length
  PROVE  Placed(Copied(at, data, skip, n), at, data, skip, n)
  <1>1. Mem \subseteq Nat
    BY RequestAssumption DEF Mem
  <1>2. ASSUME NEW i \in Mem, i \in at .. at + n - 1
        PROVE  data[skip + i - at] \in Int
    BY <1>1, <1>2
  <1>3. QED
    BY <1>2 DEF Copied, TypeOK, Placed

\* A read that returns: the locals are gone, the request stays.
LEMMA Returned ==
  ASSUME ReadInv, NEW r \in Int, Return(r), UNCHANGED <<vs_current, disk, req, ops>>,
         mem' \in [Mem -> Int], ioerr' \in 0 .. MaxIoErrors, failed' \in BOOLEAN,
         DeliversRequest', BufferRespected', FailureReported', DenialIsShort',
         CountCoversRequest'
  PROVE  ReadInv'
  <1>1. TypeOK'
    BY DEF ReadInv, TypeOK, Return, NoLoc
  <1>2. QED
    BY <1>1 DEF ReadInv, Return, AtDirect, AtPre, AtMiddle, AtPost

\* The pages of fnd are no concern of the other devices.
LEMMA InvDirect == ReadInv /\ ReadDirect => ReadInv'
  <1> SUFFICES ASSUME ReadInv, ReadDirect PROVE ReadInv'
    OBVIOUS
  <1>1. vs_current = "fnd" /\ vs_current' = vs_current
    BY DEF ReadInv, AtDirect, ReadDirect
  <1>2. ~ReadOver'
    BY <1>1 DEF ReadOver
  <1>3. PICK r \in {DevCount("fnd", loc.length), DevFailure("fnd")} : Return(r)
    BY DEF ReadDirect
  <1>4. UNCHANGED <<vs_current, disk, req, ops>>
    BY DEF ReadDirect
  <1>5. mem' \in [Mem -> Int]
    BY DEF ReadInv, TypeOK, ReadDirect, Junk
  <1>6. ioerr' \in 0 .. MaxIoErrors
    BY RequestAssumption DEF ReadInv, TypeOK, ReadDirect
  <1>7. failed' \in BOOLEAN
    BY Zenon DEF ReadInv, TypeOK, ReadDirect
  <1>8. /\ DeliversRequest' /\ BufferRespected' /\ FailureReported' /\ DenialIsShort'
        /\ CountCoversRequest'
    BY <1>2 DEF DeliversRequest, BufferRespected, FailureReported, DenialIsShort,
                CountCoversRequest
  <1>9. r \in Int
    <2>1. loc.length \div (Page + SysInfo) \in Int
      BY UnitAssumption DEF ReadInv, TypeOK
    <2> DEFINE q == loc.length \div (Page + SysInfo)
    <2> HIDE DEF q
    <2>2. q * (Page + SysInfo) \in Int
      BY <2>1, UnitAssumption DEF q
    <2>3. DevCount("fnd", loc.length) = q * (Page + SysInfo)
      BY DEF DevCount, IsMmc, q
    <2>4. QED
      BY <1>3, <2>2, <2>3 DEF DevFailure
  <1>10. QED
    BY <1>3, <1>4, <1>5, <1>6, <1>7, <1>8, <1>9, Returned

\* The numbers of the request stay what they are until it is answered.
LEMMA SameRequest ==
  ASSUME UNCHANGED <<vs_current, req>>
  PROVE  Unit' = Unit /\ Forced' = Forced /\ Head' = Head /\ Tail' = Tail
  BY DEF Unit, Forced, Head, Tail

\* A failure that is reported ends the read: nothing was put behind the
\* request, and the result is negative.
LEMMA Reported ==
  ASSUME ReadInv, NEW r \in Int, r < 0, Return(r), Reports(vs_current), failed' = TRUE,
         UNCHANGED <<vs_current, disk, req, ops, mem>>, ioerr' \in 0 .. MaxIoErrors,
         ReachesBoundary => \A i \in Mem : i >= Forced => mem[i] = Untouched
  PROVE  ReadInv'
  <1>1. DeliversRequest' /\ FailureReported' /\ DenialIsShort' /\ CountCoversRequest'
    BY DEF DeliversRequest, FailureReported, DenialIsShort, CountCoversRequest, Return,
           Reports
  <1>2. BufferRespected'
    <2>1. ReachesBoundary' = ReachesBoundary
      BY DEF ReachesBoundary
    <2>2. Forced = IF vs_current = "nnd" THEN RoundUp(req.length, Page) ELSE req.length
      BY DEF Forced, ForcedLength
    <2>3. QED
      BY <2>1, <2>2 DEF BufferRespected
  <1>3. QED
    BY <1>1, <1>2, Returned DEF ReadInv, TypeOK

\* What vs_read does with the answer for its head.
PreDone(r, data) ==
  IF r < 0
    THEN Return(r) /\ UNCHANGED mem
    ELSE /\ mem' = Copied(0, data, Unit - loc.prelen, loc.prelen)
         /\ loc' = [loc EXCEPT !.buf = loc.prelen,
                      !.start = @ + loc.prelen,
                      !.length = @ - loc.prelen - loc.postlen,
                      !.read = r]
         /\ pc' = "middle" /\ UNCHANGED res

\* The head: the part of its unit behind the start is copied.
LEMMA InvPre == ReadInv /\ ReadPre => ReadInv'
  <1> SUFFICES ASSUME ReadInv, ReadPre PROVE ReadInv'
    OBVIOUS
  <1>1. TypeOK /\ Asked /\ mem = Fresh /\ failed = FALSE /\ pc = "pre"
        /\ loc = [buf |-> 0, start |-> req.start, length |-> Forced, read |-> 0,
                  prelen |-> Head, postlen |-> Tail]
    BY DEF ReadInv, AtPre, ReadPre, TypeOK
  <1>2. UNCHANGED <<vs_current, disk, req, ops>>
    BY DEF ReadPre
  <1>3. Unit' = Unit /\ Forced' = Forced /\ Head' = Head /\ Tail' = Tail
    BY <1>2, SameRequest
  <1>4. /\ Unit \in Nat \ {0} /\ Forced \in Nat /\ req.start \in Nat
        /\ Head \in 0 .. Unit - 1 /\ Tail \in 0 .. Unit - 1
    BY <1>1, Numbers
  <1>5. Asked'
    BY <1>1, <1>2, <1>3 DEF Asked
  <1>6. ASSUME pc' = "middle", TypeOK', loc'.buf = Head, loc'.start = req.start + Head,
               loc'.length = Forced - Head - Tail, loc'.postlen = Tail,
               Holds(Head)', Counted(Head)'
        PROVE  ReadInv'
    <2>1. AtMiddle'
      BY <1>2, <1>3, <1>5, <1>6 DEF AtMiddle
    <2>2. QED
      BY <1>6, <2>1
         DEF ReadInv, AtDirect, AtPre, AtPost, ReadOver, DeliversRequest,
             BufferRespected, FailureReported, DenialIsShort, CountCoversRequest
  <1>7. CASE Head = 0
    <2>1. /\ pc' = "middle" /\ loc' = [loc EXCEPT !.length = @ - loc.postlen]
          /\ UNCHANGED <<mem, res, ioerr, failed>>
      BY <1>1, <1>7 DEF ReadPre
    <2>2. /\ loc'.buf = Head /\ loc'.start = req.start + Head
          /\ loc'.length = Forced - Head - Tail /\ loc'.postlen = Tail /\ loc'.read = 0
      BY <1>1, <1>4, <1>7, <2>1
    <2>3. TypeOK'
      <3>1. loc' \in [buf : Nat, start : Nat, length : Int, prelen : Nat,
                      postlen : Nat, read : Nat]
        BY <1>1, <1>4, <2>1
      <3>2. failed' \in BOOLEAN
        BY <1>1, <2>1
      <3>3. QED
        BY <1>1, <1>2, <2>1, <3>1, <3>2 DEF TypeOK
    <2>4. Holds(Head)' /\ Counted(Head)'
      <3>1. Holds(Head)'
        BY <1>1, <1>2, <1>3, <1>7, <2>1, RequestAssumption DEF Holds, Fresh, Mem
      <3>2. failed' = FALSE /\ Head' = 0 /\ loc'.read = 0
        BY <1>1, <1>3, <1>7, <2>1, <2>2
      <3>3. Counted(Head)'
        BY <3>2 DEF Counted, Tally
      <3>4. QED
        BY <3>1, <3>3
    <2>5. QED
      BY <1>6, <2>1, <2>2, <2>3, <2>4
  <1>8. CASE Head # 0
    <2> DEFINE from == req.start - (req.start % Unit)
    <2>1. PICK r, data : Answered(r, data, from, Unit) /\ PreDone(r, data)
      <3>1. DeviceRead(from, Unit, PreDone)
        BY <1>1, <1>8 DEF ReadPre, PreDone, Unit
      <3>2. QED
        BY <3>1 DEF DeviceRead, Answered
    <2>2. Head = Unit - (req.start % Unit) /\ req.start % Unit \in 1 .. Unit - 1
          /\ req.start % Unit <= req.start
      BY <1>1, <1>8, Numbers
    <2>3. from \in Nat /\ from + Unit <= DevSize
      BY <1>1, <1>4, <2>2, RequestAssumption DEF Asked
    <2> HIDE DEF from
    <2>4. Understood(r, data, from, Unit)
      <3>1. vs_current \in Devs /\ Unit \in Nat
        BY <1>1, <1>4 DEF Asked
      <3>2. QED
        BY <1>1, <2>1, <2>3, <3>1, Answer
    <2>5. CASE r < 0
      <3>1. Return(r) /\ UNCHANGED mem
        BY <2>1, <2>5 DEF PreDone
      <3>2. \A i \in Mem : i >= Forced => mem[i] = Untouched
        BY <1>1 DEF Fresh
      <3>3. QED
        BY <1>2, <2>4, <2>5, <3>1, <3>2, Reported DEF Understood
    <2>6. CASE r >= 0
      <3>1. /\ mem' = Copied(0, data, Unit - Head, Head)
            /\ loc' = [loc EXCEPT !.buf = Head, !.start = @ + Head,
                         !.length = @ - Head - Tail, !.read = r]
            /\ pc' = "middle" /\ UNCHANGED res
        BY <1>1, <2>1, <2>4, <2>6 DEF PreDone, Understood
      <3>2. /\ mem' \in [Mem -> Int]
            /\ \A i \in Mem : mem'[i] =
                 IF i \in 0 .. 0 + Head - 1 THEN data[Unit - Head + i - 0] ELSE mem[i]
        <4>1. /\ 0 \in Nat /\ Unit - Head \in Nat /\ Head \in Nat /\ Unit \in Nat
              /\ Unit - Head + Head <= Unit
          BY <1>4
        <4>2. data \in [0 .. Unit - 1 -> Int]
          BY <2>4 DEF Understood
        <4>3. Placed(mem', 0, data, Unit - Head, Head)
          BY <1>1, <3>1, <4>1, <4>2, CopyType
        <4>4. QED
          BY <4>3 DEF Placed
      <3>3. /\ loc'.buf = Head /\ loc'.start = req.start + Head
            /\ loc'.length = Forced - Head - Tail /\ loc'.postlen = Tail /\ loc'.read = r
        BY <1>1, <1>4, <3>1
      <3>4. TypeOK'
        <4>1. loc' \in [buf : Nat, start : Nat, length : Int, prelen : Nat,
                        postlen : Nat, read : Nat]
          <5>1. r \in Nat
            BY <2>4, <2>6 DEF Understood
          <5>2. loc' = [buf |-> Head, start |-> req.start + Head,
                        length |-> Forced - Head - Tail, read |-> r,
                        prelen |-> Head, postlen |-> Tail]
            BY <1>1, <3>1
          <5>3. QED
            BY <1>4, <5>1, <5>2
        <4>2. QED
          BY <1>1, <1>2, <2>4, <3>1, <3>2, <4>1 DEF TypeOK, Understood
      <3>5. Holds(Head)'
        <4>1. Mem \subseteq Nat
          BY RequestAssumption DEF Mem
        <4>2. ASSUME NEW i \in Mem, i < Head
              PROVE  failed' \/ mem'[i] = disk[vs_current][req.start + i]
          <5>1. mem'[i] = data[Unit - Head + i]
            BY <1>4, <3>2, <4>1, <4>2
          <5>2. Unit - Head + i \in 0 .. Unit - 1 /\ from + (Unit - Head + i) = req.start + i
            BY <1>4, <2>2, <4>1, <4>2 DEF from
          <5>3. QED
            BY <2>4, <2>6, <5>1, <5>2 DEF Understood
        <4>3. ASSUME NEW i \in Mem, ~(i < Head)
              PROVE  mem'[i] = Untouched
          BY <1>1, <1>4, <3>2, <4>1, <4>3 DEF Fresh
        <4>4. QED
          BY <1>2, <1>3, <4>2, <4>3 DEF Holds
      <3>6. Counted(Head)'
        <4>1. Unit % Unit = 0 /\ Unit \in Nat
          BY <1>4
        <4>2. Tally(0, failed, 0)
          BY <1>1, RequestAssumption DEF Tally, TypeOK
        <4>3. vs_current = "ram" =>
                (from < IUS_DEFAULT_LOCATION <=> req.start + 0 < IUS_DEFAULT_LOCATION)
          <5>1. SUFFICES ASSUME vs_current = "ram"
                         PROVE  from < IUS_DEFAULT_LOCATION <=> req.start < IUS_DEFAULT_LOCATION
            BY <1>4
          <5>2. Unit = Sector
            BY <5>1 DEF Unit, vs_align
          <5>3. IUS_DEFAULT_LOCATION \in Nat /\ IUS_DEFAULT_LOCATION % Unit = 0
            BY <5>2, RequestAssumption
          <5>4. QED
            BY <1>4, <5>3, SameSide DEF from
        <4>4. Head \in Nat /\ Head > 0 /\ Head <= Unit /\ 0 \in Nat
          BY <1>4, <1>8
        <4>5. Tally(0 + Head, failed', 0 + r)
          BY <1>1, <2>3, <2>4, <2>6, <4>1, <4>2, <4>3, <4>4, Adds DEF Asked
        <4>6. 0 + Head = Head /\ 0 + r = r
          BY <2>4, <4>4 DEF Understood
        <4>7. Tally(Head, failed', r)
          BY <4>5, <4>6
        <4>8. QED
          BY <1>2, <1>3, <3>3, <4>7 DEF Counted, Tally
      <3>7. QED
        BY <1>6, <3>1, <3>3, <3>4, <3>5, <3>6
    <2>7. QED
      BY <2>4, <2>5, <2>6 DEF Understood
  <1>9. QED
    BY <1>7, <1>8

\* After a step that copies, the first n bytes are in memory.
HoldsNext(n) ==
  \A i \in Mem : IF i < n THEN failed' \/ mem'[i] = disk[vs_current][req.start + i]
                 ELSE mem'[i] = Untouched

\* What is in memory grows by what the driver read.
LEMMA Grows ==
  ASSUME TypeOK, UNCHANGED <<vs_current, disk, req>>,
         NEW at \in Nat, NEW n \in Nat, NEW length \in Nat, n <= length, NEW r, NEW data,
         Understood(r, data, req.start + at, length), r >= 0,
         mem' = Copied(at, data, 0, n), Holds(at)
  PROVE  mem' \in [Mem -> Int] /\ HoldsNext(at + n)
  <1>1. Mem \subseteq Nat
    BY RequestAssumption DEF Mem
  <1>2. Placed(mem', at, data, 0, n)
    <2>1. data \in [0 .. length - 1 -> Int] /\ 0 \in Nat /\ 0 + n <= length
      BY DEF Understood
    <2>2. QED
      BY <2>1, CopyType
  <1>3. req.start \in Nat
    BY DEF TypeOK
  <1>4. ASSUME NEW i \in Mem, i < at
        PROVE  failed' \/ mem'[i] = disk[vs_current][req.start + i]
    <2>1. mem'[i] = mem[i]
      BY <1>1, <1>2, <1>4 DEF Placed
    <2>2. failed \/ mem[i] = disk[vs_current][req.start + i]
      BY <1>4 DEF Holds
    <2>3. failed' = TRUE \/ failed' = failed
      BY DEF Understood
    <2>4. QED
      BY <2>1, <2>2, <2>3
  <1>5. ASSUME NEW i \in Mem, ~(i < at), i < at + n
        PROVE  failed' \/ mem'[i] = disk[vs_current][req.start + i]
    <2>1. mem'[i] = data[i - at]
      BY <1>1, <1>2, <1>5 DEF Placed
    <2>2. i - at \in 0 .. length - 1 /\ (req.start + at) + (i - at) = req.start + i
      BY <1>1, <1>3, <1>5
    <2>3. failed' = TRUE \/ \A k \in 0 .. length - 1 :
                              data[k] = disk[vs_current][(req.start + at) + k]
      BY DEF Understood
    <2>4. QED
      BY <2>1, <2>2, <2>3
  <1>6. ASSUME NEW i \in Mem, ~(i < at + n)
        PROVE  mem'[i] = Untouched
    <2>1. mem'[i] = mem[i] /\ ~(i < at)
      BY <1>1, <1>2, <1>6 DEF Placed
    <2>2. QED
      BY <2>1 DEF Holds
  <1>7. HoldsNext(at + n)
    BY <1>1, <1>4, <1>5, <1>6 DEF HoldsNext
  <1>8. QED
    BY <1>2, <1>7 DEF Placed

\* What vs_read does with the answer for its middle.
MiddleDone(r, data) ==
  IF r < 0
    THEN Return(r) /\ UNCHANGED mem
    ELSE /\ mem' = Copied(loc.buf, data, 0, loc.length)
         /\ loc' = [loc EXCEPT !.buf = @ + loc.length,
                      !.start = @ + loc.length,
                      !.length = 0, !.read = @ + r]
         /\ pc' = "post" /\ UNCHANGED res

\* The middle: whole units, straight to the caller's memory.
LEMMA InvMiddle == ReadInv /\ ReadMiddle => ReadInv'
  <1> SUFFICES ASSUME ReadInv, ReadMiddle PROVE ReadInv'
    OBVIOUS
  <1> DEFINE n == Forced - Head - Tail
  <1>1. /\ TypeOK /\ Asked /\ pc = "middle"
        /\ loc.buf = Head /\ loc.start = req.start + Head
        /\ loc.length = n /\ loc.postlen = Tail
        /\ Holds(Head) /\ Counted(Head)
    BY DEF ReadInv, AtMiddle, ReadMiddle
  <1>2. UNCHANGED <<vs_current, disk, req, ops>>
    BY DEF ReadMiddle
  <1>3. Unit' = Unit /\ Forced' = Forced /\ Head' = Head /\ Tail' = Tail
    BY <1>2, SameRequest
  <1>4. /\ Unit \in Nat \ {0} /\ Forced \in Nat /\ req.start \in Nat
        /\ Head \in 0 .. Unit - 1 /\ Tail \in 0 .. Unit - 1
        /\ n % Unit = 0
        /\ Forced >= Head => n >= 0
        /\ req.length \in Nat /\ req.length <= Forced
    BY <1>1, Numbers
  <1>5. Asked'
    BY <1>1, <1>2, <1>3 DEF Asked
  <1>6. ASSUME pc' = "post", TypeOK', loc'.buf = Forced - Tail,
               loc'.start = req.start + Forced - Tail, loc'.postlen = Tail,
               Holds(Forced - Tail)', Counted(Forced - Tail)'
        PROVE  ReadInv'
    <2>1. AtPost'
      BY <1>2, <1>3, <1>5, <1>6 DEF AtPost
    <2>2. QED
      BY <1>6, <2>1
         DEF ReadInv, AtDirect, AtPre, AtMiddle, ReadOver, DeliversRequest,
             BufferRespected, FailureReported, DenialIsShort, CountCoversRequest
  <1>7. CASE n = 0
    <2>1. pc' = "post" /\ UNCHANGED <<loc, mem, res, ioerr, failed>>
      BY <1>1, <1>7 DEF ReadMiddle
    <2>2. Forced - Tail = Head /\ req.start + Forced - Tail = req.start + Head
      BY <1>4, <1>7
    <2>3. failed' \in BOOLEAN
      BY <1>1, <2>1, Zenon DEF TypeOK
    <2>4. TypeOK'
      BY <1>1, <1>2, <2>1, <2>3 DEF TypeOK
    <2>5. Holds(Forced - Tail)' /\ Counted(Forced - Tail)'
      <3>1. Holds(Forced - Tail) /\ Counted(Forced - Tail)
        BY <1>1, <2>2
      <3>2. Forced' - Tail' = Forced - Tail
        BY <1>3
      <3>3. UNCHANGED <<loc, mem, failed, vs_current, disk, req>>
        BY <1>2, <2>1
      <3>4. QED
        BY <3>1, <3>2, <3>3, Zenon DEF Holds, Counted, Tally, Reports
    <2>6. QED
      BY <1>1, <1>6, <2>1, <2>2, <2>4, <2>5
  <1>8. CASE n < 0
    <2>1. /\ Return(Junk)
          /\ mem' = [i \in Mem |-> Junk] /\ UNCHANGED <<ioerr, failed>>
      BY <1>1, <1>4, <1>8 DEF ReadMiddle
    <2>2. ~ReachesBoundary'
      <3>1. Head = PreLen(req.start, vs_align(vs_current))
        BY DEF Head, Unit
      <3>2. ~(req.length >= Head)
        BY <1>4, <1>8
      <3>3. QED
        BY <1>2, <3>1, <3>2 DEF ReachesBoundary
    <2>3. /\ DeliversRequest' /\ BufferRespected' /\ FailureReported' /\ DenialIsShort'
          /\ CountCoversRequest'
      BY <2>2 DEF DeliversRequest, BufferRespected, FailureReported, DenialIsShort,
                  CountCoversRequest
    <2>4. Junk \in Int /\ mem' \in [Mem -> Int]
      BY <2>1 DEF Junk
    <2>5. failed' \in BOOLEAN
      BY <1>1, <2>1, Zenon DEF TypeOK
    <2>6. ioerr' \in 0 .. MaxIoErrors
      BY <1>1, <2>1 DEF TypeOK
    <2>7. QED
      BY <1>2, <2>1, <2>3, <2>4, <2>5, <2>6, Returned
  <1>9. CASE n > 0
    <2>1. PICK r, data : Answered(r, data, req.start + Head, n) /\ MiddleDone(r, data)
      <3>1. DeviceRead(loc.start, loc.length, MiddleDone)
        <4>1. ~(loc.length = 0) /\ ~(loc.length < 0)
          BY <1>1, <1>4, <1>9
        <4>2. QED
          BY <4>1, Zenon DEF ReadMiddle, MiddleDone
      <3>2. QED
        BY <1>1, <3>1 DEF DeviceRead, Answered
    <2>2. /\ n \in Nat /\ Head \in Nat /\ req.start + Head \in Nat
          /\ (req.start + Head) + n <= DevSize
      BY <1>1, <1>4, <1>9, RequestAssumption DEF Asked
    <2>3. Understood(r, data, req.start + Head, n)
      <3>1. vs_current \in Devs
        BY <1>1 DEF Asked
      <3> HIDE DEF n
      <3>2. QED
        BY <1>1, <2>1, <2>2, <3>1, Answer
    <2>4. CASE r < 0
      <3>1. Return(r) /\ UNCHANGED mem
        BY <2>1, <2>4 DEF MiddleDone
      <3>2. \A i \in Mem : i >= Forced => mem[i] = Untouched
        <4>1. Mem \subseteq Nat
          BY RequestAssumption DEF Mem
        <4>2. \A i \in Mem : i >= Forced => ~(i < Head)
          BY <1>4, <1>9, <4>1
        <4>3. QED
          BY <1>1, <4>2 DEF Holds
      <3>3. QED
        BY <1>2, <2>3, <2>4, <3>1, <3>2, Reported DEF Understood
    <2>5. CASE r >= 0
      <3>1. /\ mem' = Copied(Head, data, 0, n)
            /\ loc' = [loc EXCEPT !.buf = @ + n, !.start = @ + n,
                         !.length = 0, !.read = @ + r]
            /\ pc' = "post" /\ UNCHANGED res
        BY <1>1, <2>1, <2>3, <2>5 DEF MiddleDone, Understood
      <3>2. mem' \in [Mem -> Int] /\ HoldsNext(Head + n)
        <4> HIDE DEF n
        <4>1. n <= n
          BY <2>2
        <4>2. QED
          BY <1>1, <1>2, <2>2, <2>3, <2>5, <3>1, <4>1, Grows
      <3>3. Head + n = Forced - Tail
        BY <1>4
      <3>4. r \in Nat
        BY <2>3, <2>5 DEF Understood
      <3>5. /\ loc'.buf = Forced - Tail /\ loc'.start = req.start + Forced - Tail
            /\ loc'.postlen = Tail /\ loc'.read = loc.read + r
            /\ loc' \in [buf : Nat, start : Nat, length : Int, prelen : Nat,
                         postlen : Nat, read : Nat]
        <4>1. loc \in [buf : Nat, start : Nat, length : Int, prelen : Nat,
                       postlen : Nat, read : Nat]
          BY <1>1 DEF TypeOK
        <4>2. loc' = [buf |-> loc.buf + n, start |-> loc.start + n, length |-> 0,
                      prelen |-> loc.prelen, postlen |-> loc.postlen,
                      read |-> loc.read + r]
          BY <3>1, <4>1
        <4>3. loc.buf + n = Forced - Tail /\ loc.start + n = req.start + Forced - Tail
          BY <1>1, <1>4
        <4>4. loc.buf + n \in Nat /\ loc.start + n \in Nat /\ loc.read + r \in Nat
          BY <1>4, <2>2, <3>4, <4>1
        <4> HIDE DEF n
        <4>5. QED
          BY <1>1, <4>1, <4>2, <4>3, <4>4
      <3>6. TypeOK'
        BY <1>1, <1>2, <2>3, <3>1, <3>2, <3>5 DEF TypeOK, Understood
      <3>7. Counted(Forced - Tail)'
        <4>1. Tally(Head, failed, loc.read) /\ loc.read \in Nat
          BY <1>1 DEF Counted, TypeOK
        <4>2. n > 0 /\ n <= n
          BY <1>9, <2>2
        <4>3. Tally(Head + n, failed', loc.read + r)
          <5> HIDE DEF n
          <5>1. QED
            BY <1>1, <1>4, <2>2, <2>3, <2>5, <4>1, <4>2, Adds DEF Asked
        <4>4. Tally(Forced - Tail, failed', loc'.read)
          BY <3>3, <3>5, <4>3
        <4>5. QED
          BY <1>2, <1>3, <4>4 DEF Counted, Tally
      <3>8. Holds(Forced - Tail)'
        <4>1. HoldsNext(Forced - Tail)
          BY <3>2, <3>3
        <4>2. QED
          BY <1>2, <1>3, <4>1 DEF Holds, HoldsNext
      <3>9. QED
        BY <1>6, <3>1, <3>5, <3>6, <3>7, <3>8
    <2>6. QED
      BY <2>3, <2>4, <2>5 DEF Understood
  <1>10. QED
    BY <1>4, <1>7, <1>8, <1>9

\* A read that went to its end: all of the request is in memory.
LEMMA Finished ==
  ASSUME ReadInv, Asked, NEW r \in Nat, Return(r), UNCHANGED <<vs_current, disk, req, ops>>,
         mem' \in [Mem -> Int], ioerr' \in 0 .. MaxIoErrors, failed' \in BOOLEAN,
         HoldsNext(Forced), Tally(Forced, failed', r)
  PROVE  ReadInv'
  <1>1. Forced \in Nat /\ req.length \in Nat /\ req.length <= Forced /\ Forced <= DevSize
        /\ DevSize \in Nat
    <2>1. /\ Forced \in Nat /\ req.length \in Nat /\ req.length <= Forced
          /\ Unit \in Nat /\ req.start \in Nat
      BY Numbers DEF ReadInv
    <2>2. QED
      BY <2>1, RequestAssumption DEF Asked
  <1>2. \A i \in 0 .. req.length - 1 : i \in Mem /\ i < Forced
    BY <1>1 DEF Mem
  <1>3. DeliversRequest'
    <2>1. ~failed' => \A i \in 0 .. req.length - 1 :
                        mem'[i] = disk[vs_current][req.start + i]
      BY <1>2 DEF HoldsNext
    <2>2. QED
      BY <2>1 DEF DeliversRequest
  <1>4. BufferRespected'
    <2>1. Mem \subseteq Nat
      BY RequestAssumption DEF Mem
    <2>2. \A i \in Mem : i >= Forced => mem'[i] = Untouched
      BY <1>1, <2>1 DEF HoldsNext
    <2>3. Forced = IF vs_current = "nnd" THEN RoundUp(req.length, Page) ELSE req.length
      BY DEF Forced, ForcedLength
    <2>4. QED
      BY <2>2, <2>3 DEF BufferRespected
  <1>5. res' = r
    BY DEF Return
  <1>6. FailureReported' /\ CountCoversRequest'
    <2>1. ~(r < 0) /\ (r >= Forced => r >= req.length)
      BY <1>1
    <2>2. QED
      BY <1>5, <2>1 DEF FailureReported, CountCoversRequest, Tally
  <1>7. DenialIsShort'
    <2>1. r >= 0 /\ Forced > 0
      BY <1>1 DEF Asked
    <2>2. vs_current = "ram" => Forced = req.length
      BY DEF Forced, ForcedLength
    <2>3. QED
      BY <1>5, <2>1, <2>2 DEF DenialIsShort, Tally
  <1>8. QED
    BY <1>3, <1>4, <1>6, <1>7, Returned

\* What vs_read does with the answer for its tail.
PostDone(r, data) ==
  /\ Return(TailResult(r))
  /\ mem' = IF r < 0 THEN mem ELSE Copied(loc.buf, data, 0, loc.postlen)

\* The tail: the start of its unit is copied, and the read is over.
LEMMA InvPost == ReadInv /\ ReadPost => ReadInv'
  <1> SUFFICES ASSUME ReadInv, ReadPost PROVE ReadInv'
    OBVIOUS
  <1> DEFINE n == Forced - Tail
  <1>1. /\ TypeOK /\ Asked /\ pc = "post"
        /\ loc.buf = n /\ loc.start = req.start + Forced - Tail
        /\ loc.postlen = Tail /\ Holds(n) /\ Counted(n)
    BY DEF ReadInv, AtPost, ReadPost
  <1>2. UNCHANGED <<vs_current, disk, req, ops>>
    BY DEF ReadPost
  <1>3. /\ Unit \in Nat \ {0} /\ Forced \in Nat /\ req.start \in Nat
        /\ Tail \in 0 .. Unit - 1
    BY <1>1, Numbers
  <1>4. loc.read \in Nat /\ n \in Nat
    BY <1>1 DEF TypeOK
  <1>5. CASE Tail = 0
    <2>1. Return(loc.read) /\ UNCHANGED <<mem, ioerr, failed>>
      BY <1>1, <1>5 DEF ReadPost
    <2>2. n = Forced
      BY <1>3, <1>5
    <2>3. HoldsNext(Forced)
      <3>1. Holds(Forced)
        BY <1>1, <2>2
      <3>2. QED
        BY <2>1, <3>1 DEF Holds, HoldsNext
    <2>4. Tally(Forced, failed', loc.read)
      BY <1>1, <2>1, <2>2 DEF Counted
    <2>5. failed' \in BOOLEAN
      BY <1>1, <2>1, Zenon DEF TypeOK
    <2>6. mem' \in [Mem -> Int] /\ ioerr' \in 0 .. MaxIoErrors
      BY <1>1, <2>1 DEF TypeOK
    <2>7. QED
      BY <1>1, <1>2, <1>4, <2>1, <2>3, <2>4, <2>5, <2>6, Finished
  <1>6. CASE Tail # 0
    <2>1. req.start + Forced - Tail = req.start + n
      BY <1>3
    <2>2. PICK r, data : Answered(r, data, req.start + n, Unit) /\ PostDone(r, data)
      <3>1. DeviceRead(loc.start, Unit, PostDone)
        BY <1>1, <1>6, Zenon DEF ReadPost, PostDone, Unit
      <3>2. QED
        BY <1>1, <2>1, <3>1 DEF DeviceRead, Answered
    <2>3. req.start + n \in Nat /\ (req.start + n) + Unit <= DevSize
      BY <1>1, <1>3, <1>4, RequestAssumption DEF Asked
    <2>4. Understood(r, data, req.start + n, Unit)
      <3>1. vs_current \in Devs /\ Unit \in Nat
        BY <1>1, <1>3 DEF Asked
      <3> HIDE DEF n
      <3>2. QED
        BY <1>1, <2>2, <2>3, <3>1, Answer
    <2>5. CASE r < 0
      <3>1. Return(r) /\ UNCHANGED mem
        BY <2>2, <2>5 DEF PostDone, TailResult
      <3>2. \A i \in Mem : i >= Forced => mem[i] = Untouched
        <4>1. Mem \subseteq Nat
          BY RequestAssumption DEF Mem
        <4>2. \A i \in Mem : i >= Forced => ~(i < n)
          BY <1>3, <4>1
        <4>3. QED
          BY <1>1, <4>2 DEF Holds
      <3>3. QED
        BY <1>2, <2>4, <2>5, <3>1, <3>2, Reported DEF Understood
    <2>6. CASE r >= 0
      <3>1. r \in Nat /\ ~(r < 0)
        BY <2>4, <2>6 DEF Understood
      <3>2. Return(loc.read + r) /\ mem' = Copied(n, data, 0, Tail)
        BY <1>1, <2>2, <3>1 DEF PostDone, TailResult
      <3>3. mem' \in [Mem -> Int] /\ HoldsNext(n + Tail)
        <4>1. Tail \in Nat /\ Unit \in Nat /\ Tail <= Unit
          BY <1>3
        <4> HIDE DEF n
        <4>2. QED
          BY <1>1, <1>2, <1>4, <2>4, <2>6, <3>2, <4>1, Grows
      <3>4. n + Tail = Forced
        BY <1>3
      <3>5. Tally(Forced, failed', loc.read + r)
        <4>1. /\ Unit % Unit = 0 /\ Unit \in Nat
              /\ Tail \in Nat /\ Tail > 0 /\ Tail <= Unit
          BY <1>3, <1>6
        <4>2. Tally(n, failed, loc.read)
          BY <1>1 DEF Counted
        <4>3. Tally(n + Tail, failed', loc.read + r)
          <5> HIDE DEF n
          <5>1. QED
            BY <1>1, <1>4, <2>3, <2>4, <2>6, <4>1, <4>2, Adds DEF Asked
        <4>4. QED
          BY <3>4, <4>3
      <3>6. loc.read + r \in Nat
        BY <1>4, <3>1
      <3>7. ioerr' \in 0 .. MaxIoErrors /\ failed' \in BOOLEAN
        BY <2>4 DEF Understood
      <3>8. HoldsNext(Forced)
        BY <3>3, <3>4
      <3>9. QED
        BY <1>1, <1>2, <3>2, <3>3, <3>5, <3>6, <3>7, <3>8, Finished
    <2>7. QED
      BY <2>4, <2>5, <2>6 DEF Understood
  <1>7. QED
    BY <1>5, <1>6

---------------------------------------------------------------------------
(* The theorems.                                                           *)

\* No read is under way when the machine starts.
LEMMA InvInit == Init => ReadInv
  <1> SUFFICES ASSUME Init PROVE ReadInv
    OBVIOUS
  <1>1. disk \in [Devs -> [0 .. DevSize - 1 -> Nat]]
    BY RequestAssumption DEF Init
  <1>2. mem \in [Mem -> Int]
    BY DEF Init, Fresh, Untouched
  <1>3. TypeOK
    <2>1. req \in [start : Nat, length : Nat]
      BY DEF Init, NoReq
    <2>2. loc \in [buf : Nat, start : Nat, length : Int, prelen : Nat,
                  postlen : Nat, read : Nat]
      BY DEF Init, NoLoc
    <2>3. ops \in 0 .. MaxOps /\ ioerr \in 0 .. MaxIoErrors
      BY RequestAssumption DEF Init
    <2>4. vs_current \in {vs_device_name(id) : id \in 0 .. 13} \cup {None}
      BY DEF Init
    <2>5. pc = "idle" /\ res \in Int
      BY DEF Init
    <2>6. failed \in BOOLEAN
      BY Zenon DEF Init
    <2>7. QED
      BY <1>1, <1>2, <2>1, <2>2, <2>3, <2>4, <2>5, <2>6 DEF TypeOK
  <1>4. QED
    BY <1>3 DEF Init, ReadInv, AtDirect, AtPre, AtMiddle, AtPost, ReadOver,
                DeliversRequest, BufferRespected, FailureReported, DenialIsShort, CountCoversRequest

\* Every operation of the layer keeps the invariant.
LEMMA InvNext == ReadInv /\ [Next]_vars => ReadInv'
  <1> SUFFICES ASSUME ReadInv, [Next]_vars PROVE ReadInv'
    OBVIOUS
  <1>1. ASSUME NEW id \in Ids, NEW reset \in BOOLEAN, vs_assign_by_id(id, reset)
        PROVE  ReadInv'
    BY <1>1, InvAssign
  <1>2. ASSUME NEW s \in Starts, NEW l \in Lengths,
               vs_write(s, l) \/ ReadRefused(s, l) \/ vs_read(s, l)
        PROVE  ReadInv'
    BY <1>2, InvWrite, InvRefused, InvRead
  <1>3. CASE ReadDirect
    BY <1>3, InvDirect
  <1>4. CASE ReadPre
    BY <1>4, InvPre
  <1>5. CASE ReadMiddle
    BY <1>5, InvMiddle
  <1>6. CASE ReadPost
    BY <1>6, InvPost
  <1>7. CASE UNCHANGED vars
    BY <1>7 DEF vars, ReadInv, TypeOK, AtDirect, AtPre, AtMiddle, AtPost, ReadOver,
       DeliversRequest, BufferRespected, FailureReported, DenialIsShort, CountCoversRequest,
       ReachesBoundary, Asked, Holds, Counted, Tally, Forced, Unit, Head, Tail
  <1>8. QED
    BY <1>1, <1>2, <1>3, <1>4, <1>5, <1>6, <1>7 DEF Next

\* The invariant holds in every state.
LEMMA InvAlways == Spec => []ReadInv
  BY InvInit, InvNext, PTL DEF Spec

\* Wherever a request starts and ends, and whatever was written before, a
\* read whose device operations worked leaves exactly the bytes asked for in
\* the caller's buffer and nothing behind them (vs_read, vstorage.c:250-327).
THEOREM ReadsAreExact == Spec => []ReadExact
  <1>1. ReadInv => ReadExact
    BY DEF ReadInv, ReadExact
  <1>2. QED
    BY <1>1, InvAlways, PTL

\* On the drivers that report failures a read is negative exactly when one of
\* its parts failed; the ramdisk's read is never negative, fails exactly when
\* it starts below the limit and answers 0 when it ends there too; and one
\* without a failure is never short of the request, so that load_image takes
\* it for whole (vstorage.c:295-325, ramdisk.c:9-26, bootl.c:53-74).
THEOREM ResultsAreHonest == Spec => []HonestResult
  <1>1. ReadInv => HonestResult
    BY DEF ReadInv, HonestResult
  <1>2. QED
    BY <1>1, InvAlways, PTL
=============================================================================
