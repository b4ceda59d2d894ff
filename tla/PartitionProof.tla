--------------------------- MODULE PartitionProof ----------------------------
(***************************************************************************)
(* Proofs about Partition, for every configuration, disk and content of    *)
(* fresh memory.                                                           *)
(***************************************************************************)
EXTENDS Partition, FiniteSetTheorems, TLAPS

---------------------------------------------------------------------------
(* Numbers.                                                                *)

Spare0 == AlignedSpare(128)

\* The constants, and the end of the spare area.
LEMMA Constants ==
  /\ Multip \in Nat /\ Multip >= 64 /\ Word \in Nat /\ Word % 64 = 0
  /\ 16 * (164 * Multip) <= Word
  /\ Spare0 = 128 * Multip + 64 /\ Spare0 % 64 = 0 /\ 16 * Spare0 <= Word
  /\ \A d \in Disks : d \in Nat /\ d > 0 /\ 2 * d < Word
  /\ \A x \in Junk : x \in 0 .. Word - 1
  <1>1. Multip \in Nat /\ Multip % 64 = 0 /\ Multip > 0 /\ Word \in Nat /\ Word % 64 = 0
    BY LayoutAssumption
  <1>2. PICK m \in Nat : Multip = 64 * m
    <2>1. Multip = 64 * (Multip \div 64) /\ Multip \div 64 \in Nat
      BY <1>1
    <2>2. QED
      BY <2>1
  <1>3. Multip >= 64
    BY <1>1, <1>2
  <1>4. 16 * (164 * Multip) <= Word
    BY <1>1, SizeAssumption
  <1>5. Spare0 = 128 * Multip + 64
    <2>1. Spare0 = ((8192 * m + 4) \div 64) * 64 + 64
      BY <1>1, <1>2 DEF Spare0, AlignedSpare
    <2>2. (8192 * m + 4) \div 64 = 128 * m
      BY <1>2
    <2>3. QED
      BY <1>2, <2>1, <2>2
  <1>6. Spare0 % 64 = 0
    BY <1>2, <1>5
  <1>7. 16 * Spare0 <= Word
    BY <1>1, <1>3, <1>4, <1>5
  <1>8. \A d \in Disks : d \in Nat /\ d > 0 /\ 2 * d < Word
    <2>1. 2 * (Word \div 2) <= Word /\ Word \div 2 \in Nat
      BY <1>1
    <2>2. \A d \in Disks : d \in 1 .. (Word \div 2) - 1
      BY LayoutAssumption
    <2>3. QED
      BY <1>1, <2>1, <2>2
  <1>9. \A x \in Junk : x \in 0 .. Word - 1
    BY LayoutAssumption
  <1>10. QED
    BY <1>1, <1>3, <1>4, <1>5, <1>6, <1>7, <1>8, <1>9

\* A sum over some of the parts.
LEMMA SumIs ==
  ASSUME NEW f, NEW a \in Int, NEW b \in Int
  PROVE  Sum(f, a .. b) =
           (IF a <= 0 /\ 0 <= b THEN f[0] ELSE 0) + (IF a <= 1 /\ 1 <= b THEN f[1] ELSE 0)
             + (IF a <= 2 /\ 2 <= b THEN f[2] ELSE 0) + (IF a <= 3 /\ 3 <= b THEN f[3] ELSE 0)
             + (IF a <= 4 /\ 4 <= b THEN f[4] ELSE 0) + (IF a <= 5 /\ 5 <= b THEN f[5] ELSE 0)
             + (IF a <= 6 /\ 6 <= b THEN f[6] ELSE 0) + (IF a <= 7 /\ 7 <= b THEN f[7] ELSE 0)
  <1>1. \A i \in 0 .. 7 : i \in a .. b <=> a <= i /\ i <= b
    OBVIOUS
  <1>2. QED
    BY <1>1 DEF Sum

\* Blocks are counted in the sum or one by one.
LEMMA Distribute ==
  ASSUME NEW m \in Int, NEW x0 \in Int, NEW x1 \in Int, NEW x2 \in Int, NEW x3 \in Int,
         NEW x4 \in Int, NEW x5 \in Int, NEW x6 \in Int
  PROVE  m * (x0 + x1 + x2 + x3 + x4 + x5 + x6)
           = x0 * m + x1 * m + x2 * m + x3 * m + x4 * m + x5 * m + x6 * m
  OBVIOUS

---------------------------------------------------------------------------
(* The configuration.                                                      *)

\* A configured size is a number, and small.
LEMMA SizeIs ==
  ASSUME items \in Configs, NEW i \in Fs
  PROVE  SizeOf(i) \in Nat /\ SizeOf(i) * Multip \in Nat /\ 16 * (SizeOf(i) * Multip) <= Word
  <1>1. Multip \in Nat /\ Word \in Nat
    BY Constants
  <1>2. CASE items[name(i)] = Absent
    <2>1. SizeOf(i) = 0
      BY <1>2 DEF SizeOf, item_strtoul
    <2>2. QED
      BY <1>1, <2>1
  <1>3. CASE items[name(i)] # Absent
    <2>1. /\ items[name(i)].n \in Nat
          /\ 16 * item_strtoul(items[name(i)]) * Multip <= Word
      BY <1>3, SizeAssumption
    <2>2. item_strtoul(items[name(i)]) \in Nat
      BY <1>3, <2>1 DEF item_strtoul
    <2>3. PICK v \in Nat : v = SizeOf(i)
      BY <2>2 DEF SizeOf
    <2>4. 16 * v * Multip <= Word
      BY <2>1, <2>3 DEF SizeOf
    <2>5. v * Multip \in Nat /\ 16 * v * Multip = 16 * (v * Multip)
      BY <1>1
    <2>6. QED
      BY <2>3, <2>4, <2>5
  <1>4. QED
    BY <1>2, <1>3

\* The partitions entered are the first four at least, without a gap.
LEMMA EnteredFirst ==
  \E n \in 4 .. 7 : \A i \in Fs : Entered(i) <=> i < n
  <1>1. Entered(0) /\ Entered(1) /\ Entered(2) /\ Entered(3)
    BY DEF Entered
  <1>2. Entered(6) => Entered(5)
    BY DEF Entered
  <1>3. Entered(5) => Entered(4)
    BY DEF Entered
  <1>4. Fs = {0, 1, 2, 3, 4, 5, 6}
    BY DEF Fs
  <1>5. CASE ~Entered(4)
    <2>1. \A i \in Fs : Entered(i) <=> i < 4
      BY <1>1, <1>2, <1>3, <1>4, <1>5
    <2>2. QED
      BY <2>1
  <1>6. CASE Entered(4) /\ ~Entered(5)
    <2>1. \A i \in Fs : Entered(i) <=> i < 5
      BY <1>1, <1>2, <1>3, <1>4, <1>6
    <2>2. QED
      BY <2>1
  <1>7. CASE Entered(5) /\ ~Entered(6)
    <2>1. \A i \in Fs : Entered(i) <=> i < 6
      BY <1>1, <1>2, <1>3, <1>4, <1>7
    <2>2. QED
      BY <2>1
  <1>8. CASE Entered(6)
    <2>1. \A i \in Fs : Entered(i) <=> i < 7
      BY <1>1, <1>2, <1>3, <1>4, <1>8
    <2>2. QED
      BY <2>1
  <1>9. QED
    BY <1>3, <1>5, <1>6, <1>7, <1>8, <1>2
---------------------------------------------------------------------------
(* The inductive invariant.                                                *)

\* The sizes have been read: those of the partitions entered, in MB.
SizesRead ==
  /\ spare_area = 128 /\ partnum \in 4 .. 7 /\ ret = 0
  /\ sectors \in [Parts -> Nat]
  /\ \A i \in Parts : sectors[i] * Multip \in Nat /\ 16 * (sectors[i] * Multip) <= Word
  /\ \A i \in 0 .. 3 : sectors[i] > 0
  /\ \A i \in Parts : i >= partnum => sectors[i] = 0
  /\ sectors[5] = 0 => sectors[6] = 0
  /\ Entered(4) => partnum >= 5
  /\ partnum = 7 /\ sectors[4] = 0 => Entered(6) /\ SizeOf(4) = 0
  /\ Used = Spare0 + sectors[0] * Multip + sectors[1] * Multip + sectors[2] * Multip
              + sectors[3] * Multip + sectors[4] * Multip + sectors[5] * Multip
              + sectors[6] * Multip

\* Where the extended partition begins.
ExtendedAt == spare_area + sectors[0] + sectors[1] + sectors[2]

\* The blocks the tables and logical partitions a to b take.
Taken(s, a, b) == Sum([i \in Parts |-> 16 + s[i]], a .. b)

\* The sizes in blocks.  Where the tables can be written at all they do not
\* run round the word.
InBlocks ==
  /\ partnum \in 5 .. 8
  /\ sectors \in [Parts -> 0 .. Word - 1]
  /\ \A i \in 0 .. 2 : sectors[i] > 0 /\ sectors[i] % 64 = 0 /\ 16 * sectors[i] <= Word
  /\ spare_area \in Nat /\ spare_area % 64 = 0 /\ 16 * spare_area <= Word
  /\ sectors[4] # 0
  /\ ExtendedAt < lba =>
       /\ sectors[3] # 0
       /\ ~Unfilled => ExtendedAt + Taken(sectors, 4, partnum - 2) < Word
       /\ ret = 0 /\ ~RunsOver => spare_area = Spare0 /\ ~Unfilled
       /\ ret = 0 /\ Fits /\ Entered(4) /\ ~RunsOver =>
            /\ Filled(partnum - 1)
            /\ Taken(sectors, 4, partnum - 1) <= sectors[3]
            /\ ExtendedAt + sectors[3] <= lba
---------------------------------------------------------------------------
(* Reading the configuration.                                              *)

LEMMA ConfigStep ==
  ASSUME items \in Configs, PowerOnStatic, ret = 0, storage_get_new_config
  PROVE  SizesRead' /\ cfg_size' \in [Fs -> Nat]
  <1>1. PICK n \in 4 .. 7 : \A i \in Fs : Entered(i) <=> i < n
    BY EnteredFirst
  <1>2. {i \in Fs : Entered(i)} = 0 .. n - 1
    <2>1. \A i : i \in Fs /\ i < n <=> i \in 0 .. n - 1
      BY <1>1 DEF Fs
    <2>2. QED
      BY <1>1, <2>1
  <1>3. Cardinality({i \in Fs : Entered(i)}) = n
    <2>1. Cardinality(0 .. n - 1) = n
      <3>1. Cardinality(0 .. n - 1) = IF 0 > n - 1 THEN 0 ELSE n - 1 - 0 + 1
        BY <1>1, FS_Interval
      <3>2. QED
        BY <1>1, <3>1
    <2>2. QED
      BY <1>2, <2>1
  <1> DEFINE size == [i \in Fs |-> IF Entered(i) /\ SizeOf(i) # 0 THEN SizeOf(i)
                                   ELSE default_size[i + 1]]
  <1>4. /\ cfg_size' = size /\ partnum' = n /\ spare_area' = 128 /\ ret' = 0
        /\ sectors' = [i \in Parts |-> IF i < n THEN size[i] ELSE IF i < 4 THEN 256 ELSE 0]
        /\ items' = items /\ lba' = lba
    <2>1. /\ cfg_size' = [i \in Fs |-> IF Entered(i) /\ SizeOf(i) # 0 THEN SizeOf(i)
                                       ELSE cfg_size[i]]
          /\ sectors' = [i \in Parts |->
                           IF i < Cardinality({j \in Fs : Entered(j)})
                             THEN [k \in Fs |-> IF Entered(k) /\ SizeOf(k) # 0 THEN SizeOf(k)
                                                ELSE cfg_size[k]][i]
                             ELSE sectors[i]]
          /\ partnum' = Cardinality({j \in Fs : Entered(j)})
      BY Zenon DEF storage_get_new_config
    <2>2. UNCHANGED <<items, lba, spare_area, ret>>
      BY DEF storage_get_new_config
    <2>3. \A i \in Fs : cfg_size[i] = default_size[i + 1]
      BY DEF PowerOnStatic
    <2>4. cfg_size' = size
      BY <2>1, <2>3, Zenon
    <2>5. \A i \in Parts : sectors[i] = IF i < 4 THEN 256 ELSE 0
      BY DEF PowerOnStatic
    <2>6. sectors' = [i \in Parts |-> IF i < n THEN cfg_size'[i] ELSE sectors[i]]
      <3> DEFINE z == [k \in Fs |-> IF Entered(k) /\ SizeOf(k) # 0 THEN SizeOf(k)
                                    ELSE cfg_size[k]]
                 c == Cardinality({j \in Fs : Entered(j)})
      <3>1. /\ cfg_size' = z /\ c = n
            /\ sectors' = [i \in Parts |-> IF i < c THEN z[i] ELSE sectors[i]]
        BY <1>3, <2>1, Zenon
      <3> HIDE DEF z, c
      <3>2. QED
        BY <3>1
    <2>7. sectors' = [i \in Parts |-> IF i < n THEN size[i] ELSE IF i < 4 THEN 256 ELSE 0]
      BY <2>4, <2>5, <2>6
    <2>8. QED
      BY <1>3, <2>1, <2>2, <2>4, <2>7 DEF PowerOnStatic
  <1>5. /\ size[0] = (IF SizeOf(0) # 0 THEN SizeOf(0) ELSE 152)
        /\ size[1] = (IF SizeOf(1) # 0 THEN SizeOf(1) ELSE 20)
        /\ size[2] = (IF SizeOf(2) # 0 THEN SizeOf(2) ELSE 64)
        /\ size[3] = (IF SizeOf(3) # 0 THEN SizeOf(3) ELSE 164)
        /\ size[4] = (IF 4 < n /\ SizeOf(4) # 0 THEN SizeOf(4) ELSE 0)
        /\ size[5] = (IF 5 < n /\ SizeOf(5) # 0 THEN SizeOf(5) ELSE 0)
        /\ size[6] = (IF 6 < n /\ SizeOf(6) # 0 THEN SizeOf(6) ELSE 0)
    <2>1. /\ 0 \in Fs /\ 1 \in Fs /\ 2 \in Fs /\ 3 \in Fs /\ 4 \in Fs /\ 5 \in Fs /\ 6 \in Fs
      BY DEF Fs
    <2>2. /\ Entered(0) /\ Entered(1) /\ Entered(2) /\ Entered(3)
          /\ (Entered(4) <=> 4 < n) /\ (Entered(5) <=> 5 < n) /\ (Entered(6) <=> 6 < n)
      BY <1>1, <2>1
    <2>3. /\ default_size[0 + 1] = 152 /\ default_size[1 + 1] = 20 /\ default_size[2 + 1] = 64
          /\ default_size[3 + 1] = 164 /\ default_size[4 + 1] = 0 /\ default_size[5 + 1] = 0
          /\ default_size[6 + 1] = 0
      BY DEF default_size
    <2>4. \A i \in Fs : size[i] = IF Entered(i) /\ SizeOf(i) # 0 THEN SizeOf(i)
                                  ELSE default_size[i + 1]
      OBVIOUS
    <2> HIDE DEF size
    <2>5. QED
      BY <2>1, <2>2, <2>3, <2>4
  <1>6. \A i \in Fs : /\ SizeOf(i) \in Nat /\ SizeOf(i) * Multip \in Nat
                      /\ 16 * (SizeOf(i) * Multip) <= Word
    BY SizeIs
  <1>7. \A x \in {0, 152, 20, 64, 164} : x * Multip \in Nat /\ 16 * (x * Multip) <= Word
    BY Constants
  <1> HIDE DEF size
  <1>8. \A i \in Fs : size[i] \in Nat /\ size[i] * Multip \in Nat /\ 16 * (size[i] * Multip) <= Word
    <2>1. \A i \in Fs : size[i] \in {SizeOf(i), 0, 152, 20, 64, 164}
      BY <1>5 DEF Fs
    <2>2. QED
      BY <1>6, <1>7, <2>1
  <1>9. \A i \in Parts : sectors'[i] = IF i < n THEN size[i] ELSE 0
    BY <1>1, <1>4 DEF Parts
  <1>10. \A i \in Parts : i < n => i \in Fs
    BY <1>1 DEF Parts, Fs
  <1>11. \A i \in Parts : /\ sectors'[i] \in Nat /\ sectors'[i] * Multip \in Nat
                          /\ 16 * (sectors'[i] * Multip) <= Word
    BY <1>7, <1>8, <1>9, <1>10
  <1>12. sectors' \in [Parts -> Nat]
    <2>1. DOMAIN sectors' = Parts /\ sectors' = [i \in Parts |-> sectors'[i]]
      BY <1>4
    <2>2. QED
      BY <1>11, <2>1
  <1>13. cfg_size' \in [Fs -> Nat]
    BY <1>4, <1>8 DEF size
  <1>14. \A i \in Fs : SizeOf(i)' = SizeOf(i) /\ (Entered(i)' <=> Entered(i))
    BY <1>4 DEF SizeOf, Entered
  <1>15. Entered(6) => SizeOf(5) # 0
    BY DEF Entered
  <1>16. 4 \in Fs /\ 5 \in Fs /\ 6 \in Fs /\ 4 \in Parts /\ 5 \in Parts /\ 6 \in Parts
    BY DEF Fs, Parts
  <1>17. sectors'[5] = 0 => sectors'[6] = 0
    <2>1. CASE n = 7
      <3>1. SizeOf(5) # 0
        BY <1>1, <1>15, <1>16, <2>1
      <3>2. sectors'[5] = SizeOf(5)
        BY <1>5, <1>9, <1>16, <2>1, <3>1
      <3>3. QED
        BY <3>1, <3>2
    <2>2. CASE n # 7
      BY <1>1, <1>9, <1>16, <2>2
    <2>3. QED
      BY <2>1, <2>2
  <1>18. \A i \in 0 .. 3 : sectors'[i] > 0
    <2>1. size[0] > 0 /\ size[1] > 0 /\ size[2] > 0 /\ size[3] > 0
      BY <1>5, <1>6 DEF Fs
    <2>2. \A i \in 0 .. 3 : i \in Parts /\ i < n
      BY <1>1 DEF Parts
    <2>3. QED
      BY <1>9, <2>1, <2>2
  <1>19. Entered(4)' => partnum' >= 5
    BY <1>1, <1>4, <1>14, <1>16
  <1>20. partnum' = 7 /\ sectors'[4] = 0 => Entered(6)' /\ SizeOf(4)' = 0
    <2>1. SUFFICES ASSUME n = 7, sectors'[4] = 0
                   PROVE  Entered(6) /\ SizeOf(4) = 0
      BY <1>4, <1>14, <1>16
    <2>2. Entered(6)
      BY <1>1, <1>16, <2>1
    <2>3. size[4] = 0
      BY <1>9, <1>16, <2>1
    <2>4. QED
      BY <1>5, <2>1, <2>2, <2>3
  <1>21. Used' = Spare0 + sectors'[0] * Multip + sectors'[1] * Multip + sectors'[2] * Multip
              + sectors'[3] * Multip + sectors'[4] * Multip + sectors'[5] * Multip
              + sectors'[6] * Multip
    <2>1. {i \in Fs : Entered(i)'} = 0 .. n - 1
      BY <1>2, <1>14
    <2>2. Used' = Spare0 + Multip * Sum(size, 0 .. n - 1)
      <3>1. Used' = AlignedSpare(128) + Multip * Sum(cfg_size', {i \in Fs : Entered(i)'})
        BY DEF Used, AlignedSpare, Sum
      <3>2. QED
        BY <1>4, <2>1, <3>1 DEF Spare0
    <2>3. 0 \in Parts /\ 1 \in Parts /\ 2 \in Parts /\ 3 \in Parts
      BY DEF Parts
    <2>4. Sum(size, 0 .. n - 1) = sectors'[0] + sectors'[1] + sectors'[2] + sectors'[3]
                                   + sectors'[4] + sectors'[5] + sectors'[6]
      <3>1. n - 1 \in Int /\ n \in 4 .. 7
        BY <1>1
      <3>2. /\ sectors'[0] = size[0] /\ sectors'[1] = size[1] /\ sectors'[2] = size[2]
            /\ sectors'[3] = size[3]
            /\ sectors'[4] = (IF 4 < n THEN size[4] ELSE 0)
            /\ sectors'[5] = (IF 5 < n THEN size[5] ELSE 0)
            /\ sectors'[6] = (IF 6 < n THEN size[6] ELSE 0)
        BY <1>9, <1>16, <2>3, <3>1
      <3>3. Sum(size, 0 .. n - 1) =
              (IF 0 <= 0 /\ 0 <= n - 1 THEN size[0] ELSE 0) + (IF 0 <= 1 /\ 1 <= n - 1 THEN size[1] ELSE 0)
             + (IF 0 <= 2 /\ 2 <= n - 1 THEN size[2] ELSE 0) + (IF 0 <= 3 /\ 3 <= n - 1 THEN size[3] ELSE 0)
             + (IF 0 <= 4 /\ 4 <= n - 1 THEN size[4] ELSE 0) + (IF 0 <= 5 /\ 5 <= n - 1 THEN size[5] ELSE 0)
             + (IF 0 <= 6 /\ 6 <= n - 1 THEN size[6] ELSE 0) + (IF 0 <= 7 /\ 7 <= n - 1 THEN size[7] ELSE 0)
        BY <3>1, SumIs
      <3>4. \A i \in Fs : size[i] \in Nat
        BY <1>8
      <3>5. 0 \in Fs /\ 1 \in Fs /\ 2 \in Fs /\ 3 \in Fs
        BY DEF Fs
      <3>6. /\ size[0] \in Nat /\ size[1] \in Nat /\ size[2] \in Nat /\ size[3] \in Nat
            /\ size[4] \in Nat /\ size[5] \in Nat /\ size[6] \in Nat
        BY <1>16, <3>4, <3>5
      <3>7. Sum(size, 0 .. n - 1) = size[0] + size[1] + size[2] + size[3]
              + (IF 4 < n THEN size[4] ELSE 0) + (IF 5 < n THEN size[5] ELSE 0)
              + (IF 6 < n THEN size[6] ELSE 0)
        <4>1. CASE n = 4
          BY <3>3, <3>6, <4>1
        <4>2. CASE n = 5
          BY <3>3, <3>6, <4>2
        <4>3. CASE n = 6
          BY <3>3, <3>6, <4>3
        <4>4. CASE n = 7
          BY <3>3, <3>6, <4>4
        <4>5. QED
          BY <3>1, <4>1, <4>2, <4>3, <4>4
      <3>8. QED
        BY <3>2, <3>7
    <2>5. \A i \in Parts : sectors'[i] \in Int
      BY <1>11
    <2>6. Multip * (sectors'[0] + sectors'[1] + sectors'[2] + sectors'[3]
                      + sectors'[4] + sectors'[5] + sectors'[6])
            = sectors'[0] * Multip + sectors'[1] * Multip + sectors'[2] * Multip
              + sectors'[3] * Multip + sectors'[4] * Multip + sectors'[5] * Multip
              + sectors'[6] * Multip
      <3>1. Multip \in Int
        BY Constants
      <3>2. /\ sectors'[0] \in Int /\ sectors'[1] \in Int /\ sectors'[2] \in Int
            /\ sectors'[3] \in Int /\ sectors'[4] \in Int /\ sectors'[5] \in Int
            /\ sectors'[6] \in Int
        BY <1>16, <2>3, <2>5
      <3>3. PICK x0, x1, x2, x3, x4, x5, x6 \in Int :
              /\ x0 = sectors'[0] /\ x1 = sectors'[1] /\ x2 = sectors'[2] /\ x3 = sectors'[3]
              /\ x4 = sectors'[4] /\ x5 = sectors'[5] /\ x6 = sectors'[6]
        BY <3>2
      <3>4. Multip * (x0 + x1 + x2 + x3 + x4 + x5 + x6)
              = x0 * Multip + x1 * Multip + x2 * Multip + x3 * Multip + x4 * Multip
                + x5 * Multip + x6 * Multip
        BY ONLY <3>1, Distribute
      <3>5. QED
        BY <3>3, <3>4, Zenon
    <2>7. /\ Spare0 \in Int
          /\ \A i \in Parts : sectors'[i] * Multip \in Int
      BY <1>11, Constants
    <2>8. PICK w : w = Multip * (sectors'[0] + sectors'[1] + sectors'[2] + sectors'[3]
                                + sectors'[4] + sectors'[5] + sectors'[6])
      OBVIOUS
    <2>9. Used' = Spare0 + w
      BY <2>2, <2>4, <2>8
    <2>10. \A i \in {0, 1, 2, 3, 4, 5, 6} : sectors'[i] * Multip \in Int
      BY <1>16, <2>3, <2>7
    <2>11. PICK y0, y1, y2, y3, y4, y5, y6 \in Int :
             /\ y0 = sectors'[0] * Multip /\ y1 = sectors'[1] * Multip /\ y2 = sectors'[2] * Multip
             /\ y3 = sectors'[3] * Multip /\ y4 = sectors'[4] * Multip /\ y5 = sectors'[5] * Multip
             /\ y6 = sectors'[6] * Multip
      BY <2>10
    <2>12. w = y0 + y1 + y2 + y3 + y4 + y5 + y6
      BY <2>6, <2>8, <2>11, Zenon
    <2>13. Used' = Spare0 + y0 + y1 + y2 + y3 + y4 + y5 + y6
      BY <2>7, <2>9, <2>12
    <2>14. QED
      BY <2>11, <2>13, Zenon
  <1>22. \A i \in Parts : i >= partnum' => sectors'[i] = 0
    BY <1>1, <1>4, <1>9 DEF Parts
  <1>23. QED
    BY <1>1, <1>4, <1>11, <1>12, <1>13, <1>17, <1>18, <1>19, <1>20, <1>21, <1>22 DEF SizesRead
---------------------------------------------------------------------------
(* From MB to blocks.                                                      *)

\* The logical partitions before the last one, and all of them, have a size.
MidUsed(s, k) == (k >= 7 => s[5] # 0) /\ (k >= 8 => s[6] # 0)
AllUsed(s, k) == (k >= 6 => s[5] # 0) /\ (k >= 7 => s[6] # 0) /\ (k >= 8 => s[7] # 0)

\* What they and their tables take.
MidTaken(s, k) ==
  (IF k >= 6 THEN 16 + s[4] ELSE 0) + (IF k >= 7 THEN 16 + s[5] ELSE 0)
    + (IF k >= 8 THEN 16 + s[6] ELSE 0)
AllTaken(s, k) ==
  (16 + s[4]) + (IF k >= 6 THEN 16 + s[5] ELSE 0) + (IF k >= 7 THEN 16 + s[6] ELSE 0)
    + (IF k >= 8 THEN 16 + s[7] ELSE 0)

\* The sums of the invariant, one by one.
LEMMA TakenIs ==
  ASSUME NEW s \in [Parts -> Nat], NEW k \in 5 .. 8
  PROVE  Taken(s, 4, k - 2) = MidTaken(s, k) /\ Taken(s, 4, k - 1) = AllTaken(s, k)
  <1> DEFINE f == [i \in Parts |-> 16 + s[i]]
  <1>1. /\ f[4] = 16 + s[4] /\ f[5] = 16 + s[5] /\ f[6] = 16 + s[6] /\ f[7] = 16 + s[7]
        /\ s[4] \in Nat /\ s[5] \in Nat /\ s[6] \in Nat /\ s[7] \in Nat
    BY DEF Parts
  <1> HIDE DEF f
  <1>2. \A b \in 3 .. 7 : Sum(f, 4 .. b) =
          (IF 4 <= b THEN f[4] ELSE 0) + (IF 5 <= b THEN f[5] ELSE 0)
            + (IF 6 <= b THEN f[6] ELSE 0) + (IF 7 <= b THEN f[7] ELSE 0)
    <2> TAKE b \in 3 .. 7
    <2>1. Sum(f, 4 .. b) =
           (IF 4 <= 0 /\ 0 <= b THEN f[0] ELSE 0) + (IF 4 <= 1 /\ 1 <= b THEN f[1] ELSE 0)
             + (IF 4 <= 2 /\ 2 <= b THEN f[2] ELSE 0) + (IF 4 <= 3 /\ 3 <= b THEN f[3] ELSE 0)
             + (IF 4 <= 4 /\ 4 <= b THEN f[4] ELSE 0) + (IF 4 <= 5 /\ 5 <= b THEN f[5] ELSE 0)
             + (IF 4 <= 6 /\ 6 <= b THEN f[6] ELSE 0) + (IF 4 <= 7 /\ 7 <= b THEN f[7] ELSE 0)
      BY SumIs
    <2>2. QED
      BY <1>1, <2>1
  <1>3. /\ Sum(f, 4 .. 3) = 0 /\ Sum(f, 4 .. 4) = f[4] /\ Sum(f, 4 .. 5) = f[4] + f[5]
        /\ Sum(f, 4 .. 6) = f[4] + f[5] + f[6] /\ Sum(f, 4 .. 7) = f[4] + f[5] + f[6] + f[7]
    BY <1>1, <1>2
  <1>5. /\ k = 5 => k - 2 = 3 /\ k - 1 = 4
        /\ k = 6 => k - 2 = 4 /\ k - 1 = 5
        /\ k = 7 => k - 2 = 5 /\ k - 1 = 6
        /\ k = 8 => k - 2 = 6 /\ k - 1 = 7
    OBVIOUS
  <1>6. CASE k = 5
    <2>1. Sum(f, 4 .. k - 2) = Sum(f, 4 .. 3) /\ Sum(f, 4 .. k - 1) = Sum(f, 4 .. 4)
      BY <1>5, <1>6
    <2>2. QED
      BY <1>1, <1>3, <1>6, <2>1 DEF MidTaken, AllTaken, Taken, f
  <1>7. CASE k = 6
    <2>1. Sum(f, 4 .. k - 2) = Sum(f, 4 .. 4) /\ Sum(f, 4 .. k - 1) = Sum(f, 4 .. 5)
      BY <1>5, <1>7
    <2>2. QED
      BY <1>1, <1>3, <1>7, <2>1 DEF MidTaken, AllTaken, Taken, f
  <1>8. CASE k = 7
    <2>1. Sum(f, 4 .. k - 2) = Sum(f, 4 .. 5) /\ Sum(f, 4 .. k - 1) = Sum(f, 4 .. 6)
      BY <1>5, <1>8
    <2>2. QED
      BY <1>1, <1>3, <1>8, <2>1 DEF MidTaken, AllTaken, Taken, f
  <1>9. CASE k = 8
    <2>1. Sum(f, 4 .. k - 2) = Sum(f, 4 .. 6) /\ Sum(f, 4 .. k - 1) = Sum(f, 4 .. 7)
      BY <1>5, <1>9
    <2>2. QED
      BY <1>1, <1>3, <1>9, <2>1 DEF MidTaken, AllTaken, Taken, f
  <1>10. QED
    BY <1>6, <1>7, <1>8, <1>9

\* Which partitions have been filled in, from the sizes.
LEMMA FilledWhen ==
  ASSUME NEW s, NEW k \in 5 .. 8, sectors = s, partnum = k,
         s[1] # 0, s[2] # 0, s[3] # 0, s[4] # 0
  PROVE  /\ Unfilled <=> ~MidUsed(s, k)
         /\ AllUsed(s, k) => Filled(partnum - 1)
  <1>1. \A i \in 4 .. k - 2 : Filled(i) <=> /\ (i >= 5 => s[5] # 0) /\ (i >= 6 => s[6] # 0)
    BY DEF Filled
  <1>2. Unfilled <=> ~MidUsed(s, k)
    BY <1>1 DEF Unfilled, MidUsed
  <1>3. AllUsed(s, k) => Filled(partnum - 1)
    BY DEF Filled, AllUsed
  <1>4. QED
    BY <1>2, <1>3

\* The same of the sizes after a step.
LEMMA FilledAfter ==
  ASSUME NEW s, NEW k \in 5 .. 8, sectors' = s, partnum' = k,
         s[1] # 0, s[2] # 0, s[3] # 0, s[4] # 0
  PROVE  /\ Unfilled' <=> ~MidUsed(s, k)
         /\ AllUsed(s, k) => Filled(partnum - 1)'
  <1>1. \A i \in 4 .. k - 2 : Filled(i)' <=> /\ (i >= 5 => s[5] # 0) /\ (i >= 6 => s[6] # 0)
    BY DEF Filled
  <1>2. Unfilled' <=> ~MidUsed(s, k)
    BY <1>1 DEF Unfilled, MidUsed
  <1>3. AllUsed(s, k) => Filled(partnum - 1)'
    BY DEF Filled, AllUsed
  <1>4. QED
    BY <1>2, <1>3

\* What a layout needs, put together.
LEMMA BlocksFrom ==
  ASSUME NEW s \in [Parts -> 0 .. Word - 1], NEW k \in 5 .. 8, NEW sp \in Nat, NEW d \in Nat,
         sectors' = s, partnum' = k, spare_area' = sp, lba' = d,
         \A i \in 0 .. 2 : s[i] > 0 /\ s[i] % 64 = 0 /\ 16 * s[i] <= Word,
         sp % 64 = 0, 16 * sp <= Word, s[4] # 0,
         sp + s[0] + s[1] + s[2] < d =>
           /\ s[3] # 0
           /\ MidUsed(s, k) => sp + s[0] + s[1] + s[2] + MidTaken(s, k) < Word
           /\ ret' = 0 /\ ~RunsOver' => sp = Spare0 /\ MidUsed(s, k)
           /\ ret' = 0 /\ Fits' /\ Entered(4)' /\ ~RunsOver' =>
                /\ AllUsed(s, k) /\ AllTaken(s, k) <= s[3]
                /\ sp + s[0] + s[1] + s[2] + s[3] <= d
  PROVE  InBlocks'
  <1>1. Word \in Nat
    BY Constants
  <1>2. s \in [Parts -> Nat]
    BY <1>1
  <1>3. s[1] # 0 /\ s[2] # 0
    BY <1>1, <1>2 DEF Parts
  <1>4. ExtendedAt' = sp + s[0] + s[1] + s[2]
    BY DEF ExtendedAt
  <1>5. Taken(sectors, 4, partnum - 2)' = MidTaken(s, k) /\ Taken(sectors, 4, partnum - 1)' = AllTaken(s, k)
    <2>1. Taken(s, 4, k - 2) = MidTaken(s, k) /\ Taken(s, 4, k - 1) = AllTaken(s, k)
      BY <1>2, TakenIs
    <2>2. /\ Taken(sectors, 4, partnum - 2)' = Taken(s, 4, k - 2)
          /\ Taken(sectors, 4, partnum - 1)' = Taken(s, 4, k - 1)
      BY DEF Taken, Sum
    <2>3. QED
      BY <2>1, <2>2
  <1>6. CASE ~(sp + s[0] + s[1] + s[2] < d)
    BY <1>4, <1>6 DEF InBlocks
  <1>7. CASE sp + s[0] + s[1] + s[2] < d
    <2>1. s[3] # 0
      BY <1>7
    <2>2. /\ Unfilled' <=> ~MidUsed(s, k)
          /\ AllUsed(s, k) => Filled(partnum - 1)'
      BY <1>3, <2>1, FilledAfter
    <2>3. /\ MidUsed(s, k) => ExtendedAt' + MidTaken(s, k) < Word
          /\ ret' = 0 /\ ~RunsOver' => spare_area' = Spare0 /\ MidUsed(s, k)
          /\ ret' = 0 /\ Fits' /\ Entered(4)' /\ ~RunsOver' =>
                /\ AllUsed(s, k) /\ AllTaken(s, k) <= s[3]
                /\ ExtendedAt' + s[3] <= d
      BY <1>4, <1>7
    <2>4. (ExtendedAt < lba =>
       /\ sectors[3] # 0
       /\ ~Unfilled => ExtendedAt + Taken(sectors, 4, partnum - 2) < Word
       /\ ret = 0 /\ ~RunsOver => spare_area = Spare0 /\ ~Unfilled
       /\ ret = 0 /\ Fits /\ Entered(4) /\ ~RunsOver =>
            /\ Filled(partnum - 1)
            /\ Taken(sectors, 4, partnum - 1) <= sectors[3]
            /\ ExtendedAt + sectors[3] <= lba)'
      <3> DEFINE e == ExtendedAt' ro == RunsOver' fi == Fits' en == Entered(4)' uf == Unfilled'
                 fl == Filled(partnum - 1)' tm == Taken(sectors, 4, partnum - 2)'
                 ta == Taken(sectors, 4, partnum - 1)'
      <3>1. /\ uf <=> ~MidUsed(s, k)
            /\ AllUsed(s, k) => fl
            /\ tm = MidTaken(s, k) /\ ta = AllTaken(s, k)
            /\ MidUsed(s, k) => e + MidTaken(s, k) < Word
            /\ ret' = 0 /\ ~ro => spare_area' = Spare0 /\ MidUsed(s, k)
            /\ ret' = 0 /\ fi /\ en /\ ~ro =>
                /\ AllUsed(s, k) /\ AllTaken(s, k) <= s[3]
                /\ e + s[3] <= d
        BY <1>5, <2>2, <2>3
      <3> HIDE DEF e, ro, fi, en, uf, fl, tm, ta
      <3>2. (e < lba' =>
               /\ sectors'[3] # 0
               /\ ~uf => e + tm < Word
               /\ ret' = 0 /\ ~ro => spare_area' = Spare0 /\ ~uf
               /\ ret' = 0 /\ fi /\ en /\ ~ro => fl /\ ta <= sectors'[3] /\ e + sectors'[3] <= lba')
        BY <2>1, <3>1, Zenon
      <3>3. QED
        BY <3>2, Zenon DEF e, ro, fi, en, uf, fl, tm, ta, Spare0, AlignedSpare
    <2>5. QED
      BY <2>4, Zenon DEF InBlocks, Spare0, AlignedSpare
  <1>8. QED
    BY <1>6, <1>7
\* The last partition of some size.
LEMMA LastUsedIs ==
  ASSUME NEW s, s[4] # 0
  PROVE  /\ LastUsed(s) \in Parts /\ s[LastUsed(s)] # 0
         /\ \A j \in Parts : j > LastUsed(s) => s[j] = 0
         /\ LastUsed(s) >= 4
  <1> DEFINE Last(i) == s[i] # 0 /\ \A j \in Parts : j > i => s[j] = 0
  <1>1. Parts = {0, 1, 2, 3, 4, 5, 6, 7}
    BY DEF Parts
  <1>2. \E i \in Parts : Last(i)
    <2>1. CASE s[7] # 0
      BY <1>1, <2>1
    <2>2. CASE s[7] = 0 /\ s[6] # 0
      <3>1. Last(6)
        BY <1>1, <2>2
      <3>2. QED
        BY <1>1, <3>1
    <2>3. CASE s[7] = 0 /\ s[6] = 0 /\ s[5] # 0
      <3>1. Last(5)
        BY <1>1, <2>3
      <3>2. QED
        BY <1>1, <3>1
    <2>4. CASE s[7] = 0 /\ s[6] = 0 /\ s[5] = 0
      <3>1. Last(4)
        BY <1>1, <2>4
      <3>2. QED
        BY <1>1, <3>1
    <2>5. QED
      BY <2>1, <2>2, <2>3, <2>4
  <1>3. LastUsed(s) \in Parts /\ Last(LastUsed(s))
    BY <1>2, Zenon DEF LastUsed
  <1>4. LastUsed(s) >= 4
    <2>1. 4 \in Parts
      BY <1>1
    <2>2. LastUsed(s) < 4 => 4 > LastUsed(s)
      BY <1>1, <1>3
    <2>3. ~(LastUsed(s) < 4)
      BY <1>3, <2>1, <2>2
    <2>4. QED
      BY <1>1, <1>3, <2>3
  <1>5. QED
    BY <1>3, <1>4

\* What a layout that is accepted comes to.
LEMMA AcceptIs ==
  ASSUME NEW s \in [Parts -> 0 .. Word - 1], NEW n \in 5 .. 8, Accept(s, n), s[4] > 16
  PROVE  /\ sectors' \in [Parts -> 0 .. Word - 1] /\ ret' = 0
         /\ \A i \in 0 .. 3 : sectors'[i] = s[i]
         /\ sectors'[4] = s[4] - 16
         /\ \A i \in 5 .. 7 : /\ i < n /\ s[i] > 16 => sectors'[i] = s[i] - 16
                              /\ i >= n \/ s[i] = 0 => sectors'[i] = s[i]
         /\ partnum' \in 5 .. 8 /\ sectors'[partnum' - 1] # 0
         /\ \A j \in Parts : j >= partnum' => sectors'[j] = 0
  <1>1. sectors' = Gap(s, n) /\ partnum' = LastUsed(Gap(s, n)) + 1 /\ ret' = 0
    BY DEF Accept
  <1>2. PICK g : g = Gap(s, n)
    OBVIOUS
  <1>3. Word \in Nat /\ Word > 16
    BY Constants
  <1>4. \A i \in Parts : s[i] \in 0 .. Word - 1
    OBVIOUS
  <1>5. \A i \in Parts : g[i] = IF i \in 4 .. n - 1 /\ s[i] # 0 THEN (s[i] - 16) % Word ELSE s[i]
    BY <1>2 DEF Gap
  <1>6. \A x \in Int : x % Word \in 0 .. Word - 1
    BY <1>3
  <1>7. \A x \in 0 .. Word - 1 : x > 16 => (x - 16) % Word = x - 16
    BY <1>3
  <1>8. g \in [Parts -> 0 .. Word - 1]
    <2>1. \A i \in Parts : g[i] \in 0 .. Word - 1
      <3> TAKE i \in Parts
      <3>1. s[i] - 16 \in Int
        BY <1>3, <1>4
      <3>2. QED
        BY <1>4, <1>5, <1>6, <3>1
    <2>2. g = [i \in Parts |-> g[i]]
      BY <1>2 DEF Gap
    <2>3. QED
      BY <2>1, <2>2
  <1>9. \A i \in 0 .. 3 : g[i] = s[i]
    BY <1>5 DEF Parts
  <1>10. g[4] = s[4] - 16
    <2>1. 4 \in Parts /\ 4 \in 4 .. n - 1 /\ s[4] # 0
      BY <1>3 DEF Parts
    <2>2. QED
      BY <1>4, <1>5, <1>7, <2>1
  <1>11. \A i \in 5 .. 7 : /\ i < n /\ s[i] > 16 => g[i] = s[i] - 16
                           /\ i >= n \/ s[i] = 0 => g[i] = s[i]
    <2> TAKE i \in 5 .. 7
    <2>1. i \in Parts
      BY DEF Parts
    <2>2. s[i] \in Nat
      BY <1>3, <1>4, <2>1
    <2>3. QED
      BY <1>4, <1>5, <1>7, <2>1, <2>2
  <1>12. g[4] # 0
    BY <1>3, <1>4, <1>10 DEF Parts
  <1>13. PICK k : k = LastUsed(g)
    OBVIOUS
  <1>14. k \in Parts /\ g[k] # 0 /\ k >= 4 /\ \A j \in Parts : j > k => g[j] = 0
    BY <1>12, <1>13, LastUsedIs
  <1>15. k + 1 \in 5 .. 8 /\ (k + 1) - 1 = k /\ \A j \in Parts : j >= k + 1 => j > k
    BY <1>14 DEF Parts
  <1>16. QED
    BY <1>1, <1>2, <1>8, <1>9, <1>10, <1>11, <1>13, <1>14, <1>15
\* The sizes read, in blocks, as numbers.
Blocks(a) ==
  /\ a \in [0 .. 6 -> Nat]
  /\ \A i \in 0 .. 6 : /\ a[i] = sectors[i] * Multip /\ 16 * a[i] <= Word /\ a[i] % 64 = 0
                       /\ a[i] # 0 => a[i] >= 64
                       /\ i >= partnum => a[i] = 0
  /\ a[0] > 0 /\ a[1] > 0 /\ a[2] > 0 /\ a[3] > 0
  /\ a[5] = 0 => a[6] = 0
  /\ partnum = 7 /\ a[4] = 0 => Entered(6) /\ SizeOf(4) = 0
  /\ Used = Spare0 + a[0] + a[1] + a[2] + a[3] + a[4] + a[5] + a[6]

LEMMA BlocksAre ==
  ASSUME SizesRead
  PROVE  \E a : Blocks(a)
  <1> DEFINE a == [i \in 0 .. 6 |-> sectors[i] * Multip]
  <1>1. Multip \in Nat /\ Multip >= 64 /\ Multip % 64 = 0
    BY Constants, LayoutAssumption
  <1>2. \A i \in 0 .. 6 : i \in Parts
    BY DEF Parts
  <1>3. \A i \in 0 .. 6 : sectors[i] \in Nat
    BY <1>2 DEF SizesRead
  <1>4. \A x \in Nat : /\ (x * Multip) % 64 = 0 /\ (x = 0 => x * Multip = 0)
                       /\ (x # 0 => x * Multip >= 64)
    <2>1. PICK m \in Nat : Multip = 64 * m
      <3>1. Multip = 64 * (Multip \div 64) /\ Multip \div 64 \in Nat
        BY <1>1
      <3>2. QED
        BY <3>1
    <2> TAKE x \in Nat
    <2>2. x * m \in Nat /\ x * Multip = 64 * (x * m)
      BY <2>1
    <2>3. \A y \in Nat : (64 * y) % 64 = 0
      OBVIOUS
    <2>4. (x * Multip) % 64 = 0
      BY <2>2, <2>3
    <2>5. x = 0 => x * Multip = 0
      BY <1>1
    <2>6. x # 0 => x * Multip >= 64
      BY <1>1
    <2>7. QED
      BY <2>4, <2>5, <2>6
  <1>5. \A i \in 0 .. 6 : /\ a[i] = sectors[i] * Multip /\ a[i] \in Nat /\ 16 * a[i] <= Word
                          /\ a[i] % 64 = 0
                          /\ (sectors[i] = 0 <=> a[i] = 0)
                          /\ (a[i] # 0 => a[i] >= 64)
    <2> TAKE i \in 0 .. 6
    <2>1. sectors[i] * Multip \in Nat /\ 16 * (sectors[i] * Multip) <= Word
      BY <1>2 DEF SizesRead
    <2>2. a[i] = sectors[i] * Multip
      OBVIOUS
    <2> HIDE DEF a
    <2>3. /\ (sectors[i] * Multip) % 64 = 0 /\ (sectors[i] = 0 => sectors[i] * Multip = 0)
          /\ (sectors[i] # 0 => sectors[i] * Multip >= 64)
      BY <1>3, <1>4
    <2>4. PICK y \in Nat : y = sectors[i] * Multip
      BY <2>1
    <2>5. QED
      BY <2>1, <2>2, <2>3, <2>4
  <1>6. a \in [0 .. 6 -> Nat]
    BY <1>5
  <1> HIDE DEF a
  <1>7. \A i \in 0 .. 6 : i >= partnum => a[i] = 0
    BY <1>2, <1>5 DEF SizesRead
  <1>8. a[0] > 0 /\ a[1] > 0 /\ a[2] > 0 /\ a[3] > 0
    <2>1. sectors[0] # 0 /\ sectors[1] # 0 /\ sectors[2] # 0 /\ sectors[3] # 0
      BY <1>3 DEF SizesRead
    <2>2. QED
      BY <1>5, <2>1
  <1>9. a[5] = 0 => a[6] = 0
    BY <1>5 DEF SizesRead
  <1>10. partnum = 7 /\ a[4] = 0 => Entered(6) /\ SizeOf(4) = 0
    BY <1>5 DEF SizesRead
  <1>11. Used = Spare0 + a[0] + a[1] + a[2] + a[3] + a[4] + a[5] + a[6]
    <2>1. /\ a[0] = sectors[0] * Multip /\ a[1] = sectors[1] * Multip /\ a[2] = sectors[2] * Multip
          /\ a[3] = sectors[3] * Multip /\ a[4] = sectors[4] * Multip /\ a[5] = sectors[5] * Multip
          /\ a[6] = sectors[6] * Multip
      BY <1>5
    <2>2. QED
      BY <2>1, Zenon DEF SizesRead
  <1>12. Blocks(a)
    BY <1>5, <1>6, <1>7, <1>8, <1>9, <1>10, <1>11 DEF Blocks
  <1>13. QED
    BY <1>12

\* The sizes one place further.
LEMMA ShiftedIs ==
  ASSUME SizesRead, NEW a, Blocks(a)
  PROVE  /\ Shifted \in [Parts -> 0 .. Word - 1]
         /\ Shifted[0] = a[0] /\ Shifted[1] = a[1] /\ Shifted[2] = a[2] /\ Shifted[3] = a[3]
         /\ Shifted[4] = a[3] /\ Shifted[5] = a[4] /\ Shifted[6] = a[5] /\ Shifted[7] = a[6]
  <1>1. Word \in Nat /\ Word > 0
    BY Constants
  <1>2. \A i \in 0 .. 6 : a[i] \in Nat /\ a[i] = sectors[i] * Multip /\ 16 * a[i] <= Word
    BY DEF Blocks
  <1>3. \A i \in 0 .. 6 : (sectors[i] * Multip) % Word = a[i] /\ a[i] \in 0 .. Word - 1
    <2> TAKE i \in 0 .. 6
    <2>1. PICK y \in Nat : y = a[i]
      BY <1>2
    <2>2. y = sectors[i] * Multip /\ 16 * y <= Word
      BY <1>2, <2>1
    <2>3. y \in 0 .. Word - 1 /\ y % Word = y
      BY <1>1, <2>2
    <2>4. QED
      BY <2>1, <2>2, <2>3
  <1>4. \A i \in Parts : Shifted[i] = a[IF i > 3 THEN i - 1 ELSE i]
    <2> TAKE i \in Parts
    <2>1. (IF i > 3 THEN i - 1 ELSE i) \in 0 .. 6
      BY DEF Parts
    <2>2. Shifted[i] = (sectors[IF i > 3 THEN i - 1 ELSE i] * Multip) % Word
      BY DEF Shifted
    <2>3. QED
      BY <1>3, <2>1, <2>2
  <1>5. \A i \in Parts : (IF i > 3 THEN i - 1 ELSE i) \in 0 .. 6
    BY DEF Parts
  <1>6. \A i \in Parts : Shifted[i] \in 0 .. Word - 1
    BY <1>3, <1>4, <1>5
  <1>7. Shifted \in [Parts -> 0 .. Word - 1]
    BY <1>6 DEF Shifted
  <1>8. QED
    BY <1>4, <1>7 DEF Parts
\* What a configuration asks for does not change until the next start.
LEMMA SameConfig ==
  ASSUME UNCHANGED <<items, lba, cfg_size>>
  PROVE  /\ Used' = Used /\ (Fits' <=> Fits) /\ (RunsOver' <=> RunsOver)
         /\ (Entered(4)' <=> Entered(4)) /\ (Entered(6)' <=> Entered(6)) /\ SizeOf(4)' = SizeOf(4)
  <1>1. items' = items /\ lba' = lba /\ cfg_size' = cfg_size
    OBVIOUS
  <1>2. \A i \in Fs : SizeOf(i)' = SizeOf(i) /\ (Entered(i)' <=> Entered(i))
    BY <1>1 DEF SizeOf, Entered
  <1>3. 4 \in Fs /\ 6 \in Fs
    BY DEF Fs
  <1>4. {i \in Fs : Entered(i)'} = {i \in Fs : Entered(i)}
    BY <1>2
  <1>5. Used' = Used
    <2>1. Used' = AlignedSpare(128) + Multip * Sum(cfg_size', {i \in Fs : Entered(i)'})
      BY DEF Used, AlignedSpare, Sum
    <2>2. QED
      BY <1>1, <1>4, <2>1, Zenon DEF Used
  <1>6. QED
    BY <1>1, <1>2, <1>3, <1>5 DEF Fits, RunsOver

\* The four sizes behind the extended partition, from those read.
LEMMA Reformatted ==
  ASSUME SizesRead, NEW a, Blocks(a), lba \in Disks
  PROVE  \E x \in 0 .. Word - 1 : \E s \in [Parts -> 0 .. Word - 1] :
           /\ x = (lba - First3(Shifted) - Spare0) % Word
           /\ s = [Shifted EXCEPT ![3] = x]
           /\ First3(Shifted) = a[0] + a[1] + a[2]
           /\ Spare0 + a[0] + a[1] + a[2] <= lba => x = lba - (Spare0 + a[0] + a[1] + a[2])
           /\ Spare0 + a[0] + a[1] + a[2] > lba => x >= Word - (Spare0 + a[0] + a[1] + a[2])
           /\ s[0] = a[0] /\ s[1] = a[1] /\ s[2] = a[2] /\ s[3] = x
           /\ s[4] = a[3] /\ s[5] = a[4] /\ s[6] = a[5] /\ s[7] = a[6]
           /\ Sum(s, 4 .. partnum) = a[3] + a[4] + a[5] + a[6]
  <1>1. /\ Word \in Nat /\ Word > 0 /\ lba \in Nat /\ 2 * lba < Word
        /\ Spare0 \in Nat /\ 16 * Spare0 <= Word
    BY Constants
  <1>2. \A i \in 0 .. 6 : a[i] \in Nat /\ 16 * a[i] <= Word /\ (i >= partnum => a[i] = 0)
    BY DEF Blocks
  <1>3. PICK f \in Nat : f = a[0] + a[1] + a[2]
    BY <1>2
  <1>4. 16 * f <= 3 * Word
    BY <1>1, <1>2, <1>3
  <1>5. First3(Shifted) = f
    <2>1. Sum(Shifted, 0 .. 2) = Shifted[0] + Shifted[1] + Shifted[2]
      <3>1. /\ 0 \in 0 .. 2 /\ 1 \in 0 .. 2 /\ 2 \in 0 .. 2 /\ 3 \notin 0 .. 2 /\ 4 \notin 0 .. 2
            /\ 5 \notin 0 .. 2 /\ 6 \notin 0 .. 2 /\ 7 \notin 0 .. 2
        OBVIOUS
      <3>2. Shifted[0] \in Nat /\ Shifted[1] \in Nat /\ Shifted[2] \in Nat
        BY <1>2, ShiftedIs
      <3>3. QED
        BY <3>1, <3>2 DEF Sum
    <2>2. QED
      BY <1>3, <2>1, ShiftedIs DEF First3
  <1>6. PICK x : x = (lba - f - Spare0) % Word
    OBVIOUS
  <1>7. /\ x \in 0 .. Word - 1
        /\ Spare0 + f <= lba => x = lba - (Spare0 + f)
        /\ Spare0 + f > lba => x >= Word - (Spare0 + f)
    <2>1. PICK y \in Int : y = lba - f - Spare0
      BY <1>1
    <2>2. y >= 0 => y \in 0 .. Word - 1 /\ y % Word = y
      BY <1>1, <2>1
    <2>3. y < 0 => y + Word \in 0 .. Word - 1 /\ y % Word = y + Word
      BY <1>1, <1>4, <2>1
    <2>4. QED
      BY <1>1, <1>6, <2>1, <2>2, <2>3
  <1>8. PICK s : s = [Shifted EXCEPT ![3] = x]
    OBVIOUS
  <1>9. /\ s \in [Parts -> 0 .. Word - 1]
        /\ s[0] = a[0] /\ s[1] = a[1] /\ s[2] = a[2] /\ s[3] = x
        /\ s[4] = a[3] /\ s[5] = a[4] /\ s[6] = a[5] /\ s[7] = a[6]
    <2>1. Shifted \in [Parts -> 0 .. Word - 1] /\ 3 \in Parts
      BY ShiftedIs DEF Parts
    <2>2. s \in [Parts -> 0 .. Word - 1] /\ s[3] = x /\ \A i \in Parts : i # 3 => s[i] = Shifted[i]
      BY <1>7, <1>8, <2>1
    <2>3. QED
      BY <2>2, ShiftedIs DEF Parts
  <1>10. Sum(s, 4 .. partnum) = a[3] + a[4] + a[5] + a[6]
    <2>1. partnum \in 4 .. 7
      BY DEF SizesRead
    <2>2. Sum(s, 4 .. partnum) =
           (IF 4 <= 0 /\ 0 <= partnum THEN s[0] ELSE 0) + (IF 4 <= 1 /\ 1 <= partnum THEN s[1] ELSE 0)
             + (IF 4 <= 2 /\ 2 <= partnum THEN s[2] ELSE 0) + (IF 4 <= 3 /\ 3 <= partnum THEN s[3] ELSE 0)
             + (IF 4 <= 4 /\ 4 <= partnum THEN s[4] ELSE 0) + (IF 4 <= 5 /\ 5 <= partnum THEN s[5] ELSE 0)
             + (IF 4 <= 6 /\ 6 <= partnum THEN s[6] ELSE 0) + (IF 4 <= 7 /\ 7 <= partnum THEN s[7] ELSE 0)
      <3>1. \A k \in Int : Sum(s, 4 .. k) =
           (IF 4 <= 0 /\ 0 <= k THEN s[0] ELSE 0) + (IF 4 <= 1 /\ 1 <= k THEN s[1] ELSE 0)
             + (IF 4 <= 2 /\ 2 <= k THEN s[2] ELSE 0) + (IF 4 <= 3 /\ 3 <= k THEN s[3] ELSE 0)
             + (IF 4 <= 4 /\ 4 <= k THEN s[4] ELSE 0) + (IF 4 <= 5 /\ 5 <= k THEN s[5] ELSE 0)
             + (IF 4 <= 6 /\ 6 <= k THEN s[6] ELSE 0) + (IF 4 <= 7 /\ 7 <= k THEN s[7] ELSE 0)
        BY SumIs
      <3>2. QED
        BY <2>1, <3>1
    <2>3. /\ a[3] \in Nat /\ a[4] \in Nat /\ a[5] \in Nat /\ a[6] \in Nat
          /\ (partnum <= 4 => a[4] = 0) /\ (partnum <= 5 => a[5] = 0) /\ (partnum <= 6 => a[6] = 0)
      BY <1>2, <2>1
    <2>4. CASE partnum = 4
      BY <1>9, <2>2, <2>3, <2>4
    <2>5. CASE partnum = 5
      BY <1>9, <2>2, <2>3, <2>5
    <2>6. CASE partnum = 6
      BY <1>9, <2>2, <2>3, <2>6
    <2>7. CASE partnum = 7
      BY <1>9, <2>2, <2>3, <2>7
    <2>8. QED
      BY <2>1, <2>4, <2>5, <2>6, <2>7
  <1>11. Spare0 + f = Spare0 + a[0] + a[1] + a[2]
    BY <1>1, <1>2, <1>3
  <1>12. QED
    BY <1>3, <1>5, <1>6, <1>7, <1>8, <1>9, <1>10, <1>11
\* What the sizes and the disk are like before they are turned into blocks.
Before(a, n, x, s) ==
  /\ Blocks(a) /\ n \in 5 .. 8 /\ partnum = n - 1 /\ lba \in Disks
  /\ x \in 0 .. Word - 1 /\ s \in [Parts -> 0 .. Word - 1]
  /\ Spare0 + a[0] + a[1] + a[2] <= lba => x = lba - (Spare0 + a[0] + a[1] + a[2])
  /\ Spare0 + a[0] + a[1] + a[2] > lba => x >= Word - (Spare0 + a[0] + a[1] + a[2])
  /\ s[0] = a[0] /\ s[1] = a[1] /\ s[2] = a[2] /\ s[3] = x
  /\ s[4] = a[3] /\ s[5] = a[4] /\ s[6] = a[5] /\ s[7] = a[6]
  /\ Entered(4) => n >= 6

\* The same, number by number.
SizesAre(a, n) ==
  /\ Word \in Nat /\ Word >= 167936 /\ lba \in Nat /\ 2 * lba < Word
  /\ Spare0 \in Nat /\ 16 * Spare0 <= Word /\ n \in 5 .. 8
  /\ Multip \in Nat /\ 16 * (164 * Multip) <= Word
  /\ a[0] \in Nat /\ a[1] \in Nat /\ a[2] \in Nat /\ a[3] \in Nat /\ a[4] \in Nat
  /\ a[5] \in Nat /\ a[6] \in Nat
  /\ 16 * a[0] <= Word /\ 16 * a[1] <= Word /\ 16 * a[2] <= Word /\ 16 * a[3] <= Word
  /\ 16 * a[4] <= Word /\ 16 * a[5] <= Word /\ 16 * a[6] <= Word
  /\ a[0] > 0 /\ a[1] > 0 /\ a[2] > 0 /\ a[3] >= 64
  /\ (a[4] # 0 => a[4] >= 64 /\ n >= 6) /\ (a[5] # 0 => a[5] >= 64 /\ n >= 7)
  /\ (a[6] # 0 => a[6] >= 64 /\ n >= 8) /\ (a[5] = 0 => a[6] = 0)
Whole(a) == Spare0 % 64 = 0 /\ a[0] % 64 = 0 /\ a[1] % 64 = 0 /\ a[2] % 64 = 0

LEMMA BeforeFacts ==
  ASSUME NEW a, NEW n, NEW x, NEW s, Before(a, n, x, s)
  PROVE  SizesAre(a, n) /\ Whole(a)
  <1>1. /\ Word \in Nat /\ lba \in Nat /\ 2 * lba < Word
        /\ Spare0 \in Nat /\ Spare0 % 64 = 0 /\ 16 * Spare0 <= Word
        /\ Multip \in Nat /\ Multip >= 64 /\ 16 * (164 * Multip) <= Word
    BY Constants DEF Before
  <1>2. Word >= 167936
    BY <1>1
  <1>3. \A i \in 0 .. 6 : /\ a[i] \in Nat /\ 16 * a[i] <= Word /\ a[i] % 64 = 0
                          /\ (a[i] # 0 => a[i] >= 64) /\ (i >= n - 1 => a[i] = 0)
    <2>1. \A i \in 0 .. 6 : /\ a[i] \in Nat /\ 16 * a[i] <= Word /\ a[i] % 64 = 0
                            /\ (a[i] # 0 => a[i] >= 64) /\ (i >= partnum => a[i] = 0)
      BY Zenon DEF Before, Blocks
    <2>2. partnum = n - 1
      BY DEF Before
    <2>3. QED
      BY <2>1, <2>2, Zenon
  <1>4. a[0] > 0 /\ a[1] > 0 /\ a[2] > 0 /\ a[3] > 0 /\ (a[5] = 0 => a[6] = 0)
    BY DEF Before, Blocks
  <1>5. n \in 5 .. 8
    BY DEF Before
  <1>6. QED
    BY <1>1, <1>2, <1>3, <1>4, <1>5 DEF SizesAre, Whole

\* Sizes that do not fit, or leave nothing: the tables are written all the same.
LEMMA RefusedBlocks ==
  ASSUME NEW a, NEW n, NEW x, NEW s, Before(a, n, x, s), NEW t \in [Parts -> 0 .. Word - 1],
         \A i \in Parts : i # 3 => t[i] = s[i],
         t[3] = x \/ a[0] + a[1] + a[2] >= lba,
         UNCHANGED <<items, lba, cfg_size>>, spare_area' = Spare0,
         sectors' = t, partnum' = n, ret' = -1
  PROVE  InBlocks'
  <1>0. SizesAre(a, n) /\ Whole(a)
    BY BeforeFacts
  <1>1. PICK d \in Nat : d = lba
    BY <1>0 DEF SizesAre
  <1>2. /\ t[0] = a[0] /\ t[1] = a[1] /\ t[2] = a[2] /\ t[4] = a[3] /\ t[5] = a[4]
        /\ t[6] = a[5] /\ t[7] = a[6]
    BY DEF Before, Parts
  <1>3. n \in 5 .. 8
    BY DEF Before
  <1>4. \A i \in 0 .. 2 : t[i] > 0 /\ t[i] % 64 = 0 /\ 16 * t[i] <= Word
    BY <1>2, <1>0 DEF SizesAre, Whole
  <1>5. Spare0 \in Nat /\ Spare0 % 64 = 0 /\ 16 * Spare0 <= Word /\ t[4] # 0
    BY <1>2, <1>0 DEF SizesAre, Whole
  <1>6. ASSUME Spare0 + t[0] + t[1] + t[2] < d
        PROVE  t[3] # 0 /\ Spare0 + t[0] + t[1] + t[2] + MidTaken(t, n) < Word
    <2>1. t[3] = x /\ x = lba - (Spare0 + a[0] + a[1] + a[2])
      BY <1>1, <1>2, <1>6, <1>0 DEF Before, SizesAre
    <2>2. t[3] # 0
      BY <1>1, <1>2, <1>6, <2>1, <1>0 DEF SizesAre
    <2>3. t[4] \in Nat /\ t[5] \in Nat /\ t[6] \in Nat
      BY <1>2, <1>0 DEF SizesAre
    <2>4. MidTaken(t, n) \in Nat /\ MidTaken(t, n) <= 48 + t[4] + t[5] + t[6]
      BY ONLY <1>3, <2>3 DEF MidTaken
    <2>5. QED
      BY <1>2, <2>2, <2>4, <1>0 DEF SizesAre
  <1>7. lba' = d /\ ret' # 0
    BY <1>1
  <1>8. QED
    BY <1>1, <1>3, <1>4, <1>5, <1>6, <1>7, BlocksFrom

\* All partitions have a size: none is left out, none added.
LEMMA GivenBlocks ==
  ASSUME NEW a, NEW n, NEW x, NEW s, Before(a, n, x, s), s[5] # 0, Accept(s, n),
         UNCHANGED <<items, lba, cfg_size>>, spare_area' = Spare0
  PROVE  InBlocks'
  <1>0. SizesAre(a, n) /\ Whole(a)
    BY BeforeFacts
  <1>1. PICK d \in Nat : d = lba
    BY <1>0 DEF SizesAre
  <1>2. PICK t : t = sectors'
    OBVIOUS
  <1>3. PICK k : k = partnum'
    OBVIOUS
  <1>4. s \in [Parts -> 0 .. Word - 1] /\ n \in 5 .. 8 /\ s[4] > 16
    BY <1>0 DEF Before, SizesAre
  <1>5. /\ t \in [Parts -> 0 .. Word - 1] /\ ret' = 0
        /\ \A i \in 0 .. 3 : t[i] = s[i]
        /\ t[4] = s[4] - 16
        /\ \A i \in 5 .. 7 : /\ i < n /\ s[i] > 16 => t[i] = s[i] - 16
                             /\ i >= n \/ s[i] = 0 => t[i] = s[i]
        /\ k \in 5 .. 8 /\ t[k - 1] # 0
        /\ \A j \in Parts : j >= k => t[j] = 0
    BY <1>2, <1>3, <1>4, AcceptIs
  <1>6. /\ t[0] = a[0] /\ t[1] = a[1] /\ t[2] = a[2] /\ t[3] = x /\ t[4] = a[3] - 16
        /\ t[5] = a[4] - 16 /\ a[4] >= 64
        /\ t[6] = (IF a[5] = 0 THEN 0 ELSE a[5] - 16)
        /\ t[7] = (IF a[6] = 0 THEN 0 ELSE a[6] - 16)
    BY <1>5, <1>0 DEF Before, SizesAre
  <1>7. /\ k >= 6 /\ (k >= 7 <=> a[5] # 0) /\ (k >= 8 <=> a[6] # 0)
    <2>1. 5 \in Parts /\ 6 \in Parts /\ 7 \in Parts
      BY DEF Parts
    <2>2. k >= 6
      BY <1>5, <1>6, <2>1, <1>0 DEF SizesAre
    <2>3. /\ (k >= 7 <=> a[5] # 0) /\ (k >= 8 <=> a[6] # 0)
      BY <1>5, <1>6, <2>1, <2>2, <1>0 DEF SizesAre
    <2>4. QED
      BY <2>2, <2>3
  <1>8. \A i \in 0 .. 2 : t[i] > 0 /\ t[i] % 64 = 0 /\ 16 * t[i] <= Word
    BY <1>6, <1>0 DEF SizesAre, Whole
  <1>9. Spare0 \in Nat /\ Spare0 % 64 = 0 /\ 16 * Spare0 <= Word /\ t[4] # 0
    BY <1>6, <1>0 DEF SizesAre, Whole
  <1>10. MidUsed(t, k) /\ AllUsed(t, k)
    BY <1>5, <1>6, <1>7, <1>0 DEF MidUsed, AllUsed, SizesAre
  <1>11. MidTaken(t, k) <= 48 + a[3] + a[4] + a[5] /\ MidTaken(t, k) \in Nat
    BY <1>5, <1>6, <1>7, <1>0 DEF MidTaken, SizesAre
  <1>12. AllTaken(t, k) = a[3] + a[4] + a[5] + a[6]
    <2>1. /\ a[3] \in Nat /\ a[4] \in Nat /\ a[5] \in Nat /\ a[6] \in Nat
          /\ (a[5] = 0 => a[6] = 0)
      BY <1>0 DEF SizesAre
    <2>2. AllTaken(t, k) = a[3] + a[4] + (IF k >= 7 THEN 16 + t[6] ELSE 0)
                             + (IF k >= 8 THEN 16 + t[7] ELSE 0)
      <3>1. 16 + t[4] = a[3] /\ 16 + t[5] = a[4]
        BY <1>6, <2>1
      <3>2. QED
        BY <1>7, <3>1, Zenon DEF AllTaken
    <2>3. (IF k >= 7 THEN 16 + t[6] ELSE 0) = a[5]
      BY <1>6, <1>7, <2>1
    <2>4. (IF k >= 8 THEN 16 + t[7] ELSE 0) = a[6]
      BY <1>6, <1>7, <2>1
    <2>5. QED
      BY <2>2, <2>3, <2>4
  <1>13. ASSUME Spare0 + t[0] + t[1] + t[2] < d
         PROVE  /\ t[3] # 0 /\ Spare0 + t[0] + t[1] + t[2] + MidTaken(t, k) < Word
                /\ Fits => AllTaken(t, k) <= t[3]
                /\ Spare0 + t[0] + t[1] + t[2] + t[3] <= d
    <2>1. t[3] = lba - (Spare0 + a[0] + a[1] + a[2])
      BY <1>1, <1>6, <1>13, <1>0 DEF Before, SizesAre
    <2>2. t[3] # 0 /\ Spare0 + t[0] + t[1] + t[2] + t[3] <= d
      BY <1>1, <1>6, <1>13, <2>1, <1>0 DEF SizesAre
    <2>3. Spare0 + t[0] + t[1] + t[2] + MidTaken(t, k) < Word
      <3>1. PICK w \in Nat : w = MidTaken(t, k)
        BY <1>11
      <3>2. w <= 48 + a[3] + a[4] + a[5]
        BY <1>11, <3>1
      <3>3. Spare0 + a[0] + a[1] + a[2] + w < Word
        BY <3>2, <1>0 DEF SizesAre
      <3>4. QED
        BY <1>6, <3>1, <3>3
    <2>4. Fits => Spare0 + a[0] + a[1] + a[2] + a[3] + a[4] + a[5] + a[6] <= lba
      BY DEF Fits, Before, Blocks
    <2>5. Fits => AllTaken(t, k) <= t[3]
      BY <1>12, <2>1, <2>4, <1>0 DEF SizesAre
    <2>6. QED
      BY <2>2, <2>3, <2>5
  <1>14. Fits' <=> Fits
    BY SameConfig
  <1>15. lba' = d
    BY <1>1
  <1>16. QED
    BY <1>2, <1>3, <1>5, <1>8, <1>9, <1>10, <1>13, <1>14, <1>15, BlocksFrom
\* The rest of the disk becomes the local partition.
LEMMA RestBlocks ==
  ASSUME NEW a, NEW n, NEW x, NEW s, Before(a, n, x, s), s[5] = 0,
         NEW rest, rest = x - (a[3] + a[4] + a[5] + a[6]), rest > Multip * 32,
         Accept([s EXCEPT ![5] = rest], n),
         UNCHANGED <<items, lba, cfg_size>>, spare_area' = Spare0
  PROVE  InBlocks'
  <1>0. SizesAre(a, n) /\ Whole(a)
    BY BeforeFacts
  <1>1. PICK d \in Nat : d = lba
    BY <1>0 DEF SizesAre
  <1>2. PICK t : t = sectors'
    OBVIOUS
  <1>3. PICK k : k = partnum'
    OBVIOUS
  <1>4. s \in [Parts -> 0 .. Word - 1] /\ n \in 5 .. 8 /\ x \in 0 .. Word - 1
    BY DEF Before
  <1>5. PICK v : v = [s EXCEPT ![5] = rest]
    OBVIOUS
  <1>6. a[4] = 0 /\ rest = x - (a[3] + a[5] + a[6]) /\ rest \in Nat /\ rest >= 17 /\ rest < Word
    <2>1. a[4] = 0
      BY DEF Before
    <2>2. Multip >= 64
      BY Constants
    <2>3. QED
      BY <1>4, <2>1, <2>2, <1>0 DEF SizesAre
  <1>7. /\ v \in [Parts -> 0 .. Word - 1]
        /\ v[0] = a[0] /\ v[1] = a[1] /\ v[2] = a[2] /\ v[3] = x /\ v[4] = a[3]
        /\ v[5] = rest /\ v[6] = a[5] /\ v[7] = a[6]
    <2>1. 5 \in Parts /\ rest \in 0 .. Word - 1
      BY <1>6, <1>0 DEF Parts, SizesAre
    <2>2. v \in [Parts -> 0 .. Word - 1] /\ v[5] = rest /\ \A i \in Parts : i # 5 => v[i] = s[i]
      BY <1>4, <1>5, <2>1
    <2>3. QED
      BY <2>2 DEF Before, Parts
  <1>8. v[4] > 16
    BY <1>7, <1>0 DEF SizesAre
  <1>9. /\ t \in [Parts -> 0 .. Word - 1] /\ ret' = 0
        /\ \A i \in 0 .. 3 : t[i] = v[i]
        /\ t[4] = v[4] - 16
        /\ \A i \in 5 .. 7 : /\ i < n /\ v[i] > 16 => t[i] = v[i] - 16
                             /\ i >= n \/ v[i] = 0 => t[i] = v[i]
        /\ k \in 5 .. 8 /\ t[k - 1] # 0
        /\ \A j \in Parts : j >= k => t[j] = 0
    <2>1. Accept(v, n)
      BY <1>5
    <2>2. QED
      BY <1>2, <1>3, <1>4, <1>7, <1>8, <2>1, AcceptIs
  <1>10. /\ t[0] = a[0] /\ t[1] = a[1] /\ t[2] = a[2] /\ t[3] = x /\ t[4] = a[3] - 16
         /\ t[6] = (IF a[5] = 0 THEN 0 ELSE a[5] - 16)
         /\ t[7] = (IF a[6] = 0 THEN 0 ELSE a[6] - 16)
    BY <1>7, <1>9, <1>0 DEF SizesAre
  <1>11. t[5] = IF n >= 6 THEN rest - 16 ELSE rest
    <2>1. 5 \in 5 .. 7
      OBVIOUS
    <2>2. QED
      BY <1>4, <1>6, <1>7, <1>9, <2>1
  <1>12. t[5] \in Nat /\ t[5] # 0 /\ t[5] <= rest
    BY <1>6, <1>11
  <1>13. k >= 6 /\ (k >= 7 <=> a[5] # 0) /\ (k >= 8 <=> a[6] # 0)
    <2>1. 5 \in Parts /\ 6 \in Parts /\ 7 \in Parts
      BY DEF Parts
    <2>2. k >= 6
      BY <1>9, <1>12, <2>1
    <2>3. (k >= 7 <=> a[5] # 0) /\ (k >= 8 <=> a[6] # 0)
      <3>1. (t[6] = 0 <=> a[5] = 0) /\ (t[7] = 0 <=> a[6] = 0) /\ (a[5] = 0 => a[6] = 0)
        BY <1>10, <1>0 DEF SizesAre
      <3>2. QED
        BY <1>9, <2>1, <2>2, <3>1
    <2>4. QED
      BY <2>2, <2>3
  <1>14. \A i \in 0 .. 2 : t[i] > 0 /\ t[i] % 64 = 0 /\ 16 * t[i] <= Word
    BY <1>10, <1>0 DEF SizesAre, Whole
  <1>15. Spare0 \in Nat /\ Spare0 % 64 = 0 /\ 16 * Spare0 <= Word /\ t[4] # 0
    BY <1>10, <1>0 DEF SizesAre, Whole
  <1>16. MidUsed(t, k) /\ AllUsed(t, k)
    <2>1. (t[6] = 0 <=> a[5] = 0) /\ (t[7] = 0 <=> a[6] = 0)
      BY <1>10, <1>0 DEF SizesAre
    <2>2. QED
      BY <1>9, <1>12, <1>13, <2>1 DEF MidUsed, AllUsed
  <1>17. MidTaken(t, k) <= 48 + a[3] + rest + a[5] /\ MidTaken(t, k) \in Nat
    <2>1. a[3] \in Nat /\ a[5] \in Nat /\ t[4] <= a[3] /\ t[6] <= a[5] /\ t[4] \in Nat /\ t[6] \in Nat
      BY <1>10, <1>0 DEF SizesAre
    <2>2. QED
      BY <1>6, <1>9, <1>12, <2>1 DEF MidTaken
  <1>18. n >= 6 => AllTaken(t, k) = a[3] + rest + a[5] + a[6]
    <2>1. SUFFICES ASSUME n >= 6 PROVE AllTaken(t, k) = a[3] + rest + a[5] + a[6]
      OBVIOUS
    <2>2. /\ a[3] \in Nat /\ a[5] \in Nat /\ a[6] \in Nat /\ (a[5] = 0 => a[6] = 0)
      BY <1>0 DEF SizesAre
    <2>3. AllTaken(t, k) = a[3] + rest + (IF k >= 7 THEN 16 + t[6] ELSE 0)
                             + (IF k >= 8 THEN 16 + t[7] ELSE 0)
      <3>1. 16 + t[4] = a[3] /\ 16 + t[5] = rest
        BY <1>6, <1>10, <1>11, <2>1, <2>2
      <3>2. QED
        BY <1>13, <3>1, Zenon DEF AllTaken
    <2>4. (IF k >= 7 THEN 16 + t[6] ELSE 0) = a[5]
      BY <1>10, <1>13, <2>2
    <2>5. (IF k >= 8 THEN 16 + t[7] ELSE 0) = a[6]
      BY <1>10, <1>13, <2>2
    <2>6. QED
      BY <2>3, <2>4, <2>5
  <1>19. ASSUME Spare0 + t[0] + t[1] + t[2] < d
         PROVE  /\ t[3] # 0 /\ Spare0 + t[0] + t[1] + t[2] + MidTaken(t, k) < Word
                /\ n >= 6 => AllTaken(t, k) <= t[3]
                /\ Spare0 + t[0] + t[1] + t[2] + t[3] <= d
    <2>1. t[3] = lba - (Spare0 + a[0] + a[1] + a[2])
      BY <1>1, <1>10, <1>19, <1>0 DEF Before, SizesAre
    <2>2. t[3] # 0 /\ Spare0 + t[0] + t[1] + t[2] + t[3] <= d
      BY <1>1, <1>10, <1>19, <2>1, <1>0 DEF SizesAre
    <2>3. Spare0 + t[0] + t[1] + t[2] + MidTaken(t, k) < Word
      <3>1. PICK w \in Nat : w = MidTaken(t, k)
        BY <1>17
      <3>2. w <= 48 + a[3] + rest + a[5]
        BY <1>17, <3>1
      <3>3. a[3] + rest + a[5] <= lba - (Spare0 + a[0] + a[1] + a[2])
        <4>1. a[3] + rest + a[5] = x - a[6] /\ x = lba - (Spare0 + a[0] + a[1] + a[2])
          BY <1>4, <1>6, <1>10, <2>1, <1>0 DEF SizesAre
        <4>2. x \in Int /\ a[6] \in Nat
          BY <1>4, <1>0 DEF SizesAre
        <4>3. QED
          BY <4>1, <4>2
      <3>4. Spare0 + a[0] + a[1] + a[2] + w < Word
        BY <1>6, <3>2, <3>3, <1>0 DEF SizesAre
      <3>5. QED
        BY <1>10, <3>1, <3>4
    <2>4. n >= 6 => AllTaken(t, k) <= t[3]
      <3>1. a[3] + rest + a[5] + a[6] = x /\ x \in Nat
        BY <1>4, <1>6, <1>0 DEF SizesAre
      <3>2. QED
        BY <1>10, <1>18, <3>1
    <2>5. QED
      BY <2>2, <2>3, <2>4
  <1>20. Entered(4)' => n >= 6
    BY SameConfig DEF Before
  <1>21. lba' = d
    BY <1>1
  <1>22. QED
    BY <1>2, <1>3, <1>9, <1>14, <1>15, <1>16, <1>19, <1>20, <1>21, BlocksFrom

\* Local is left out: what is behind it moves up, in the array or beyond.
LEMMA LeftOutBlocks ==
  ASSUME NEW a, NEW n, NEW x, NEW s, Before(a, n, x, s), s[5] = 0,
         NEW rest, rest = x - (a[3] + a[4] + a[5] + a[6]), rest \in 1 .. Multip * 32,
         LeaveOutLocal(s, n, Spare0),
         UNCHANGED <<items, lba, cfg_size>>
  PROVE  InBlocks' /\ sectors' \in [Parts -> 0 .. Word - 1] /\ spare_area' \in {Spare0, 0}
  <1>0. SizesAre(a, n) /\ Whole(a)
    BY BeforeFacts
  <1>1. PICK d \in Nat : d = lba
    BY <1>0 DEF SizesAre
  <1>2. PICK t : t = sectors'
    OBVIOUS
  <1>3. PICK k : k = partnum'
    OBVIOUS
  <1>4. s \in [Parts -> 0 .. Word - 1] /\ n \in 5 .. 8 /\ x \in 0 .. Word - 1
    BY DEF Before
  <1>5. PICK behind \in Junk \cup {Spare0} :
          /\ Accept(WithoutLocal(s, n, behind), n)
          /\ spare_area' \in IF n = 8 THEN {Spare0, 0} ELSE {Spare0}
    BY DEF LeaveOutLocal
  <1>6. behind \in 0 .. Word - 1
    BY Constants
  <1>7. PICK v : v = WithoutLocal(s, n, behind)
    OBVIOUS
  <1>8. PICK sp : sp = spare_area'
    OBVIOUS
  <1>9. /\ v \in [Parts -> 0 .. Word - 1]
        /\ v[0] = a[0] /\ v[1] = a[1] /\ v[2] = a[2] /\ v[3] = x /\ v[4] = a[3]
        /\ v[5] = a[5]
        /\ v[6] = a[6]
        /\ n < 8 => v[7] = 0
    <2>1. \A i \in Parts : v[i] = IF i \in 5 .. n - 1 THEN (IF i = 7 THEN behind ELSE s[i + 1])
                                  ELSE IF i = n THEN 0 ELSE s[i]
      BY <1>7 DEF WithoutLocal
    <2>2. \A i \in Parts : i \in 5 .. n - 1 /\ i # 7 => i + 1 \in Parts
      BY <1>4 DEF Parts
    <2>3. \A i \in Parts : v[i] \in 0 .. Word - 1
      <3>1. \A i \in Parts : s[i] \in 0 .. Word - 1
        BY <1>4
      <3>2. 0 \in 0 .. Word - 1
        BY <1>0 DEF SizesAre
      <3>3. QED
        BY <1>6, <2>1, <2>2, <3>1, <3>2
    <2>4. v \in [Parts -> 0 .. Word - 1]
      BY <1>7, <2>3 DEF WithoutLocal
    <2>5. v[0] = a[0] /\ v[1] = a[1] /\ v[2] = a[2] /\ v[3] = x /\ v[4] = a[3]
      BY <1>4, <2>1 DEF Before, Parts
    <2>6. v[5] = a[5]
      <3>1. n = 5 => a[5] = 0
        BY <1>0 DEF SizesAre
      <3>2. QED
        BY <1>4, <2>1, <3>1 DEF Before, Parts
    <2>7. v[6] = a[6]
      <3>1. n <= 7 => a[6] = 0
        BY <1>0 DEF SizesAre
      <3>2. n <= 6 => a[5] = 0
        BY <1>0 DEF SizesAre
      <3>3. QED
        BY <1>4, <2>1, <3>1, <3>2 DEF Before, Parts
    <2>8. n < 8 => v[7] = 0
      <3>1. n <= 7 => a[6] = 0
        BY <1>0 DEF SizesAre
      <3>2. QED
        BY <1>4, <2>1, <3>1 DEF Before, Parts
    <2>9. QED
      BY <2>4, <2>5, <2>6, <2>7, <2>8
  <1>10. v[4] > 16
    BY <1>9, <1>0 DEF SizesAre
  <1>11. /\ t \in [Parts -> 0 .. Word - 1] /\ ret' = 0
         /\ \A i \in 0 .. 3 : t[i] = v[i]
         /\ t[4] = v[4] - 16
         /\ \A i \in 5 .. 7 : /\ i < n /\ v[i] > 16 => t[i] = v[i] - 16
                              /\ i >= n \/ v[i] = 0 => t[i] = v[i]
         /\ k \in 5 .. 8 /\ t[k - 1] # 0
         /\ \A j \in Parts : j >= k => t[j] = 0
    BY <1>2, <1>3, <1>4, <1>5, <1>7, <1>9, <1>10, AcceptIs
  <1>12. /\ t[0] = a[0] /\ t[1] = a[1] /\ t[2] = a[2] /\ t[3] = x /\ t[4] = a[3] - 16
         /\ t[5] = (IF a[5] = 0 THEN 0 ELSE a[5] - 16)
         /\ t[6] = (IF a[6] = 0 THEN 0 ELSE a[6] - 16)
         /\ n < 8 => t[7] = 0
    BY <1>9, <1>11, <1>0 DEF SizesAre
  <1>13. /\ Spare0 + a[0] + a[1] + a[2] < lba
         /\ x = lba - (Spare0 + a[0] + a[1] + a[2])
    <2>1. x > 0 /\ x <= Multip * 32 + (a[3] + a[4] + a[5] + a[6])
      BY <1>4, <1>0 DEF SizesAre
    <2>2. ~(Spare0 + a[0] + a[1] + a[2] > lba)
      <3>1. SUFFICES ASSUME Spare0 + a[0] + a[1] + a[2] > lba PROVE FALSE
        BY <1>0 DEF SizesAre
      <3>2. x >= Word - (Spare0 + a[0] + a[1] + a[2])
        BY <3>1 DEF Before
      <3>3. QED
        BY <1>4, <2>1, <3>2, <1>0 DEF SizesAre
    <2>3. x = lba - (Spare0 + a[0] + a[1] + a[2])
      BY <2>2, <1>0 DEF Before, SizesAre
    <2>4. QED
      BY <1>4, <2>1, <2>3, <1>0 DEF SizesAre
  <1>14. n = 8 => RunsOver'
    <2>1. SUFFICES ASSUME n = 8 PROVE RunsOver
      BY SameConfig
    <2>2. partnum = 7 /\ a[4] = 0
      BY <2>1 DEF Before
    <2>3. Entered(6) /\ SizeOf(4) = 0
      BY <2>2 DEF Before, Blocks
    <2>4. Used = Spare0 + a[0] + a[1] + a[2] + a[3] + a[4] + a[5] + a[6]
      BY DEF Before, Blocks
    <2>5. lba <= Used + Multip * 32
      BY <1>4, <1>13, <2>4, <1>0 DEF SizesAre
    <2>6. QED
      BY <2>3, <2>5 DEF RunsOver
  <1>15. \A i \in 0 .. 2 : t[i] > 0 /\ t[i] % 64 = 0 /\ 16 * t[i] <= Word
    BY <1>12, <1>0 DEF SizesAre, Whole
  <1>16. /\ sp \in Nat /\ sp % 64 = 0 /\ 16 * sp <= Word /\ sp <= Spare0 /\ t[4] # 0
         /\ (n < 8 => sp = Spare0)
    <2>1. Spare0 \in Nat /\ Spare0 % 64 = 0 /\ 16 * Spare0 <= Word /\ t[4] # 0
      BY <1>12, <1>0 DEF SizesAre, Whole
    <2>2. CASE n = 8
      <3>1. sp \in {Spare0, 0}
        BY <1>5, <1>8, <2>2
      <3>2. Word \in Nat
        BY <1>0 DEF SizesAre
      <3>3. QED
        BY <2>1, <2>2, <3>1, <3>2
    <2>3. CASE n # 8
      <3>1. sp = Spare0
        BY <1>5, <1>8, <2>3
      <3>2. QED
        BY <2>1, <3>1
    <2>4. QED
      BY <2>2, <2>3
  <1>17. MidTaken(t, k) <= 48 + a[3] + a[5] + a[6] /\ MidTaken(t, k) \in Nat
    <2>1. /\ a[3] \in Nat /\ a[5] \in Nat /\ a[6] \in Nat /\ t[4] <= a[3] /\ t[5] <= a[5] /\ t[6] <= a[6]
          /\ t[4] \in Nat /\ t[5] \in Nat /\ t[6] \in Nat
      BY <1>12, <1>0 DEF SizesAre
    <2>2. QED
      BY <1>11, <2>1 DEF MidTaken
  <1>18. n < 8 => /\ MidUsed(t, k) /\ AllUsed(t, k)
                  /\ AllTaken(t, k) = a[3] + a[5]
    <2>1. SUFFICES ASSUME n < 8 PROVE /\ MidUsed(t, k) /\ AllUsed(t, k)
                                      /\ AllTaken(t, k) = a[3] + a[5]
      OBVIOUS
    <2>2. a[6] = 0 /\ t[7] = 0 /\ t[6] = 0
      BY <1>12, <2>1, <1>0 DEF SizesAre
    <2>3. a[3] \in Nat /\ a[5] \in Nat /\ (a[5] # 0 => a[5] >= 64)
      BY <1>0 DEF SizesAre
    <2>4. 5 \in Parts /\ 6 \in Parts /\ 7 \in Parts
      BY DEF Parts
    <2>5. k <= 6 /\ (k >= 6 <=> a[5] # 0)
      BY <1>11, <1>12, <2>2, <2>3, <2>4
    <2>6. MidUsed(t, k) /\ AllUsed(t, k)
      BY <1>11, <1>12, <2>3, <2>5 DEF MidUsed, AllUsed
    <2>7. ~(k >= 7) /\ ~(k >= 8) /\ 16 + t[4] = a[3] /\ (IF k >= 6 THEN 16 + t[5] ELSE 0) = a[5]
      BY <1>11, <1>12, <2>3, <2>5
    <2>8. AllTaken(t, k) = a[3] + a[5]
      BY <2>3, <2>7 DEF AllTaken
    <2>9. QED
      BY <2>6, <2>8
  <1>19. /\ t[3] # 0 /\ sp + t[0] + t[1] + t[2] + MidTaken(t, k) < Word
         /\ n < 8 => AllTaken(t, k) <= t[3] /\ sp + t[0] + t[1] + t[2] + t[3] <= d
    <2>1. t[3] # 0
      BY <1>12, <1>13, <1>0 DEF SizesAre
    <2>2. sp + t[0] + t[1] + t[2] + MidTaken(t, k) < Word
      <3>1. PICK w \in Nat : w = MidTaken(t, k)
        BY <1>17
      <3>2. w <= 48 + a[3] + a[5] + a[6]
        BY <1>17, <3>1
      <3>3. sp + a[0] + a[1] + a[2] + w < Word
        BY <1>16, <3>2, <1>0 DEF SizesAre
      <3>4. QED
        BY <1>12, <3>1, <3>3
    <2>3. n < 8 => AllTaken(t, k) <= t[3]
      BY <1>4, <1>12, <1>18, <1>0 DEF SizesAre
    <2>4. n < 8 => sp + t[0] + t[1] + t[2] + t[3] <= d
      BY <1>1, <1>12, <1>13, <1>16, <1>0 DEF SizesAre
    <2>5. QED
      BY <2>1, <2>2, <2>3, <2>4
  <1>20. ~RunsOver' => n < 8
    BY <1>4, <1>14
  <1>21. lba' = d
    BY <1>1
  <1>22. /\ ret' = 0 /\ ~RunsOver' => sp = Spare0 /\ MidUsed(t, k)
         /\ ret' = 0 /\ Fits' /\ Entered(4)' /\ ~RunsOver' =>
              /\ AllUsed(t, k) /\ AllTaken(t, k) <= t[3]
              /\ sp + t[0] + t[1] + t[2] + t[3] <= d
    BY <1>16, <1>18, <1>19, <1>20, Zenon
  <1>23. InBlocks'
    BY <1>2, <1>3, <1>8, <1>11, <1>15, <1>16, <1>19, <1>21, <1>22, BlocksFrom
  <1>24. QED
    BY <1>2, <1>5, <1>11, <1>23
\* The sizes are turned into blocks, refused or not.
LEMMA ReformatStep ==
  ASSUME SizesRead, lba \in Disks, reformat_part_size
  PROVE  InBlocks' /\ ret' \in {0, -1}
  <1>1. PICK a : Blocks(a)
    BY BlocksAre
  <1>2. PICK x \in 0 .. Word - 1 : \E s \in [Parts -> 0 .. Word - 1] :
           /\ x = (lba - First3(Shifted) - Spare0) % Word
           /\ s = [Shifted EXCEPT ![3] = x]
           /\ First3(Shifted) = a[0] + a[1] + a[2]
           /\ Spare0 + a[0] + a[1] + a[2] <= lba => x = lba - (Spare0 + a[0] + a[1] + a[2])
           /\ Spare0 + a[0] + a[1] + a[2] > lba => x >= Word - (Spare0 + a[0] + a[1] + a[2])
           /\ s[0] = a[0] /\ s[1] = a[1] /\ s[2] = a[2] /\ s[3] = x
           /\ s[4] = a[3] /\ s[5] = a[4] /\ s[6] = a[5] /\ s[7] = a[6]
           /\ Sum(s, 4 .. partnum) = a[3] + a[4] + a[5] + a[6]
    BY <1>1, Reformatted
  <1>3. PICK s \in [Parts -> 0 .. Word - 1] :
           /\ x = (lba - First3(Shifted) - Spare0) % Word
           /\ s = [Shifted EXCEPT ![3] = x]
           /\ First3(Shifted) = a[0] + a[1] + a[2]
           /\ Spare0 + a[0] + a[1] + a[2] <= lba => x = lba - (Spare0 + a[0] + a[1] + a[2])
           /\ Spare0 + a[0] + a[1] + a[2] > lba => x >= Word - (Spare0 + a[0] + a[1] + a[2])
           /\ s[0] = a[0] /\ s[1] = a[1] /\ s[2] = a[2] /\ s[3] = x
           /\ s[4] = a[3] /\ s[5] = a[4] /\ s[6] = a[5] /\ s[7] = a[6]
           /\ Sum(s, 4 .. partnum) = a[3] + a[4] + a[5] + a[6]
    BY <1>2
  <1>4. PICK n : n = partnum + 1
    OBVIOUS
  <1>5. n \in 5 .. 8 /\ partnum = n - 1 /\ (Entered(4) => n >= 6)
    BY <1>4 DEF SizesRead
  <1>6. Before(a, n, x, s)
    BY <1>1, <1>3, <1>5 DEF Before
  <1>7. AlignedSpare(spare_area) = Spare0
    BY DEF SizesRead, Spare0
  <1>8. Extended(Shifted, Spare0) = x
    BY <1>3 DEF Extended
  <1>9. Sum(s, 4 .. n - 1) = a[3] + a[4] + a[5] + a[6]
    BY <1>3, <1>5
  <1>10. UNCHANGED <<items, lba, cfg_size>>
    BY DEF reformat_part_size
  <1>11. PICK rest : rest = s[3] - Sum(s, 4 .. n - 1)
    OBVIOUS
  <1>12. rest = x - (a[3] + a[4] + a[5] + a[6])
    BY <1>3, <1>9, <1>11
  <1>13. \/ /\ spare_area' = Spare0
            /\ \/ lba <= First3(Shifted) /\ sectors' = Shifted /\ partnum' = n /\ ret' = -1
               \/ lba > First3(Shifted) /\ s[5] # 0 /\ Accept(s, n)
               \/ lba > First3(Shifted) /\ s[5] = 0 /\ sectors' = s /\ partnum' = n /\ ret' = -1
               \/ /\ lba > First3(Shifted) /\ s[5] = 0 /\ rest > Multip * 32
                  /\ Accept([s EXCEPT ![5] = rest], n)
         \/ s[5] = 0 /\ rest \in 1 .. Multip * 32 /\ LeaveOutLocal(s, n, Spare0)
    <2>1. LET spare == AlignedSpare(spare_area)
              k  == partnum + 1
              s2 == Shifted
              s3 == [s2 EXCEPT ![3] = Extended(s2, spare)]
              count == Sum(s3, 4 .. k - 1)
              left  == s3[3] - count
              Refuse(t) == sectors' = t /\ partnum' = k /\ ret' = -1
          IN  \/ /\ spare_area' = spare
                 /\ \/ lba <= First3(s2) /\ Refuse(s2)
                    \/ lba > First3(s2) /\ s3[5] # 0 /\ Accept(s3, k)
                    \/ lba > First3(s2) /\ s3[5] = 0 /\ left <= 0 /\ Refuse(s3)
                    \/ /\ lba > First3(s2) /\ s3[5] = 0 /\ left > Multip * 32
                       /\ Accept([s3 EXCEPT ![5] = left], k)
              \/ /\ lba > First3(s2) /\ s3[5] = 0 /\ left \in 1 .. Multip * 32
                 /\ LeaveOutLocal(s3, k, spare)
      BY Zenon DEF reformat_part_size
    <2>2. s = [Shifted EXCEPT ![3] = Extended(Shifted, Spare0)]
      BY <1>3, <1>8
    <2>3. \/ /\ spare_area' = Spare0
             /\ \/ lba <= First3(Shifted) /\ sectors' = Shifted /\ partnum' = n /\ ret' = -1
                \/ lba > First3(Shifted) /\ s[5] # 0 /\ Accept(s, n)
                \/ /\ lba > First3(Shifted) /\ s[5] = 0 /\ s[3] - Sum(s, 4 .. n - 1) <= 0
                   /\ sectors' = s /\ partnum' = n /\ ret' = -1
                \/ /\ lba > First3(Shifted) /\ s[5] = 0 /\ s[3] - Sum(s, 4 .. n - 1) > Multip * 32
                   /\ Accept([s EXCEPT ![5] = s[3] - Sum(s, 4 .. n - 1)], n)
          \/ /\ lba > First3(Shifted) /\ s[5] = 0 /\ s[3] - Sum(s, 4 .. n - 1) \in 1 .. Multip * 32
             /\ LeaveOutLocal(s, n, Spare0)
      BY <1>4, <1>7, <2>1, <2>2, Zenon
    <2>4. QED
      BY <1>11, <2>3, Zenon
  <1>14. CASE spare_area' = Spare0 /\ lba <= First3(Shifted) /\ sectors' = Shifted /\ partnum' = n /\ ret' = -1
    <2>1. PICK t : t = Shifted
      OBVIOUS
    <2>2. t \in [Parts -> 0 .. Word - 1] /\ \A i \in Parts : i # 3 => t[i] = s[i]
      BY <1>1, <1>3, <2>1, ShiftedIs
    <2>3. a[0] + a[1] + a[2] >= lba
      <3>1. SizesAre(a, n)
        BY <1>6, BeforeFacts
      <3>2. QED
        BY <1>3, <1>14, <3>1 DEF SizesAre
    <2>4. InBlocks'
      BY <1>6, <1>10, <1>14, <2>1, <2>2, <2>3, RefusedBlocks
    <2>5. QED
      BY <1>14, <2>4
  <1>15. CASE spare_area' = Spare0 /\ s[5] # 0 /\ Accept(s, n)
    <2>1. InBlocks'
      BY <1>6, <1>10, <1>15, GivenBlocks
    <2>2. QED
      BY <1>15, <2>1 DEF Accept
  <1>16. CASE spare_area' = Spare0 /\ sectors' = s /\ partnum' = n /\ ret' = -1
    <2>1. InBlocks'
      BY <1>3, <1>6, <1>10, <1>16, RefusedBlocks, ZenonT(40)
    <2>2. QED
      BY <1>16, <2>1
  <1>17. CASE spare_area' = Spare0 /\ s[5] = 0 /\ rest > Multip * 32 /\ Accept([s EXCEPT ![5] = rest], n)
    <2>1. InBlocks'
      BY <1>6, <1>10, <1>12, <1>17, RestBlocks
    <2>2. QED
      BY <1>17, <2>1 DEF Accept
  <1>18. CASE s[5] = 0 /\ rest \in 1 .. Multip * 32 /\ LeaveOutLocal(s, n, Spare0)
    <2>1. InBlocks'
      BY <1>6, <1>10, <1>12, <1>18, LeftOutBlocks
    <2>2. QED
      BY <1>18, <2>1 DEF LeaveOutLocal, Accept
  <1>19. QED
    BY <1>13, <1>14, <1>15, <1>16, <1>17, <1>18
---------------------------------------------------------------------------
(* Places.                                                                 *)

\* Where the partitions lie: without a gap, as every size is whole.
Located ==
  /\ loc \in [Parts -> Table]
  /\ loc[0].start = spare_area /\ loc[0].size = sectors[0]
  /\ loc[1].start = spare_area + sectors[0] /\ loc[1].size = sectors[1]
  /\ loc[2].start = spare_area + sectors[0] + sectors[1] /\ loc[2].size = sectors[2]
  /\ loc[3].start = ExtendedAt
  /\ Filled(3) => loc[3].size = sectors[3]
  /\ \A i \in 4 .. 7 : loc[i].start = 16 /\ (Filled(i) => loc[i].size = sectors[i])
  /\ \A i \in 0 .. 3 : imagebase[i] = loc[i].start
  /\ imagebase \in [Parts -> Nat]

\* A partition behind one of whole size begins where that ends.
LEMMA BehindIs ==
  ASSUME NEW u \in Nat, NEW z \in Nat, NEW w, u % 64 = 0, z % 64 = 0, u + z < Word
  PROVE  /\ Behind([start |-> u, size |-> z], w) = [start |-> u + z, size |-> w]
         /\ (u + z) % 64 = 0
  <1>1. Word \in Nat
    BY Constants
  <1>2. (u + z) % 64 = 0
    OBVIOUS
  <1>3. PICK y \in Nat : y = u + z
    OBVIOUS
  <1>4. y % Word = y /\ y % 64 = 0
    BY <1>1, <1>2, <1>3
  <1>5. QED
    BY <1>2, <1>3, <1>4 DEF Behind, AlignUp

\* The layout stays as it is until the next start.
LEMMA SameBlocks ==
  ASSUME InBlocks, UNCHANGED <<items, lba, cfg_size, sectors, partnum, spare_area, ret>>
  PROVE  /\ InBlocks' /\ ExtendedAt' = ExtendedAt /\ (Unfilled' <=> Unfilled)
         /\ \A i \in Parts : Filled(i)' <=> Filled(i)
  <1>1. /\ sectors' = sectors /\ partnum' = partnum /\ spare_area' = spare_area /\ ret' = ret
        /\ lba' = lba
    OBVIOUS
  <1>2. (Fits' <=> Fits) /\ (RunsOver' <=> RunsOver) /\ (Entered(4)' <=> Entered(4))
    BY SameConfig
  <1>3. ExtendedAt' = ExtendedAt
    BY <1>1 DEF ExtendedAt
  <1>4. \A i : Filled(i)' <=> Filled(i)
    BY <1>1 DEF Filled
  <1>5. Unfilled' <=> Unfilled
    BY <1>1, <1>4 DEF Unfilled
  <1>6. Filled(partnum - 1)' <=> Filled(partnum - 1)
    BY <1>1 DEF Filled
  <1>7. /\ Taken(sectors, 4, partnum - 2)' = Taken(sectors, 4, partnum - 2)
        /\ Taken(sectors, 4, partnum - 1)' = Taken(sectors, 4, partnum - 1)
    BY <1>1 DEF Taken, Sum
  <1>8. InBlocks'
    <2> DEFINE e == ExtendedAt' ro == RunsOver' fi == Fits' en == Entered(4)' uf == Unfilled'
               fl == Filled(partnum - 1)' tm == Taken(sectors, 4, partnum - 2)'
               ta == Taken(sectors, 4, partnum - 1)' s0 == Spare0'
    <2>1. /\ e = ExtendedAt /\ (ro <=> RunsOver) /\ (fi <=> Fits) /\ (en <=> Entered(4))
          /\ (uf <=> Unfilled) /\ (fl <=> Filled(partnum - 1))
          /\ tm = Taken(sectors, 4, partnum - 2) /\ ta = Taken(sectors, 4, partnum - 1)
          /\ s0 = Spare0
      BY <1>2, <1>3, <1>5, <1>6, <1>7 DEF Spare0, AlignedSpare
    <2> HIDE DEF e, ro, fi, en, uf, fl, tm, ta, s0
    <2>2. e < lba' =>
            /\ sectors'[3] # 0
            /\ ~uf => e + tm < Word
            /\ ret' = 0 /\ ~ro => spare_area' = s0 /\ ~uf
            /\ ret' = 0 /\ fi /\ en /\ ~ro => fl /\ ta <= sectors'[3] /\ e + sectors'[3] <= lba'
      BY <1>1, <2>1, Zenon DEF InBlocks
    <2>3. /\ partnum' \in 5 .. 8
          /\ sectors' \in [Parts -> 0 .. Word - 1]
          /\ \A i \in 0 .. 2 : sectors'[i] > 0 /\ sectors'[i] % 64 = 0 /\ 16 * sectors'[i] <= Word
          /\ spare_area' \in Nat /\ spare_area' % 64 = 0 /\ 16 * spare_area' <= Word
          /\ sectors'[4] # 0
      BY <1>1, Zenon DEF InBlocks
    <2>4. QED
      BY <2>2, <2>3, Zenon DEF InBlocks, e, ro, fi, en, uf, fl, tm, ta, s0
  <1>9. QED
    BY <1>3, <1>4, <1>5, <1>8

\* init_part_location gives every partition its place.
LEMMA LocateStep ==
  ASSUME InBlocks, init_part_location
  PROVE  Located' /\ step' = 1 /\ InBlocks'
  <1>1. Word \in Nat /\ \A x \in Junk : x \in 0 .. Word - 1
    BY Constants
  <1> DEFINE Placing(size) ==
        LET p0 == [start |-> spare_area % Word, size |-> size[0]]
            p1 == Behind(p0, size[1])
            p2 == Behind(p1, size[2])
            p3 == Behind(p2, size[3])
            place == [i \in Parts |->
                        IF i < 4 THEN <<p0, p1, p2, p3>>[i + 1]
                        ELSE [start |-> 16, size |-> size[i]]]
        IN  /\ loc' = place
            /\ imagebase' = [i \in Parts |-> IF i < 4 THEN place[i].start ELSE 0]
  <1>2. PICK junk \in Junk : Placing([i \in Parts |-> IF Filled(i) THEN sectors[i] ELSE junk])
    BY Zenon DEF init_part_location
  <1>3. /\ step' = 1
        /\ UNCHANGED <<items, lba, cfg_size, sectors, partnum, spare_area, ret>>
    BY DEF init_part_location, static
  <1>4. PICK size : size = [i \in Parts |-> IF Filled(i) THEN sectors[i] ELSE junk]
    OBVIOUS
  <1>5. /\ sectors \in [Parts -> 0 .. Word - 1] /\ partnum \in 5 .. 8 /\ spare_area \in Nat
        /\ \A i \in Parts : sectors[i] \in Nat
    BY <1>1 DEF InBlocks
  <1>6. /\ sectors[0] > 0 /\ sectors[1] > 0 /\ sectors[2] > 0
        /\ sectors[0] % 64 = 0 /\ sectors[1] % 64 = 0 /\ sectors[2] % 64 = 0
        /\ 16 * sectors[0] <= Word /\ 16 * sectors[1] <= Word /\ 16 * sectors[2] <= Word
        /\ spare_area % 64 = 0 /\ 16 * spare_area <= Word
        /\ sectors[0] \in Nat /\ sectors[1] \in Nat /\ sectors[2] \in Nat
    BY <1>5 DEF InBlocks, Parts
  <1>7. Filled(0) /\ Filled(1) /\ Filled(2)
    <2>1. sectors[1] # 0 /\ sectors[2] # 0
      BY <1>6
    <2>2. QED
      BY <1>5, <2>1 DEF Filled
  <1>8. /\ \A i \in Parts : size[i] \in Nat /\ (Filled(i) => size[i] = sectors[i])
        /\ size[0] = sectors[0] /\ size[1] = sectors[1] /\ size[2] = sectors[2]
    <2>1. junk \in Nat
      BY <1>1, <1>2
    <2>2. \A i \in Parts : size[i] = IF Filled(i) THEN sectors[i] ELSE junk
      BY <1>4
    <2>3. 0 \in Parts /\ 1 \in Parts /\ 2 \in Parts
      BY DEF Parts
    <2>4. QED
      BY <1>5, <1>7, <2>1, <2>2, <2>3
  <1>9. PICK u \in Nat, z0 \in Nat, z1 \in Nat, z2 \in Nat :
          u = spare_area /\ z0 = sectors[0] /\ z1 = sectors[1] /\ z2 = sectors[2]
    BY <1>5, <1>6
  <1>10. /\ u % 64 = 0 /\ z0 % 64 = 0 /\ z1 % 64 = 0 /\ z2 % 64 = 0
         /\ 16 * u <= Word /\ 16 * z0 <= Word /\ 16 * z1 <= Word /\ 16 * z2 <= Word /\ z0 > 0
    BY <1>6, <1>9
  <1>11. u + z0 < Word /\ (u + z0) + z1 < Word /\ (u + z0 + z1) + z2 < Word /\ u < Word
    BY ONLY <1>1, <1>10
  <1>12. u % Word = u
    BY <1>1, <1>11
  <1>13. PICK z3 : z3 = size[3]
    OBVIOUS
  <1> DEFINE p0 == [start |-> u, size |-> z0]
             p1 == [start |-> u + z0, size |-> z1]
             p2 == [start |-> u + z0 + z1, size |-> z2]
             p3 == [start |-> u + z0 + z1 + z2, size |-> z3]
  <1>14. Behind(p0, z1) = p1 /\ (u + z0) % 64 = 0
    BY <1>10, <1>11, BehindIs
  <1>15. Behind(p1, z2) = p2 /\ (u + z0 + z1) % 64 = 0
    <2>1. u + z0 \in Nat
      OBVIOUS
    <2>2. QED
      BY <1>10, <1>11, <1>14, <2>1, BehindIs
  <1>16. Behind(p2, z3) = p3
    <2>1. u + z0 + z1 \in Nat
      OBVIOUS
    <2>2. QED
      BY <1>10, <1>11, <1>15, <2>1, BehindIs
  <1> DEFINE place == [i \in Parts |->
                         IF i < 4 THEN <<p0, p1, p2, p3>>[i + 1]
                         ELSE [start |-> 16, size |-> size[i]]]
  <1>17. /\ loc' = place
         /\ imagebase' = [i \in Parts |-> IF i < 4 THEN place[i].start ELSE 0]
    <2>1. LET q0 == [start |-> spare_area % Word, size |-> size[0]]
              q1 == Behind(q0, size[1])
              q2 == Behind(q1, size[2])
              q3 == Behind(q2, size[3])
              pl == [i \in Parts |->
                        IF i < 4 THEN <<q0, q1, q2, q3>>[i + 1]
                        ELSE [start |-> 16, size |-> size[i]]]
          IN  /\ loc' = pl
              /\ imagebase' = [i \in Parts |-> IF i < 4 THEN pl[i].start ELSE 0]
      <3> HIDE DEF Placing
      <3>1. Placing(size)
        BY <1>2, <1>4, Zenon
      <3>2. QED
        BY <3>1, Zenon DEF Placing
    <2>2. [start |-> spare_area % Word, size |-> size[0]] = p0
      BY <1>8, <1>9, <1>12
    <2>3. Behind(p0, size[1]) = p1 /\ Behind(p1, size[2]) = p2 /\ Behind(p2, size[3]) = p3
      BY <1>8, <1>9, <1>13, <1>14, <1>15, <1>16, Zenon
    <2> HIDE DEF p0, p1, p2, p3
    <2>4. QED
      BY <2>1, <2>2, <2>3, Zenon
  <1>18. /\ \A i \in Parts : place[i] = IF i < 4 THEN <<p0, p1, p2, p3>>[i + 1]
                                        ELSE [start |-> 16, size |-> size[i]]
         /\ place = [i \in Parts |-> place[i]]
    OBVIOUS
  <1> HIDE DEF place
  <1>19. /\ place[0] = p0 /\ place[1] = p1 /\ place[2] = p2 /\ place[3] = p3
         /\ \A i \in 4 .. 7 : place[i] = [start |-> 16, size |-> size[i]]
    <2>1. 0 + 1 = 1 /\ 1 + 1 = 2 /\ 2 + 1 = 3 /\ 3 + 1 = 4
      OBVIOUS
    <2> HIDE DEF p0, p1, p2, p3
    <2>2. /\ <<p0, p1, p2, p3>>[1] = p0 /\ <<p0, p1, p2, p3>>[2] = p1
          /\ <<p0, p1, p2, p3>>[3] = p2 /\ <<p0, p1, p2, p3>>[4] = p3
      OBVIOUS
    <2>3. QED
      BY <1>18, <2>1, <2>2 DEF Parts
  <1>20. \A i \in Parts : place[i] \in Table
    <2>1. z3 \in Nat /\ \A i \in 4 .. 7 : size[i] \in Nat
      BY <1>8, <1>13 DEF Parts
    <2>2. p0 \in Table /\ p1 \in Table /\ p2 \in Table /\ p3 \in Table
      BY <2>1 DEF Table
    <2>3. \A i \in 4 .. 7 : [start |-> 16, size |-> size[i]] \in Table
      BY <2>1 DEF Table
    <2> HIDE DEF p0, p1, p2, p3
    <2>4. QED
      BY <1>19, <2>2, <2>3 DEF Parts
  <1>21. loc' \in [Parts -> Table]
    BY <1>17, <1>18, <1>20
  <1>22. /\ place[0].start = u /\ place[0].size = z0 /\ place[1].start = u + z0 /\ place[1].size = z1
         /\ place[2].start = u + z0 + z1 /\ place[2].size = z2
         /\ place[3].start = u + z0 + z1 + z2 /\ place[3].size = z3
    BY <1>19
  <1>23. ExtendedAt' = u + z0 + z1 + z2
    BY <1>3, <1>9 DEF ExtendedAt
  <1>24. \A i \in Parts : Filled(i)' <=> Filled(i)
    BY <1>3 DEF Filled
  <1>25. Filled(3)' => loc'[3].size = sectors'[3]
    BY <1>3, <1>8, <1>13, <1>17, <1>22, <1>24 DEF Parts
  <1>26. \A i \in 4 .. 7 : loc'[i].start = 16 /\ (Filled(i)' => loc'[i].size = sectors'[i])
    <2> TAKE i \in 4 .. 7
    <2>1. i \in Parts
      BY DEF Parts
    <2>2. loc'[i] = [start |-> 16, size |-> size[i]]
      BY <1>17, <1>19
    <2>3. QED
      BY <1>3, <1>8, <1>24, <2>1, <2>2
  <1>27. imagebase' \in [Parts -> Nat] /\ \A i \in 0 .. 3 : imagebase'[i] = loc'[i].start
    <2>1. \A i \in Parts : place[i].start \in Nat
      BY <1>20 DEF Table
    <2>2. \A i \in 0 .. 3 : i \in Parts /\ i < 4
      BY DEF Parts
    <2>3. QED
      BY <1>17, <2>1, <2>2
  <1>28. Located'
    <2>1. /\ loc'[0].start = spare_area' /\ loc'[0].size = sectors'[0]
          /\ loc'[1].start = spare_area' + sectors'[0] /\ loc'[1].size = sectors'[1]
          /\ loc'[2].start = spare_area' + sectors'[0] + sectors'[1] /\ loc'[2].size = sectors'[2]
          /\ loc'[3].start = ExtendedAt'
      BY <1>3, <1>9, <1>17, <1>22, <1>23
    <2>2. QED
      BY <1>21, <1>25, <1>26, <1>27, <2>1 DEF Located, Table
  <1>29. InBlocks'
    BY <1>3, SameBlocks
  <1>30. QED
    BY <1>3, <1>28, <1>29
---------------------------------------------------------------------------
(* Tables.                                                                 *)

\* Where the j-th logical table belongs.
At(j) == loc[3].start + Sum([i \in Parts |-> 16 + loc[i].size], 4 .. j + 2)

\* What the configuration sector is to hold.
Offsets == [p \in {name(i) : i \in Fs} |-> Recorded(CHOOSE i \in Fs : name(i) = p)]

\* Tables are written one behind the other, and as long as none is lost the
\* first is where the extended partition begins; all of them are at their
\* places unless a size was not filled in.
Tabled ==
  /\ step \in 1 .. partnum - 3 /\ lasttableaddr \in Nat
  /\ ~lost /\ step > 1 =>
       /\ ExtendedAt < lba /\ ExtendedAt \in DOMAIN ebr /\ ebr[ExtendedAt].start = 16
       /\ imagebase[4] = ExtendedAt + 16
  /\ ~lost /\ ~Unfilled =>
       \A j \in 1 .. step - 1 : At(j) \in DOMAIN ebr /\ ebr[At(j)] = init_part_table(j)
  /\ ~lost /\ ~Unfilled /\ step > 1 /\ pc = "tables" => lasttableaddr = At(step - 1)
  /\ pc # "tables" => step = partnum - 3
  /\ pc # "tables" /\ ~lost => mbr = [i \in 0 .. 3 |-> loc[i]]
  /\ pc = "done" /\ ~lost => cfgsec = Offsets

\* The sizes of located partitions.
LEMMA LocIs ==
  ASSUME Located
  PROVE  /\ \A i \in Parts : loc[i].start \in Nat /\ loc[i].size \in Nat
         /\ \A i \in 4 .. 7 : loc[i].start = 16
  <1>1. \A i \in Parts : loc[i] \in Table
    BY DEF Located
  <1>2. \A i \in Parts : loc[i].start \in Nat /\ loc[i].size \in Nat
    BY <1>1 DEF Table
  <1>3. QED
    BY <1>2 DEF Located

\* The places, one by one.
LEMMA AtIs ==
  ASSUME Located
  PROVE  /\ At(1) = ExtendedAt /\ At(1) \in Nat
         /\ \A j \in 1 .. 4 : /\ At(j) \in Nat /\ At(j + 1) = At(j) + 16 + loc[j + 3].size
                              /\ Sum([i \in Parts |-> 16 + loc[i].size], 4 .. j + 3) = At(j + 1) - ExtendedAt
  <1> DEFINE f == [i \in Parts |-> 16 + loc[i].size]
  <1>1. \A i \in Parts : loc[i].start \in Nat /\ loc[i].size \in Nat
    BY LocIs
  <1>2. /\ f[4] = 16 + loc[4].size /\ f[5] = 16 + loc[5].size /\ f[6] = 16 + loc[6].size
        /\ f[7] = 16 + loc[7].size
    BY DEF Parts
  <1>3. PICK e \in Nat : e = loc[3].start
    BY <1>1 DEF Parts
  <1>4. ExtendedAt = e
    BY <1>3 DEF Located
  <1>5. PICK l4 \in Nat, l5 \in Nat, l6 \in Nat, l7 \in Nat :
          l4 = loc[4].size /\ l5 = loc[5].size /\ l6 = loc[6].size /\ l7 = loc[7].size
    <2>1. /\ loc[4].size \in Nat /\ loc[5].size \in Nat /\ loc[6].size \in Nat
          /\ loc[7].size \in Nat
      BY <1>1 DEF Parts
    <2>2. QED
      BY <2>1, Zenon
  <1>6. PICK g : g = f
    OBVIOUS
  <1>7. g[4] = 16 + l4 /\ g[5] = 16 + l5 /\ g[6] = 16 + l6 /\ g[7] = 16 + l7
    BY <1>2, <1>5, <1>6
  <1> HIDE DEF f
  <1>8. /\ Sum(g, 4 .. 3) = 0 /\ Sum(g, 4 .. 4) = 16 + l4 /\ Sum(g, 4 .. 5) = 32 + l4 + l5
        /\ Sum(g, 4 .. 6) = 48 + l4 + l5 + l6 /\ Sum(g, 4 .. 7) = 64 + l4 + l5 + l6 + l7
    <2>1. \A b \in 3 .. 7 : Sum(g, 4 .. b) =
            (IF 4 <= b THEN g[4] ELSE 0) + (IF 5 <= b THEN g[5] ELSE 0)
              + (IF 6 <= b THEN g[6] ELSE 0) + (IF 7 <= b THEN g[7] ELSE 0)
      <3> TAKE b \in 3 .. 7
      <3>1. Sum(g, 4 .. b) =
           (IF 4 <= 0 /\ 0 <= b THEN g[0] ELSE 0) + (IF 4 <= 1 /\ 1 <= b THEN g[1] ELSE 0)
             + (IF 4 <= 2 /\ 2 <= b THEN g[2] ELSE 0) + (IF 4 <= 3 /\ 3 <= b THEN g[3] ELSE 0)
             + (IF 4 <= 4 /\ 4 <= b THEN g[4] ELSE 0) + (IF 4 <= 5 /\ 5 <= b THEN g[5] ELSE 0)
             + (IF 4 <= 6 /\ 6 <= b THEN g[6] ELSE 0) + (IF 4 <= 7 /\ 7 <= b THEN g[7] ELSE 0)
        BY SumIs
      <3>2. QED
        BY <1>7, <3>1
    <2>2. QED
      BY <1>7, <2>1
  <1>9. /\ 1 + 2 = 3 /\ 2 + 2 = 4 /\ 3 + 2 = 5 /\ 4 + 2 = 6 /\ 5 + 2 = 7
    OBVIOUS
  <1>10. \A j : At(j) = e + Sum(g, 4 .. j + 2)
    BY <1>3, <1>6, Zenon DEF At, f
  <1>11. /\ At(1) = e /\ At(2) = e + 16 + l4 /\ At(3) = e + 32 + l4 + l5
         /\ At(4) = e + 48 + l4 + l5 + l6 /\ At(5) = e + 64 + l4 + l5 + l6 + l7
    <2>1. /\ At(1) = e + Sum(g, 4 .. 3) /\ At(2) = e + Sum(g, 4 .. 4) /\ At(3) = e + Sum(g, 4 .. 5)
          /\ At(4) = e + Sum(g, 4 .. 6) /\ At(5) = e + Sum(g, 4 .. 7)
      BY <1>9, <1>10
    <2>2. QED
      BY <1>8, <2>1
  <1>12. \A j \in 1 .. 4 : /\ At(j) \in Nat /\ At(j + 1) = At(j) + 16 + loc[j + 3].size
                           /\ Sum(g, 4 .. j + 3) = At(j + 1) - e
    <2> TAKE j \in 1 .. 4
    <2>1. CASE j = 1
      BY <1>5, <1>8, <1>11, <2>1
    <2>2. CASE j = 2
      BY <1>5, <1>8, <1>11, <2>2
    <2>3. CASE j = 3
      BY <1>5, <1>8, <1>11, <2>3
    <2>4. CASE j = 4
      BY <1>5, <1>8, <1>11, <2>4
    <2>5. QED
      BY <2>1, <2>2, <2>3, <2>4
  <1>13. QED
    BY <1>4, <1>6, <1>11, <1>12 DEF f

\* Sizes that were filled in keep the tables in the word, and apart.
LEMMA PlacesApart ==
  ASSUME InBlocks, Located, ExtendedAt < lba, ~Unfilled
  PROVE  /\ \A j \in 1 .. partnum - 4 : /\ At(j) \in Nat /\ At(j) < Word
                                        /\ At(j + 1) = At(j) + 16 + loc[j + 3].size
         /\ \A i, j \in 1 .. partnum - 4 : i < j => At(i) < At(j)
         /\ \A j \in 1 .. partnum - 4 :
              init_part_table(j) = [start |-> 16, size |-> loc[j + 3].size,
                                    next |-> IF j < partnum - 4 THEN At(j + 1) - ExtendedAt ELSE 0]
  <1>1. partnum \in 5 .. 8 /\ Word \in Nat /\ sectors \in [Parts -> 0 .. Word - 1]
    BY Constants DEF InBlocks
  <1>2. \A i \in Parts : loc[i].start \in Nat /\ loc[i].size \in Nat
    BY LocIs
  <1>3. /\ At(1) = ExtendedAt /\ At(1) \in Nat
        /\ \A j \in 1 .. 4 : /\ At(j) \in Nat /\ At(j + 1) = At(j) + 16 + loc[j + 3].size
                             /\ Sum([i \in Parts |-> 16 + loc[i].size], 4 .. j + 3) = At(j + 1) - ExtendedAt
    BY AtIs
  <1>4. PICK k \in 5 .. 8 : k = partnum
    BY <1>1
  <1>5. PICK l4 \in Nat, l5 \in Nat, l6 \in Nat, l7 \in Nat :
          l4 = loc[4].size /\ l5 = loc[5].size /\ l6 = loc[6].size /\ l7 = loc[7].size
    <2>1. /\ loc[4].size \in Nat /\ loc[5].size \in Nat /\ loc[6].size \in Nat
          /\ loc[7].size \in Nat
      BY <1>2 DEF Parts
    <2>2. QED
      BY <2>1, Zenon
  <1>6. PICK e \in Nat : e = ExtendedAt
    BY <1>3
  <1>7. /\ At(1) = e /\ At(2) = e + 16 + l4 /\ At(3) = e + 32 + l4 + l5
        /\ At(4) = e + 48 + l4 + l5 + l6
    <2>1. /\ At(1 + 1) = At(1) + 16 + loc[1 + 3].size /\ At(2 + 1) = At(2) + 16 + loc[2 + 3].size
          /\ At(3 + 1) = At(3) + 16 + loc[3 + 3].size
      BY <1>3
    <2>2. 1 + 1 = 2 /\ 2 + 1 = 3 /\ 3 + 1 = 4 /\ 1 + 3 = 4 /\ 2 + 3 = 5 /\ 3 + 3 = 6
      OBVIOUS
    <2>3. At(2) = At(1) + 16 + l4 /\ At(3) = At(2) + 16 + l5 /\ At(4) = At(3) + 16 + l6
      BY <1>5, <2>1, <2>2
    <2>4. QED
      BY <1>3, <1>6, <2>3
  <1>8. e + MidTaken(sectors, k) < Word
    <2>1. e + Taken(sectors, 4, partnum - 2) < Word
      BY <1>6 DEF InBlocks
    <2>2. PICK s : s = sectors
      OBVIOUS
    <2>3. s \in [Parts -> Nat]
      BY <1>1, <2>2
    <2>4. Taken(s, 4, k - 2) = MidTaken(s, k)
      BY <2>3, TakenIs
    <2>5. QED
      BY <1>4, <2>1, <2>2, <2>4
  <1>9. \A i \in 4 .. k - 2 : loc[i].size = sectors[i]
    <2>1. \A i \in 4 .. k - 2 : Filled(i)
      BY <1>4 DEF Unfilled
    <2>2. \A i \in 4 .. k - 2 : i \in 4 .. 7
      BY <1>4
    <2>3. QED
      BY <2>1, <2>2 DEF Located
  <1>10. /\ k >= 6 => sectors[4] = l4
         /\ k >= 7 => sectors[5] = l5
         /\ k >= 8 => sectors[6] = l6
    BY <1>4, <1>5, <1>9
  <1>11. /\ (k = 5 => e < Word) /\ (k = 6 => e + 16 + l4 < Word) /\ (k = 7 => e + 32 + l4 + l5 < Word)
         /\ (k = 8 => e + 48 + l4 + l5 + l6 < Word)
    <2>1. CASE k = 5
      BY <1>8, <2>1 DEF MidTaken
    <2>2. CASE k = 6
      BY <1>8, <1>10, <2>2 DEF MidTaken
    <2>3. CASE k = 7
      BY <1>8, <1>10, <2>3 DEF MidTaken
    <2>4. CASE k = 8
      BY <1>8, <1>10, <2>4 DEF MidTaken
    <2>5. QED
      BY <1>4, <2>1, <2>2, <2>3, <2>4
  <1>12. \A j \in 1 .. k - 4 : j \in 1 .. 4
    BY <1>4
  <1>13. \A j \in 1 .. k - 4 : At(j) < Word
    BY <1>1, <1>4, <1>7, <1>11, <1>12
  <1>14. \A i, j \in 1 .. 4 : i < j => At(i) < At(j)
    BY <1>7
  <1>15. \A j \in 1 .. k - 4 :
           init_part_table(j) = [start |-> 16, size |-> loc[j + 3].size,
                                 next |-> IF j < k - 4 THEN At(j + 1) - ExtendedAt ELSE 0]
    <2> TAKE j \in 1 .. k - 4
    <2>1. loc[j + 3].start = 16
      <3>1. j + 3 \in 4 .. 7
        BY <1>4
      <3>2. QED
        BY <3>1, LocIs
    <2>2. ASSUME j < k - 4
          PROVE  Sum([i \in Parts |-> 16 + loc[i].size], 4 .. j + 3) % Word = At(j + 1) - ExtendedAt
      <3>1. j + 1 \in 1 .. k - 4 /\ j \in 1 .. 4
        BY <1>4, <2>2
      <3>2. At(j + 1) < Word
        BY <1>13, <3>1
      <3>3. PICK y : y = At(j + 1) - ExtendedAt
        OBVIOUS
      <3>4. y \in 0 .. Word - 1
        <4>1. At(1) < At(j + 1) /\ At(j + 1) \in Nat
          <5>1. 1 \in 1 .. 4 /\ j + 1 \in 1 .. 4 /\ 1 < j + 1
            BY <1>12, <3>1
          <5>2. QED
            BY <1>3, <1>14, <5>1
        <4>2. QED
          BY <1>1, <1>3, <1>6, <3>2, <3>3, <4>1
      <3>5. y % Word = y
        BY <1>1, <3>4
      <3>6. Sum([i \in Parts |-> 16 + loc[i].size], 4 .. j + 3) = y
        BY <1>3, <3>1, <3>3
      <3>7. QED
        BY <3>3, <3>5, <3>6
    <2>3. CASE j < k - 4
      BY <1>4, <2>1, <2>2, <2>3 DEF init_part_table
    <2>4. CASE ~(j < k - 4)
      BY <1>4, <2>1, <2>4 DEF init_part_table
    <2>5. QED
      BY <2>3, <2>4
  <1>16. QED
    BY <1>3, <1>4, <1>12, <1>13, <1>14, <1>15
\* The tables on the disk are numbers.
TablesTyped ==
  \A a \in DOMAIN ebr : a \in Nat /\ ebr[a] \in [start : Nat, size : Nat, next : Nat]

\* The places stay while the tables are written.
LEMMA SamePlaces ==
  ASSUME InBlocks, Located, UNCHANGED <<items, lba, cfg_size, sectors, partnum, spare_area, ret, loc>>,
         imagebase' \in [Parts -> Nat], \A i \in 0 .. 3 : imagebase'[i] = imagebase[i]
  PROVE  /\ Located' /\ \A j : At(j)' = At(j) /\ init_part_table(j)' = init_part_table(j)
  <1>1. /\ ExtendedAt' = ExtendedAt /\ \A i \in Parts : Filled(i)' <=> Filled(i)
    BY SameBlocks
  <1>2. \A i \in 3 .. 7 : i \in Parts
    BY DEF Parts
  <1>3. Located'
    <2>1. /\ loc' \in [Parts -> Table]
          /\ loc'[0].start = spare_area' /\ loc'[0].size = sectors'[0]
          /\ loc'[1].start = spare_area' + sectors'[0] /\ loc'[1].size = sectors'[1]
          /\ loc'[2].start = spare_area' + sectors'[0] + sectors'[1] /\ loc'[2].size = sectors'[2]
          /\ loc'[3].start = ExtendedAt'
      BY <1>1, Zenon DEF Located
    <2>2. /\ Filled(3)' => loc'[3].size = sectors'[3]
          /\ \A i \in 4 .. 7 : loc'[i].start = 16 /\ (Filled(i)' => loc'[i].size = sectors'[i])
      <3>1. \A i \in 4 .. 7 : Filled(i)' <=> Filled(i)
        BY <1>1, <1>2
      <3>2. Filled(3)' <=> Filled(3)
        BY <1>1, <1>2
      <3>3. QED
        BY <3>1, <3>2, Zenon DEF Located
    <2>3. \A i \in 0 .. 3 : imagebase'[i] = loc'[i].start
      BY DEF Located
    <2>4. QED
      BY <2>1, <2>2, <2>3 DEF Located, Table
  <1>4. \A j : At(j)' = At(j)
    BY DEF At, Sum
  <1>5. \A j : init_part_table(j)' = init_part_table(j)
    BY DEF init_part_table, Sum
  <1>6. QED
    BY <1>3, <1>4, <1>5

\* A table is written, or lost.
LEMMA LogicalStep ==
  ASSUME InBlocks, Located, Tabled, TablesTyped, pc = "tables", lost \in BOOLEAN, WriteLogical
  PROVE  /\ InBlocks' /\ Located' /\ Tabled' /\ TablesTyped' /\ lost' \in BOOLEAN
         /\ dirty' = TRUE
  <1> USE DEF static
  <1>1. /\ UNCHANGED <<items, lba, cfg_size, sectors, partnum, spare_area, ret, loc>>
        /\ pc' = "tables" /\ step' = step + 1 /\ dirty' = TRUE /\ step < tablecnt
        /\ UNCHANGED <<mbr, cfgsec>>
    BY DEF WriteLogical
  <1>2. PICK addr : addr = TableAddr(step)
    OBVIOUS
  <1>3. /\ lasttableaddr' = addr
        /\ imagebase' = [imagebase EXCEPT ![step + 3] = addr + 16]
        /\ Write(addr,
               ebr' = [a \in DOMAIN ebr \cup {addr} |->
                         IF a = addr THEN init_part_table(step) ELSE ebr[a]],
               UNCHANGED ebr)
    BY <1>2, Zenon DEF WriteLogical
  <1>4. partnum \in 5 .. 8 /\ step \in 1 .. partnum - 4
    <2>1. partnum \in 5 .. 8 /\ step \in 1 .. partnum - 3
      BY DEF InBlocks, Tabled
    <2>2. tablecnt = partnum - 3
      BY <2>1 DEF tablecnt
    <2>3. QED
      BY <1>1, <2>1, <2>2
  <1>5. step \in 1 .. 4 /\ step + 3 \in 4 .. 7 /\ step + 3 \in Parts /\ step + 2 \in Parts /\ step + 2 \in 3 .. 6
    BY <1>4 DEF Parts
  <1>6. \A i \in Parts : loc[i].start \in Nat /\ loc[i].size \in Nat
    BY LocIs
  <1>7. Word \in Nat /\ Word > 0 /\ \A x \in Int : x % Word \in Nat
    BY Constants
  <1>8. addr \in Nat
    <2>1. lasttableaddr \in Nat
      BY DEF Tabled
    <2>2. 3 \in Parts
      BY DEF Parts
    <2>3. lasttableaddr + 16 + loc[step + 2].size \in Int
      BY <1>5, <1>6, <2>1
    <2>4. QED
      BY <1>2, <1>6, <1>7, <2>2, <2>3 DEF TableAddr
  <1>9. init_part_table(step) \in [start : Nat, size : Nat, next : Nat] /\ init_part_table(step).start = 16
    <2>1. Sum([i \in Parts |-> 16 + loc[i].size], 4 .. step + 3) \in Int
      <3>1. At(step + 1) - ExtendedAt \in Int
        <4>1. At(step + 1) = At(step) + 16 + loc[step + 3].size /\ At(step) \in Nat /\ ExtendedAt \in Nat
          BY <1>5, AtIs
        <4>2. QED
          BY <1>5, <1>6, <4>1
      <3>2. QED
        BY <1>5, <3>1, AtIs
    <2>2. loc[step + 3].start = 16 /\ loc[step + 3].size \in Nat
      BY <1>5, <1>6, LocIs
    <2>3. PICK y \in Nat : y = IF step < partnum - 4
                               THEN Sum([i \in Parts |-> 16 + loc[i].size], 4 .. step + 3) % Word
                               ELSE 0
      BY <1>7, <2>1
    <2>4. init_part_table(step) = [start |-> 16, size |-> loc[step + 3].size, next |-> y]
      BY <2>2, <2>3, Zenon DEF init_part_table
    <2>5. QED
      BY <2>2, <2>4
  <1>10. /\ InBlocks' /\ ExtendedAt' = ExtendedAt /\ (Unfilled' <=> Unfilled)
    BY <1>1, SameBlocks
  <1>11. /\ imagebase' \in [Parts -> Nat] /\ imagebase'[step + 3] = addr + 16
         /\ \A i \in Parts : i # step + 3 => imagebase'[i] = imagebase[i]
    <2>1. imagebase \in [Parts -> Nat]
      BY DEF Located
    <2>2. QED
      BY <1>3, <1>5, <1>8, <2>1
  <1>12. Located' /\ \A j : At(j)' = At(j) /\ init_part_table(j)' = init_part_table(j)
    <2>1. \A i \in 0 .. 3 : imagebase'[i] = imagebase[i]
      <3>1. \A i \in 0 .. 3 : i \in Parts /\ i # step + 3
        BY <1>5 DEF Parts
      <3>2. QED
        BY <1>11, <3>1
    <2>2. QED
      BY <1>1, <1>11, <2>1, SamePlaces
  <1>13. \/ /\ addr < lba /\ lost' = lost
            /\ ebr' = [a \in DOMAIN ebr \cup {addr} |->
                         IF a = addr THEN init_part_table(step) ELSE ebr[a]]
         \/ lost' = TRUE /\ ebr' = ebr
    BY <1>3, Zenon DEF Write
  <1>14. step' \in 1 .. partnum' - 3 /\ lasttableaddr' \in Nat /\ step' > 1 /\ step' - 1 = step
    BY <1>1, <1>3, <1>4, <1>8
  <1>15. CASE lost' = TRUE /\ ebr' = ebr
    <2>1. TablesTyped'
      BY <1>15 DEF TablesTyped
    <2>2. Tabled'
      BY <1>1, <1>14, <1>15 DEF Tabled
    <2>3. QED
      BY <1>1, <1>10, <1>12, <1>15, <2>1, <2>2
  <1>16. CASE /\ addr < lba /\ lost' = lost
              /\ ebr' = [a \in DOMAIN ebr \cup {addr} |->
                           IF a = addr THEN init_part_table(step) ELSE ebr[a]]
    <2>1. /\ DOMAIN ebr' = DOMAIN ebr \cup {addr} /\ ebr'[addr] = init_part_table(step)
          /\ \A a \in DOMAIN ebr : a # addr => ebr'[a] = ebr[a]
      <3>1. PICK z : z = init_part_table(step)
        OBVIOUS
      <3>2. ebr' = [a \in DOMAIN ebr \cup {addr} |-> IF a = addr THEN z ELSE ebr[a]]
        BY <1>16, <3>1, Zenon
      <3>3. QED
        BY <3>1, <3>2
    <2>2. TablesTyped'
      <3> SUFFICES ASSUME NEW a \in DOMAIN ebr'
                   PROVE  a \in Nat /\ ebr'[a] \in [start : Nat, size : Nat, next : Nat]
        BY DEF TablesTyped
      <3>1. CASE a = addr
        BY <1>8, <1>9, <2>1, <3>1
      <3>2. CASE a # addr
        BY <2>1, <3>2 DEF TablesTyped
      <3>3. QED
        BY <3>1, <3>2
    <2>3. ASSUME ~lost
          PROVE  /\ ExtendedAt < lba /\ ExtendedAt \in DOMAIN ebr' /\ ebr'[ExtendedAt].start = 16
                 /\ imagebase'[4] = ExtendedAt + 16
      <3>1. CASE step = 1
        <4>1. addr = ExtendedAt
          BY <1>2, <3>1 DEF TableAddr, Located
        <4>2. imagebase'[4] = addr + 16
          BY <1>11, <3>1
        <4>3. QED
          BY <1>9, <1>16, <2>1, <4>1, <4>2
      <3>2. CASE step > 1
        <4>1. /\ ExtendedAt < lba /\ ExtendedAt \in DOMAIN ebr /\ ebr[ExtendedAt].start = 16
              /\ imagebase[4] = ExtendedAt + 16
          BY <2>3, <3>2 DEF Tabled
        <4>2. imagebase'[4] = imagebase[4]
          <5>1. 4 \in Parts /\ 4 # step + 3
            BY <1>5, <3>2 DEF Parts
          <5>2. QED
            BY <1>11, <5>1
        <4>3. ebr'[ExtendedAt].start = 16
          BY <1>9, <2>1, <4>1
        <4>4. QED
          BY <2>1, <4>1, <4>2, <4>3
      <3>3. QED
        BY <1>5, <3>1, <3>2
    <2>4. ASSUME ~lost, ~Unfilled
          PROVE  /\ \A j \in 1 .. step : At(j) \in DOMAIN ebr' /\ ebr'[At(j)] = init_part_table(j)
                 /\ addr = At(step)
      <3>1. ExtendedAt < lba
        BY <2>3, <2>4
      <3>2. /\ \A j \in 1 .. partnum - 4 : At(j) \in Nat /\ At(j) < Word
            /\ \A i, j \in 1 .. partnum - 4 : i < j => At(i) < At(j)
        BY <2>4, <3>1, PlacesApart
      <3>3. addr = At(step)
        <4>1. CASE step = 1
          BY <1>2, <4>1, AtIs DEF TableAddr, Located
        <4>2. CASE step > 1
          <5>1. lasttableaddr = At(step - 1)
            BY <2>4, <4>2 DEF Tabled
          <5>2. step - 1 \in 1 .. 4 /\ (step - 1) + 1 = step /\ (step - 1) + 3 = step + 2
            BY <1>5, <4>2
          <5>3. At(step) = At(step - 1) + 16 + loc[step + 2].size
            <6>1. At((step - 1) + 1) = At(step - 1) + 16 + loc[(step - 1) + 3].size
              BY <5>2, AtIs
            <6>2. QED
              BY <5>2, <6>1
          <5>4. addr = At(step) % Word
            BY <1>2, <4>2, <5>1, <5>3 DEF TableAddr
          <5>5. PICK y : y = At(step)
            OBVIOUS
          <5>6. y \in Nat /\ y < Word
            BY <1>4, <3>2, <5>5
          <5>7. y % Word = y
            BY <1>7, <5>6
          <5>8. QED
            BY <5>4, <5>5, <5>7
        <4>3. QED
          BY <1>5, <4>1, <4>2
      <3>4. ASSUME NEW j \in 1 .. step
            PROVE  At(j) \in DOMAIN ebr' /\ ebr'[At(j)] = init_part_table(j)
        <4>1. CASE j = step
          BY <2>1, <3>3, <4>1
        <4>2. CASE j # step
          <5>1. j \in 1 .. step - 1 /\ j \in 1 .. partnum - 4 /\ step \in 1 .. partnum - 4 /\ j < step
            BY <1>4, <4>2
          <5>2. At(j) \in DOMAIN ebr /\ ebr[At(j)] = init_part_table(j)
            BY <2>4, <5>1 DEF Tabled
          <5>3. At(j) < At(step) /\ At(j) \in Nat /\ At(step) \in Nat
            BY <3>2, <5>1
          <5>4. At(j) # addr
            BY <3>3, <5>3
          <5>5. QED
            BY <2>1, <5>2, <5>4
        <4>3. QED
          BY <4>1, <4>2
      <3>5. QED
        BY <3>3, <3>4
    <2>5. Tabled'
      <3>1. lost' = lost /\ lba' = lba /\ pc' = "tables" /\ lasttableaddr' = addr
        BY <1>1, <1>3, <1>16
      <3>2. ~lost' /\ step' > 1 =>
              /\ ExtendedAt' < lba' /\ ExtendedAt' \in DOMAIN ebr' /\ ebr'[ExtendedAt'].start = 16
              /\ imagebase'[4] = ExtendedAt' + 16
        BY <1>10, <2>3, <3>1
      <3>3. ~lost' /\ ~Unfilled' =>
              \A j \in 1 .. step' - 1 : At(j)' \in DOMAIN ebr' /\ ebr'[At(j)'] = init_part_table(j)'
        BY <1>10, <1>12, <1>14, <2>4, <3>1
      <3>4. ~lost' /\ ~Unfilled' => lasttableaddr' = At(step - 1)'
        <4>1. At(step - 1)' = At(step)
          <5>1. loc' = loc /\ step' - 1 = step
            BY <1>1, <1>14
          <5>2. QED
            BY <5>1 DEF At, Sum
        <4>2. QED
          BY <1>10, <2>4, <3>1, <4>1
      <3>5. QED
        BY <1>14, <3>1, <3>2, <3>3, <3>4 DEF Tabled
    <2>6. QED
      BY <1>1, <1>10, <1>12, <1>16, <2>2, <2>5
  <1>17. QED
    BY <1>13, <1>15, <1>16
\* From the start of the extended partition t[1] to the last of K tables each
\* names the next, which lies behind its partition.
Chain(e, m, K, t) ==
  /\ t[1] = m[3].start /\ t[1] > 0
  /\ \A j \in 1 .. K : /\ t[j] \in DOMAIN e
                       /\ e[t[j]].next = IF j < K THEN t[j + 1] - t[1] ELSE 0
  /\ \A j \in 1 .. K - 1 : /\ t[j + 1] > t[1]
                           /\ t[j] + e[t[j]].start + e[t[j]].size <= t[j + 1]

\* The tables an MBR newer than all of them leads to.
Chained ==
  mbr # Absent /\ ~dirty => \E K \in 1 .. 4 : \E t \in [1 .. 4 -> Nat] : Chain(ebr, mbr, K, t)

\* Tables at their places are such a chain.
LEMMA PlacesChain ==
  ASSUME InBlocks, Located, Tabled, step = partnum - 3, ~lost, ~Unfilled,
         NEW m, m = [i \in 0 .. 3 |-> loc[i]]
  PROVE  /\ partnum - 4 \in 1 .. 4 /\ [j \in 1 .. 4 |-> At(j)] \in [1 .. 4 -> Nat]
         /\ Chain(ebr, m, partnum - 4, [j \in 1 .. 4 |-> At(j)])
  <1>1. partnum \in 5 .. 8 /\ step > 1 /\ step - 1 = partnum - 4
    BY DEF InBlocks
  <1>2. ExtendedAt < lba
    BY <1>1 DEF Tabled
  <1>3. /\ \A j \in 1 .. partnum - 4 : /\ At(j) \in Nat /\ At(j) < Word
                                       /\ At(j + 1) = At(j) + 16 + loc[j + 3].size
        /\ \A i, j \in 1 .. partnum - 4 : i < j => At(i) < At(j)
        /\ \A j \in 1 .. partnum - 4 :
             init_part_table(j) = [start |-> 16, size |-> loc[j + 3].size,
                                   next |-> IF j < partnum - 4 THEN At(j + 1) - ExtendedAt ELSE 0]
    BY <1>2, PlacesApart
  <1>4. \A j \in 1 .. partnum - 4 : At(j) \in DOMAIN ebr /\ ebr[At(j)] = init_part_table(j)
    BY <1>1 DEF Tabled
  <1>5. At(1) = ExtendedAt /\ \A j \in 1 .. 4 : At(j) \in Nat
    BY AtIs
  <1>6. PICK K \in 1 .. 4 : K = partnum - 4
    BY <1>1
  <1>7. PICK t : t = [j \in 1 .. 4 |-> At(j)]
    OBVIOUS
  <1>8. t \in [1 .. 4 -> Nat] /\ \A j \in 1 .. 4 : t[j] = At(j)
    BY <1>5, <1>7
  <1>9. \A j \in 1 .. K : j \in 1 .. 4 /\ j \in 1 .. partnum - 4
    BY <1>6
  <1>10. \A j \in 1 .. K - 1 : j + 1 \in 1 .. 4 /\ j + 1 \in 1 .. partnum - 4 /\ j \in 1 .. K /\ j < partnum - 4
                               /\ 1 \in 1 .. partnum - 4 /\ 1 < j + 1
    BY <1>6
  <1>11. t[1] = m[3].start /\ t[1] > 0
    <2>1. m[3] = loc[3]
      OBVIOUS
    <2>2. loc[3].start = ExtendedAt
      BY DEF Located
    <2>3. ExtendedAt > 0
      <3>1. /\ sectors[0] > 0 /\ sectors[0] \in Nat /\ sectors[1] \in Nat /\ sectors[2] \in Nat
            /\ spare_area \in Nat
        <4>1. sectors \in [Parts -> 0 .. Word - 1] /\ Word \in Nat
          BY Constants DEF InBlocks
        <4>2. \A i \in Parts : sectors[i] \in Nat
          BY <4>1
        <4>3. QED
          BY <4>2 DEF InBlocks, Parts
      <3>2. QED
        BY <3>1 DEF ExtendedAt
    <2>4. QED
      BY <1>5, <1>8, <2>1, <2>2, <2>3
  <1>12. ASSUME NEW j \in 1 .. K
         PROVE  /\ t[j] \in DOMAIN ebr /\ ebr[t[j]].start = 16 /\ ebr[t[j]].size = loc[j + 3].size
                /\ ebr[t[j]].next = IF j < K THEN t[j + 1] - t[1] ELSE 0
    <2>1. t[j] = At(j) /\ j \in 1 .. partnum - 4 /\ j \in 1 .. 4
      BY <1>8, <1>9
    <2>2. t[j] \in DOMAIN ebr /\ ebr[t[j]] = init_part_table(j)
      BY <1>4, <2>1
    <2>3. init_part_table(j) = [start |-> 16, size |-> loc[j + 3].size,
                                next |-> IF j < partnum - 4 THEN At(j + 1) - ExtendedAt ELSE 0]
      BY <1>3, <2>1
    <2>4. j < K => At(j + 1) - ExtendedAt = t[j + 1] - t[1]
      <3>1. SUFFICES ASSUME j < K PROVE At(j + 1) = t[j + 1] /\ ExtendedAt = t[1]
        OBVIOUS
      <3>2. j + 1 \in 1 .. 4
        BY <2>1, <3>1, <1>6
      <3>3. QED
        BY <1>5, <1>8, <3>2
    <2>5. QED
      BY <1>6, <2>2, <2>3, <2>4
  <1>13. ASSUME NEW j \in 1 .. K - 1
         PROVE  t[j + 1] > t[1] /\ t[j] + ebr[t[j]].start + ebr[t[j]].size <= t[j + 1]
    <2>1. j \in 1 .. K /\ j \in 1 .. 4 /\ j + 1 \in 1 .. 4
      BY <1>9, <1>10
    <2>2. t[j + 1] = At(j + 1) /\ t[1] = At(1) /\ t[j] = At(j)
      BY <1>8, <2>1
    <2>3. At(1) < At(j + 1) /\ At(j + 1) = At(j) + 16 + loc[j + 3].size /\ At(j) \in Nat
      BY <1>3, <1>9, <1>10, <2>1
    <2>4. ebr[t[j]].start = 16 /\ ebr[t[j]].size = loc[j + 3].size
      BY <1>12, <2>1
    <2>5. At(j + 1) \in Nat /\ At(1) \in Nat
      BY <1>5, <2>1
    <2>6. t[j] + ebr[t[j]].start + ebr[t[j]].size = t[j + 1]
      BY <2>2, <2>3, <2>4, Zenon
    <2>7. QED
      BY <2>2, <2>3, <2>5, <2>6
  <1>14. Chain(ebr, m, K, t)
    BY <1>11, <1>12, <1>13 DEF Chain
  <1>15. QED
    BY <1>6, <1>7, <1>8, <1>14

\* The MBR closes the tables, or is lost.
LEMMA MbrStep ==
  ASSUME InBlocks, Located, Tabled, Chained, pc = "tables", lost \in BOOLEAN, dirty \in BOOLEAN,
         mbr = Absent \/ mbr \in [0 .. 3 -> Table], WriteMbr
  PROVE  /\ InBlocks' /\ Located' /\ Tabled' /\ Chained' /\ lost' \in BOOLEAN /\ dirty' \in BOOLEAN
         /\ mbr' = Absent \/ mbr' \in [0 .. 3 -> Table]
  <1> USE DEF static
  <1>1. /\ UNCHANGED <<items, lba, cfg_size, sectors, partnum, spare_area, ret, loc>>
        /\ UNCHANGED <<imagebase, step, ebr, cfgsec>>
        /\ pc' = "record" /\ lasttableaddr' = 0 /\ MbrTurn
        /\ Write(0, mbr' = [i \in 0 .. 3 |-> loc[i]] /\ dirty' = (lost \/ Unfilled),
                 UNCHANGED <<mbr, dirty>>)
    BY Zenon DEF WriteMbr
  <1>2. \/ lost' = lost /\ mbr' = [i \in 0 .. 3 |-> loc[i]] /\ dirty' = (lost \/ Unfilled)
        \/ lost' = TRUE /\ mbr' = mbr /\ dirty' = dirty
    BY <1>1, Zenon DEF Write
  <1>3. step = partnum - 3 /\ partnum \in 5 .. 8
    <2>1. partnum \in 5 .. 8 /\ step \in 1 .. partnum - 3
      BY DEF InBlocks, Tabled
    <2>2. tablecnt = partnum - 3
      BY <2>1 DEF tablecnt
    <2>3. QED
      BY <1>1, <2>1, <2>2 DEF MbrTurn
  <1>4. InBlocks' /\ ExtendedAt' = ExtendedAt /\ (Unfilled' <=> Unfilled)
    BY <1>1, SameBlocks
  <1>5. Located' /\ \A j : At(j)' = At(j) /\ init_part_table(j)' = init_part_table(j)
    <2>1. imagebase' \in [Parts -> Nat]
      BY <1>1 DEF Located
    <2>2. QED
      BY <1>1, <2>1, SamePlaces
  <1>6. loc \in [Parts -> Table]
    BY DEF Located
  <1>7. [i \in 0 .. 3 |-> loc[i]] \in [0 .. 3 -> Table]
    BY <1>6 DEF Parts
  <1>8. CASE lost' = TRUE /\ mbr' = mbr /\ dirty' = dirty
    <2>1. Tabled'
      BY <1>1, <1>3, <1>8 DEF Tabled
    <2>2. Chained'
      BY <1>1, <1>8 DEF Chained, Chain
    <2>3. QED
      BY <1>4, <1>5, <1>8, <2>1, <2>2 DEF Table
  <1>9. CASE lost' = lost /\ mbr' = [i \in 0 .. 3 |-> loc[i]] /\ dirty' = (lost \/ Unfilled)
    <2>1. Tabled'
      <3>1. /\ step' \in 1 .. partnum' - 3 /\ lasttableaddr' \in Nat /\ step' = partnum' - 3
            /\ pc' = "record"
        BY <1>1, <1>3
      <3>2. ~lost' /\ step' > 1 =>
              /\ ExtendedAt' < lba' /\ ExtendedAt' \in DOMAIN ebr' /\ ebr'[ExtendedAt'].start = 16
              /\ imagebase'[4] = ExtendedAt' + 16
        BY <1>1, <1>4, <1>9 DEF Tabled
      <3>3. ~lost' /\ ~Unfilled' =>
              \A j \in 1 .. step' - 1 : At(j)' \in DOMAIN ebr' /\ ebr'[At(j)'] = init_part_table(j)'
        BY <1>1, <1>4, <1>5, <1>9 DEF Tabled
      <3>4. mbr' = [i \in 0 .. 3 |-> loc'[i]]
        BY <1>1, <1>9
      <3>5. QED
        BY <3>1, <3>2, <3>3, <3>4 DEF Tabled
    <2>2. Chained'
      <3>1. SUFFICES ASSUME ~dirty'
                     PROVE  \E K \in 1 .. 4 : \E t \in [1 .. 4 -> Nat] : Chain(ebr', mbr', K, t)
        BY DEF Chained, Chain
      <3>2. ~lost /\ ~Unfilled
        BY <1>9, <3>1, Zenon
      <3>3. PICK m : m = mbr'
        OBVIOUS
      <3>4. /\ partnum - 4 \in 1 .. 4 /\ [j \in 1 .. 4 |-> At(j)] \in [1 .. 4 -> Nat]
            /\ Chain(ebr, m, partnum - 4, [j \in 1 .. 4 |-> At(j)])
        BY <1>3, <1>9, <3>2, <3>3, PlacesChain
      <3>5. QED
        BY <1>1, <3>3, <3>4, Zenon
    <2>3. dirty' \in BOOLEAN
      BY <1>9
    <2>4. QED
      BY <1>4, <1>5, <1>7, <1>9, <2>1, <2>2, <2>3 DEF Table
  <1>10. QED
    BY <1>2, <1>8, <1>9

\* The places found are recorded, or lost.
LEMMA RecordStep ==
  ASSUME InBlocks, Located, Tabled, Chained, pc = "record", lost \in BOOLEAN, WriteConfig
  PROVE  InBlocks' /\ Located' /\ Tabled' /\ Chained' /\ lost' \in BOOLEAN
  <1> USE DEF static
  <1>1. /\ UNCHANGED <<items, lba, cfg_size, sectors, partnum, spare_area, ret, loc>>
        /\ UNCHANGED <<imagebase, step, ebr, mbr, dirty, lasttableaddr>>
        /\ pc' = "done"
        /\ Write(1, cfgsec' = Offsets, UNCHANGED cfgsec)
    BY Zenon DEF WriteConfig, Offsets
  <1>2. \/ lost' = lost /\ cfgsec' = Offsets
        \/ lost' = TRUE
    BY <1>1, Zenon DEF Write
  <1>3. InBlocks' /\ ExtendedAt' = ExtendedAt /\ (Unfilled' <=> Unfilled)
    BY <1>1, SameBlocks
  <1>4. Located' /\ \A j : At(j)' = At(j) /\ init_part_table(j)' = init_part_table(j)
    <2>1. imagebase' \in [Parts -> Nat]
      BY <1>1 DEF Located
    <2>2. QED
      BY <1>1, <2>1, SamePlaces
  <1>5. Offsets' = Offsets
    BY <1>1 DEF Offsets, Recorded
  <1>6. Chained'
    BY <1>1 DEF Chained, Chain
  <1>7. step = partnum - 3
    BY DEF Tabled
  <1>8. Tabled'
    <2>1. /\ step' \in 1 .. partnum' - 3 /\ lasttableaddr' \in Nat /\ step' = partnum' - 3
          /\ pc' = "done"
      BY <1>1, <1>7 DEF Tabled
    <2>2. CASE lost' = TRUE
      BY <2>1, <2>2 DEF Tabled
    <2>3. CASE lost' = lost /\ cfgsec' = Offsets
      <3>1. ~lost' /\ step' > 1 =>
              /\ ExtendedAt' < lba' /\ ExtendedAt' \in DOMAIN ebr' /\ ebr'[ExtendedAt'].start = 16
              /\ imagebase'[4] = ExtendedAt' + 16
        BY <1>1, <1>3, <2>3 DEF Tabled
      <3>2. ~lost' /\ ~Unfilled' =>
              \A j \in 1 .. step' - 1 : At(j)' \in DOMAIN ebr' /\ ebr'[At(j)'] = init_part_table(j)'
        BY <1>1, <1>3, <1>4, <2>3 DEF Tabled
      <3>3. ~lost' => mbr' = [i \in 0 .. 3 |-> loc'[i]]
        BY <1>1, <2>3 DEF Tabled
      <3>4. cfgsec' = Offsets'
        BY <1>5, <2>3
      <3>5. QED
        BY <2>1, <3>1, <3>2, <3>3, <3>4 DEF Tabled
    <2>4. QED
      BY <1>2, <2>2, <2>3
  <1>9. QED
    BY <1>2, <1>3, <1>4, <1>6, <1>8---------------------------------------------------------------------------
(* The invariant.                                                          *)

\* What holds at every step.
Steady ==
  /\ items \in Configs /\ lba \in Disks
  /\ cfg_size \in [Fs -> Nat] /\ ret \in {0, -1}
  /\ loc \in [Parts -> Table] /\ imagebase \in [Parts -> Nat]
  /\ step \in Nat /\ lasttableaddr \in Nat
  /\ lost \in BOOLEAN /\ dirty \in BOOLEAN

\* What holds of the tables on the disk.
OnDisk ==
  /\ TablesTyped /\ (mbr = Absent \/ mbr \in [0 .. 3 -> Table])
  /\ Chained

\* How far the layout has come.
Stage ==
  \/ pc = "config" /\ PowerOnStatic /\ ret = 0
  \/ pc = "reformat" /\ SizesRead
  \/ pc = "locate" /\ InBlocks
  \/ pc \in {"tables", "record", "done"} /\ InBlocks /\ Located /\ Tabled

\* The inductive invariant.
IInv == Steady /\ OnDisk /\ Stage

\* Tables that are not touched.
LEMMA SameDisk ==
  ASSUME OnDisk, UNCHANGED <<ebr, mbr, dirty>>
  PROVE  OnDisk'
  <1>1. TablesTyped'
    BY DEF OnDisk, TablesTyped
  <1>2. mbr' = Absent \/ mbr' \in [0 .. 3 -> Table]'
    BY DEF OnDisk, Table
  <1>3. Chained'
    BY DEF OnDisk, Chained, Chain
  <1>4. QED
    BY <1>1, <1>2, <1>3 DEF OnDisk

\* The places of a machine that starts.
LEMMA NoPlaces ==
  /\ [i \in Parts |-> [start |-> 0, size |-> 0]] \in [Parts -> Table]
  /\ [i \in Parts |-> 0] \in [Parts -> Nat]
  /\ [i \in Fs |-> default_size[i + 1]] \in [Fs -> Nat]
  <1>1. \A i \in Fs : default_size[i + 1] \in Nat
    BY DEF default_size, Fs
  <1>2. QED
    BY <1>1 DEF Table

LEMMA InitInv == Init => IInv
  <1>1. SUFFICES ASSUME Init PROVE IInv
    OBVIOUS
  <1>2. Steady
    <2>1. cfg_size \in [Fs -> Nat]
      BY <1>1, NoPlaces DEF Init, PowerOnStatic
    <2>2. QED
      BY <1>1, <2>1, NoPlaces DEF Init, Steady
  <1>3. OnDisk
    <2>1. DOMAIN ebr = {} /\ mbr = Absent
      BY <1>1 DEF Init
    <2>2. QED
      BY <2>1 DEF OnDisk, TablesTyped, Chained
  <1>4. Stage
    BY <1>1 DEF Init, Stage
  <1>5. QED
    BY <1>2, <1>3, <1>4 DEF IInv

LEMMA InvConfig ==
  ASSUME IInv, storage_get_new_config
  PROVE  IInv'
  <1> USE DEF alldisk, disk
  <1>1. pc = "config" /\ pc' = "reformat" /\ UNCHANGED <<ebr, mbr, dirty>>
        /\ UNCHANGED <<items, lba, ret, loc, imagebase, step, lasttableaddr, lost>>
    BY Zenon DEF storage_get_new_config
  <1>2. PowerOnStatic /\ ret = 0
    BY <1>1 DEF IInv, Stage
  <1>3. SizesRead' /\ cfg_size' \in [Fs -> Nat]
    BY <1>2, ConfigStep DEF IInv, Steady
  <1>4. Steady'
    BY <1>1, <1>3 DEF IInv, Steady, Table
  <1>5. OnDisk'
    BY <1>1, SameDisk DEF IInv
  <1>6. Stage'
    BY <1>1, <1>3, Zenon DEF Stage
  <1>7. QED
    BY <1>4, <1>5, <1>6 DEF IInv

LEMMA InvReformat ==
  ASSUME IInv, reformat_part_size
  PROVE  IInv'
  <1> USE DEF alldisk, disk
  <1>1. pc = "reformat" /\ pc' = "locate" /\ UNCHANGED <<ebr, mbr, dirty>>
        /\ UNCHANGED <<items, lba, cfg_size, loc, imagebase, step, lasttableaddr, lost>>
    BY Zenon DEF reformat_part_size
  <1>2. SizesRead
    BY <1>1 DEF IInv, Stage
  <1>3. InBlocks' /\ ret' \in {0, -1}
    BY <1>2, ReformatStep DEF IInv, Steady
  <1>4. Steady'
    BY <1>1, <1>3 DEF IInv, Steady, Table
  <1>5. OnDisk'
    BY <1>1, SameDisk DEF IInv
  <1>6. Stage'
    BY <1>1, <1>3, Zenon DEF Stage
  <1>7. QED
    BY <1>4, <1>5, <1>6 DEF IInv

LEMMA InvLocate ==
  ASSUME IInv, init_part_location
  PROVE  IInv'
  <1> USE DEF alldisk, disk, static
  <1>1. pc = "locate" /\ pc' = "tables" /\ UNCHANGED <<ebr, mbr, dirty>>
        /\ UNCHANGED <<items, lba, cfg_size, partnum, ret, lasttableaddr, lost>>
    BY Zenon DEF init_part_location
  <1>2. InBlocks
    BY <1>1 DEF IInv, Stage
  <1>3. Located' /\ step' = 1 /\ InBlocks'
    BY <1>2, LocateStep
  <1>4. loc' \in [Parts -> Table]' /\ imagebase' \in [Parts -> Nat]'
    BY <1>3 DEF Located
  <1>5. Steady'
    BY <1>1, <1>3, <1>4 DEF IInv, Steady, Table
  <1>6. OnDisk'
    BY <1>1, SameDisk DEF IInv
  <1>7. Tabled'
    <2>1. step' \in 1 .. partnum' - 3
      BY <1>1, <1>2, <1>3 DEF InBlocks
    <2>2. lasttableaddr' \in Nat
      BY <1>5 DEF Steady
    <2>3. \A j \in 1 .. step' - 1 : FALSE
      BY <1>3
    <2>4. ~(step' > 1)
      BY <1>3
    <2>5. QED
      BY <1>1, <2>1, <2>2, <2>3, <2>4, Zenon DEF Tabled
  <1>8. Stage'
    BY <1>1, <1>3, <1>7 DEF Stage
  <1>9. QED
    BY <1>5, <1>6, <1>8 DEF IInv

LEMMA InvLogical ==
  ASSUME IInv, WriteLogical
  PROVE  IInv'
  <1> USE DEF static
  <1>1. pc = "tables" /\ pc' = "tables" /\ UNCHANGED <<items, lba, cfg_size, ret, mbr>>
    BY Zenon DEF WriteLogical
  <1>2. InBlocks /\ Located /\ Tabled
    BY <1>1 DEF IInv, Stage
  <1>3. /\ InBlocks' /\ Located' /\ Tabled' /\ TablesTyped' /\ lost' \in BOOLEAN
        /\ dirty' = TRUE
    BY <1>1, <1>2, LogicalStep DEF IInv, Steady, OnDisk
  <1>4. /\ loc' \in [Parts -> Table]' /\ imagebase' \in [Parts -> Nat]'
        /\ step' \in 1 .. partnum' - 3 /\ lasttableaddr' \in Nat
    BY <1>3, Zenon DEF Located, Tabled
  <1>5. step' \in Nat
    BY <1>3, <1>4 DEF InBlocks
  <1>6. Steady'
    BY <1>1, <1>3, <1>4, <1>5 DEF IInv, Steady
  <1>7. OnDisk'
    <2>1. mbr' = Absent \/ mbr' \in [0 .. 3 -> Table]'
      BY <1>1 DEF IInv, OnDisk, Table
    <2>2. Chained'
      BY <1>3 DEF Chained
    <2>3. QED
      BY <1>3, <2>1, <2>2 DEF OnDisk
  <1>8. Stage'
    BY <1>1, <1>3 DEF Stage
  <1>9. QED
    BY <1>6, <1>7, <1>8 DEF IInv

LEMMA InvMbr ==
  ASSUME IInv, WriteMbr
  PROVE  IInv'
  <1> USE DEF static
  <1>1. pc = "tables" /\ pc' = "record"
        /\ UNCHANGED <<items, lba, cfg_size, ret, step, ebr>> /\ lasttableaddr' = 0
    BY Zenon DEF WriteMbr
  <1>2. InBlocks /\ Located /\ Tabled
    BY <1>1 DEF IInv, Stage
  <1>3. /\ InBlocks' /\ Located' /\ Tabled' /\ Chained' /\ lost' \in BOOLEAN /\ dirty' \in BOOLEAN
        /\ mbr' = Absent \/ mbr' \in [0 .. 3 -> Table]
    BY <1>1, <1>2, MbrStep DEF IInv, Steady, OnDisk
  <1>4. loc' \in [Parts -> Table]' /\ imagebase' \in [Parts -> Nat]'
    BY <1>3, Zenon DEF Located
  <1>5. Steady'
    BY <1>1, <1>3, <1>4 DEF IInv, Steady
  <1>6. OnDisk'
    <2>1. TablesTyped'
      BY <1>1 DEF IInv, OnDisk, TablesTyped
    <2>2. QED
      BY <1>3, <2>1 DEF OnDisk, Table
  <1>7. Stage'
    BY <1>1, <1>3 DEF Stage
  <1>8. QED
    BY <1>5, <1>6, <1>7 DEF IInv

LEMMA InvRecord ==
  ASSUME IInv, WriteConfig
  PROVE  IInv'
  <1> USE DEF static
  <1>1. pc = "record" /\ pc' = "done"
        /\ UNCHANGED <<items, lba, cfg_size, ret, step, lasttableaddr, ebr, mbr, dirty>>
    BY Zenon DEF WriteConfig
  <1>2. InBlocks /\ Located /\ Tabled
    BY <1>1 DEF IInv, Stage
  <1>3. InBlocks' /\ Located' /\ Tabled' /\ Chained' /\ lost' \in BOOLEAN
    BY <1>1, <1>2, RecordStep DEF IInv, Steady, OnDisk
  <1>4. loc' \in [Parts -> Table]' /\ imagebase' \in [Parts -> Nat]'
    BY <1>3, Zenon DEF Located
  <1>5. Steady'
    BY <1>1, <1>3, <1>4 DEF IInv, Steady
  <1>6. OnDisk'
    BY <1>1, SameDisk DEF IInv
  <1>7. Stage'
    BY <1>1, <1>3 DEF Stage
  <1>8. QED
    BY <1>5, <1>6, <1>7 DEF IInv

LEMMA InvRestart ==
  ASSUME IInv, Restart
  PROVE  IInv'
  <1> USE DEF disk
  <1>1. items' \in Configs /\ UNCHANGED <<lba, ebr, mbr, dirty>> /\ pc' = "config"
    BY DEF Restart
  <1>2. PowerOnStatic' /\ ret' = 0
    BY Zenon DEF Restart, PowerOnStatic
  <1>3. Steady'
    <2>1. cfg_size' \in [Fs -> Nat]
      BY NoPlaces DEF Restart
    <2>2. loc' \in [Parts -> Table]' /\ imagebase' \in [Parts -> Nat]'
      BY NoPlaces DEF Restart, Table
    <2>3. QED
      BY <1>1, <2>1, <2>2 DEF IInv, Steady, Restart
  <1>4. OnDisk'
    BY <1>1, SameDisk DEF IInv
  <1>5. Stage'
    BY <1>1, <1>2 DEF Stage
  <1>6. QED
    BY <1>3, <1>4, <1>5 DEF IInv

LEMMA InvStutter ==
  ASSUME IInv, UNCHANGED vars
  PROVE  IInv'
  <1> USE DEF vars
  <1>1. Steady'
    BY DEF IInv, Steady, Table
  <1>2. OnDisk'
    BY SameDisk DEF IInv
  <1>3. CASE pc = "config" /\ PowerOnStatic /\ ret = 0
    <2>1. PowerOnStatic' /\ ret' = 0 /\ pc' = pc
      BY <1>3, Zenon DEF PowerOnStatic
    <2>2. QED
      BY <1>1, <1>2, <1>3, <2>1, Zenon DEF IInv, Stage
  <1>4. CASE pc = "reformat" /\ SizesRead
    <2>1. SizesRead'
      <3>1. /\ Used' = Used /\ (Entered(4)' <=> Entered(4)) /\ (Entered(6)' <=> Entered(6))
            /\ SizeOf(4)' = SizeOf(4)
        BY SameConfig
      <3>2. QED
        BY <1>4, <3>1 DEF SizesRead
    <2>2. pc' = pc
      OBVIOUS
    <2>3. QED
      BY <1>1, <1>2, <1>4, <2>1, <2>2, Zenon DEF IInv, Stage
  <1>5. CASE pc = "locate" /\ InBlocks
    <2>1. InBlocks' /\ pc' = pc
      BY <1>5, SameBlocks
    <2>2. QED
      BY <1>1, <1>2, <1>5, <2>1, Zenon DEF IInv, Stage
  <1>6. CASE pc \in {"tables", "record", "done"} /\ InBlocks /\ Located /\ Tabled
    <2>1. InBlocks' /\ ExtendedAt' = ExtendedAt /\ (Unfilled' <=> Unfilled)
      BY <1>6, SameBlocks
    <2>2. Located' /\ \A j : At(j)' = At(j) /\ init_part_table(j)' = init_part_table(j)
      <3>1. imagebase' \in [Parts -> Nat]
        BY <1>6 DEF Located
      <3>2. QED
        BY <1>6, <3>1, SamePlaces
    <2>3. Offsets' = Offsets
      BY DEF Offsets, Recorded
    <2>4. Tabled'
      BY <1>6, <2>1, <2>2, <2>3 DEF Tabled
    <2>5. pc' = pc
      OBVIOUS
    <2>6. QED
      BY <1>1, <1>2, <1>6, <2>1, <2>2, <2>4, <2>5, Zenon DEF IInv, Stage
  <1>7. QED
    BY <1>1, <1>2, <1>3, <1>4, <1>5, <1>6 DEF IInv, Stage

\* Every state of the layout satisfies the invariant.
THEOREM LayoutInv == Spec => []IInv
  <1>1. IInv /\ [Next]_vars => IInv'
    BY InvConfig, InvReformat, InvLocate, InvLogical, InvMbr, InvRecord, InvRestart, InvStutter
       DEF Next
  <1>2. QED
    BY <1>1, InitInv, PTL DEF Spec---------------------------------------------------------------------------
(* What a kernel finds.                                                    *)

\* A chain is walked from its first table to its last.
LEMMA WalkIs ==
  ASSUME NEW K \in 1 .. 4, NEW t \in [1 .. 4 -> Nat], Chain(ebr, mbr, K, t)
  PROVE  /\ \A k \in 1 .. K : Walk[k] = t[k] /\ t[k] > 0
         /\ \A k \in 1 .. 5 : k > K => Walk[k] = 0
  <1>1. \A j \in 1 .. K : j \in 1 .. 4 /\ t[j] \in Nat /\ t[j] > 0 /\ t[j] \in DOMAIN ebr
    <2>1. SUFFICES ASSUME NEW j \in 1 .. K
                   PROVE  j \in 1 .. 4 /\ t[j] \in Nat /\ t[j] > 0 /\ t[j] \in DOMAIN ebr
      OBVIOUS
    <2>2. j \in 1 .. 4 /\ t[j] \in Nat /\ t[1] \in Nat /\ t[1] > 0 /\ t[j] \in DOMAIN ebr
      BY DEF Chain
    <2>3. j # 1 => j - 1 \in 1 .. K - 1 /\ (j - 1) + 1 = j
      BY <2>2
    <2>4. j # 1 => t[j] > t[1]
      BY <2>3 DEF Chain
    <2>5. QED
      BY <2>2, <2>4
  <1>2. \A j \in 1 .. K : After(t[j]) = IF j < K THEN t[j + 1] ELSE 0
    <2>1. SUFFICES ASSUME NEW j \in 1 .. K
                   PROVE  After(t[j]) = IF j < K THEN t[j + 1] ELSE 0
      OBVIOUS
    <2>2. t[j] \in Nat /\ t[j] > 0 /\ t[1] \in Nat /\ mbr[3].start = t[1]
      BY <1>1 DEF Chain
    <2>3. CASE j < K
      <3>1. j + 1 \in 1 .. K /\ j \in 1 .. K - 1
        BY <2>3
      <3>2. t[j + 1] \in Nat /\ t[j + 1] > t[1] /\ t[j + 1] \in DOMAIN ebr
        BY <1>1, <3>1 DEF Chain
      <3>3. ebr[t[j]].next = t[j + 1] - t[1]
        BY <2>3 DEF Chain
      <3>4. ebr[t[j]].next # 0 /\ mbr[3].start + ebr[t[j]].next = t[j + 1]
        BY <2>2, <3>2, <3>3
      <3>5. After(t[j]) = Found(t[j + 1])
        BY <2>2, <3>4 DEF After
      <3>6. QED
        BY <2>3, <3>2, <3>5 DEF Found
    <2>4. CASE ~(j < K)
      <3>1. ebr[t[j]].next = 0
        BY <2>4 DEF Chain
      <3>2. QED
        BY <2>2, <2>4, <3>1 DEF After
    <2>5. QED
      BY <2>3, <2>4
  <1>3. Found(mbr[3].start) = t[1] /\ After(0) = 0
    BY <1>1 DEF Chain, Found, After
  <1>4. /\ Walk[1] = Found(mbr[3].start) /\ Walk[2] = After(Walk[1]) /\ Walk[3] = After(Walk[2])
        /\ Walk[4] = After(Walk[3]) /\ Walk[5] = After(Walk[4])
    BY DEF Walk
  <1>5. Walk[1] = t[1]
    BY <1>3, <1>4
  <1>6. \A k \in 1 .. K : Walk[k] = t[k]
    <2>1. K >= 2 => Walk[2] = t[2]
      BY <1>2, <1>4, <1>5
    <2>2. K >= 3 => Walk[3] = t[3]
      BY <1>2, <1>4, <2>1
    <2>3. K >= 4 => Walk[4] = t[4]
      BY <1>2, <1>4, <2>2
    <2>4. QED
      BY <1>5, <2>1, <2>2, <2>3
  <1>7. After(Walk[K]) = 0
    BY <1>2, <1>6
  <1>8. Walk[K + 1] = 0
    <2>1. CASE K = 1
      BY <2>1, <1>4, <1>7
    <2>2. CASE K = 2
      BY <2>2, <1>4, <1>7
    <2>3. CASE K = 3
      BY <2>3, <1>4, <1>7
    <2>4. CASE K = 4
      BY <2>4, <1>4, <1>7
    <2>5. QED
      BY <2>1, <2>2, <2>3, <2>4
  <1>9. \A k \in 1 .. 5 : k > K => Walk[k] = 0
    <2>1. CASE K = 1
      BY <2>1, <1>3, <1>4, <1>8
    <2>2. CASE K = 2
      BY <2>2, <1>3, <1>4, <1>8
    <2>3. CASE K = 3
      BY <2>3, <1>3, <1>4, <1>8
    <2>4. CASE K = 4
      BY <2>4, <1>8
    <2>5. QED
      BY <2>1, <2>2, <2>3, <2>4
  <1>10. QED
    BY <1>1, <1>6, <1>9

LEMMA ChainFound ==
  ASSUME IInv
  PROVE  ChainComplete
  <1>1. SUFFICES ASSUME mbr # Absent, ~dirty
                 PROVE  /\ \A k \in 1 .. 5 : Walk[k] # -1
                        /\ \A k \in 1 .. 4 : Walk[k + 1] > 0 => LogicalExtent(k).to <= Walk[k + 1]
    BY DEF ChainComplete
  <1>2. PICK K \in 1 .. 4 : \E t \in [1 .. 4 -> Nat] : Chain(ebr, mbr, K, t)
    BY <1>1 DEF IInv, OnDisk, Chained
  <1>3. PICK t \in [1 .. 4 -> Nat] : Chain(ebr, mbr, K, t)
    BY <1>2
  <1>4. /\ \A k \in 1 .. K : Walk[k] = t[k] /\ t[k] > 0
        /\ \A k \in 1 .. 5 : k > K => Walk[k] = 0
    BY <1>3, WalkIs
  <1>5. \A k \in 1 .. 5 : Walk[k] # -1
    <2>1. SUFFICES ASSUME NEW k \in 1 .. 5 PROVE Walk[k] # -1
      OBVIOUS
    <2>2. CASE k > K
      BY <1>4, <2>2
    <2>3. CASE k <= K
      BY <1>4, <2>3
    <2>4. QED
      BY <2>2, <2>3
  <1>6. ASSUME NEW k \in 1 .. 4, Walk[k + 1] > 0
        PROVE  LogicalExtent(k).to <= Walk[k + 1]
    <2>1. k + 1 <= K
      BY <1>4, <1>6
    <2>2. Walk[k] = t[k] /\ Walk[k + 1] = t[k + 1]
      BY <1>4, <2>1
    <2>3. k \in 1 .. K - 1
      BY <2>1
    <2>4. t[k] + ebr[t[k]].start + ebr[t[k]].size <= t[k + 1]
      BY <1>3, <2>3 DEF Chain
    <2>5. QED
      BY <2>2, <2>4 DEF LogicalExtent
  <1>7. QED
    BY <1>5, <1>6

LEMMA Typed ==
  ASSUME IInv
  PROVE  TypeOK
  <1>1. Word \in Nat /\ Multip \in Nat /\ Multip >= 64 /\ 16 * (164 * Multip) <= Word
    BY Constants
  <1>2. /\ pc \in {"config", "reformat", "locate", "tables", "record", "done"}
        /\ sectors \in [Parts -> 0 .. Word - 1] /\ partnum \in 0 .. 8 /\ spare_area \in Nat
        /\ (pc = "tables" => step \in 1 .. partnum - 3)
    <2>1. CASE pc = "config" /\ PowerOnStatic /\ ret = 0
      <3>1. 256 < Word
        BY <1>1
      <3>2. sectors \in [Parts -> 0 .. Word - 1]
        BY <1>1, <2>1, <3>1 DEF PowerOnStatic
      <3>3. QED
        BY <2>1, <3>2 DEF PowerOnStatic
    <2>2. CASE pc = "reformat" /\ SizesRead
      <3>1. ASSUME NEW i \in Parts PROVE sectors[i] \in 0 .. Word - 1
        <4>1. /\ sectors[i] \in Nat /\ sectors[i] * Multip \in Nat
              /\ 16 * (sectors[i] * Multip) <= Word
          BY <2>2 DEF SizesRead
        <4>2. PICK v \in Nat : v = sectors[i]
          BY <4>1
        <4>3. v * Multip >= v
          BY <1>1
        <4>4. v < Word
          BY <1>1, <4>1, <4>2, <4>3
        <4>5. QED
          BY <4>2, <4>4, <1>1
      <3>2. QED
        BY <2>2, <3>1 DEF SizesRead
    <2>3. CASE pc = "locate" /\ InBlocks
      BY <2>3 DEF InBlocks
    <2>4. CASE pc \in {"tables", "record", "done"} /\ InBlocks /\ Located /\ Tabled
      BY <2>4 DEF InBlocks, Tabled
    <2>5. QED
      BY <2>1, <2>2, <2>3, <2>4 DEF IInv, Stage
  <1>3. QED
    BY <1>2 DEF IInv, Steady, OnDisk, TablesTyped, TypeOK

\* The types, and tables that are complete wherever the MBR is newer: the
\* order of the writes in block_partition keeps them so over power cuts.
THEOREM TablesHold == Spec => []TablesInv
  <1>1. IInv => TablesInv
    BY ChainFound, Typed DEF TablesInv
  <1>2. QED
    BY <1>1, LayoutInv, PTL---------------------------------------------------------------------------
(* A finished layout.                                                      *)

\* The sizes of a finished layout are numbers, the MBR is that of the layout,
\* and its first logical table was written.
LEMMA Finished ==
  ASSUME IInv, Partitioned
  PROVE  /\ InBlocks /\ Located /\ Tabled /\ lba \in Nat
         /\ step = partnum - 3 /\ partnum \in 5 .. 8
         /\ mbr = [i \in 0 .. 3 |-> loc[i]] /\ cfgsec = Offsets
         /\ ExtendedAt < lba /\ ExtendedAt \in DOMAIN ebr /\ ebr[ExtendedAt].start = 16
         /\ imagebase[4] = ExtendedAt + 16
         /\ \A i \in Parts : sectors[i] \in Nat
         /\ spare_area \in Nat /\ ExtendedAt \in Nat /\ ExtendedAt > 0
  <1>1. pc = "done" /\ ret = 0 /\ ~lost
    BY DEF Partitioned
  <1>2. InBlocks /\ Located /\ Tabled
    BY <1>1 DEF IInv, Stage
  <1>3. lba \in Nat
    BY Constants DEF IInv, Steady
  <1>4. step = partnum - 3 /\ partnum \in 5 .. 8
    BY <1>1, <1>2 DEF Tabled, InBlocks
  <1>5. step > 1
    BY <1>4
  <1>6. /\ mbr = [i \in 0 .. 3 |-> loc[i]] /\ cfgsec = Offsets
        /\ ExtendedAt < lba /\ ExtendedAt \in DOMAIN ebr /\ ebr[ExtendedAt].start = 16
        /\ imagebase[4] = ExtendedAt + 16
    BY <1>1, <1>2, <1>5 DEF Tabled
  <1>7. \A i \in Parts : sectors[i] \in Nat
    <2>1. sectors \in [Parts -> 0 .. Word - 1] /\ Word \in Nat
      BY <1>2, Constants DEF InBlocks
    <2>2. QED
      BY <2>1
  <1>8. spare_area \in Nat /\ sectors[0] > 0
    BY <1>2 DEF InBlocks
  <1>9. ExtendedAt \in Nat /\ ExtendedAt > 0
    BY <1>7, <1>8 DEF ExtendedAt, Parts
  <1>10. QED
    BY <1>2, <1>3, <1>4, <1>6, <1>7, <1>8, <1>9

\* The partitions of a finished layout, one behind the other.
LEMMA Extents ==
  ASSUME IInv, Partitioned, ~RunsOver, NEW K, K = partnum - 4
  PROVE  /\ K \in 1 .. 4 /\ spare_area = Spare0
         /\ \A j \in 1 .. K + 1 : At(j) \in Nat
         /\ At(1) = ExtendedAt
         /\ \A i, j \in 1 .. K + 1 : i < j => At(i) < At(j)
         /\ Logicals = 1 .. K
         /\ \A k \in 1 .. K : LogicalExtent(k) = [from |-> At(k), to |-> At(k + 1)]
         /\ PrimaryExtent(0) = [from |-> Spare0, to |-> Spare0 + sectors[0]]
         /\ PrimaryExtent(1) = [from |-> Spare0 + sectors[0], to |-> Spare0 + sectors[0] + sectors[1]]
         /\ PrimaryExtent(2) = [from |-> Spare0 + sectors[0] + sectors[1], to |-> ExtendedAt]
  <1>1. /\ InBlocks /\ Located /\ Tabled /\ lba \in Nat
        /\ step = partnum - 3 /\ partnum \in 5 .. 8
        /\ mbr = [i \in 0 .. 3 |-> loc[i]] /\ ExtendedAt < lba /\ ExtendedAt \in Nat
        /\ \A i \in Parts : sectors[i] \in Nat
    BY Finished
  <1>2. ret = 0 /\ ~lost
    BY DEF Partitioned
  <1>3. spare_area = Spare0 /\ ~Unfilled
    BY <1>1, <1>2 DEF InBlocks
  <1>4. K \in 1 .. 4
    BY <1>1
  <1>5. PICK t : t = [j \in 1 .. 4 |-> At(j)]
    OBVIOUS
  <1>6. t \in [1 .. 4 -> Nat] /\ Chain(ebr, mbr, K, t)
    <2>1. PICK m : m = mbr
      OBVIOUS
    <2>2. /\ [j \in 1 .. 4 |-> At(j)] \in [1 .. 4 -> Nat]
          /\ Chain(ebr, m, partnum - 4, [j \in 1 .. 4 |-> At(j)])
      BY <1>1, <1>2, <1>3, <2>1, PlacesChain
    <2>3. QED
      BY <1>5, <2>1, <2>2, Zenon
  <1>7. /\ \A k \in 1 .. K : Walk[k] = t[k] /\ t[k] > 0
        /\ \A k \in 1 .. 5 : k > K => Walk[k] = 0
    BY <1>4, <1>6, WalkIs
  <1>8. \A k \in 1 .. K : k \in 1 .. 4 /\ k \in 1 .. partnum - 4 /\ Walk[k] = At(k) /\ At(k) > 0
    BY <1>4, <1>5, <1>7
  <1>9. /\ \A j \in 1 .. partnum - 4 : /\ At(j) \in Nat /\ At(j) < Word
                                       /\ At(j + 1) = At(j) + 16 + loc[j + 3].size
        /\ \A i, j \in 1 .. partnum - 4 : i < j => At(i) < At(j)
        /\ \A j \in 1 .. partnum - 4 :
             init_part_table(j) = [start |-> 16, size |-> loc[j + 3].size,
                                   next |-> IF j < partnum - 4 THEN At(j + 1) - ExtendedAt ELSE 0]
    BY <1>1, <1>3, PlacesApart
  <1>10. At(1) = ExtendedAt
    BY <1>1, AtIs
  <1>11. \A i \in Parts : loc[i].start \in Nat /\ loc[i].size \in Nat
    BY <1>1, LocIs
  <1>12. \A k \in 1 .. K : /\ At(k) \in Nat /\ At(k + 1) \in Nat /\ At(k) < At(k + 1)
                           /\ At(k + 1) = At(k) + 16 + loc[k + 3].size
    <2>1. SUFFICES ASSUME NEW k \in 1 .. K
                   PROVE  /\ At(k) \in Nat /\ At(k + 1) \in Nat /\ At(k) < At(k + 1)
                          /\ At(k + 1) = At(k) + 16 + loc[k + 3].size
      OBVIOUS
    <2>2. At(k) \in Nat /\ At(k + 1) = At(k) + 16 + loc[k + 3].size
      BY <1>8, <1>9
    <2>3. k + 3 \in Parts
      BY <1>4 DEF Parts
    <2>4. loc[k + 3].size \in Nat
      BY <1>11, <2>3
    <2>5. QED
      BY <2>2, <2>4
  <1>13. \A j \in 1 .. K + 1 : At(j) \in Nat
    <2>1. SUFFICES ASSUME NEW j \in 1 .. K + 1 PROVE At(j) \in Nat
      OBVIOUS
    <2>2. CASE j \in 1 .. K
      BY <1>12, <2>2
    <2>3. CASE j = K + 1
      <3>1. K \in 1 .. K
        BY <1>4
      <3>2. QED
        BY <1>12, <2>3, <3>1
    <2>4. QED
      BY <1>4, <2>2, <2>3
  <1>14. \A i, j \in 1 .. K + 1 : i < j => At(i) < At(j)
    <2>1. SUFFICES ASSUME NEW i \in 1 .. K + 1, NEW j \in 1 .. K + 1, i < j
                   PROVE  At(i) < At(j)
      OBVIOUS
    <2>2. At(i) \in Nat /\ At(j) \in Nat /\ K \in 1 .. K /\ i \in 1 .. K
      BY <1>4, <1>13, <2>1
    <2>3. CASE j \in 1 .. K
      BY <1>8, <1>9, <2>1, <2>2, <2>3
    <2>4. CASE j = K + 1
      <3>1. At(K) < At(j) /\ At(K) \in Nat
        BY <1>12, <2>2, <2>4
      <3>2. i < K => At(i) < At(K)
        BY <1>8, <1>9, <2>2
      <3>3. i = K \/ i < K
        BY <1>4, <2>2
      <3>4. QED
        BY <2>2, <3>1, <3>2, <3>3
    <2>5. QED
      BY <1>4, <2>3, <2>4
  <1>15. Logicals = 1 .. K
    <2>1. ASSUME NEW k \in 1 .. 5 PROVE Walk[k] > 0 <=> k \in 1 .. K
      <3>1. CASE k \in 1 .. K
        BY <1>8, <3>1
      <3>2. CASE k > K
        BY <1>4, <1>7, <3>2
      <3>3. QED
        BY <1>4, <3>1, <3>2
    <2>2. \A k \in 1 .. K : k \in 1 .. 5
      BY <1>4
    <2>3. QED
      BY <2>1, <2>2, Zenon DEF Logicals
  <1>16. ASSUME NEW k \in 1 .. K
         PROVE  LogicalExtent(k) = [from |-> At(k), to |-> At(k + 1)]
    <2>1. Walk[k] = At(k) /\ k \in 1 .. partnum - 4
      BY <1>8
    <2>2. ebr[At(k)] = init_part_table(k)
      BY <1>1, <1>2, <1>3, <2>1 DEF Tabled
    <2>3. ebr[At(k)].start = 16 /\ ebr[At(k)].size = loc[k + 3].size
      BY <1>9, <2>1, <2>2
    <2>4. At(k) + ebr[At(k)].start + ebr[At(k)].size = At(k + 1)
      BY <1>12, <2>3
    <2>5. QED
      BY <2>1, <2>4, Zenon DEF LogicalExtent
  <1>17. mbr[0] = loc[0] /\ mbr[1] = loc[1] /\ mbr[2] = loc[2]
    BY <1>1
  <1>18. /\ loc[0].start = Spare0 /\ loc[0].size = sectors[0]
         /\ loc[1].start = Spare0 + sectors[0] /\ loc[1].size = sectors[1]
         /\ loc[2].start = Spare0 + sectors[0] + sectors[1] /\ loc[2].size = sectors[2]
         /\ ExtendedAt = Spare0 + sectors[0] + sectors[1] + sectors[2]
    BY <1>1, <1>3, Zenon DEF Located, ExtendedAt
  <1>19. /\ PrimaryExtent(0) = [from |-> Spare0, to |-> Spare0 + sectors[0]]
         /\ PrimaryExtent(1) = [from |-> Spare0 + sectors[0], to |-> Spare0 + sectors[0] + sectors[1]]
         /\ PrimaryExtent(2) = [from |-> Spare0 + sectors[0] + sectors[1], to |-> ExtendedAt]
    BY <1>17, <1>18, Zenon DEF PrimaryExtent
  <1>20. QED
    BY <1>3, <1>4, <1>10, <1>13, <1>14, <1>15, <1>16, <1>19

LEMMA Apart ==
  ASSUME IInv
  PROVE  PartitionsApart
  <1> DEFINE ext == [j \in (0 .. 2) \cup {k + 3 : k \in Logicals} |->
                       IF j < 3 THEN PrimaryExtent(j) ELSE LogicalExtent(j - 3)]
  <1>1. SUFFICES ASSUME Partitioned, ~RunsOver
                 PROVE  /\ \A i, j \in DOMAIN ext : i < j => ext[i].to <= ext[j].from
                        /\ \A i \in DOMAIN ext : ext[i].from >= SpareEnd * Multip
    BY Zenon DEF PartitionsApart
  <1>2. PICK K : K = partnum - 4
    OBVIOUS
  <1>3. /\ K \in 1 .. 4
        /\ \A j \in 1 .. K + 1 : At(j) \in Nat
        /\ At(1) = ExtendedAt
        /\ \A i, j \in 1 .. K + 1 : i < j => At(i) < At(j)
        /\ Logicals = 1 .. K
        /\ \A k \in 1 .. K : LogicalExtent(k) = [from |-> At(k), to |-> At(k + 1)]
        /\ PrimaryExtent(0) = [from |-> Spare0, to |-> Spare0 + sectors[0]]
        /\ PrimaryExtent(1) = [from |-> Spare0 + sectors[0], to |-> Spare0 + sectors[0] + sectors[1]]
        /\ PrimaryExtent(2) = [from |-> Spare0 + sectors[0] + sectors[1], to |-> ExtendedAt]
        /\ spare_area = Spare0
    BY <1>1, <1>2, Extents
  <1>4. PICK e : e = ext
    OBVIOUS
  <1>5. /\ DOMAIN e = (0 .. 2) \cup {k + 3 : k \in Logicals}
        /\ \A j \in DOMAIN e : e[j] = IF j < 3 THEN PrimaryExtent(j) ELSE LogicalExtent(j - 3)
    BY <1>4
  <1> HIDE DEF ext
  <1>6. /\ sectors[0] \in Nat /\ sectors[1] \in Nat /\ sectors[2] \in Nat
        /\ Spare0 \in Nat /\ SpareEnd * Multip <= Spare0
        /\ ExtendedAt = Spare0 + sectors[0] + sectors[1] + sectors[2]
    <2>1. \A i \in Parts : sectors[i] \in Nat
      BY <1>1, Finished
    <2>2. Spare0 \in Nat /\ SpareEnd * Multip <= Spare0
      BY Constants DEF SpareEnd
    <2>3. QED
      BY <1>3, <2>1, <2>2 DEF ExtendedAt, Parts
  <1>7. \A j \in DOMAIN e : j \in Int /\ (j \in {0, 1, 2} \/ (j > 3 /\ j - 3 \in 1 .. K))
    <2>1. Logicals = 1 .. K /\ K \in 1 .. 4
      BY <1>3
    <2>2. DOMAIN e = (0 .. 2) \cup {k + 3 : k \in 1 .. K}
      BY <1>5, <2>1, Zenon
    <2>3. QED
      BY <2>1, <2>2
  <1>8. \A j \in DOMAIN e : j > 3 /\ j - 3 \in 1 .. K =>
          /\ e[j].from = At(j - 3) /\ e[j].to = At(j - 2)
          /\ At(j - 3) \in Nat /\ At(j - 2) \in Nat /\ ExtendedAt <= At(j - 3)
    <2>1. SUFFICES ASSUME NEW j \in DOMAIN e, j > 3, j - 3 \in 1 .. K
                   PROVE  /\ e[j].from = At(j - 3) /\ e[j].to = At(j - 2)
                          /\ At(j - 3) \in Nat /\ At(j - 2) \in Nat /\ ExtendedAt <= At(j - 3)
      OBVIOUS
    <2>2. j \in Int /\ ~(j < 3) /\ (j - 3) + 1 = j - 2 /\ j - 2 \in 1 .. K + 1 /\ j - 3 \in 1 .. K + 1
          /\ 1 \in 1 .. K + 1
      <3>1. K \in 1 .. 4 /\ j \in Int
        BY <1>3, <1>7
      <3>2. QED
        BY <2>1, <3>1
    <2>3. e[j] = LogicalExtent(j - 3)
      BY <1>5, <2>2
    <2>4. LogicalExtent(j - 3) = [from |-> At(j - 3), to |-> At((j - 3) + 1)]
      BY <1>3, <2>1
    <2>5. LogicalExtent(j - 3) = [from |-> At(j - 3), to |-> At(j - 2)]
      BY <2>2, <2>4, Zenon
    <2>6. At(j - 3) \in Nat /\ At(j - 2) \in Nat
      BY <1>3, <2>2
    <2>7. ExtendedAt <= At(j - 3)
      <3>1. CASE j - 3 = 1
        BY <1>3, <2>6, <3>1
      <3>2. CASE 1 < j - 3
        <4>1. At(1) < At(j - 3) /\ At(1) \in Nat
          BY <1>3, <2>2, <3>2
        <4>2. QED
          BY <1>3, <2>6, <4>1
      <3>3. QED
        BY <2>1, <1>3, <3>1, <3>2
    <2>8. QED
      BY <2>3, <2>5, <2>6, <2>7
  <1>9. \A j \in DOMAIN e : j \in {0, 1, 2} => e[j] = PrimaryExtent(j)
    BY <1>5
  <1>10. ASSUME NEW i \in DOMAIN e, NEW j \in DOMAIN e, i < j
         PROVE  e[i].to <= e[j].from
    <2>1. CASE i \in {0, 1, 2} /\ j \in {0, 1, 2}
      BY <1>3, <1>6, <1>9, <1>10, <2>1
    <2>2. CASE i \in {0, 1, 2} /\ j > 3 /\ j - 3 \in 1 .. K
      <3>1. e[i].to <= ExtendedAt /\ e[i].to \in Nat /\ ExtendedAt \in Nat
        <4>1. CASE i = 0
          <5>1. e[i].to = Spare0 + sectors[0]
            BY <1>3, <1>9, <4>1
          <5>2. QED
            BY <1>6, <5>1
        <4>2. CASE i = 1
          <5>1. e[i].to = Spare0 + sectors[0] + sectors[1]
            BY <1>3, <1>9, <4>2
          <5>2. QED
            BY <1>6, <5>1
        <4>3. CASE i = 2
          BY <1>3, <1>6, <1>9, <4>3
        <4>4. QED
          BY <2>2, <4>1, <4>2, <4>3
      <3>2. e[j].from = At(j - 3) /\ At(j - 3) \in Nat /\ ExtendedAt <= At(j - 3)
        BY <1>8, <2>2
      <3>3. QED
        BY <3>1, <3>2
    <2>3. CASE i > 3 /\ i - 3 \in 1 .. K /\ j > 3 /\ j - 3 \in 1 .. K
      <3>1. /\ e[i].to = At(i - 2) /\ At(i - 2) \in Nat
            /\ e[j].from = At(j - 3) /\ At(j - 3) \in Nat
        BY <1>8, <2>3
      <3>2. i \in Int /\ j \in Int /\ K \in 1 .. 4
        BY <1>3, <1>7
      <3>3. i - 2 = j - 3 \/ i - 2 < j - 3
        BY <1>10, <3>2
      <3>4. i - 2 \in 1 .. K + 1 /\ j - 3 \in 1 .. K + 1
        BY <2>3, <3>2
      <3>5. i - 2 < j - 3 => At(i - 2) < At(j - 3)
        BY <1>3, <3>4
      <3>6. CASE i - 2 = j - 3
        <4>1. At(i - 2) = At(j - 3)
          BY <3>6, Zenon
        <4>2. QED
          BY <3>1, <4>1
      <3>7. QED
        BY <3>1, <3>3, <3>5, <3>6
    <2>4. CASE i > 3 /\ i - 3 \in 1 .. K /\ j \in {0, 1, 2}
      BY <1>7, <1>10, <2>4
    <2>5. QED
      BY <1>7, <2>1, <2>2, <2>3, <2>4
  <1>11. ASSUME NEW i \in DOMAIN e PROVE e[i].from >= SpareEnd * Multip
    <2>1. Multip \in Nat /\ SpareEnd * Multip \in Nat
      BY Constants DEF SpareEnd
    <2>2. CASE i \in {0, 1, 2}
      <3>1. e[i].from >= Spare0 /\ e[i].from \in Nat
        BY <1>3, <1>6, <1>9, <2>2
      <3>2. QED
        BY <1>6, <2>1, <3>1
    <2>3. CASE i > 3 /\ i - 3 \in 1 .. K
      <3>1. e[i].from = At(i - 3) /\ At(i - 3) \in Nat /\ ExtendedAt <= At(i - 3)
        BY <1>8, <2>3
      <3>2. QED
        BY <1>6, <2>1, <3>1
    <2>4. QED
      BY <1>7, <2>2, <2>3
  <1>12. QED
    BY <1>4, <1>10, <1>11
LEMMA InTheDisk ==
  ASSUME IInv
  PROVE  InsideWhenLocalNamed
  <1>1. SUFFICES ASSUME Partitioned, Fits, Entered(4), ~RunsOver PROVE Inside
    BY Zenon DEF InsideWhenLocalNamed
  <1>2. /\ InBlocks /\ Located /\ lba \in Nat /\ partnum \in 5 .. 8
        /\ mbr = [i \in 0 .. 3 |-> loc[i]]
        /\ ExtendedAt < lba /\ ExtendedAt \in Nat
        /\ \A i \in Parts : sectors[i] \in Nat
    BY <1>1, Finished
  <1>3. ret = 0
    BY <1>1 DEF Partitioned
  <1>4. /\ Filled(partnum - 1)
        /\ Taken(sectors, 4, partnum - 1) <= sectors[3]
        /\ ExtendedAt + sectors[3] <= lba
    BY <1>1, <1>2, <1>3 DEF InBlocks
  <1>5. PICK K : K = partnum - 4
    OBVIOUS
  <1>6. /\ K \in 1 .. 4
        /\ \A j \in 1 .. K + 1 : At(j) \in Nat
        /\ \A i, j \in 1 .. K + 1 : i < j => At(i) < At(j)
        /\ Logicals = 1 .. K
        /\ \A k \in 1 .. K : LogicalExtent(k) = [from |-> At(k), to |-> At(k + 1)]
    BY <1>1, <1>5, Extents
  <1>7. \A i \in 3 .. partnum - 1 : Filled(i) /\ i \in Parts
    <2>1. SUFFICES ASSUME NEW i \in 3 .. partnum - 1 PROVE Filled(i) /\ i \in Parts
      OBVIOUS
    <2>2. i < partnum /\ \A j \in 1 .. i : j \in 1 .. partnum - 1
      BY <1>2
    <2>3. QED
      BY <1>2, <1>4, <2>2 DEF Filled, Parts
  <1>8. \A i \in 3 .. partnum - 1 : loc[i].size = sectors[i]
    <2>1. SUFFICES ASSUME NEW i \in 3 .. partnum - 1 PROVE loc[i].size = sectors[i]
      OBVIOUS
    <2>2. CASE i = 3
      BY <1>2, <1>7, <2>2 DEF Located
    <2>3. CASE i \in 4 .. 7
      BY <1>2, <1>7, <2>3 DEF Located
    <2>4. QED
      BY <1>2, <2>2, <2>3
  <1>9. At(K + 1) = ExtendedAt + Taken(sectors, 4, partnum - 1)
    <2>1. loc[3].start = ExtendedAt
      BY <1>2 DEF Located
    <2>2. PICK f : f = [i \in Parts |-> 16 + loc[i].size]
      OBVIOUS
    <2>3. PICK g : g = [i \in Parts |-> 16 + sectors[i]]
      OBVIOUS
    <2>4. K \in 1 .. 4 /\ (K + 1) + 2 = partnum - 1 /\ partnum - 1 = K + 3
      BY <1>2, <1>5
    <2>5. \A i \in 4 .. K + 3 : f[i] = g[i]
      BY <1>7, <1>8, <2>2, <2>3, <2>4
    <2>6. Sum(f, 4 .. K + 3) = Sum(g, 4 .. K + 3)
      <3>1. \A i \in 0 .. 7 : i \in 4 .. K + 3 => f[i] = g[i]
        BY <2>5
      <3>2. QED
        BY <3>1 DEF Sum
    <2>7. At(K + 1) = ExtendedAt + Sum(f, 4 .. (K + 1) + 2)
      BY <2>1, <2>2, Zenon DEF At
    <2>8. Taken(sectors, 4, partnum - 1) = Sum(g, 4 .. partnum - 1)
      BY <2>3, Zenon DEF Taken
    <2>9. QED
      BY <2>4, <2>6, <2>7, <2>8, Zenon
  <1>10. mbr[3].start = ExtendedAt /\ mbr[3].size = sectors[3]
    <2>1. mbr[3] = loc[3] /\ loc[3].start = ExtendedAt
      BY <1>2 DEF Located
    <2>2. 3 \in 3 .. partnum - 1
      BY <1>2
    <2>3. QED
      BY <1>8, <2>1, <2>2
  <1>11. ASSUME NEW k \in 1 .. K PROVE LogicalExtent(k).to <= ExtendedAt + sectors[3]
    <2>1. LogicalExtent(k).to = At(k + 1)
      BY <1>6
    <2>2. k + 1 \in 1 .. K + 1 /\ K + 1 \in 1 .. K + 1 /\ (k + 1 = K + 1 \/ k + 1 < K + 1)
      BY <1>6
    <2>3. At(k + 1) \in Nat /\ At(K + 1) \in Nat
      BY <1>6, <2>2
    <2>4. k + 1 < K + 1 => At(k + 1) < At(K + 1)
      BY <1>6, <2>2
    <2>5. At(k + 1) <= At(K + 1)
      <3>1. CASE k + 1 = K + 1
        <4>1. At(k + 1) = At(K + 1)
          BY <3>1, Zenon
        <4>2. QED
          BY <2>3, <4>1
      <3>2. CASE k + 1 < K + 1
        BY <2>3, <2>4, <3>2
      <3>3. QED
        BY <2>2, <3>1, <3>2
    <2>6. sectors[3] \in Nat
      BY <1>2 DEF Parts
    <2>7. PICK x : x = Taken(sectors, 4, partnum - 1)
      OBVIOUS
    <2>8. x \in Int
      <3>1. \A i \in 0 .. 7 : sectors[i] \in Nat
        BY <1>2 DEF Parts
      <3>2. QED
        BY <2>7, <3>1 DEF Taken, Sum, Parts
    <2>9. At(K + 1) = ExtendedAt + x /\ x <= sectors[3]
      BY <1>4, <1>9, <2>7
    <2>10. QED
      BY <1>2, <2>1, <2>3, <2>5, <2>6, <2>8, <2>9
  <1>12. QED
    BY <1>4, <1>6, <1>10, <1>11 DEF Inside

\* No two partitions of a finished layout meet, none lies on the images of the
\* spare area, and none leaves the disk when the configuration names local
\* and fits: reformat_part_size, init_part_location and the tables agree.
THEOREM LayoutSound == Spec => []SoundLayout
  <1>1. IInv => SoundLayout
    BY Apart, InTheDisk DEF SoundLayout
  <1>2. QED
    BY <1>1, LayoutInv, PTL

---------------------------------------------------------------------------
(* The configuration sector.                                               *)

\* A name belongs to one partition, and to no image of the spare area.
LEMMA Names ==
  /\ \A i, j \in Fs : name(i) = name(j) => i = j
  /\ \A i \in Fs : name(i) \notin DOMAIN Spare
  /\ name(3) = "userdata"
  <1>1. /\ name(0) = "system" /\ name(1) = "misc" /\ name(2) = "cache" /\ name(3) = "userdata"
        /\ name(4) = "local" /\ name(5) = "add1" /\ name(6) = "add2"
    BY DEF name, FsNames
  <1>2. Fs = {0, 1, 2, 3, 4, 5, 6}
    BY DEF Fs
  <1>3. \A i, j \in Fs : name(i) = name(j) => i = j
    BY <1>1, <1>2
  <1>4. DOMAIN Spare = {"uboot0", "uboot1", "items", "logo", "ramdisk", "flags", "reserved",
                        "kernel0", "kernel1", "recovery_rd"}
    BY DEF Spare
  <1>5. QED
    BY <1>1, <1>2, <1>3, <1>4

\* What is recorded for a partition is what the sector gives for its name.
LEMMA RecordedIs ==
  ASSUME imagebase \in [Parts -> Nat], partnum \in 5 .. 8
  PROVE  /\ \A i \in Fs : Recorded(i) \in Int
         /\ Offsets # Absent
         /\ \A i \in Fs : name(i) \in DOMAIN Offsets /\ Offsets[name(i)] = Recorded(i)
  <1>1. \A i \in Fs : Recorded(i) \in Int
    <2>1. \A i \in Parts : imagebase[i] \in Nat
      OBVIOUS
    <2>2. /\ imagebase[0] \in Nat /\ imagebase[1] \in Nat /\ imagebase[2] \in Nat
          /\ imagebase[4] \in Nat /\ imagebase[5] \in Nat /\ imagebase[6] \in Nat
          /\ imagebase[partnum - 1] \in Nat
      BY <2>1 DEF Parts
    <2>3. Fs = {0, 1, 2, 3, 4, 5, 6}
      BY DEF Fs
    <2>4. QED
      BY <2>2, <2>3 DEF Recorded
  <1>2. \A i \in Fs : (CHOOSE j \in Fs : name(j) = name(i)) = i
    <2>1. SUFFICES ASSUME NEW i \in Fs PROVE (CHOOSE j \in Fs : name(j) = name(i)) = i
      OBVIOUS
    <2>2. PICK c : c = CHOOSE j \in Fs : name(j) = name(i)
      OBVIOUS
    <2>3. c \in Fs /\ name(c) = name(i)
      BY <2>2, Zenon
    <2>4. c = i
      BY <2>3, Names, Zenon
    <2>5. QED
      BY <2>2, <2>4
  <1>3. \A i \in Fs : name(i) \in DOMAIN Offsets /\ Offsets[name(i)] = Recorded(i)
    BY <1>2, Zenon DEF Offsets
  <1>4. Offsets \in [{name(i) : i \in Fs} -> Int]
    <2>1. PICK S : S = {name(i) : i \in Fs}
      OBVIOUS
    <2>2. \A p \in S : Recorded(CHOOSE i \in Fs : name(i) = p) \in Int
      <3>1. SUFFICES ASSUME NEW p \in S
                     PROVE  Recorded(CHOOSE i \in Fs : name(i) = p) \in Int
        OBVIOUS
      <3>2. PICK k \in Fs : p = name(k)
        BY <2>1
      <3>3. (CHOOSE i \in Fs : name(i) = p) = k
        BY <1>2, <3>2, Zenon
      <3>4. QED
        BY <1>1, <3>2, <3>3, Zenon
    <2>3. [p \in S |-> Recorded(CHOOSE i \in Fs : name(i) = p)] \in [S -> Int]
      BY <2>2, Zenon
    <2>4. QED
      BY <2>1, <2>3, Zenon DEF Offsets
  <1>5. QED
    BY <1>1, <1>3, <1>4, AbsentAssumption

LEMMA BasesAgree ==
  ASSUME IInv
  PROVE  RecordedBases
  <1>1. SUFFICES ASSUME Partitioned
                 PROVE  /\ \A i \in 0 .. 2 : block_storage_offset(name(i)) = mbr[i].start
                        /\ LET user == Walk[1] + ebr[Walk[1]].start
                           IN  block_storage_offset("userdata") = IF user > lba THEN -1 ELSE user
    BY Zenon DEF RecordedBases
  <1>2. /\ InBlocks /\ Located /\ lba \in Nat /\ partnum \in 5 .. 8
        /\ mbr = [i \in 0 .. 3 |-> loc[i]] /\ cfgsec = Offsets
        /\ ExtendedAt < lba /\ ExtendedAt \in DOMAIN ebr /\ ebr[ExtendedAt].start = 16
        /\ imagebase[4] = ExtendedAt + 16
        /\ \A i \in Parts : sectors[i] \in Nat
        /\ spare_area \in Nat /\ ExtendedAt \in Nat /\ ExtendedAt > 0
    BY <1>1, Finished
  <1>3. /\ Offsets # Absent
        /\ \A i \in Fs : name(i) \in DOMAIN Offsets /\ Offsets[name(i)] = Recorded(i)
    BY <1>2, RecordedIs DEF Located
  <1>4. \A i \in Fs : block_storage_offset(name(i)) = IF Recorded(i) > lba THEN -1 ELSE Recorded(i)
    <2>1. SUFFICES ASSUME NEW i \in Fs
                   PROVE  block_storage_offset(name(i)) = IF Recorded(i) > lba THEN -1 ELSE Recorded(i)
      OBVIOUS
    <2>2. name(i) \notin DOMAIN Spare
      BY Names
    <2>3. cfgsec # Absent /\ name(i) \in DOMAIN cfgsec /\ cfgsec[name(i)] = Recorded(i)
      BY <1>2, <1>3
    <2>4. block_storage_offset(name(i)) = block_get_base(name(i))
      BY <2>2, Zenon DEF block_storage_offset
    <2>5. QED
      BY <2>3, <2>4, Zenon DEF block_get_base
  <1>5. ASSUME NEW i \in 0 .. 2 PROVE block_storage_offset(name(i)) = mbr[i].start
    <2>1. i \in Fs /\ i \in 0 .. 3 /\ i < 3
      BY DEF Fs
    <2>2. Recorded(i) = imagebase[i]
      BY <2>1 DEF Recorded
    <2>3. imagebase[i] = loc[i].start /\ mbr[i] = loc[i]
      BY <1>2, <2>1 DEF Located
    <2>4. loc[i].start \in Nat /\ loc[i].start <= lba
      <3>1. sectors[0] \in Nat /\ sectors[1] \in Nat /\ sectors[2] \in Nat
        BY <1>2 DEF Parts
      <3>2. /\ loc[0].start = spare_area /\ loc[1].start = spare_area + sectors[0]
            /\ loc[2].start = spare_area + sectors[0] + sectors[1]
        BY <1>2 DEF Located
      <3>3. spare_area + sectors[0] + sectors[1] + sectors[2] < lba
        BY <1>2 DEF ExtendedAt
      <3>4. i = 0 \/ i = 1 \/ i = 2
        OBVIOUS
      <3>5. QED
        BY <1>2, <3>1, <3>2, <3>3, <3>4
    <2>5. ~(Recorded(i) > lba)
      BY <1>2, <2>2, <2>3, <2>4
    <2>6. QED
      BY <1>4, <2>1, <2>2, <2>3, <2>5, Zenon
  <1>6. Walk[1] = ExtendedAt
    <2>1. mbr[3].start = ExtendedAt
      BY <1>2 DEF Located
    <2>2. Walk[1] = Found(mbr[3].start)
      BY DEF Walk
    <2>3. QED
      BY <1>2, <2>1, <2>2 DEF Found
  <1>7. Recorded(3) = ExtendedAt + 16
    BY <1>2 DEF Recorded
  <1>8. block_storage_offset("userdata") =
          IF ExtendedAt + 16 > lba THEN -1 ELSE ExtendedAt + 16
    <2>1. 3 \in Fs /\ name(3) = "userdata"
      BY Names DEF Fs
    <2>2. QED
      BY <1>4, <1>7, <2>1, Zenon
  <1>9. QED
    BY <1>2, <1>5, <1>6, <1>8, Zenon

\* storage_offset finds system, misc, cache and userdata where the tables
\* have them.
THEOREM BasesRecorded == Spec => []RecordedBases
  <1>1. IInv => RecordedBases
    BY BasesAgree
  <1>2. QED
    BY <1>1, LayoutInv, PTL
=============================================================================
