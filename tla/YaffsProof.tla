----------------------------- MODULE YaffsProof -----------------------------
(***************************************************************************)
(* Theorems about Yaffs for every image, every page and block size and     *)
(* every set of bad blocks.                                                *)
(***************************************************************************)
EXTENDS Yaffs, FiniteSetTheorems, TLAPS

\* A set of natural numbers has a least one.
LEMMA Least ==
  ASSUME NEW T, T \subseteq Nat, T # {}
  PROVE  \E x \in T : \A y \in T : x <= y
  <1> DEFINE R == OpToRel(<, Nat)
  <1>1. IsWellFoundedOn(R, Nat)
    BY NatLessThanWellFounded
  <1>2. \E x \in T : \A y \in T : ~ (<<y, x>> \in R)
    <2> HIDE DEF R
    <2> QED BY <1>1, WFMin
  <1>3. ASSUME NEW x \in Nat, NEW y \in Nat, ~ (<<y, x>> \in R) PROVE x <= y
    <2>1. R = {ss \in Nat \X Nat : ss[1] < ss[2]}
      BY DEF OpToRel
    <2>2. <<y, x>> \in Nat \X Nat /\ <<y, x>>[1] = y /\ <<y, x>>[2] = x
      OBVIOUS
    <2>3. y < x => <<y, x>> \in {ss \in Nat \X Nat : ss[1] < ss[2]}
      BY <2>2
    <2>4. ~(y < x)
      <3> HIDE DEF R
      <3> QED BY <1>3, <2>1, <2>3, Zenon
    <2> QED BY <2>4
  <1> QED BY <1>2, <1>3

---------------------------------------------------------------------------
(* Arithmetic.                                                             *)

LEMMA DivBounds ==
  ASSUME NEW a \in Nat, NEW k \in Nat \ {0}
  PROVE  /\ a \div k \in Nat /\ a % k \in 0 .. k - 1
         /\ k * (a \div k) <= a /\ a < k * (a \div k) + k
  OBVIOUS

LEMMA DivUnique ==
  ASSUME NEW a \in Nat, NEW k \in Nat \ {0}, NEW q \in Nat,
         k * q <= a, a < k * q + k
  PROVE  a \div k = q
  OBVIOUS

LEMMA Multiple ==
  ASSUME NEW a \in Nat, NEW k \in Nat \ {0}
  PROVE  a % k = 0 <=> a = k * (a \div k)
  OBVIOUS

LEMMA MultipleOf ==
  ASSUME NEW k \in Nat \ {0}, NEW q \in Nat
  PROVE  (k * q) % k = 0 /\ (k * q) \div k = q
  OBVIOUS

LEMMA MulMono ==
  ASSUME NEW s \in Nat, NEW a \in Nat, NEW b \in Nat, a <= b
  PROVE  s * a <= s * b
  OBVIOUS

LEMMA MulCancel ==
  ASSUME NEW s \in Nat \ {0}, NEW a \in Nat, NEW b \in Nat, s * a < s * b
  PROVE  a < b
  OBVIOUS

LEMMA MulSum ==
  ASSUME NEW s \in Nat, NEW a \in Nat, NEW b \in Nat
  PROVE  /\ s * a \in Nat /\ a * s = s * a
         /\ s * (a + b) = s * a + s * b /\ s * (a + 1) = s * a + s
  OBVIOUS

---------------------------------------------------------------------------
(* Sums.                                                                   *)

\* The units counted are finitely many.
LEMMA UnitsFinite ==
  ASSUME NEW k \in Nat, NEW f, \A j \in 1 .. k : f[j] \in Nat
  PROVE  IsFiniteSet(Units(f, k)) /\ SumTo(f, k) \in Nat
  <1> DEFINE F == [j \in 1 .. k |-> {j} \X (1 .. f[j])]
             SS == {{j} \X (1 .. f[j]) : j \in 1 .. k}
  <1>1. IsFiniteSet(1 .. k)
    BY FS_Interval
  <1>2. F \in Surjection(1 .. k, SS)
    BY DEF Surjection
  <1>3. IsFiniteSet(SS)
    <2> HIDE DEF F, SS
    <2>1. QED
      BY <1>1, <1>2, FS_Surjection
  <1>4. ASSUME NEW j \in 1 .. k
        PROVE  IsFiniteSet({j} \X (1 .. f[j]))
    <2> DEFINE w == f[j]
    <2>1. w \in Int
      OBVIOUS
    <2> HIDE DEF w
    <2>2. IsFiniteSet(1 .. w)
      BY <2>1, FS_Interval
    <2>3. IsFiniteSet({j})
      BY FS_Singleton, Zenon
    <2>4. IsFiniteSet({j} \X (1 .. w))
      BY <2>2, <2>3, FS_Product
    <2>5. QED
      BY <2>4 DEF w
  <1>5. IsFiniteSet(UNION SS)
    <2>1. \A T \in SS : IsFiniteSet(T)
      BY <1>4
    <2> HIDE DEF SS
    <2>2. QED
      BY <1>3, <2>1, FS_UNION
  <1>6. QED
    BY <1>5, FS_CardinalityType DEF Units, SumTo

\* A sum grows by its next term.
LEMMA SumStep ==
  ASSUME NEW k \in Nat, NEW f, \A j \in 1 .. k + 1 : f[j] \in Nat
  PROVE  SumTo(f, k + 1) = SumTo(f, k) + f[k + 1]
  <1> DEFINE U == Units(f, k)
             V == {k + 1} \X (1 .. f[k + 1])
  <1>1. f[k + 1] \in Nat /\ \A j \in 1 .. k : f[j] \in Nat
    OBVIOUS
  <1>2. IsFiniteSet(U) /\ Cardinality(U) \in Nat
    BY <1>1, UnitsFinite DEF SumTo
  <1>3. IsFiniteSet(V) /\ Cardinality(V) = f[k + 1]
    <2> DEFINE w == f[k + 1]
    <2>1. w \in Nat
      BY <1>1
    <2> HIDE DEF w
    <2>2. IsFiniteSet(1 .. w) /\ Cardinality(1 .. w) = w
      BY <2>1, FS_Interval
    <2>3. IsFiniteSet({k + 1}) /\ Cardinality({k + 1}) = 1
      BY FS_Singleton
    <2>4. IsFiniteSet({k + 1} \X (1 .. w)) /\ Cardinality({k + 1} \X (1 .. w)) = 1 * w
      <3>1. PICK A : A = {k + 1}
        OBVIOUS
      <3>2. PICK B : B = 1 .. w
        OBVIOUS
      <3>3. IsFiniteSet(A \X B) /\ Cardinality(A \X B) = Cardinality(A) * Cardinality(B)
        BY <2>2, <2>3, <3>1, <3>2, FS_Product, Zenon
      <3>4. QED
        BY <2>2, <2>3, <3>1, <3>2, <3>3, Zenon
    <2>5. QED
      BY <2>1, <2>4 DEF w
  <1>4. Units(f, k + 1) = U \cup V
    <2>1. 1 .. k + 1 = (1 .. k) \cup {k + 1}
      OBVIOUS
    <2>2. QED
      BY <2>1, Zenon DEF Units
  <1>5. U \cap V = {}
    <2>1. \A x \in U : x[1] \in 1 .. k
      BY DEF Units
    <2>2. \A x \in V : x[1] = k + 1
      OBVIOUS
    <2>3. k + 1 \notin 1 .. k
      OBVIOUS
    <2> HIDE DEF U, V
    <2>4. QED
      BY <2>1, <2>2, <2>3, Zenon
  <1> HIDE DEF U, V
  <1>6. Cardinality(U \cup V) = Cardinality(U) + Cardinality(V) - Cardinality(U \cap V)
    BY <1>2, <1>3, FS_Union
  <1>7. Cardinality(U \cap V) = 0
    BY <1>5, FS_EmptySet
  <1>8. Cardinality(U \cup V) = Cardinality(U) + f[k + 1]
    BY <1>1, <1>2, <1>3, <1>6, <1>7
  <1>9. QED
    BY <1>4, <1>8 DEF SumTo, U

LEMMA SumZero ==
  ASSUME NEW f
  PROVE  SumTo(f, 0) = 0
  <1>1. Units(f, 0) = {}
    BY DEF Units
  <1>2. QED
    BY <1>1, FS_EmptySet DEF SumTo

\* More terms, no smaller sum.
LEMMA SumMono ==
  ASSUME NEW k \in Nat, NEW l \in Nat, l <= k, NEW f, \A j \in 1 .. k : f[j] \in Nat
  PROVE  SumTo(f, l) <= SumTo(f, k)
  <1>1. Units(f, l) \in SUBSET Units(f, k)
    <2>1. 1 .. l \subseteq 1 .. k
      OBVIOUS
    <2>2. QED
      BY <2>1, Zenon DEF Units
  <1>2. QED
    BY <1>1, UnitsFinite, FS_Subset DEF SumTo

\* A sum depends on its terms only.
LEMMA SumSame ==
  ASSUME NEW k \in Nat, NEW f, NEW g, \A j \in 1 .. k : f[j] = g[j]
  PROVE  SumTo(f, k) = SumTo(g, k)
  <1>1. Units(f, k) = Units(g, k)
    BY DEF Units
  <1>2. QED
    BY <1>1 DEF SumTo
---------------------------------------------------------------------------
(* Counting good pages.                                                    *)

Total == PartBlocks * PagesPerBlock

Good(bs) == {p \in Pages : BlockOf(p) \notin bs}

\* The good pages before x.
Rank(bs, x) == Cardinality({q \in Good(bs) : q < x})

LEMMA PagesAre ==
  /\ Total \in Nat /\ Pages = 0 .. Total - 1
  /\ PagesPerBlock \in Nat \ {0} /\ PartBlocks \in Nat
  BY YaffsAssumption DEF Total, Pages

LEMMA GoodFinite ==
  ASSUME NEW bs, NEW S \in SUBSET Good(bs)
  PROVE  IsFiniteSet(S) /\ Cardinality(S) \in Nat /\ S \subseteq Nat
  <1>1. IsFiniteSet(0 .. Total - 1) /\ 0 .. Total - 1 \subseteq Nat
    <2> DEFINE z == Total - 1
    <2>1. z \in Int
      BY PagesAre
    <2> HIDE DEF z
    <2>2. IsFiniteSet(0 .. z) /\ 0 .. z \subseteq Nat
      BY <2>1, FS_Interval
    <2>3. QED
      BY <2>2 DEF z
  <1>2. S \in SUBSET (0 .. Total - 1)
    BY PagesAre DEF Good
  <1>3. QED
    BY <1>1, <1>2, FS_Subset, FS_CardinalityType

LEMMA GoodType ==
  ASSUME NEW bs
  PROVE  Good(bs) \subseteq Nat
  BY PagesAre DEF Good

LEMMA RankType ==
  ASSUME NEW bs, NEW x \in Nat
  PROVE  Rank(bs, x) \in Nat
  <1>1. {q \in Good(bs) : q < x} \in SUBSET Good(bs)
    OBVIOUS
  <1>2. QED
    BY <1>1, GoodFinite DEF Rank

\* A good page adds one.
LEMMA RankStep ==
  ASSUME NEW bs, NEW x \in Good(bs)
  PROVE  Rank(bs, x + 1) = Rank(bs, x) + 1
  <1> DEFINE A == {q \in Good(bs) : q < x}
             B == {q \in Good(bs) : q < x + 1}
  <1>1. IsFiniteSet(A) /\ Cardinality(A) \in Nat
    <2>1. A \in SUBSET Good(bs)
      OBVIOUS
    <2>2. QED
      BY <2>1, GoodFinite
  <1>2. B = A \cup {x} /\ x \notin A
    <2>1. \A q \in Good(bs) : q \in Nat
      BY GoodType
    <2>2. \A q \in Good(bs) : (q < x + 1 <=> q < x \/ q = x)
      BY <2>1
    <2>3. ~(x < x)
      BY <2>1
    <2>4. QED
      BY <2>2, <2>3, Zenon
  <1> HIDE DEF A, B
  <1>3. Cardinality(A \cup {x}) = Cardinality(A) + 1
    BY <1>1, <1>2, FS_AddElement
  <1>4. QED
    BY <1>2, <1>3 DEF A, B, Rank

\* Pages of bad blocks add nothing.
LEMMA RankGap ==
  ASSUME NEW bs, NEW a \in Nat, NEW b \in Nat, a <= b,
         \A p \in Good(bs) : ~(a <= p /\ p < b)
  PROVE  Rank(bs, b) = Rank(bs, a)
  <1>1. \A q \in Good(bs) : q \in Nat
    BY GoodType
  <1>2. \A q \in Good(bs) : (q < a <=> q < b)
    BY <1>1
  <1>3. {q \in Good(bs) : q < b} = {q \in Good(bs) : q < a}
    BY <1>2, Zenon
  <1>4. QED
    BY <1>3 DEF Rank

LEMMA RankMono ==
  ASSUME NEW bs, NEW a \in Nat, NEW b \in Nat, a <= b
  PROVE  Rank(bs, a) <= Rank(bs, b)
  <1> DEFINE A == {q \in Good(bs) : q < a}
             B == {q \in Good(bs) : q < b}
  <1>1. A \in SUBSET B
    <2>1. \A q \in Good(bs) : q \in Nat
      BY GoodType
    <2>2. \A q \in Good(bs) : q < a => q < b
      BY <2>1
    <2>3. QED
      BY <2>2
  <1>2. IsFiniteSet(B)
    <2>1. B \in SUBSET Good(bs)
      OBVIOUS
    <2>2. QED
      BY <2>1, GoodFinite
  <1> HIDE DEF A, B
  <1>3. QED
    BY <1>1, <1>2, FS_Subset DEF A, B, Rank

---------------------------------------------------------------------------
(* yaffs_put_page.                                                         *)

\* A place at a block boundary, with what is left of the partition behind it.
LEMMA AtBlock ==
  ASSUME NEW o \in Nat, AtBoundary(o), o < Total
  PROVE  \E b \in Nat : /\ b < PartBlocks /\ o = PagesPerBlock * b
                        /\ \A j \in Nat : /\ BlockOf(o + j * PagesPerBlock) = b + j
                                          /\ j * PagesPerBlock = PagesPerBlock * j
                                          /\ o + j * PagesPerBlock = PagesPerBlock * (b + j)
  <1> DEFINE P == PagesPerBlock
  <1>0. P \in Nat \ {0} /\ P \in Nat /\ Total = P * PartBlocks /\ PartBlocks \in Nat
    BY PagesAre DEF Total
  <1>1. PICK b \in Nat : o = P * b
    BY <1>0, Multiple, DivBounds DEF AtBoundary
  <1> HIDE DEF P
  <1>2. b < PartBlocks
    BY <1>0, <1>1, MulCancel
  <1>3. ASSUME NEW j \in Nat
        PROVE  (o + j * P) \div P = b + j /\ j * P = P * j /\ o + j * P = P * (b + j)
    <2>1. j * P = P * j /\ P * (b + j) = P * b + P * j /\ b + j \in Nat
      BY <1>0, MulSum
    <2>2. o + j * P = P * (b + j)
      BY <1>1, <2>1
    <2>3. QED
      BY <1>0, <2>1, <2>2, MultipleOf
  <1>4. QED
    BY <1>1, <1>2, <1>3 DEF P, BlockOf

\* What a block holds.
LEMMA InBlock ==
  ASSUME NEW p \in Nat, NEW b \in Nat
  PROVE  /\ BlockOf(p) \in Nat
         /\ BlockOf(p) = b => PagesPerBlock * b <= p /\ p < PagesPerBlock * b + PagesPerBlock
         /\ PagesPerBlock * b <= p /\ p < PagesPerBlock * b + PagesPerBlock => BlockOf(p) = b
  BY PagesAre, DivBounds, DivUnique DEF BlockOf
\* The blocks skipped: all bad, so no good page is passed by; and when the
\* place reached is bad still, it is the last block.
LEMMA SkipsTo ==
  ASSUME NEW o \in Nat, NEW r \in Nat, o + r = Total, r > 0,
         NEW s, s = Skips(o, r),
         NEW o2, o2 = o + s * PagesPerBlock
  PROVE  /\ s \in Nat /\ s * PagesPerBlock \in Nat
         /\ o2 \in Nat /\ o <= o2 /\ o2 < Total
         /\ \A p \in Good(bad) : ~(o <= p /\ p < o2)
         /\ AtBoundary(o) => AtBoundary(o2)
         /\ ~AtBoundary(o) => o2 = o
         /\ AtBoundary(o) /\ IsBad(o2) => \A p \in Good(bad) : p < o2
  <1> DEFINE P == PagesPerBlock
  <1>0. P \in Nat \ {0} /\ P \in Nat /\ Total = P * PartBlocks /\ PartBlocks \in Nat
        /\ Total \in Nat /\ Pages = 0 .. Total - 1
    BY PagesAre DEF Total
  <1>b. P \in Nat /\ Total \in Nat /\ o + r = Total
    BY <1>0
  <1>a. \A p \in Good(bad) : p \in Nat /\ p < Total /\ BlockOf(p) \notin bad
    BY <1>0 DEF Good
  <1>1. CASE ~AtBoundary(o)
    <2>1. s = 0
      BY <1>1 DEF Skips
    <2>2. s * P = 0 /\ o2 = o
      BY <1>0, <2>1
    <2>3. QED
      BY <1>0, <1>1, <1>a, <2>1, <2>2
  <1>2. CASE AtBoundary(o)
    <2> DEFINE On(j) == IsBad(o + j * P) /\ MaySkip(r - j * P)
               Stops(k) == (\A j \in 0 .. k - 1 : On(j)) /\ ~On(k)
               T == {k \in Nat : ~On(k)}
    <2>1. PICK b \in Nat :
            /\ b < PartBlocks /\ o = P * b
            /\ \A j \in Nat : /\ BlockOf(o + j * P) = b + j
                              /\ j * P = P * j
                              /\ o + j * P = P * (b + j)
      <3>1. o < Total
        BY <1>0
      <3>2. QED
        BY <1>2, <3>1, AtBlock
    <2>2. PartBlocks - 1 - b \in T
      <3> DEFINE k == PartBlocks - 1 - b
      <3>1. k \in Nat /\ b + k + 1 = PartBlocks /\ b + k \in Nat
        BY <1>0, <2>1
      <3> HIDE DEF k
      <3>2. o + k * P = P * (b + k) /\ k * P = P * k
        BY <2>1, <3>1
      <3>3. P * (b + k + 1) = P * (b + k) + P /\ P * k \in Nat /\ P * (b + k) \in Nat
        BY <1>0, <3>1, MulSum
      <3>4. r - k * P = P
        BY <1>0, <3>1, <3>2, <3>3
      <3>5. ~MaySkip(r - k * P)
        BY <1>0, <3>4 DEF MaySkip
      <3>6. QED
        BY <3>1, <3>5 DEF k
    <2>3. PICK x \in T : \A y \in T : x <= y
      <3>1. T \subseteq Nat /\ T # {}
        BY <2>2
      <3> HIDE DEF T
      <3>2. QED
        BY <3>1, Least
    <2>4. x \in 0 .. PartBlocks
      <3> DEFINE k == PartBlocks - 1 - b
      <3>1. k \in T /\ k <= PartBlocks /\ k \in Nat
        BY <1>0, <2>1, <2>2
      <3>2. x <= k /\ x \in Nat
        BY <2>3, <3>1
      <3> HIDE DEF k
      <3>3. QED
        BY <1>0, <3>1, <3>2
    <2>5. Stops(x)
      <3>1. ~On(x)
        BY <2>3
      <3>2. ASSUME NEW j \in 0 .. x - 1 PROVE On(j)
        <4>1. j \in Nat /\ ~(x <= j)
          BY <2>4
        <4>2. j \notin T
          BY <2>3, <4>1
        <4> HIDE DEF On
        <4>3. QED
          BY <4>1, <4>2
      <3> HIDE DEF On
      <3>3. QED
        BY <3>1, <3>2
    <2>6. s \in 0 .. PartBlocks /\ Stops(s)
      <3>1. s = CHOOSE k \in 0 .. PartBlocks : Stops(k)
        BY <1>2 DEF Skips
      <3> HIDE DEF Stops
      <3>2. QED
        BY <2>4, <2>5, <3>1
    <2>7. /\ s \in Nat /\ s * P = P * s /\ P * s \in Nat
          /\ o2 = P * (b + s) /\ BlockOf(o2) = b + s /\ o2 \in Nat /\ o <= o2
          /\ b + s \in Nat
      <3>1. s \in Nat /\ b + s \in Nat
        BY <1>0, <2>6, SMTT(30)
      <3>2. /\ s * P = P * s /\ BlockOf(o + s * P) = b + s
            /\ o + s * P = P * (b + s)
        BY <2>1, <3>1
      <3>3. P * s \in Nat
        BY <1>0, <3>1, MulSum
      <3>4. o2 = o + s * P
        OBVIOUS
      <3>5. o2 \in Nat /\ o <= o2
        BY <3>2, <3>3, <3>4
      <3>6. QED
        BY <3>1, <3>2, <3>3, <3>4, <3>5
    <2>8. o2 < Total
      <3>1. CASE s = 0
        BY <1>0, <2>7, <3>1
      <3>2. CASE s # 0
        <4> DEFINE j == s - 1
        <4>1. j \in Nat /\ j \in 0 .. s - 1 /\ s = j + 1
          BY <2>6, <3>2
        <4>2. MaySkip(r - j * P)
          BY <2>6, <4>1
        <4> HIDE DEF j
        <4>3. j * P = P * j /\ P * (j + 1) = P * j + P /\ P * j \in Nat
          BY <1>0, <4>1, MulSum
        <4>4. r - P * s > 0
          BY <1>0, <4>1, <4>2, <4>3 DEF MaySkip
        <4>5. PICK d \in Nat : d = P * s
          BY <2>7
        <4>6. o2 = o + d /\ r - d > 0
          BY <2>7, <4>4, <4>5
        <4>7. QED
          BY <1>b, <4>5, <4>6
      <3>3. QED
        BY <3>1, <3>2
    <2>9. ASSUME NEW p \in Good(bad), o <= p, p < o2
          PROVE  FALSE
      <3>1. p \in Nat /\ BlockOf(p) \notin bad
        BY <1>a
      <3>2. PICK c \in Nat : c = BlockOf(p)
        BY <3>1, InBlock
      <3>3. P * c <= p /\ p < P * c + P /\ P * (c + 1) = P * c + P
            /\ P * c \in Nat /\ c + 1 \in Nat
        <4>1. P * c <= p /\ p < P * c + P
          BY <3>1, <3>2, InBlock
        <4>2. QED
          BY <1>0, <4>1, MulSum
      <3>4. c < b + s
        <4>1. P * c < P * (b + s)
          BY <2>7, <2>9, <3>1, <3>3
        <4>2. QED
          BY <1>0, <2>7, <4>1, MulCancel
      <3>5. b < c + 1
        BY <1>0, <2>1, <2>9, <3>1, <3>3, MulCancel
      <3>6. c - b \in Nat /\ c - b \in 0 .. s - 1 /\ b + (c - b) = c
        BY <2>6, <3>4, <3>5
      <3>7. IsBad(o + (c - b) * P)
        BY <2>6, <3>6
      <3>8. BlockOf(o + (c - b) * P) = c
        BY <2>1, <3>6
      <3>9. QED
        BY <3>1, <3>2, <3>7, <3>8 DEF IsBad
    <2>10. AtBoundary(o2)
      BY <1>0, <2>7, MultipleOf, SMTT(30) DEF AtBoundary
    <2>11. ASSUME IsBad(o2), NEW p \in Good(bad)
           PROVE  p < o2
      <3>1. ~On(s) /\ IsBad(o + s * P)
        BY <2>6, <2>11
      <3>2. ~MaySkip(r - s * P)
        BY <3>1
      <3>3. Total - o2 <= P
        <4>1. PICK d \in Nat : d = P * s
          BY <2>7
        <4>2. ~(r - d > P) /\ o2 = o + d
          BY <2>7, <3>2, <4>1 DEF MaySkip
        <4>3. QED
          BY <1>b, <4>1, <4>2
      <3>4. p \in Nat /\ p < Total /\ BlockOf(p) \notin bad
        BY <1>a
      <3>5. SUFFICES ASSUME o2 <= p PROVE FALSE
        BY <2>7, <3>4
      <3>6. P * (b + s) <= p /\ p < P * (b + s) + P
        <4>1. o2 <= p /\ p < o2 + P
          <5>1. o2 \in Nat
            BY <2>7
          <5>2. QED
            BY <1>b, <3>3, <3>4, <3>5, <5>1
        <4>2. QED
          BY <2>7, <4>1
      <3>7. BlockOf(p) = b + s
        BY <2>7, <3>4, <3>6, InBlock
      <3>8. QED
        BY <2>7, <2>11, <3>4, <3>7 DEF IsBad
    <2>12. QED
      BY <1>2, <2>7, <2>8, <2>9, <2>10, <2>11
  <1>3. QED
    BY <1>1, <1>2
IsSeq(s) == \E S : s \in Seq(S)

LEMMA AppendIs ==
  ASSUME NEW s, IsSeq(s), NEW e
  PROVE  /\ IsSeq(Append(s, e)) /\ Len(s) \in Nat
         /\ Len(Append(s, e)) = Len(s) + 1
         /\ Append(s, e)[Len(s) + 1] = e
         /\ \A i \in 1 .. Len(s) : Append(s, e)[i] = s[i]
  <1>1. PICK S : s \in Seq(S)
    BY DEF IsSeq
  <1>2. s \in Seq(S \cup {e}) /\ e \in S \cup {e}
    BY <1>1
  <1>3. QED
    BY <1>2 DEF IsSeq

\* What the pages of the partition hold when the place reached is o and the
\* pages s were put.
Fresh(p) == IF BlockOf(p) \in ErasedBlocks THEN Erased ELSE Old

Wanted(bs, o, s, p) ==
  IF BlockOf(p) \in bs THEN Old
  ELSE IF ~(p < o) THEN Fresh(p)
  ELSE IF BlockOf(p) \in ErasedBlocks THEN s[Rank(bs, p + 1)] ELSE Torn

\* The pages put fill the good pages before o; more of them are put only
\* when there is no good page left.
Placed(bs, o, r, f, s) ==
  /\ o \in Nat /\ r \in Nat /\ o + r = Total
  /\ IsSeq(s)
  /\ AtBoundary(o) \/ BlockOf(o) \notin bs
  /\ Rank(bs, o) <= Len(s)
  /\ Len(s) = Rank(bs, o) \/ \A p \in Good(bs) : p < o
  /\ \A p \in Pages : f[p] = Wanted(bs, o, s, p)

Record(o, r, f, s) == [offs |-> o, part |-> r, flash |-> f, put |-> s]

\* A page that is dropped leaves what was put before where it is.
LEMMA Dropped ==
  ASSUME NEW o, NEW r, NEW f, NEW s, NEW page, Placed(bad, o, r, f, s),
         NEW o2 \in Nat, NEW r2 \in Nat, o2 + r2 = Total, o <= o2,
         AtBoundary(o2) \/ BlockOf(o2) \notin bad,
         \A p \in Good(bad) : ~(o <= p /\ p < o2),
         \A p \in Good(bad) : p < o2
  PROVE  Placed(bad, o2, r2, f, Append(s, page))
  <1> DEFINE t == Append(s, page)
  <1>1. /\ o \in Nat /\ Rank(bad, o) \in Nat /\ Rank(bad, o) <= Len(s)
        /\ Rank(bad, o2) = Rank(bad, o) /\ IsSeq(s)
    BY RankType, RankGap DEF Placed
  <1>2. /\ IsSeq(t) /\ Len(t) = Len(s) + 1 /\ Len(s) \in Nat
        /\ \A i \in 1 .. Len(s) : t[i] = s[i]
    BY <1>1, AppendIs
  <1> HIDE DEF t
  <1>3. Rank(bad, o2) <= Len(t)
    BY <1>1, <1>2
  <1>4. ASSUME NEW p \in Pages
        PROVE  Wanted(bad, o2, t, p) = Wanted(bad, o, s, p)
    <2>1. CASE BlockOf(p) \in bad
      BY <2>1 DEF Wanted
    <2>2. CASE BlockOf(p) \notin bad
      <3>1. p \in Good(bad) /\ p \in Nat
        BY <2>2, GoodType DEF Good
      <3>2. p < o /\ p < o2
        BY <1>1, <3>1
      <3>3. Rank(bad, p + 1) \in 1 .. Len(s)
        <4>1. /\ Rank(bad, p + 1) = Rank(bad, p) + 1
              /\ Rank(bad, p) \in Nat
          BY <3>1, RankStep, RankType
        <4>2. Rank(bad, p + 1) <= Rank(bad, o)
          BY <1>1, <3>1, <3>2, RankMono
        <4>3. QED
          BY <1>1, <1>2, <4>1, <4>2
      <3>4. t[Rank(bad, p + 1)] = s[Rank(bad, p + 1)]
        BY <1>2, <3>3
      <3>5. QED
        BY <3>2, <3>4 DEF Wanted
    <2>3. QED
      BY <2>1, <2>2
  <1>5. \A p \in Pages : f[p] = Wanted(bad, o2, t, p)
    BY <1>4 DEF Placed
  <1>6. QED
    BY <1>2, <1>3, <1>5 DEF Placed, t

\* A page that is written is the next of the good pages.
LEMMA Written ==
  ASSUME NEW o, NEW r, NEW f, NEW s, NEW page, Placed(bad, o, r, f, s),
         NEW o2 \in Nat, NEW r2 \in Nat, o2 + r2 = Total, o <= o2, o2 < Total,
         \A p \in Good(bad) : ~(o <= p /\ p < o2),
         BlockOf(o2) \notin bad
  PROVE  Placed(bad, o2 + 1, r2 - 1, Program(f, o2, page), Append(s, page))
  <1> DEFINE t == Append(s, page)
             g == Program(f, o2, page)
  <1>1. o2 \in Good(bad) /\ o2 \in Pages
    BY PagesAre DEF Good
  <1>2. /\ o \in Nat /\ Rank(bad, o) \in Nat
        /\ Rank(bad, o2) = Rank(bad, o) /\ IsSeq(s)
        /\ Len(s) = Rank(bad, o) \/ \A p \in Good(bad) : p < o
    BY RankType, RankGap DEF Placed
  <1>3. Len(s) = Rank(bad, o)
    <2>1. ~(o2 < o)
      BY <1>2
    <2>2. QED
      BY <1>1, <1>2, <2>1
  <1>4. /\ IsSeq(t) /\ Len(t) = Len(s) + 1 /\ Len(s) \in Nat /\ t[Len(s) + 1] = page
        /\ \A i \in 1 .. Len(s) : t[i] = s[i]
    BY <1>2, AppendIs
  <1>5. Rank(bad, o2 + 1) = Len(s) + 1
    BY <1>1, <1>2, <1>3, RankStep
  <1>6. AtBoundary(o2 + 1) \/ BlockOf(o2 + 1) \notin bad
    <2>1. PagesPerBlock \in Nat \ {0} /\ PagesPerBlock \in Nat
      BY PagesAre
    <2>2. PICK b \in Nat : b = BlockOf(o2)
      BY InBlock
    <2>3. /\ PagesPerBlock * b <= o2 /\ o2 < PagesPerBlock * b + PagesPerBlock
          /\ PagesPerBlock * (b + 1) = PagesPerBlock * b + PagesPerBlock
          /\ PagesPerBlock * b \in Nat
      BY <2>1, <2>2, InBlock, MulSum
    <2>4. CASE o2 + 1 = PagesPerBlock * (b + 1)
      <3>1. (PagesPerBlock * (b + 1)) % PagesPerBlock = 0
        BY <2>1, MultipleOf
      <3>2. QED
        BY <2>4, <3>1 DEF AtBoundary
    <2>5. CASE o2 + 1 # PagesPerBlock * (b + 1)
      <3>1. o2 + 1 < PagesPerBlock * b + PagesPerBlock /\ PagesPerBlock * b <= o2 + 1
        BY <2>1, <2>3, <2>5
      <3>2. BlockOf(o2 + 1) = b
        BY <3>1, InBlock
      <3>3. QED
        BY <2>2, <3>2
    <2>6. QED
      BY <2>4, <2>5
  <1>7. ASSUME NEW p \in Pages
        PROVE  g[p] = Wanted(bad, o2 + 1, t, p)
    <2>0. p \in Nat
      BY PagesAre
    <2>1. g[p] = IF p # o2 THEN f[p] ELSE IF f[o2] = Erased THEN page ELSE Torn
      BY DEF Program
    <2>2. f[p] = Wanted(bad, o, s, p) /\ f[o2] = Wanted(bad, o, s, o2)
      BY <1>1 DEF Placed
    <2> HIDE DEF t, g
    <2>3. CASE p = o2
      <3>1. f[o2] = Fresh(o2)
        BY <1>2, <2>2 DEF Wanted
      <3>2. p < o2 + 1 /\ t[Rank(bad, p + 1)] = page
        BY <1>4, <1>5, <2>3
      <3>3. Old # Erased
        BY DEF Old, Erased
      <3>4. QED
        BY <2>1, <2>3, <3>1, <3>2, <3>3 DEF Wanted, Fresh
    <2>4. CASE p # o2 /\ BlockOf(p) \in bad
      BY <2>1, <2>2, <2>4 DEF Wanted
    <2>5. CASE p # o2 /\ BlockOf(p) \notin bad
      <3>1. p \in Good(bad)
        BY <2>5 DEF Good
      <3>2. (p < o2 + 1) <=> (p < o)
        BY <1>2, <2>0, <2>5, <3>1
      <3>3. CASE ~(p < o)
        BY <2>1, <2>2, <2>5, <3>2, <3>3 DEF Wanted
      <3>4. CASE p < o
        <4>1. Rank(bad, p + 1) = Rank(bad, p) + 1 /\ Rank(bad, p) \in Nat
          BY <2>0, <3>1, RankStep, RankType
        <4>2. Rank(bad, p + 1) <= Rank(bad, o)
          BY <1>2, <2>0, <3>4, RankMono
        <4>3. Rank(bad, p + 1) \in 1 .. Len(s)
          BY <1>2, <1>3, <4>1, <4>2
        <4>4. t[Rank(bad, p + 1)] = s[Rank(bad, p + 1)]
          BY <1>4, <4>3
        <4>5. QED
          BY <2>1, <2>2, <2>5, <3>2, <3>4, <4>4 DEF Wanted
      <3>5. QED
        BY <3>3, <3>4
    <2>6. QED
      BY <2>3, <2>4, <2>5
  <1> HIDE DEF t, g
  <1>8. /\ o2 + 1 \in Nat /\ r2 - 1 \in Nat /\ (o2 + 1) + (r2 - 1) = Total
        /\ Rank(bad, o2 + 1) <= Len(t) /\ Len(t) = Rank(bad, o2 + 1)
    BY <1>4, <1>5, PagesAre
  <1>9. QED
    BY <1>4, <1>6, <1>7, <1>8 DEF Placed, t, g

\* One call of yaffs_put_page, written or dropped.
LEMMA PutPage ==
  ASSUME NEW o, NEW r, NEW f, NEW s, NEW page, Placed(bad, o, r, f, s)
  PROVE  \E o2, r2, f2 :
           /\ yaffs_put_page(Record(o, r, f, s), page) = Record(o2, r2, f2, Append(s, page))
           /\ Placed(bad, o2, r2, f2, Append(s, page))
  <1> DEFINE st == Record(o, r, f, s)
             k == Skips(o, r)
             o2 == o + k * PagesPerBlock
             r2 == r - k * PagesPerBlock
  <1>1. o \in Nat /\ r \in Nat /\ o + r = Total /\ Total \in Nat
    BY PagesAre DEF Placed
  <1>2. st.offs = o /\ st.part = r /\ st.flash = f /\ st.put = s
    BY DEF Record
  <1>3. CASE r <= 0
    <2>1. yaffs_put_page(st, page) = Record(o, r, f, Append(s, page))
      BY <1>3 DEF yaffs_put_page, Record
    <2>2. \A p \in Good(bad) : p < o /\ ~(o <= p /\ p < o)
      <3>1. o = Total
        BY <1>1, <1>3
      <3>2. \A p \in Good(bad) : p \in Nat /\ p < Total
        BY PagesAre DEF Good
      <3>3. QED
        BY <1>1, <3>1, <3>2
    <2>3. AtBoundary(o) \/ BlockOf(o) \notin bad
      BY DEF Placed
    <2>4. Placed(bad, o, r, f, Append(s, page))
      BY <1>1, <2>2, <2>3, Dropped
    <2>5. QED
      BY <2>1, <2>4
  <1>4. CASE r > 0
    <2>1. /\ k \in Nat /\ k * PagesPerBlock \in Nat
          /\ o2 \in Nat /\ o <= o2 /\ o2 < Total
          /\ \A p \in Good(bad) : ~(o <= p /\ p < o2)
          /\ AtBoundary(o) => AtBoundary(o2)
          /\ ~AtBoundary(o) => o2 = o
          /\ AtBoundary(o) /\ IsBad(o2) => \A p \in Good(bad) : p < o2
      <3>1. k = Skips(o, r) /\ o2 = o + k * PagesPerBlock
        OBVIOUS
      <3> HIDE DEF k, o2
      <3>2. \A x, y : x = Skips(o, r) /\ y = o + x * PagesPerBlock =>
              /\ x \in Nat /\ x * PagesPerBlock \in Nat
              /\ y \in Nat /\ o <= y /\ y < Total
              /\ \A p \in Good(bad) : ~(o <= p /\ p < y)
              /\ AtBoundary(o) => AtBoundary(y)
              /\ ~AtBoundary(o) => y = o
              /\ AtBoundary(o) /\ IsBad(y) => \A p \in Good(bad) : p < y
        BY <1>1, <1>4, SkipsTo
      <3>3. QED
        BY <3>1, <3>2, Zenon
    <2>2. yaffs_put_page(st, page) =
            IF AtBoundary(o2) /\ IsBad(o2) THEN Record(o2, r2, f, Append(s, page))
            ELSE Record(o2 + 1, r2 - 1, Program(f, o2, page), Append(s, page))
      <3>1. yaffs_put_page(st, page) =
              IF r <= 0 THEN [st EXCEPT !.put = Append(s, page)]
              ELSE IF AtBoundary(o2) /\ IsBad(o2)
                THEN [st EXCEPT !.offs = o2, !.part = r2, !.put = Append(s, page)]
              ELSE [offs |-> o2 + 1, part |-> r2 - 1, put |-> Append(s, page),
                    flash |-> Program(f, o2, page)]
        BY <1>2 DEF yaffs_put_page
      <3>2. ~(r <= 0)
        BY <1>1, <1>4
      <3> HIDE DEF k, o2, r2
      <3>3. [st EXCEPT !.offs = o2, !.part = r2, !.put = Append(s, page)] =
              Record(o2, r2, f, Append(s, page))
        <4> DEFINE t == Append(s, page)
        <4> HIDE DEF t
        <4>1. [Record(o, r, f, s) EXCEPT !.offs = o2] = Record(o2, r, f, s)
          BY DEF Record
        <4>2. [Record(o2, r, f, s) EXCEPT !.part = r2] = Record(o2, r2, f, s)
          BY DEF Record
        <4>3. [Record(o2, r2, f, s) EXCEPT !.put = t] = Record(o2, r2, f, t)
          BY DEF Record
        <4>4. [st EXCEPT !.offs = o2, !.part = r2, !.put = t] = Record(o2, r2, f, t)
          BY <4>1, <4>2, <4>3
        <4>5. QED
          BY <4>4 DEF t
      <3>4. [offs |-> o2 + 1, part |-> r2 - 1, put |-> Append(s, page),
             flash |-> Program(f, o2, page)] =
              Record(o2 + 1, r2 - 1, Program(f, o2, page), Append(s, page))
        BY DEF Record
      <3> HIDE DEF st
      <3>5. QED
        BY <3>1, <3>2, <3>3, <3>4
    <2> HIDE DEF st, k, o2, r2
    <2>3. r2 \in Nat /\ o2 + r2 = Total
      <3> DEFINE d == k * PagesPerBlock
      <3>1. d \in Nat /\ o2 = o + d /\ r2 = r - d
        BY <2>1 DEF o2, r2
      <3> HIDE DEF d
      <3>2. QED
        BY <1>1, <2>1, <3>1
    <2>4. CASE AtBoundary(o2) /\ IsBad(o2)
      <3>1. AtBoundary(o)
        BY <2>1, <2>4
      <3>2. Placed(bad, o2, r2, f, Append(s, page))
        BY <2>1, <2>3, <2>4, <3>1, Dropped
      <3>3. QED
        BY <2>2, <2>4, <3>2 DEF st
    <2>5. CASE ~(AtBoundary(o2) /\ IsBad(o2))
      <3>1. BlockOf(o2) \notin bad
        BY <2>1, <2>5 DEF Placed, IsBad
      <3>2. Placed(bad, o2 + 1, r2 - 1, Program(f, o2, page), Append(s, page))
        BY <2>1, <2>3, <3>1, Written
      <3>3. QED
        BY <2>2, <2>5, <3>2 DEF st
    <2>6. QED
      BY <2>4, <2>5
  <1>5. QED
    BY <1>1, <1>3, <1>4
LEMMA PutOnce ==
  ASSUME Placed(bad, yaffs_offs, yaffs_part, flash, put), NEW page,
         Became(yaffs_put_page(Out, page))
  PROVE  /\ put' = Append(put, page)
         /\ Placed(bad, yaffs_offs', yaffs_part', flash', put')
  <1>1. Out = Record(yaffs_offs, yaffs_part, flash, put)
    BY DEF Out, Record
  <1>2. PICK o2, r2, f2 :
           /\ yaffs_put_page(Out, page) = Record(o2, r2, f2, Append(put, page))
           /\ Placed(bad, o2, r2, f2, Append(put, page))
    BY <1>1, PutPage
  <1>3. /\ yaffs_offs' = o2 /\ yaffs_part' = r2 /\ flash' = f2
        /\ put' = Append(put, page)
    BY <1>2 DEF Became, Record
  <1>4. QED
    BY <1>2, <1>3

LEMMA PutTwice ==
  ASSUME Placed(bad, yaffs_offs, yaffs_part, flash, put), NEW first, NEW second,
         Became(yaffs_put_page(yaffs_put_page(Out, first), second))
  PROVE  /\ put' = Append(Append(put, first), second)
         /\ Placed(bad, yaffs_offs', yaffs_part', flash', put')
  <1>1. Out = Record(yaffs_offs, yaffs_part, flash, put)
    BY DEF Out, Record
  <1>2. PICK o2, r2, f2 :
           /\ yaffs_put_page(Out, first) = Record(o2, r2, f2, Append(put, first))
           /\ Placed(bad, o2, r2, f2, Append(put, first))
    BY <1>1, PutPage
  <1>3. PICK o3, r3, f3 :
           /\ yaffs_put_page(Record(o2, r2, f2, Append(put, first)), second)
                = Record(o3, r3, f3, Append(Append(put, first), second))
           /\ Placed(bad, o3, r3, f3, Append(Append(put, first), second))
    <2>1. PICK s : s = Append(put, first)
      OBVIOUS
    <2>2. Placed(bad, o2, r2, f2, s)
      BY <1>2, <2>1
    <2>3. QED
      BY <2>1, <2>2, PutPage, Zenon
  <1>4. /\ yaffs_offs' = o3 /\ yaffs_part' = r3 /\ flash' = f3
        /\ put' = Append(Append(put, first), second)
    <2>1. yaffs_put_page(yaffs_put_page(Out, first), second)
            = Record(o3, r3, f3, Append(Append(put, first), second))
      BY <1>2, <1>3, Zenon
    <2>2. Became(Record(o3, r3, f3, Append(Append(put, first), second)))
      BY <2>1, Zenon
    <2>3. QED
      BY <2>2 DEF Became, Record
  <1>5. QED
    BY <1>3, <1>4

---------------------------------------------------------------------------
(* Where the pages end up.                                                 *)

\* Inductive invariant of the place: nothing is put before the erase, and
\* from then on the pages put are placed.
PlaceInv ==
  /\ pc = "start" => yaffs_offs = 0 /\ yaffs_part = Total /\ put = <<>>
  /\ pc # "start" => Placed(bad, yaffs_offs, yaffs_part, flash, put)

LEMMA PlaceErase == PlaceInv /\ yaffs_burn => PlaceInv'
  <1> SUFFICES ASSUME PlaceInv, yaffs_burn
               PROVE  PlaceInv'
    OBVIOUS
  <1>1. /\ pc' = "conv" /\ bad' = bad /\ yaffs_offs' = 0 /\ yaffs_part' = Total
        /\ put' = <<>>
        /\ flash' = [p \in Pages |-> IF BlockOf(p) \in ErasedBlocks \ bad
                                       THEN Erased ELSE Old]
    BY DEF PlaceInv, yaffs_burn
  <1>2. Rank(bad, 0) = 0
    <2>1. \A q \in Good(bad) : ~(q < 0)
      BY GoodType
    <2>2. {q \in Good(bad) : q < 0} = {}
      BY <2>1, Zenon
    <2>3. QED
      BY <2>2, FS_EmptySet DEF Rank
  <1>3. AtBoundary(0)
    BY PagesAre DEF AtBoundary
  <1>4. IsSeq(<<>>) /\ Len(<<>>) = 0
    BY DEF IsSeq
  <1>5. ASSUME NEW p \in Pages
        PROVE  flash'[p] = Wanted(bad, 0, <<>>, p)
    <2>1. ~(p < 0)
      BY PagesAre
    <2>2. QED
      BY <1>1, <2>1 DEF Wanted, Fresh
  <1>6. Total \in Nat /\ 0 + Total = Total
    BY PagesAre
  <1>7. Placed(bad, 0, Total, flash', <<>>)
    BY <1>2, <1>3, <1>4, <1>5, <1>6 DEF Placed
  <1>8. QED
    BY <1>1, <1>7 DEF PlaceInv

LEMMA PlaceStep == PlaceInv /\ [Next]_vars => PlaceInv'
  <1> SUFFICES ASSUME PlaceInv, [Next]_vars
               PROVE  PlaceInv'
    OBVIOUS
  <1>a. ASSUME Placed(bad, yaffs_offs', yaffs_part', flash', put'),
               bad' = bad, pc' # "start"
        PROVE  PlaceInv'
    BY <1>a DEF PlaceInv
  <1>1. CASE yaffs_burn
    BY <1>1, PlaceErase
  <1>2. CASE Direct
    <2>1. PICK page : page = PageAt(Loaded, 0)
      OBVIOUS
    <2>2. /\ pc = "conv" /\ pc' = pc /\ bad' = bad
          /\ Became(yaffs_put_page(Out, page))
      BY <1>2, <2>1 DEF Direct, GetPage
    <2>3. QED
      BY <1>a, <2>2, PutOnce DEF PlaceInv
  <1>3. CASE HeaderPage
    <2>1. PICK m : /\ m = IF sub > 0 THEN FitBoth(Loaded, sub, Grouped(bk, bytes))
                          ELSE [Loaded EXCEPT ![iodiv] = Loaded[1]]
      OBVIOUS
    <2>2. PICK first, second : first = PageAt(m, 0) /\ second = PageAt(m, sub)
      OBVIOUS
    <2>3. /\ pc = "conv" /\ pc' = pc /\ bad' = bad
          /\ Became(IF sub > 0
                      THEN yaffs_put_page(yaffs_put_page(Out, first), second)
                      ELSE yaffs_put_page(Out, first))
      BY <1>3, <2>1, <2>2 DEF HeaderPage, GetPage
    <2>4. CASE sub > 0
      BY <1>a, <2>3, <2>4, PutTwice DEF PlaceInv
    <2>5. CASE ~(sub > 0)
      BY <1>a, <2>3, <2>5, PutOnce DEF PlaceInv
    <2>6. QED
      BY <2>4, <2>5
  <1>4. CASE DataPage
    <2>1. PICK m : m = [Loaded EXCEPT ![iodiv] =
                          Grouped(Loaded[iodiv], bytes + Input(n + 1).byteCount)]
      OBVIOUS
    <2>2. PICK page : page = PageAt(m, 0)
      OBVIOUS
    <2>3. /\ pc = "conv" /\ pc' = pc /\ bad' = bad
          /\ \/ Became(yaffs_put_page(Out, page))
             \/ UNCHANGED out
      BY <1>4, <2>1, <2>2 DEF DataPage, GetPage
    <2>4. CASE Became(yaffs_put_page(Out, page))
      BY <1>a, <2>3, <2>4, PutOnce DEF PlaceInv
    <2>5. CASE UNCHANGED out
      BY <1>a, <2>3, <2>5 DEF PlaceInv, out
    <2>6. QED
      BY <2>3, <2>4, <2>5
  <1>5. CASE EndOfImage
    <2>1. PICK page : page = PageAt(FitBoth(mem, sub, bk), 0)
      OBVIOUS
    <2>2. /\ pc = "conv" /\ pc' = "done" /\ bad' = bad
          /\ \/ Became(yaffs_put_page(Out, page))
             \/ UNCHANGED out
      BY <1>5, <2>1 DEF EndOfImage
    <2>3. CASE Became(yaffs_put_page(Out, page))
      BY <1>a, <2>2, <2>3, PutOnce DEF PlaceInv
    <2>4. CASE UNCHANGED out
      BY <1>a, <2>2, <2>4 DEF PlaceInv, out
    <2>5. QED
      BY <2>2, <2>3, <2>4
  <1>6. CASE UNCHANGED vars
    BY <1>6 DEF PlaceInv, vars, out
  <1>7. QED
    BY <1>1, <1>2, <1>3, <1>4, <1>5, <1>6 DEF Next

\* Placed pages are where OnFlash wants them.
LEMMA PlaceOnFlash == PlaceInv => OnFlash
  <1> SUFFICES ASSUME PlaceInv, pc # "start", NEW p \in Pages
               PROVE  LET k == CHOOSE j \in 0 .. Cardinality(Pages) :
                                 IF p \in GoodPages THEN IsNth(p, j) ELSE j = 0
                      IN  flash[p] = IF BlockOf(p) \in bad THEN Old
                                     ELSE IF k > Len(put)
                                       THEN (IF BlockOf(p) \in ErasedBlocks THEN Erased ELSE Old)
                                     ELSE IF BlockOf(p) \in ErasedBlocks THEN put[k] ELSE Torn
    BY DEF OnFlash
  <1> DEFINE k == CHOOSE j \in 0 .. Cardinality(Pages) :
                    IF p \in GoodPages THEN IsNth(p, j) ELSE j = 0
  <1>1. Placed(bad, yaffs_offs, yaffs_part, flash, put)
    BY DEF PlaceInv
  <1>2. flash[p] = Wanted(bad, yaffs_offs, put, p)
    BY <1>1 DEF Placed
  <1>3. CASE BlockOf(p) \in bad
    BY <1>2, <1>3 DEF Wanted
  <1>4. CASE BlockOf(p) \notin bad
    <2>1. p \in GoodPages /\ GoodPages = Good(bad) /\ p \in Nat
      BY <1>4, PagesAre DEF GoodPages, Good
    <2>2. {q \in GoodPages : q <= p} = {q \in Good(bad) : q < p + 1}
      <3>1. \A q \in Good(bad) : q \in Nat
        BY GoodType
      <3>2. \A q \in Good(bad) : q <= p <=> q < p + 1
        BY <2>1, <3>1
      <3>3. QED
        BY <2>1, <3>2, Zenon
    <2>3. \A j : IsNth(p, j) <=> j = Rank(bad, p + 1)
      BY <2>1, <2>2 DEF IsNth, Rank
    <2>4. Rank(bad, p + 1) \in 0 .. Cardinality(Pages)
      <3>1. IsFiniteSet(Pages) /\ Cardinality(Pages) \in Nat
        <4> DEFINE z == Total - 1
        <4>1. z \in Int /\ Pages = 0 .. z
          BY PagesAre
        <4> HIDE DEF z
        <4>2. QED
          BY <4>1, FS_Interval, FS_CardinalityType
      <3>2. {q \in Good(bad) : q < p + 1} \in SUBSET Pages
        BY DEF Good
      <3>3. Rank(bad, p + 1) <= Cardinality(Pages)
        BY <3>1, <3>2, FS_Subset DEF Rank
      <3>4. Rank(bad, p + 1) \in Nat
        BY <2>1, RankType
      <3>5. QED
        BY <3>1, <3>3, <3>4
    <2>5. k = Rank(bad, p + 1)
      BY <2>1, <2>3, <2>4
    <2> HIDE DEF k
    <2>6. (k > Len(put)) <=> ~(p < yaffs_offs)
      <3>1. /\ yaffs_offs \in Nat /\ IsSeq(put) /\ Rank(bad, yaffs_offs) <= Len(put)
            /\ Len(put) = Rank(bad, yaffs_offs) \/ \A q \in Good(bad) : q < yaffs_offs
        BY <1>1 DEF Placed
      <3>2. Len(put) \in Nat /\ Rank(bad, yaffs_offs) \in Nat
        BY <3>1, AppendIs, RankType
      <3>3. k = Rank(bad, p) + 1 /\ Rank(bad, p) \in Nat
        BY <2>1, <2>5, RankStep, RankType
      <3>4. CASE p < yaffs_offs
        <4>1. k <= Rank(bad, yaffs_offs)
          BY <2>1, <2>5, <3>1, <3>4, RankMono
        <4>2. QED
          BY <3>1, <3>2, <3>3, <3>4, <4>1
      <3>5. CASE ~(p < yaffs_offs)
        <4>1. Rank(bad, yaffs_offs) <= Rank(bad, p)
          BY <2>1, <3>1, <3>5, RankMono
        <4>2. Len(put) = Rank(bad, yaffs_offs)
          BY <2>1, <3>1, <3>5
        <4>3. QED
          BY <3>2, <3>3, <3>5, <4>1, <4>2
      <3>6. QED
        BY <3>4, <3>5
    <2>7. QED
      BY <1>2, <1>4, <2>5, <2>6 DEF Wanted, Fresh, k
  <1>5. QED
    BY <1>3, <1>4

\* However bad blocks lie, the pages put are one after the other in the good
\* blocks of the partition, and one that is dropped never makes a later one
\* be written (yaffs_put_page).
THEOREM PagesFindTheirPlace == Spec => []OnFlash
  <1>1. Init => PlaceInv
    BY DEF Init, PlaceInv, Total
  <1>2. QED
    BY <1>1, PlaceStep, PlaceOnFlash, PTL DEF Spec
---------------------------------------------------------------------------
(* The image, page by page.                                                *)

Image == Seq([chunks : Nat, last : Nat])

\* A place within the k-th of consecutive stretches is in no other.
LEMMA Stretch ==
  ASSUME NEW m \in Nat, NEW f, \A j \in 1 .. m : f[j] \in Nat,
         NEW o \in 1 .. m, NEW j \in 1 .. m,
         NEW k \in Nat, SumTo(f, o - 1) < k, k <= SumTo(f, o),
         SumTo(f, j - 1) < k, k <= SumTo(f, j)
  PROVE  j = o
  <1>1. /\ o - 1 \in Nat /\ o \in Nat /\ j - 1 \in Nat /\ j \in Nat
    OBVIOUS
  <1>2. \A x \in 0 .. m : SumTo(f, x) \in Nat
    <2> TAKE x \in 0 .. m
    <2>1. x \in Nat /\ \A y \in 1 .. x : f[y] \in Nat
      OBVIOUS
    <2>2. QED
      BY <2>1, UnitsFinite
  <1>3. j <= o - 1 => SumTo(f, j) <= SumTo(f, o - 1)
    <2>1. \A y \in 1 .. o - 1 : f[y] \in Nat
      OBVIOUS
    <2>2. QED
      BY <1>1, <2>1, SumMono
  <1>4. o <= j - 1 => SumTo(f, o) <= SumTo(f, j - 1)
    <2>1. \A y \in 1 .. j - 1 : f[y] \in Nat
      OBVIOUS
    <2>2. QED
      BY <1>1, <2>1, SumMono
  <1>5. o - 1 \in 0 .. m /\ j - 1 \in 0 .. m /\ o \in 0 .. m /\ j \in 0 .. m
    OBVIOUS
  <1>6. ~(j <= o - 1) /\ ~(o <= j - 1)
    BY <1>2, <1>3, <1>4, <1>5
  <1>7. QED
    BY <1>6

LEMMA ObjectType ==
  ASSUME NEW i \in Image, NEW o \in 1 .. Len(i)
  PROVE  i[o].chunks \in Nat /\ i[o].last \in Nat /\ Len(i) \in Nat
  <1> DEFINE S == [chunks : Nat, last : Nat]
  <1>1. i \in Seq(S)
    BY DEF Image
  <1>2. i[o] \in S /\ Len(i) \in Nat
    <2> HIDE DEF S
    <2>1. QED
      BY <1>1
  <1>3. QED
    BY <1>2

\* The places of the objects in the image.
LEMMA InPlaces ==
  ASSUME NEW i \in Image, NEW o \in 1 .. Len(i)
  PROVE  /\ InPos(i, o) \in Nat /\ InPos(i, o + 1) \in Nat
         /\ InPos(i, o + 1) = InPos(i, o) + 1 + i[o].chunks
         /\ InPos(i, o + 1) <= InPos(i, Len(i) + 1) /\ InPos(i, Len(i) + 1) \in Nat
  <1> DEFINE f == [j \in 1 .. Len(i) |-> 1 + i[j].chunks]
  <1>1. /\ Len(i) \in Nat /\ \A j \in 1 .. Len(i) : f[j] \in Nat
        /\ f[o] = 1 + i[o].chunks /\ i[o].chunks \in Nat
    BY ObjectType
  <1>2. /\ InPos(i, o) = SumTo(f, o - 1) /\ InPos(i, o + 1) = SumTo(f, o)
        /\ InPos(i, Len(i) + 1) = SumTo(f, Len(i))
    <2>1. (o + 1) - 1 = o /\ (Len(i) + 1) - 1 = Len(i)
      BY <1>1
    <2>2. QED
      BY <2>1 DEF InPos
  <1> HIDE DEF f
  <1>3. /\ o - 1 \in Nat /\ (o - 1) + 1 = o /\ o \in Nat /\ o <= Len(i)
        /\ \A j \in 1 .. o : f[j] \in Nat
        /\ \A j \in 1 .. o - 1 : f[j] \in Nat
    BY <1>1
  <1>4. SumTo(f, o - 1) \in Nat /\ SumTo(f, o) \in Nat /\ SumTo(f, Len(i)) \in Nat
    BY <1>1, <1>3, UnitsFinite
  <1>5. SumTo(f, o) = SumTo(f, o - 1) + f[o]
    <2>1. PICK x \in Nat : x = o - 1
      BY <1>3
    <2>2. x + 1 = o /\ \A j \in 1 .. x + 1 : f[j] \in Nat
      BY <1>3, <2>1
    <2>3. SumTo(f, x + 1) = SumTo(f, x) + f[x + 1]
      BY <2>1, <2>2, SumStep
    <2>4. QED
      BY <2>1, <2>2, <2>3
  <1>6. SumTo(f, o) <= SumTo(f, Len(i))
    BY <1>1, <1>3, SumMono
  <1>7. SumTo(f, o) = SumTo(f, o - 1) + 1 + i[o].chunks
    <2>1. PICK a \in Nat : a = SumTo(f, o - 1)
      BY <1>4
    <2>2. SumTo(f, o) = a + (1 + i[o].chunks)
      BY <1>1, <1>5, <2>1
    <2>3. PICK c \in Nat : c = i[o].chunks
      BY <1>1
    <2>4. a + (1 + c) = a + 1 + c
      OBVIOUS
    <2>5. QED
      BY <2>1, <2>2, <2>3, <2>4
  <1>8. QED
    BY <1>2, <1>4, <1>6, <1>7, Zenon

\* The image starts with its first object.
LEMMA InStart ==
  ASSUME NEW i
  PROVE  InPos(i, 1) = 0
  BY SumZero DEF InPos

\* The page at a place of an object is that page of it.
LEMMA PageIs ==
  ASSUME NEW i \in Image, NEW o \in 1 .. Len(i), NEW id \in 0 .. i[o].chunks
  PROVE  Page(i, InPos(i, o) + 1 + id) = Chunk(i, o, id)
  <1> DEFINE f == [j \in 1 .. Len(i) |-> 1 + i[j].chunks]
             k == InPos(i, o) + 1 + id
             In(j) == InPos(i, j) < k /\ k <= InPos(i, j + 1)
             x == CHOOSE j \in 1 .. Len(i) : In(j)
  <1>1. /\ Len(i) \in Nat /\ \A j \in 1 .. Len(i) : f[j] \in Nat
        /\ i[o].chunks \in Nat
    BY ObjectType
  <1>2. k \in Nat /\ In(o) /\ InPos(i, o) \in Nat /\ k - InPos(i, o) - 1 = id
    <2>1. PICK a \in Nat : a = InPos(i, o)
      BY InPlaces
    <2>2. InPos(i, o + 1) = a + 1 + i[o].chunks
      BY <2>1, InPlaces
    <2>3. /\ a + 1 + id \in Nat /\ a < a + 1 + id /\ a + 1 + id <= a + 1 + i[o].chunks
          /\ (a + 1 + id) - a - 1 = id
      BY <1>1
    <2>4. QED
      BY <2>1, <2>2, <2>3
  <1>3. \A j \in 1 .. Len(i) : /\ InPos(i, j) = SumTo(f, j - 1)
                               /\ InPos(i, j + 1) = SumTo(f, j)
    <2> TAKE j \in 1 .. Len(i)
    <2>1. (j + 1) - 1 = j
      BY <1>1
    <2>2. QED
      BY <2>1 DEF InPos
  <1>4. Page(i, k) = Chunk(i, x, k - InPos(i, x) - 1)
    BY DEF Page
  <1> HIDE DEF f, k
  <1>5. ASSUME NEW j \in 1 .. Len(i), In(j)
        PROVE  j = o
    <2>1. /\ SumTo(f, o - 1) < k /\ k <= SumTo(f, o)
          /\ SumTo(f, j - 1) < k /\ k <= SumTo(f, j)
      BY <1>2, <1>3, <1>5
    <2>2. QED
      BY <1>1, <1>2, <2>1, Stretch
  <1> HIDE DEF In
  <1>6. x = o
    BY <1>2, <1>5
  <1> HIDE DEF x
  <1>7. QED
    BY <1>2, <1>4, <1>6 DEF k

LEMMA ChunkType ==
  ASSUME NEW i \in Image, NEW o \in 1 .. Len(i), NEW id
  PROVE  /\ Chunk(i, o, id).byteCount \in Nat
         /\ Chunk(i, o, id).obj = o /\ Chunk(i, o, id).chunkId = id
         /\ Chunk(i, o, id) = Tags(o, id, Chunk(i, o, id).byteCount)
         /\ Chunk(i, o, 0) = Tags(o, 0, 0)
  <1>1. Full \in Nat /\ i[o].last \in Nat
    BY YaffsAssumption, ObjectType
  <1>2. QED
    BY <1>1 DEF Chunk, Tags

---------------------------------------------------------------------------
(* The pages of the NAND, group by group.                                  *)

\* The groups of an object with q * d + r chunks.
LEMMA GroupsIs ==
  ASSUME NEW i \in Image, NEW o \in 1 .. Len(i), NEW d \in Nat \ {0},
         NEW q \in Nat, NEW r \in 0 .. d - 1, i[o].chunks = d * q + r
  PROVE  Groups(i, d, o) = IF r = 0 THEN q ELSE q + 1
  <1>1. d * q \in Nat /\ d * (q + 1) = d * q + d /\ d * (q + 1) \in Nat /\ q + 1 \in Nat
    <2>1. d \in Nat
      OBVIOUS
    <2>2. QED
      BY <2>1, MulSum
  <1>2. PICK a \in Nat : a = i[o].chunks + d - 1
    BY <1>1
  <1>3. Groups(i, d, o) = a \div d
    BY <1>2 DEF Groups
  <1>4. CASE r = 0
    <2>1. d * q <= a /\ a < d * q + d
      BY <1>1, <1>2, <1>4
    <2>2. QED
      BY <1>3, <1>4, <2>1, DivUnique
  <1>5. CASE r # 0
    <2>1. d * (q + 1) <= a /\ a < d * (q + 1) + d
      BY <1>1, <1>2, <1>5
    <2>2. QED
      BY <1>1, <1>3, <1>5, <2>1, DivUnique
  <1>6. QED
    BY <1>4, <1>5

LEMMA GroupsType ==
  ASSUME NEW i \in Image, NEW o \in 1 .. Len(i), NEW d \in Nat \ {0}
  PROVE  Groups(i, d, o) \in Nat
  <1>1. i[o].chunks + d - 1 \in Nat
    BY ObjectType
  <1>2. QED
    BY <1>1, DivBounds DEF Groups

LEMMA OutPlaces ==
  ASSUME NEW i \in Image, NEW o \in 1 .. Len(i), NEW d \in Nat \ {0}
  PROVE  /\ OutPos(i, d, o) \in Nat /\ OutPos(i, d, o + 1) \in Nat
         /\ OutPos(i, d, o + 1) = OutPos(i, d, o) + 1 + Groups(i, d, o)
  <1> DEFINE f == [j \in 1 .. Len(i) |-> 1 + Groups(i, d, j)]
  <1>1. /\ Len(i) \in Nat /\ \A j \in 1 .. Len(i) : f[j] \in Nat
        /\ f[o] = 1 + Groups(i, d, o) /\ Groups(i, d, o) \in Nat
    BY ObjectType, GroupsType
  <1>2. /\ OutPos(i, d, o) = SumTo(f, o - 1) /\ OutPos(i, d, o + 1) = SumTo(f, o)
    <2>1. (o + 1) - 1 = o
      BY <1>1
    <2>2. QED
      BY <2>1 DEF OutPos
  <1> HIDE DEF f
  <1>3. PICK x \in Nat : x = o - 1
    BY <1>1
  <1>4. /\ x + 1 = o /\ o \in Nat /\ \A j \in 1 .. x + 1 : f[j] \in Nat
        /\ \A j \in 1 .. x : f[j] \in Nat
    BY <1>1, <1>3
  <1>5. SumTo(f, x) \in Nat
    BY <1>4, UnitsFinite
  <1>6. SumTo(f, x + 1) = SumTo(f, x) + f[x + 1]
    BY <1>4, SumStep
  <1>7. QED
    BY <1>1, <1>2, <1>3, <1>4, <1>5, <1>6

LEMMA OutStart ==
  ASSUME NEW i, NEW d
  PROVE  OutPos(i, d, 1) = 0
  BY SumZero DEF OutPos

\* The object a page of the NAND belongs to.
LEMMA ObjIs ==
  ASSUME NEW i \in Image, NEW o \in 1 .. Len(i), NEW d \in Nat \ {0},
         NEW g \in 0 .. Groups(i, d, o)
  PROVE  /\ ObjOf(i, d, OutPos(i, d, o) + 1 + g) = o
         /\ (OutPos(i, d, o) + 1 + g) - OutPos(i, d, o) - 1 = g
  <1> DEFINE f == [j \in 1 .. Len(i) |-> 1 + Groups(i, d, j)]
             k == OutPos(i, d, o) + 1 + g
             In(j) == OutPos(i, d, j) < k /\ k <= OutPos(i, d, j + 1)
             x == CHOOSE j \in 1 .. Len(i) : In(j)
  <1>1. /\ Len(i) \in Nat /\ \A j \in 1 .. Len(i) : f[j] \in Nat
        /\ Groups(i, d, o) \in Nat
    BY ObjectType, GroupsType
  <1>2. k \in Nat /\ In(o) /\ OutPos(i, d, o) \in Nat /\ k - OutPos(i, d, o) - 1 = g
    <2>1. PICK a \in Nat : a = OutPos(i, d, o)
      BY OutPlaces
    <2>2. OutPos(i, d, o + 1) = a + 1 + Groups(i, d, o)
      BY <2>1, OutPlaces
    <2>3. /\ a + 1 + g \in Nat /\ a < a + 1 + g /\ a + 1 + g <= a + 1 + Groups(i, d, o)
          /\ (a + 1 + g) - a - 1 = g
      BY <1>1
    <2>4. QED
      BY <2>1, <2>2, <2>3
  <1>3. \A j \in 1 .. Len(i) : /\ OutPos(i, d, j) = SumTo(f, j - 1)
                               /\ OutPos(i, d, j + 1) = SumTo(f, j)
    <2> TAKE j \in 1 .. Len(i)
    <2>1. (j + 1) - 1 = j
      BY <1>1
    <2>2. QED
      BY <2>1 DEF OutPos
  <1>4. ObjOf(i, d, k) = x
    BY DEF ObjOf
  <1> HIDE DEF f, k
  <1>5. ASSUME NEW j \in 1 .. Len(i), In(j)
        PROVE  j = o
    <2>1. /\ SumTo(f, o - 1) < k /\ k <= SumTo(f, o)
          /\ SumTo(f, j - 1) < k /\ k <= SumTo(f, j)
      BY <1>2, <1>3, <1>5
    <2>2. QED
      BY <1>1, <1>2, <2>1, Stretch
  <1> HIDE DEF In
  <1>6. x = o
    BY <1>2, <1>5
  <1> HIDE DEF x
  <1>7. QED
    BY <1>2, <1>4, <1>6 DEF k
\* The bytes of the first r chunks behind the first q * d of an object.
BytesOf(i, d, o, q, r) == SumTo([k \in 1 .. d |-> Chunk(i, o, d * q + k).byteCount], r)

LEMMA BytesStep ==
  ASSUME NEW i \in Image, NEW o \in 1 .. Len(i), NEW d \in Nat \ {0},
         NEW q \in Nat, NEW r \in 0 .. d - 1
  PROVE  /\ BytesOf(i, d, o, q, 0) = 0
         /\ BytesOf(i, d, o, q, r) \in Nat
         /\ BytesOf(i, d, o, q, r + 1) =
              BytesOf(i, d, o, q, r) + Chunk(i, o, d * q + (r + 1)).byteCount
  <1> DEFINE f == [k \in 1 .. d |-> Chunk(i, o, d * q + k).byteCount]
  <1>1. \A k \in 1 .. d : f[k] \in Nat
    BY ChunkType
  <1>2. r + 1 \in 1 .. d /\ f[r + 1] = Chunk(i, o, d * q + (r + 1)).byteCount
    OBVIOUS
  <1> HIDE DEF f
  <1>3. /\ r \in Nat /\ \A k \in 1 .. r + 1 : f[k] \in Nat
        /\ \A k \in 1 .. r : f[k] \in Nat
    BY <1>1
  <1>4. SumTo(f, r) \in Nat /\ SumTo(f, 0) = 0
    BY <1>3, UnitsFinite, SumZero
  <1>5. SumTo(f, r + 1) = SumTo(f, r) + f[r + 1]
    BY <1>3, SumStep
  <1>6. QED
    BY <1>2, <1>4, <1>5, Zenon DEF BytesOf, f

\* A header page.
LEMMA HeaderGood ==
  ASSUME NEW i \in Image, NEW o \in 1 .. Len(i), NEW d \in Nat \ {0}, NEW page,
         page.main[0] = Data(Chunk(i, o, 0)), page.tags = Spare(Chunk(i, o, 0))
  PROVE  /\ GoodData(page, i, d, OutPos(i, d, o) + 1)
         /\ GoodTags(page, i, d, OutPos(i, d, o) + 1)
  <1> DEFINE k == OutPos(i, d, o) + 1
  <1>1. Groups(i, d, o) \in Nat /\ OutPos(i, d, o) \in Nat
        /\ InPos(i, o) \in Nat /\ i[o].chunks \in Nat
    BY GroupsType, OutPlaces, InPlaces, ObjectType
  <1>2. OutPos(i, d, o) + 1 + 0 = k /\ InPos(i, o) + 1 + 0 = InPos(i, o) + 1
        /\ 0 \in 0 .. Groups(i, d, o) /\ 0 \in 0 .. i[o].chunks
    BY <1>1
  <1>3. ObjOf(i, d, k) = o /\ k - OutPos(i, d, o) - 1 = 0
    <2> HIDE DEF k
    <2>1. QED
      BY <1>2, ObjIs
  <1>4. Page(i, InPos(i, o) + 1) = Chunk(i, o, 0)
    BY <1>2, PageIs
  <1>5. Chunk(i, o, 0) = Tags(o, 0, 0)
    BY ChunkType
  <1> HIDE DEF k
  <1>6. GoodData(page, i, d, k)
    BY <1>3, <1>4 DEF GoodData
  <1>7. GoodTags(page, i, d, k)
    BY <1>3, <1>5 DEF GoodTags
  <1>8. QED
    BY <1>6, <1>7 DEF k

\* A page with the chunks of group q + 1, of which there are r.
LEMMA GroupGood ==
  ASSUME NEW i \in Image, NEW o \in 1 .. Len(i), NEW d \in Nat \ {0}, NEW page,
         NEW q \in Nat, NEW r \in 1 .. d,
         \/ r = d /\ d * q + r <= i[o].chunks
         \/ d * q + r = i[o].chunks,
         \A c \in 1 .. r : page.main[c - 1] = Data(Chunk(i, o, d * q + c))
  PROVE  LET k == OutPos(i, d, o) + 1 + (q + 1)
         IN  /\ GoodData(page, i, d, k)
             /\ page.tags = Spare(Tags(o, q + 1, BytesOf(i, d, o, q, r)))
                  => GoodTags(page, i, d, k)
             /\ q + 1 \in 1 .. Groups(i, d, o)
  <1> DEFINE k == OutPos(i, d, o) + 1 + (q + 1)
             g == q + 1
  <1>1. PICK n0 \in Nat : n0 = i[o].chunks
    BY ObjectType
  <1>2. PICK a \in Nat : a = d * q
    BY MulSum
  <1>3. /\ g * d = a + d /\ (g - 1) * d = a /\ d * (q + 1) = a + d
    <2>1. d \in Nat /\ q + 1 \in Nat /\ (q + 1) - 1 = q
      OBVIOUS
    <2>2. (q + 1) * d = d * (q + 1) /\ q * d = d * q /\ d * (q + 1) = d * q + d
      BY <2>1, MulSum
    <2>3. QED
      BY <1>2, <2>1, <2>2
  <1>4. a + r <= n0 /\ (r = d \/ a + r = n0)
    BY <1>1, <1>2
  <1>5. GroupLen(i, d, o, g) = r
    <2>1. GroupLen(i, d, o, g) = (IF a + d > n0 THEN n0 ELSE a + d) - a
      BY <1>1, <1>3 DEF GroupLen
    <2>2. QED
      BY <1>4, <2>1
  <1>6. g \in 1 .. Groups(i, d, o)
    <2>1. PICK b \in Nat : b = n0 + d - 1
      OBVIOUS
    <2>2. Groups(i, d, o) = b \div d
      BY <1>1, <2>1 DEF Groups
    <2>3. PICK G \in Nat : G = b \div d /\ d * G <= b /\ b < d * G + d
      BY <2>1, DivBounds
    <2>4. d * (G + 1) = d * G + d /\ d * G \in Nat /\ G + 1 \in Nat /\ d \in Nat
      BY <2>3, MulSum
    <2>5. d * q + d <= b
      BY <1>2, <1>4, <2>1
    <2>6. d * (q + 1) < d * (G + 1)
      BY <1>2, <1>3, <2>3, <2>4, <2>5
    <2>7. q + 1 < G + 1
      <3>1. q + 1 \in Nat
        OBVIOUS
      <3>2. QED
        BY <2>4, <2>6, <3>1, MulCancel
    <2>8. QED
      BY <2>2, <2>3, <2>7
  <1>7. ObjOf(i, d, k) = o /\ k - OutPos(i, d, o) - 1 = g /\ g # 0
    <2>1. g \in 0 .. Groups(i, d, o) /\ g # 0
      BY <1>6
    <2> HIDE DEF g
    <2>2. k = OutPos(i, d, o) + 1 + g
      BY DEF g
    <2> HIDE DEF k
    <2>3. QED
      BY <2>1, <2>2, ObjIs
  <1>8. ASSUME NEW c \in 1 .. r
        PROVE  GroupData(i, d, o, g)[c] = Chunk(i, o, d * q + c)
    <2>1. GroupData(i, d, o, g)[c] = Page(i, InPos(i, o) + 1 + (g - 1) * d + c)
      BY <1>5 DEF GroupData
    <2>2. a + c \in 0 .. i[o].chunks
      BY <1>1, <1>4
    <2>3. InPos(i, o) + 1 + a + c = InPos(i, o) + 1 + (a + c)
      <3>1. PICK z \in Nat : z = InPos(i, o)
        BY InPlaces
      <3>2. z + 1 + a + c = z + 1 + (a + c)
        OBVIOUS
      <3>3. QED
        BY <3>1, <3>2
    <2>4. Page(i, InPos(i, o) + 1 + (a + c)) = Chunk(i, o, a + c)
      BY <2>2, PageIs
    <2>5. QED
      BY <1>2, <1>3, <2>1, <2>3, <2>4
  <1>9. GroupBytes(i, d, o, g) = BytesOf(i, d, o, q, r)
    <2> DEFINE f1 == [c \in 1 .. r |-> GroupData(i, d, o, g)[c].byteCount]
               f2 == [c \in 1 .. d |-> Chunk(i, o, d * q + c).byteCount]
    <2>1. GroupBytes(i, d, o, g) = SumTo(f1, r)
      BY <1>5 DEF GroupBytes
    <2>2. BytesOf(i, d, o, q, r) = SumTo(f2, r)
      BY DEF BytesOf
    <2>3. \A c \in 1 .. r : f1[c] = f2[c]
      BY <1>8
    <2> HIDE DEF f1, f2
    <2>4. SumTo(f1, r) = SumTo(f2, r)
      BY <2>3, SumSame
    <2>5. QED
      BY <2>1, <2>2, <2>4
  <1> HIDE DEF k, g
  <1>10. GoodData(page, i, d, k)
    <2>1. \A c \in 1 .. GroupLen(i, d, o, g) :
             page.main[c - 1] = Data(GroupData(i, d, o, g)[c])
      BY <1>5, <1>8
    <2>2. QED
      BY <1>7, <2>1 DEF GoodData
  <1>11. page.tags = Spare(Tags(o, g, BytesOf(i, d, o, q, r))) => GoodTags(page, i, d, k)
    BY <1>7, <1>9 DEF GoodTags
  <1>12. QED
    BY <1>6, <1>10, <1>11 DEF k, g
---------------------------------------------------------------------------
(* The converter.                                                          *)

\* Object o is read as far as chunk q * iodiv + r: its header and q groups
\* are put, and r chunks of the next group are in the buffer.
Reading(o, q, r) ==
  /\ o \in 1 .. Len(img) /\ q \in Nat /\ r \in 0 .. iodiv - 1
  /\ iodiv * q + r <= img[o].chunks
  /\ n = InPos(img, o) + 1 + (iodiv * q + r)
  /\ sub = r
  /\ bytes = BytesOf(img, iodiv, o, q, r)
  /\ Len(put) = OutPos(img, iodiv, o) + 1 + q
  /\ r > 0 => bk = Spare(Chunk(img, o, iodiv * q + 1))
  /\ \A c \in 1 .. r : mem[c - 1] = Data(Chunk(img, o, iodiv * q + c))

NothingRead == n = 0 /\ sub = 0 /\ bytes = 0 /\ Len(put) = 0

AllGood(i, d, s) ==
  \A k \in 1 .. Len(s) : GoodData(s[k], i, d, k) /\ GoodTags(s[k], i, d, k)

\* Inductive invariant of the conversion.
ConvInv ==
  /\ iodiv \in Nat \ {0} /\ img \in Image /\ pc \in {"start", "conv", "done"}
  /\ DOMAIN mem = 0 .. 2 * iodiv
  /\ pc = "start" => NothingRead
  /\ pc # "done" => AllGood(img, iodiv, put)
  /\ pc = "conv" => NothingRead \/ \E o, q, r : Reading(o, q, r)
  /\ pc = "done" => /\ n = InLen /\ sub \in 0 .. iodiv - 1 /\ bytes \in Nat
                    /\ Len(put) = OutPos(img, iodiv, Len(img) + 1)
                    /\ Converted

LEMMA AppendGood ==
  ASSUME NEW i, NEW d, NEW s, IsSeq(s), AllGood(i, d, s), NEW page,
         GoodData(page, i, d, Len(s) + 1), GoodTags(page, i, d, Len(s) + 1)
  PROVE  AllGood(i, d, Append(s, page))
  <1> DEFINE t == Append(s, page)
  <1>1. /\ Len(s) \in Nat /\ Len(t) = Len(s) + 1 /\ t[Len(s) + 1] = page
        /\ \A k \in 1 .. Len(s) : t[k] = s[k]
    BY AppendIs
  <1> HIDE DEF t
  <1>2. SUFFICES ASSUME NEW k \in 1 .. Len(t)
                 PROVE  GoodData(t[k], i, d, k) /\ GoodTags(t[k], i, d, k)
    BY DEF AllGood, t
  <1>3. CASE k = Len(s) + 1
    BY <1>1, <1>3
  <1>4. CASE k # Len(s) + 1
    <2>1. k \in 1 .. Len(s)
      BY <1>1, <1>4
    <2>2. QED
      BY <1>1, <2>1 DEF AllGood
  <1>5. QED
    BY <1>3, <1>4

\* get_page: the page read and its tags behind what the buffer holds.
LEMMA LoadedIs ==
  ASSUME iodiv \in Nat \ {0}, DOMAIN mem = 0 .. 2 * iodiv, sub \in 0 .. iodiv - 1
  PROVE  /\ DOMAIN Loaded = 0 .. 2 * iodiv
         /\ Loaded[sub] = Data(Input(n + 1)) /\ Loaded[sub + 1] = Spare(Input(n + 1))
         /\ \A c \in 0 .. sub - 1 : Loaded[c] = mem[c]
  <1>1. sub \in DOMAIN mem /\ sub + 1 \in DOMAIN mem /\ sub # sub + 1
    OBVIOUS
  <1>2. \A c \in 0 .. sub - 1 : c \in DOMAIN mem /\ c # sub /\ c # sub + 1
    OBVIOUS
  <1>3. QED
    BY <1>1, <1>2 DEF Loaded

\* A cell changed, the others as they were.
LEMMA CellSet ==
  ASSUME NEW m, NEW a \in DOMAIN m, NEW v
  PROVE  /\ DOMAIN [m EXCEPT ![a] = v] = DOMAIN m
         /\ [m EXCEPT ![a] = v][a] = v
         /\ \A c \in DOMAIN m : c # a => [m EXCEPT ![a] = v][c] = m[c]
  OBVIOUS

\* page_fit with two pages loses neither of the tags.
LEMMA FitBothIs ==
  ASSUME iodiv \in Nat \ {0}, NEW m, DOMAIN m = 0 .. 2 * iodiv,
         NEW p \in 1 .. iodiv - 1, NEW first
  PROVE  /\ DOMAIN FitBoth(m, p, first) = 0 .. 2 * iodiv
         /\ FitBoth(m, p, first)[iodiv] = first
         /\ FitBoth(m, p, first)[p + iodiv] = m[p + 1]
         /\ \A c \in 0 .. iodiv - 1 : FitBoth(m, p, first)[c] = m[c]
  <1>1. /\ p + iodiv \in 0 .. 2 * iodiv /\ iodiv \in 0 .. 2 * iodiv /\ p + iodiv # iodiv
        /\ \A c \in 0 .. iodiv - 1 : c \in 0 .. 2 * iodiv /\ c # iodiv /\ c # p + iodiv
    OBVIOUS
  <1> DEFINE m1 == [m EXCEPT ![p + iodiv] = m[p + 1]]
  <1>2. /\ DOMAIN m1 = 0 .. 2 * iodiv /\ m1[p + iodiv] = m[p + 1]
        /\ \A c \in 0 .. 2 * iodiv : c # p + iodiv => m1[c] = m[c]
    BY <1>1
  <1> HIDE DEF m1
  <1>3. FitBoth(m, p, first) = [m1 EXCEPT ![iodiv] = first]
    BY DEF FitBoth, m1
  <1>4. QED
    BY <1>1, <1>2, <1>3

\* What Reading says of the numbers.
LEMMA ReadingFacts ==
  ASSUME ConvInv, NEW o, NEW q, NEW r, Reading(o, q, r)
  PROVE  /\ o \in 1 .. Len(img) /\ q \in Nat /\ r \in 0 .. iodiv - 1 /\ r \in Nat
         /\ iodiv * q \in Nat /\ img[o].chunks \in Nat /\ Len(img) \in Nat
         /\ InPos(img, o) \in Nat /\ OutPos(img, iodiv, o) \in Nat
         /\ n \in 1 .. InLen /\ InLen \in Nat /\ bytes \in Nat /\ sub = r
         /\ InPos(img, o + 1) = InPos(img, o) + 1 + img[o].chunks
  <1>1. /\ iodiv \in Nat \ {0} /\ img \in Image
        /\ o \in 1 .. Len(img) /\ q \in Nat /\ r \in 0 .. iodiv - 1
        /\ bytes = BytesOf(img, iodiv, o, q, r) /\ sub = r
        /\ n = InPos(img, o) + 1 + (iodiv * q + r)
        /\ iodiv * q + r <= img[o].chunks
    BY DEF ConvInv, Reading
  <1>2. img[o].chunks \in Nat /\ Len(img) \in Nat
    BY <1>1, ObjectType
  <1>3. /\ InPos(img, o) \in Nat
        /\ InPos(img, o + 1) = InPos(img, o) + 1 + img[o].chunks
        /\ InPos(img, o + 1) <= InLen /\ InLen \in Nat
    BY <1>1, InPlaces DEF InLen
  <1>4. iodiv * q \in Nat
    <2>1. iodiv \in Nat
      BY <1>1
    <2>2. QED
      BY <1>1, <2>1, MulSum
  <1>5. OutPos(img, iodiv, o) \in Nat /\ bytes \in Nat
    BY <1>1, OutPlaces, BytesStep
  <1>6. n \in 1 .. InLen
    <2>1. PICK a \in Nat, c \in Nat, z \in Nat :
            a = InPos(img, o) /\ c = img[o].chunks /\ z = iodiv * q
      BY <1>2, <1>3, <1>4
    <2>2. z + r <= c /\ n = a + 1 + (z + r) /\ a + 1 + c <= InLen
      BY <1>1, <1>3, <2>1
    <2>3. r \in Nat /\ InLen \in Nat
      BY <1>1, <1>3
    <2>4. QED
      BY <2>1, <2>2, <2>3
  <1>7. QED
    BY <1>1, <1>2, <1>3, <1>4, <1>5, <1>6

\* The header of object o is next; the objects before it are all put, but
\* for a group still open.
HeaderNext(o) ==
  /\ o \in 1 .. Len(img) /\ n = InPos(img, o) /\ Input(n + 1) = Chunk(img, o, 0)
  /\ sub = 0 => Len(put) = OutPos(img, iodiv, o)
  /\ sub # 0 => \E p, q : /\ o = p + 1 /\ Reading(p, q, sub)
                          /\ iodiv * q + sub = img[p].chunks

\* A chunk of the object being read is next.
ChunkNext(o, q, r) ==
  /\ Reading(o, q, r) /\ iodiv * q + (r + 1) <= img[o].chunks
  /\ Input(n + 1) = Chunk(img, o, iodiv * q + (r + 1))

LEMMA FirstHeader ==
  ASSUME ConvInv, NEW o \in 1 .. Len(img), n = InPos(img, o)
  PROVE  Input(n + 1) = Chunk(img, o, 0)
  <1>1. img \in Image /\ img[o].chunks \in Nat /\ InPos(img, o) \in Nat
    BY InPlaces, ObjectType DEF ConvInv
  <1>2. n + 1 = InPos(img, o) + 1 + 0 /\ 0 \in 0 .. img[o].chunks
    BY <1>1
  <1>3. Page(img, InPos(img, o) + 1 + 0) = Chunk(img, o, 0)
    BY <1>1, <1>2, PageIs
  <1>4. QED
    BY <1>2, <1>3 DEF Input

\* An object read to its end, and the groups of it that are put.
LEMMA ObjectEnd ==
  ASSUME ConvInv, NEW o, NEW q, NEW r, Reading(o, q, r),
         iodiv * q + r = img[o].chunks
  PROVE  /\ n = InPos(img, o + 1)
         /\ r = 0 => Len(put) = OutPos(img, iodiv, o + 1)
         /\ r # 0 => Len(put) + 1 = OutPos(img, iodiv, o + 1)
  <1>1. /\ o \in 1 .. Len(img) /\ q \in Nat /\ r \in 0 .. iodiv - 1
        /\ InPos(img, o) \in Nat /\ OutPos(img, iodiv, o) \in Nat
        /\ InPos(img, o + 1) = InPos(img, o) + 1 + img[o].chunks
        /\ img[o].chunks \in Nat
    BY ReadingFacts
  <1>2. /\ iodiv \in Nat \ {0} /\ img \in Image
        /\ n = InPos(img, o) + 1 + (iodiv * q + r)
        /\ Len(put) = OutPos(img, iodiv, o) + 1 + q
    BY DEF ConvInv, Reading
  <1>3. n = InPos(img, o + 1)
    BY <1>1, <1>2
  <1>4. Groups(img, iodiv, o) = IF r = 0 THEN q ELSE q + 1
    <2>1. PICK i, d : i = img /\ d = iodiv
      OBVIOUS
    <2>2. /\ i \in Image /\ o \in 1 .. Len(i) /\ d \in Nat \ {0} /\ r \in 0 .. d - 1
          /\ i[o].chunks = d * q + r
      BY <1>1, <1>2, <2>1
    <2>3. Groups(i, d, o) = IF r = 0 THEN q ELSE q + 1
      BY <1>1, <2>2, GroupsIs, SMTT(30)
    <2>4. QED
      BY <2>1, <2>3
  <1>5. OutPos(img, iodiv, o + 1) = OutPos(img, iodiv, o) + 1 + Groups(img, iodiv, o)
    BY <1>1, <1>2, OutPlaces
  <1>6. PICK a \in Nat : a = OutPos(img, iodiv, o)
    BY <1>1
  <1>7. /\ r = 0 => Len(put) = OutPos(img, iodiv, o + 1)
        /\ r # 0 => Len(put) + 1 = OutPos(img, iodiv, o + 1)
    <2>1. /\ Len(put) = a + 1 + q /\ q \in Nat
          /\ r = 0 => OutPos(img, iodiv, o + 1) = a + 1 + q
          /\ r # 0 => OutPos(img, iodiv, o + 1) = a + 1 + (q + 1)
      BY <1>1, <1>2, <1>4, <1>5, <1>6
    <2>2. (a + 1 + q) + 1 = a + 1 + (q + 1)
      BY <2>1
    <2>3. QED
      BY <2>1, <2>2
  <1>8. QED
    BY <1>3, <1>7

\* What is read next.
LEMMA NextIs ==
  ASSUME ConvInv, pc = "conv", n < InLen
  PROVE  (\E o : HeaderNext(o)) \/ (\E o, q, r : ChunkNext(o, q, r))
  <1>1. iodiv \in Nat \ {0} /\ img \in Image
    BY DEF ConvInv
  <1>0. Len(img) \in Nat
    BY <1>1 DEF Image
  <1>2. CASE NothingRead
    <2>1. Len(img) # 0
      <3>1. SUFFICES ASSUME Len(img) = 0 PROVE FALSE
        OBVIOUS
      <3>2. InLen = 0
        BY <3>1, InStart DEF InLen
      <3>3. QED
        BY <1>2, <3>2 DEF NothingRead
    <2>2. 1 \in 1 .. Len(img) /\ n = InPos(img, 1) /\ sub = 0
          /\ Len(put) = OutPos(img, iodiv, 1)
      BY <1>0, <1>2, <2>1, InStart, OutStart DEF NothingRead
    <2>3. HeaderNext(1)
      BY <2>2, FirstHeader DEF HeaderNext
    <2>4. QED
      BY <2>3
  <1>3. ASSUME NEW o, NEW q, NEW r, Reading(o, q, r)
        PROVE  HeaderNext(o + 1) \/ ChunkNext(o, q, r)
    <2>1. /\ o \in 1 .. Len(img) /\ q \in Nat /\ r \in 0 .. iodiv - 1 /\ r \in Nat
          /\ iodiv * q \in Nat /\ img[o].chunks \in Nat /\ sub = r
          /\ InPos(img, o) \in Nat
      BY <1>3, ReadingFacts
    <2>2. iodiv * q + r <= img[o].chunks /\ n = InPos(img, o) + 1 + (iodiv * q + r)
      BY <1>3 DEF Reading
    <2>3. CASE iodiv * q + r = img[o].chunks
      <3>1. /\ n = InPos(img, o + 1)
            /\ r = 0 => Len(put) = OutPos(img, iodiv, o + 1)
        BY <1>3, <2>3, ObjectEnd
      <3>2. o # Len(img)
        <4>1. SUFFICES ASSUME o = Len(img) PROVE FALSE
          OBVIOUS
        <4>2. n = InLen
          BY <3>1, <4>1 DEF InLen
        <4>3. InLen \in Nat
          BY <1>3, ReadingFacts
        <4>4. QED
          BY <4>2, <4>3
      <3>3. o + 1 \in 1 .. Len(img)
        BY <1>0, <2>1, <3>2
      <3>4. Input(n + 1) = Chunk(img, o + 1, 0)
        BY <3>1, <3>3, FirstHeader
      <3>5. HeaderNext(o + 1)
        BY <1>3, <2>1, <2>3, <3>1, <3>3, <3>4 DEF HeaderNext
      <3>6. QED
        BY <3>5
    <2>4. CASE iodiv * q + r # img[o].chunks
      <3>1. PICK z \in Nat, a \in Nat : z = iodiv * q /\ a = InPos(img, o)
        BY <2>1
      <3>2. z + (r + 1) \in 0 .. img[o].chunks /\ n + 1 = a + 1 + (z + (r + 1))
        <4>1. PICK c \in Nat : c = img[o].chunks
          BY <2>1
        <4>2. z + r <= c /\ z + r # c /\ n = a + 1 + (z + r) /\ r \in Nat
          BY <2>1, <2>2, <2>4, <3>1, <4>1
        <4>3. z + (r + 1) \in 0 .. c /\ n + 1 = a + 1 + (z + (r + 1))
          BY <4>2
        <4>4. QED
          BY <4>1, <4>3
      <3>3. Page(img, InPos(img, o) + 1 + (z + (r + 1))) = Chunk(img, o, z + (r + 1))
        BY <1>1, <2>1, <3>2, PageIs
      <3>4. Input(n + 1) = Chunk(img, o, iodiv * q + (r + 1))
        BY <3>1, <3>2, <3>3 DEF Input
      <3>5. QED
        BY <1>3, <3>1, <3>2, <3>4 DEF ChunkNext
    <2>5. QED
      BY <2>3, <2>4
  <1>4. QED
    BY <1>2, <1>3 DEF ConvInv
LEMMA ConvKeep ==
  ASSUME ConvInv, iodiv' = iodiv, img' = img, pc' = "conv",
         DOMAIN mem' = 0 .. 2 * iodiv, AllGood(img, iodiv, put'),
         NEW o, NEW q, NEW r, Reading(o, q, r)'
  PROVE  ConvInv'
  BY DEF ConvInv

\* The header of object o is put.
LEMMA HeaderRead ==
  ASSUME ConvInv, NEW o \in 1 .. Len(img), iodiv' = iodiv, img' = img,
         n' = InPos(img, o) + 1, sub' = 0, bytes' = 0,
         Len(put') = OutPos(img, iodiv, o) + 1
  PROVE  Reading(o, 0, 0)'
  <1>1. iodiv \in Nat \ {0} /\ img \in Image
    BY DEF ConvInv
  <1>2. /\ img[o].chunks \in Nat /\ InPos(img, o) \in Nat
        /\ OutPos(img, iodiv, o) \in Nat
    BY <1>1, ObjectType, InPlaces, OutPlaces
  <1>3. /\ iodiv * 0 + 0 = 0 /\ 0 \in 0 .. iodiv - 1 /\ 0 <= img[o].chunks
        /\ InPos(img, o) + 1 + 0 = InPos(img, o) + 1
        /\ OutPos(img, iodiv, o) + 1 + 0 = OutPos(img, iodiv, o) + 1
        /\ 0 \in Nat /\ ~(0 > 0) /\ \A c \in 1 .. 0 : FALSE
    BY <1>1, <1>2
  <1>4. BytesOf(img, iodiv, o, 0, 0) = 0
    BY <1>1, <1>3, BytesStep
  <1>5. QED
    BY <1>3, <1>4 DEF Reading

\* Group q + 1 of object o is put with all its chunks.
LEMMA GroupRead ==
  ASSUME ConvInv, NEW o, NEW q, ChunkNext(o, q, iodiv - 1),
         iodiv' = iodiv, img' = img,
         n' = n + 1, sub' = 0, bytes' = 0, Len(put') = Len(put) + 1
  PROVE  Reading(o, q + 1, 0)'
  <1>1. iodiv \in Nat \ {0} /\ img \in Image /\ iodiv \in Nat
    BY DEF ConvInv
  <1>2. Reading(o, q, iodiv - 1) /\ iodiv * q + ((iodiv - 1) + 1) <= img[o].chunks
    BY DEF ChunkNext
  <1>3. /\ o \in 1 .. Len(img) /\ q \in Nat /\ iodiv * q \in Nat
        /\ InPos(img, o) \in Nat /\ OutPos(img, iodiv, o) \in Nat
        /\ img[o].chunks \in Nat
    BY <1>2, ReadingFacts
  <1>4. /\ n = InPos(img, o) + 1 + (iodiv * q + (iodiv - 1))
        /\ Len(put) = OutPos(img, iodiv, o) + 1 + q
    BY <1>2 DEF Reading
  <1>5. iodiv * (q + 1) = iodiv * q + iodiv
    BY <1>1, <1>3, MulSum
  <1>6. PICK z \in Nat, a \in Nat, b \in Nat, d \in Nat :
           z = iodiv * q /\ a = InPos(img, o) /\ b = OutPos(img, iodiv, o) /\ d = iodiv
    BY <1>1, <1>3
  <1>7. /\ iodiv * (q + 1) + 0 = z + d /\ z + d <= img[o].chunks
        /\ n' = a + 1 + (z + d) /\ Len(put') = b + 1 + (q + 1)
    <2>1. /\ n = a + 1 + (z + (d - 1)) /\ Len(put) = b + 1 + q
          /\ iodiv * (q + 1) = z + d /\ z + ((d - 1) + 1) <= img[o].chunks
      BY <1>2, <1>4, <1>5, <1>6
    <2>2. /\ (d - 1) + 1 = d /\ (z + d) + 0 = z + d
          /\ (a + 1 + (z + (d - 1))) + 1 = a + 1 + (z + d)
      OBVIOUS
    <2>3. (b + 1 + q) + 1 = b + 1 + (q + 1)
      BY <1>3
    <2>4. QED
      BY <2>1, <2>2, <2>3
  <1>8. BytesOf(img, iodiv, o, q + 1, 0) = 0
    <2>1. q + 1 \in Nat /\ 0 \in 0 .. iodiv - 1
      BY <1>1, <1>3
    <2>2. QED
      BY <1>1, <1>3, <2>1, BytesStep
  <1>9. q + 1 \in Nat /\ 0 \in 0 .. iodiv - 1 /\ ~(0 > 0) /\ \A c \in 1 .. 0 : FALSE
    BY <1>1, <1>3
  <1>10. QED
    BY <1>3, <1>6, <1>7, <1>8, <1>9 DEF Reading

LEMMA PutIsSeq ==
  ASSUME PlaceInv, pc # "start"
  PROVE  Placed(bad, yaffs_offs, yaffs_part, flash, put) /\ IsSeq(put) /\ Len(put) \in Nat
  BY AppendIs DEF PlaceInv, Placed

\* A header with no group open.
LEMMA PutHeader ==
  ASSUME PlaceInv, ConvInv, pc = "conv", NEW o, HeaderNext(o), sub = 0,
         iodiv' = iodiv, img' = img, pc' = pc, n' = n + 1, sub' = 0, bytes' = 0,
         NEW m, mem' = m, DOMAIN m = 0 .. 2 * iodiv,
         m[0] = Data(Input(n + 1)), m[iodiv] = Spare(Input(n + 1)),
         Became(yaffs_put_page(Out, PageAt(m, 0)))
  PROVE  ConvInv'
  <1>1. /\ iodiv \in Nat \ {0} /\ img \in Image /\ AllGood(img, iodiv, put)
    BY DEF ConvInv
  <1>2. /\ o \in 1 .. Len(img) /\ n = InPos(img, o) /\ Input(n + 1) = Chunk(img, o, 0)
        /\ Len(put) = OutPos(img, iodiv, o)
    BY DEF HeaderNext
  <1>3. PICK page : page = PageAt(m, 0)
    OBVIOUS
  <1>4. page.main[0] = m[0] /\ page.tags = m[iodiv]
    BY <1>1, <1>3 DEF PageAt
  <1>5. /\ GoodData(page, img, iodiv, Len(put) + 1)
        /\ GoodTags(page, img, iodiv, Len(put) + 1)
    BY <1>1, <1>2, <1>4, HeaderGood
  <1>6. IsSeq(put) /\ put' = Append(put, page)
    BY <1>3, PutIsSeq, PutOnce
  <1>7. AllGood(img, iodiv, put') /\ Len(put') = Len(put) + 1
    BY <1>1, <1>5, <1>6, AppendGood, AppendIs
  <1>8. Reading(o, 0, 0)'
    BY <1>2, <1>7, HeaderRead
  <1>9. QED
    BY <1>7, <1>8, ConvKeep

LEMMA ConvDirect == PlaceInv /\ ConvInv /\ Direct => ConvInv'
  <1> SUFFICES ASSUME PlaceInv, ConvInv, Direct
               PROVE  ConvInv'
    OBVIOUS
  <1>1. /\ pc = "conv" /\ n < InLen /\ n' = n + 1 /\ iodiv = 1
        /\ mem' = Loaded /\ Became(yaffs_put_page(Out, PageAt(Loaded, 0)))
        /\ iodiv' = iodiv /\ img' = img /\ pc' = pc /\ sub' = sub /\ bytes' = bytes
    BY DEF Direct, GetPage
  <1>2. img \in Image /\ iodiv \in Nat \ {0} /\ DOMAIN mem = 0 .. 2 * iodiv
        /\ AllGood(img, iodiv, put)
    BY <1>1 DEF ConvInv
  <1>3. sub = 0 /\ bytes = 0
    <2>1. CASE NothingRead
      BY <2>1 DEF NothingRead
    <2>2. ASSUME NEW o, NEW q, NEW r, Reading(o, q, r)
          PROVE  sub = 0 /\ bytes = 0
      <3>1. o \in 1 .. Len(img) /\ q \in Nat /\ r = 0 /\ sub = r
            /\ bytes = BytesOf(img, iodiv, o, q, r)
        BY <1>1, <2>2 DEF Reading
      <3>2. 0 \in 0 .. iodiv - 1
        BY <1>2
      <3>3. QED
        BY <1>2, <3>1, <3>2, BytesStep
    <2>3. QED
      BY <1>1, <2>1, <2>2 DEF ConvInv
  <1>4. PICK m : m = Loaded
    OBVIOUS
  <1>5. /\ DOMAIN m = 0 .. 2 * iodiv
        /\ m[0] = Data(Input(n + 1)) /\ m[iodiv] = Spare(Input(n + 1))
    <2>1. 0 + 1 = iodiv /\ sub \in 0 .. iodiv - 1
      BY <1>1, <1>3
    <2>2. QED
      BY <1>2, <1>3, <1>4, <2>1, LoadedIs
  <1>6. ASSUME NEW o, HeaderNext(o)
        PROVE  ConvInv'
    BY <1>1, <1>3, <1>4, <1>5, <1>6, PutHeader
  <1>7. ASSUME NEW o, NEW q, NEW r, ChunkNext(o, q, r)
        PROVE  ConvInv'
    <2>1. r = 0 /\ r = iodiv - 1 /\ Reading(o, q, r)
      BY <1>1, <1>7 DEF ChunkNext, Reading
    <2>2. /\ o \in 1 .. Len(img) /\ q \in Nat /\ q + 1 \in Nat
          /\ Len(put) = OutPos(img, iodiv, o) + 1 + q /\ OutPos(img, iodiv, o) \in Nat
      BY <2>1, ReadingFacts DEF Reading
    <2>3. /\ Input(n + 1) = Chunk(img, o, iodiv * q + (0 + 1))
          /\ iodiv * q + 1 <= img[o].chunks
      BY <1>7, <2>1 DEF ChunkNext
    <2>4. iodiv * q = q /\ 0 + 1 = 1 /\ 1 - 1 = 0
      BY <1>1, <2>2
    <2>5. PICK page : page = PageAt(m, 0)
      OBVIOUS
    <2>6. page.main[0] = m[0] /\ page.tags = m[iodiv]
      BY <1>2, <2>5 DEF PageAt
    <2>7. \A c \in 1 .. 1 : page.main[c - 1] = Data(Chunk(img, o, iodiv * q + c))
      <3>1. \A c \in 1 .. 1 : c = 1
        OBVIOUS
      <3>2. page.main[0] = Data(Chunk(img, o, iodiv * q + 1))
        BY <1>5, <2>3, <2>4, <2>6
      <3>3. QED
        BY <2>4, <3>1, <3>2
    <2>8. page.tags = Spare(Tags(o, q + 1, BytesOf(img, iodiv, o, q, 1)))
      <3>1. /\ BytesOf(img, iodiv, o, q, 0) = 0
            /\ BytesOf(img, iodiv, o, q, 0 + 1) =
                 BytesOf(img, iodiv, o, q, 0) + Chunk(img, o, iodiv * q + (0 + 1)).byteCount
        <4>1. 0 \in 0 .. iodiv - 1
          BY <1>2
        <4>2. QED
          BY <1>2, <2>2, <4>1, BytesStep, Zenon
      <3>2. PICK t : t = Chunk(img, o, q + 1)
        OBVIOUS
      <3>3. t.byteCount \in Nat /\ t = Tags(o, q + 1, t.byteCount)
        BY <1>2, <2>2, <3>2, ChunkType
      <3>4. BytesOf(img, iodiv, o, q, 1) = t.byteCount
        BY <2>4, <3>1, <3>2, <3>3
      <3>5. page.tags = Spare(t)
        BY <1>5, <2>3, <2>4, <2>6, <3>2
      <3>6. QED
        BY <3>3, <3>4, <3>5
    <2>9. /\ GoodData(page, img, iodiv, Len(put) + 1)
          /\ GoodTags(page, img, iodiv, Len(put) + 1)
      <3>1. 1 \in 1 .. iodiv /\ 1 = iodiv
        BY <1>1
      <3>2. OutPos(img, iodiv, o) + 1 + (q + 1) = Len(put) + 1
        BY <2>2
      <3>3. /\ GoodData(page, img, iodiv, OutPos(img, iodiv, o) + 1 + (q + 1))
            /\ GoodTags(page, img, iodiv, OutPos(img, iodiv, o) + 1 + (q + 1))
        BY <1>2, <2>2, <2>3, <2>7, <2>8, <3>1, GroupGood
      <3>4. QED
        BY <3>2, <3>3
    <2>10. IsSeq(put) /\ put' = Append(put, page)
      BY <1>1, <1>4, <2>5, PutIsSeq, PutOnce
    <2>11. AllGood(img, iodiv, put') /\ Len(put') = Len(put) + 1
      BY <1>2, <2>9, <2>10, AppendGood, AppendIs
    <2>12. Reading(o, q + 1, 0)'
      BY <1>1, <1>3, <1>7, <2>1, <2>11, GroupRead
    <2>13. QED
      BY <1>1, <1>4, <1>5, <2>11, <2>12, ConvKeep
  <1>8. QED
    BY <1>1, <1>6, <1>7, NextIs
\* The page put together from the chunks in the buffer.
LEMMA OpenPage ==
  ASSUME ConvInv, NEW o, NEW q, NEW r, Reading(o, q, r), r # 0,
         NEW m, \A c \in 0 .. r - 1 : m[c] = mem[c]
  PROVE  \A c \in 1 .. r : PageAt(m, 0).main[c - 1] = Data(Chunk(img, o, iodiv * q + c))
  <1> TAKE c \in 1 .. r
  <1>1. r \in 0 .. iodiv - 1 /\ iodiv \in Nat
        /\ mem[c - 1] = Data(Chunk(img, o, iodiv * q + c))
    BY DEF ConvInv, Reading
  <1>2. c - 1 \in 0 .. iodiv - 1 /\ c - 1 \in 0 .. r - 1 /\ 0 + (c - 1) = c - 1
    BY <1>1
  <1>3. PageAt(m, 0).main[c - 1] = m[0 + (c - 1)]
    BY <1>2 DEF PageAt
  <1>4. QED
    BY <1>1, <1>2, <1>3

\* The number of a group from that of its first and of its last chunk.
LEMMA GroupIdIs ==
  ASSUME iodiv \in Nat \ {0}, NEW q \in Nat, NEW r \in 1 .. iodiv
  PROVE  GroupId(iodiv * q + r) = q + 1
  <1>1. PICK z \in Nat : z = iodiv * q
    BY MulSum
  <1>2. PICK a \in Nat : a = (z + r) - 1
    OBVIOUS
  <1>3. z <= a /\ a < z + iodiv
    BY <1>2
  <1>4. a \div iodiv = q
    BY <1>1, <1>3, DivUnique
  <1>5. QED
    BY <1>1, <1>2, <1>4 DEF GroupId

LEMMA ConvHeader == PlaceInv /\ ConvInv /\ HeaderPage => ConvInv'
  <1> SUFFICES ASSUME PlaceInv, ConvInv, HeaderPage
               PROVE  ConvInv'
    OBVIOUS
  <1>1. PICK m : m = IF sub > 0 THEN FitBoth(Loaded, sub, Grouped(bk, bytes))
                     ELSE [Loaded EXCEPT ![iodiv] = Loaded[1]]
    OBVIOUS
  <1>2. /\ pc = "conv" /\ n < InLen /\ n' = n + 1 /\ iodiv > 1
        /\ Input(n + 1).chunkId = 0
        /\ iodiv' = iodiv /\ img' = img /\ pc' = pc /\ sub' = 0 /\ bytes' = 0
        /\ mem' = m
        /\ Became(IF sub > 0
                    THEN yaffs_put_page(yaffs_put_page(Out, PageAt(m, 0)), PageAt(m, sub))
                    ELSE yaffs_put_page(Out, PageAt(m, 0)))
    BY <1>1 DEF HeaderPage, GetPage
  <1>3. /\ img \in Image /\ iodiv \in Nat \ {0} /\ DOMAIN mem = 0 .. 2 * iodiv
        /\ AllGood(img, iodiv, put)
    BY <1>2 DEF ConvInv
  <1>4. ASSUME NEW o, NEW q, NEW r, ChunkNext(o, q, r)
        PROVE  FALSE
    <2>1. Reading(o, q, r) /\ Input(n + 1) = Chunk(img, o, iodiv * q + (r + 1))
      BY <1>4 DEF ChunkNext
    <2>2. o \in 1 .. Len(img) /\ iodiv * q \in Nat /\ r \in Nat
      BY <2>1, ReadingFacts
    <2>3. PICK id \in Nat : id = iodiv * q + (r + 1) /\ id # 0
      BY <2>2
    <2>4. Input(n + 1).chunkId = id
      BY <1>3, <2>1, <2>2, <2>3, ChunkType
    <2>5. QED
      BY <1>2, <2>3, <2>4
  <1>5. PICK o : HeaderNext(o)
    BY <1>2, <1>4, NextIs
  <1>6. /\ o \in 1 .. Len(img) /\ n = InPos(img, o) /\ Input(n + 1) = Chunk(img, o, 0)
    BY <1>5 DEF HeaderNext
  <1>7. CASE sub = 0
    <2>1. m = [Loaded EXCEPT ![iodiv] = Loaded[1]]
      BY <1>1, <1>7
    <2>2. 0 \in 0 .. iodiv - 1 /\ 0 + 1 = 1 /\ iodiv \in 0 .. 2 * iodiv
          /\ 0 \in 0 .. 2 * iodiv /\ 0 # iodiv
      BY <1>3
    <2>3. /\ DOMAIN Loaded = 0 .. 2 * iodiv
          /\ Loaded[0] = Data(Input(n + 1)) /\ Loaded[1] = Spare(Input(n + 1))
      BY <1>3, <1>7, <2>2, LoadedIs
    <2>4. /\ DOMAIN m = 0 .. 2 * iodiv
          /\ m[0] = Data(Input(n + 1)) /\ m[iodiv] = Spare(Input(n + 1))
      BY <2>1, <2>2, <2>3
    <2>5. Became(yaffs_put_page(Out, PageAt(m, 0)))
      BY <1>2, <1>7
    <2>6. QED
      BY <1>2, <1>5, <1>7, <2>4, <2>5, PutHeader
  <1>8. CASE sub # 0
    <2>1. PICK p, q : /\ o = p + 1 /\ Reading(p, q, sub)
                      /\ iodiv * q + sub = img[p].chunks
      BY <1>5, <1>8 DEF HeaderNext
    <2>2. PICK r : r = sub
      OBVIOUS
    <2>3. /\ p \in 1 .. Len(img) /\ q \in Nat /\ r \in 0 .. iodiv - 1 /\ r \in Nat
          /\ r \in 1 .. iodiv - 1 /\ r > 0 /\ r \in 1 .. iodiv /\ iodiv * q \in Nat
          /\ OutPos(img, iodiv, p) \in Nat /\ bytes \in Nat
      <3>1. /\ p \in 1 .. Len(img) /\ q \in Nat /\ r \in 0 .. iodiv - 1 /\ r \in Nat
            /\ iodiv * q \in Nat
            /\ OutPos(img, iodiv, p) \in Nat /\ bytes \in Nat
        BY <2>1, <2>2, ReadingFacts
      <3>2. r # 0
        BY <1>8, <2>2
      <3>3. QED
        BY <1>3, <3>1, <3>2
    <2>4. /\ bytes = BytesOf(img, iodiv, p, q, r)
          /\ bk = Spare(Chunk(img, p, iodiv * q + 1))
          /\ Len(put) = OutPos(img, iodiv, p) + 1 + q
      BY <2>1, <2>2, <2>3 DEF Reading
    <2>5. PICK L : L = Loaded
      OBVIOUS
    <2>6. /\ DOMAIN L = 0 .. 2 * iodiv
          /\ L[r] = Data(Input(n + 1)) /\ L[r + 1] = Spare(Input(n + 1))
          /\ \A c \in 0 .. r - 1 : L[c] = mem[c]
      BY <1>3, <2>2, <2>3, <2>5, LoadedIs
    <2>7. PICK tags : tags = Grouped(bk, bytes)
      OBVIOUS
    <2>8. m = FitBoth(L, r, tags)
      BY <1>1, <2>2, <2>3, <2>5, <2>7
    <2>9. /\ DOMAIN m = 0 .. 2 * iodiv /\ m[iodiv] = tags /\ m[r + iodiv] = L[r + 1]
          /\ \A c \in 0 .. iodiv - 1 : m[c] = L[c]
      BY <1>3, <2>3, <2>6, <2>8, FitBothIs
    <2>10. tags = Spare(Tags(p, q + 1, BytesOf(img, iodiv, p, q, r)))
      <3>1. bk[2] = Chunk(img, p, iodiv * q + 1)
        BY <2>4 DEF Spare
      <3>2. bk[2].obj = p /\ bk[2].chunkId = iodiv * q + 1
        BY <1>3, <2>3, <3>1, ChunkType
      <3>3. GroupId(iodiv * q + 1) = q + 1
        <4>1. 1 \in 1 .. iodiv
          BY <1>3
        <4>2. QED
          BY <1>3, <2>3, <4>1, GroupIdIs
      <3>4. QED
        BY <2>4, <2>7, <3>2, <3>3 DEF Grouped
    <2>11. PICK first, second : first = PageAt(m, 0) /\ second = PageAt(m, r)
      OBVIOUS
    <2>12. /\ \A c \in 0 .. r - 1 : m[c] = mem[c]
           /\ 0 + iodiv = iodiv /\ first.tags = m[0 + iodiv]
           /\ second.main[0] = m[r + 0] /\ r + 0 = r /\ second.tags = m[r + iodiv]
      <3>1. \A c \in 0 .. r - 1 : c \in 0 .. iodiv - 1
        BY <1>3, <2>3
      <3>2. 0 + iodiv = iodiv /\ r + 0 = r /\ 0 \in 0 .. iodiv - 1
        BY <1>3, <2>3
      <3>3. \A c \in 0 .. r - 1 : m[c] = mem[c]
        BY <2>6, <2>9, <3>1
      <3>4. first.tags = m[0 + iodiv] /\ second.main[0] = m[r + 0]
            /\ second.tags = m[r + iodiv]
        BY <2>11, <3>2 DEF PageAt
      <3>5. QED
        BY <3>2, <3>3, <3>4
    <2>13. \A c \in 1 .. r : first.main[c - 1] = Data(Chunk(img, p, iodiv * q + c))
      <3>1. Reading(p, q, r) /\ r # 0
        BY <1>8, <2>1, <2>2
      <3>2. \A c \in 0 .. r - 1 : m[c] = mem[c]
        BY <2>12
      <3>3. QED
        <4>1. \A c \in 1 .. r :
                PageAt(m, 0).main[c - 1] = Data(Chunk(img, p, iodiv * q + c))
          BY <3>1, <3>2, OpenPage
        <4>2. QED
          BY <2>11, <4>1, Zenon
    <2>14. /\ GoodData(first, img, iodiv, Len(put) + 1)
           /\ GoodTags(first, img, iodiv, Len(put) + 1)
      <3>1. first.tags = Spare(Tags(p, q + 1, BytesOf(img, iodiv, p, q, r)))
        BY <2>9, <2>10, <2>12
      <3>2. OutPos(img, iodiv, p) + 1 + (q + 1) = Len(put) + 1
        BY <2>3, <2>4
      <3>3. iodiv * q + r = img[p].chunks
        BY <2>1, <2>2
      <3>4. /\ GoodData(first, img, iodiv, OutPos(img, iodiv, p) + 1 + (q + 1))
            /\ GoodTags(first, img, iodiv, OutPos(img, iodiv, p) + 1 + (q + 1))
        BY <1>3, <2>3, <2>13, <3>1, <3>3, GroupGood
      <3>5. QED
        BY <3>2, <3>4
    <2>15. PICK s : s = Append(put, first)
      OBVIOUS
    <2>16. /\ IsSeq(s) /\ Len(s) = Len(put) + 1 /\ AllGood(img, iodiv, s)
           /\ Placed(bad, yaffs_offs, yaffs_part, flash, put) /\ Len(put) \in Nat
      BY <1>2, <1>3, <2>14, <2>15, PutIsSeq, AppendIs, AppendGood
    <2>17. Len(s) = OutPos(img, iodiv, o)
      BY <2>1, <2>2, <2>3, <2>16, ObjectEnd
    <2>18. /\ GoodData(second, img, iodiv, Len(s) + 1)
           /\ GoodTags(second, img, iodiv, Len(s) + 1)
      <3>1. second.main[0] = Data(Chunk(img, o, 0)) /\ second.tags = Spare(Chunk(img, o, 0))
        <4>1. r \in 0 .. iodiv - 1
          BY <2>3
        <4>2. m[r] = L[r]
          BY <2>9, <4>1
        <4>3. QED
          BY <1>6, <2>6, <2>9, <2>12, <4>2
      <3>2. QED
        BY <1>3, <1>6, <2>17, <3>1, HeaderGood
    <2>19. put' = Append(s, second)
      <3>1. Became(yaffs_put_page(yaffs_put_page(Out, first), second))
        BY <1>2, <2>2, <2>3, <2>11
      <3>2. QED
        BY <2>15, <2>16, <3>1, PutTwice
    <2>20. AllGood(img, iodiv, put') /\ Len(put') = OutPos(img, iodiv, o) + 1
      BY <2>16, <2>17, <2>18, <2>19, AppendIs, AppendGood
    <2>21. Reading(o, 0, 0)'
      BY <1>2, <1>6, <2>20, HeaderRead
    <2>22. QED
      BY <1>2, <2>9, <2>20, <2>21, ConvKeep
  <1>9. QED
    BY <1>7, <1>8
LEMMA ConvData == PlaceInv /\ ConvInv /\ DataPage => ConvInv'
  <1> SUFFICES ASSUME PlaceInv, ConvInv, DataPage
               PROVE  ConvInv'
    OBVIOUS
  <1>1. /\ pc = "conv" /\ n < InLen /\ n' = n + 1 /\ iodiv > 1
        /\ Input(n + 1).chunkId # 0
        /\ iodiv' = iodiv /\ img' = img /\ pc' = pc
        /\ bk' = IF sub = 0 THEN Loaded[1] ELSE bk
        /\ bytes' = IF sub + 1 = iodiv THEN 0 ELSE bytes + Input(n + 1).byteCount
    BY DEF DataPage, GetPage, BytesAfter
  <1>2. /\ img \in Image /\ iodiv \in Nat \ {0} /\ iodiv \in Nat
        /\ DOMAIN mem = 0 .. 2 * iodiv /\ AllGood(img, iodiv, put)
    BY <1>1 DEF ConvInv
  <1>3. ASSUME NEW o, HeaderNext(o)
        PROVE  FALSE
    <2>1. o \in 1 .. Len(img) /\ Input(n + 1) = Chunk(img, o, 0)
      BY <1>3 DEF HeaderNext
    <2>2. QED
      BY <1>1, <1>2, <2>1, ChunkType
  <1>4. PICK o, q, r : ChunkNext(o, q, r)
    BY <1>1, <1>3, NextIs
  <1>5. /\ Reading(o, q, r) /\ iodiv * q + (r + 1) <= img[o].chunks
        /\ Input(n + 1) = Chunk(img, o, iodiv * q + (r + 1))
    BY <1>4 DEF ChunkNext
  <1>6. /\ o \in 1 .. Len(img) /\ q \in Nat /\ r \in 0 .. iodiv - 1 /\ r \in Nat
        /\ iodiv * q \in Nat /\ img[o].chunks \in Nat /\ InPos(img, o) \in Nat
        /\ OutPos(img, iodiv, o) \in Nat /\ bytes \in Nat /\ sub = r
    BY <1>5, ReadingFacts
  <1>7. /\ bytes = BytesOf(img, iodiv, o, q, r)
        /\ r > 0 => bk = Spare(Chunk(img, o, iodiv * q + 1))
        /\ Len(put) = OutPos(img, iodiv, o) + 1 + q
        /\ n = InPos(img, o) + 1 + (iodiv * q + r)
        /\ \A c \in 1 .. r : mem[c - 1] = Data(Chunk(img, o, iodiv * q + c))
    BY <1>5 DEF Reading
  <1>8. PICK L : L = Loaded
    OBVIOUS
  <1>9. /\ DOMAIN L = 0 .. 2 * iodiv
        /\ L[r] = Data(Input(n + 1)) /\ L[r + 1] = Spare(Input(n + 1))
        /\ \A c \in 0 .. r - 1 : L[c] = mem[c]
    BY <1>2, <1>6, <1>8, LoadedIs
  <1>10. \A c \in 1 .. r + 1 : L[c - 1] = Data(Chunk(img, o, iodiv * q + c))
    <2> TAKE c \in 1 .. r + 1
    <2>1. CASE c = r + 1
      <3>1. c - 1 = r
        BY <1>6, <2>1
      <3>2. QED
        BY <1>5, <1>9, <2>1, <3>1
    <2>2. CASE c # r + 1
      <3>1. c \in 1 .. r /\ c - 1 \in 0 .. r - 1
        BY <1>6, <2>2
      <3>2. QED
        BY <1>7, <1>9, <3>1
    <2>3. QED
      BY <2>1, <2>2
  <1>11. PICK b \in Nat : b = bytes + Input(n + 1).byteCount
                          /\ b = BytesOf(img, iodiv, o, q, r + 1)
    <2>1. Input(n + 1).byteCount \in Nat
      BY <1>2, <1>5, <1>6, ChunkType
    <2>2. BytesOf(img, iodiv, o, q, r + 1) = bytes + Input(n + 1).byteCount
      <3>1. BytesOf(img, iodiv, o, q, r + 1) =
              BytesOf(img, iodiv, o, q, r) + Chunk(img, o, iodiv * q + (r + 1)).byteCount
        BY <1>2, <1>6, BytesStep, Zenon
      <3>2. QED
        BY <1>5, <1>7, <3>1
    <2>3. QED
      BY <1>6, <2>1, <2>2
  <1>12. CASE sub + 1 = iodiv
    <2>1. r = iodiv - 1 /\ r + 1 = iodiv
      BY <1>2, <1>6, <1>12
    <2>2. PICK m : m = [L EXCEPT ![iodiv] = Grouped(L[iodiv], b)]
      OBVIOUS
    <2>3. mem' = m /\ sub' = 0 /\ Became(yaffs_put_page(Out, PageAt(m, 0))) /\ bytes' = 0
      BY <1>1, <1>8, <1>11, <1>12, <2>2 DEF DataPage
    <2>4. /\ DOMAIN m = 0 .. 2 * iodiv /\ m[iodiv] = Grouped(L[iodiv], b)
          /\ \A c \in 0 .. iodiv - 1 : m[c] = L[c]
      <3>1. iodiv \in 0 .. 2 * iodiv
            /\ \A c \in 0 .. iodiv - 1 : c \in 0 .. 2 * iodiv /\ c # iodiv
        BY <1>2
      <3>2. QED
        BY <1>9, <2>2, <3>1
    <2>5. m[iodiv] = Spare(Tags(o, q + 1, b))
      <3>1. L[iodiv][2] = Chunk(img, o, iodiv * q + iodiv)
        BY <1>5, <1>9, <2>1 DEF Spare
      <3>2. L[iodiv][2].obj = o /\ L[iodiv][2].chunkId = iodiv * q + iodiv
        BY <1>2, <1>6, <3>1, ChunkType
      <3>3. GroupId(iodiv * q + iodiv) = q + 1
        <4>1. PICK x : x = iodiv
          OBVIOUS
        <4>2. x \in 1 .. iodiv
          BY <1>2, <4>1
        <4>3. GroupId(iodiv * q + x) = q + 1
          BY <1>2, <1>6, <4>2, GroupIdIs
        <4>4. QED
          BY <4>1, <4>3
      <3>4. QED
        BY <2>4, <3>2, <3>3 DEF Grouped
    <2>6. PICK page : page = PageAt(m, 0)
      OBVIOUS
    <2>7. page.tags = m[iodiv] /\ \A c \in 0 .. iodiv - 1 : page.main[c] = m[c]
      <3>1. 0 + iodiv = iodiv /\ \A c \in 0 .. iodiv - 1 : 0 + c = c
        BY <1>2
      <3>2. page.tags = m[0 + iodiv] /\ \A c \in 0 .. iodiv - 1 : page.main[c] = m[0 + c]
        BY <2>6 DEF PageAt
      <3>3. QED
        BY <3>1, <3>2
    <2>8. \A c \in 1 .. r + 1 : page.main[c - 1] = Data(Chunk(img, o, iodiv * q + c))
      <3> TAKE c \in 1 .. r + 1
      <3>1. c - 1 \in 0 .. iodiv - 1
        BY <1>2, <2>1
      <3>2. QED
        BY <1>10, <2>4, <2>7, <3>1
    <2>9. /\ GoodData(page, img, iodiv, Len(put) + 1)
          /\ GoodTags(page, img, iodiv, Len(put) + 1)
      <3>1. PICK x : x = r + 1
        OBVIOUS
      <3>2. x \in 1 .. iodiv /\ x = iodiv /\ iodiv * q + x <= img[o].chunks
        BY <1>2, <1>5, <2>1, <3>1
      <3>3. page.tags = Spare(Tags(o, q + 1, BytesOf(img, iodiv, o, q, x)))
        BY <1>11, <2>5, <2>7, <3>1
      <3>4. \A c \in 1 .. x : page.main[c - 1] = Data(Chunk(img, o, iodiv * q + c))
        BY <2>8, <3>1
      <3>5. OutPos(img, iodiv, o) + 1 + (q + 1) = Len(put) + 1
        <4>1. PICK a \in Nat : a = OutPos(img, iodiv, o)
          BY <1>6
        <4>2. a + 1 + (q + 1) = (a + 1 + q) + 1
          BY <1>6
        <4>3. QED
          BY <1>7, <4>1, <4>2
      <3>6. /\ GoodData(page, img, iodiv, OutPos(img, iodiv, o) + 1 + (q + 1))
            /\ GoodTags(page, img, iodiv, OutPos(img, iodiv, o) + 1 + (q + 1))
        BY <1>2, <1>6, <3>2, <3>3, <3>4, GroupGood
      <3>7. QED
        BY <3>5, <3>6
    <2>10. IsSeq(put) /\ put' = Append(put, page)
      BY <1>1, <2>3, <2>6, PutIsSeq, PutOnce
    <2>11. AllGood(img, iodiv, put') /\ Len(put') = Len(put) + 1
      BY <1>2, <2>9, <2>10, AppendGood, AppendIs
    <2>12. Reading(o, q + 1, 0)'
      BY <1>1, <1>4, <2>1, <2>3, <2>11, GroupRead
    <2>13. QED
      BY <1>1, <2>3, <2>4, <2>11, <2>12, ConvKeep
  <1>13. CASE sub + 1 # iodiv
    <2>1. mem' = L /\ sub' = sub + 1 /\ put' = put /\ bytes' = b
      BY <1>1, <1>8, <1>11, <1>13 DEF DataPage, out
    <2>2. r + 1 \in 0 .. iodiv - 1
      BY <1>2, <1>6, <1>13
    <2>3. bk' = Spare(Chunk(img, o, iodiv * q + 1))
      <3>1. CASE r = 0
        <4>1. bk' = L[r + 1] /\ r + 1 = 1
          BY <1>1, <1>6, <1>8, <3>1
        <4>2. QED
          BY <1>5, <1>9, <4>1
      <3>2. CASE r # 0
        BY <1>1, <1>6, <1>7, <3>2
      <3>3. QED
        BY <3>1, <3>2
    <2>4. n' = InPos(img, o) + 1 + (iodiv * q + (r + 1))
      <3>1. PICK z \in Nat, a \in Nat : z = iodiv * q /\ a = InPos(img, o)
        BY <1>6
      <3>2. (a + 1 + (z + r)) + 1 = a + 1 + (z + (r + 1))
        BY <1>6
      <3>3. QED
        BY <1>1, <1>7, <3>1, <3>2
    <2>5. Reading(o, q, r + 1)'
      BY <1>1, <1>5, <1>6, <1>7, <1>10, <1>11, <2>1, <2>2, <2>3, <2>4 DEF Reading
    <2>6. AllGood(img, iodiv, put')
      BY <1>2, <2>1
    <2>7. QED
      BY <1>1, <1>9, <2>1, <2>5, <2>6, ConvKeep
  <1>14. QED
    BY <1>12, <1>13

LEMMA ConvEnd == PlaceInv /\ ConvInv /\ EndOfImage => ConvInv'
  <1> SUFFICES ASSUME PlaceInv, ConvInv, EndOfImage
               PROVE  ConvInv'
    OBVIOUS
  <1>1. /\ pc = "conv" /\ n = InLen /\ pc' = "done"
        /\ iodiv' = iodiv /\ img' = img /\ n' = n /\ sub' = sub /\ bytes' = bytes
    BY DEF EndOfImage
  <1>2. /\ img \in Image /\ iodiv \in Nat \ {0} /\ iodiv \in Nat
        /\ DOMAIN mem = 0 .. 2 * iodiv /\ AllGood(img, iodiv, put)
        /\ NothingRead \/ \E o, q, r : Reading(o, q, r)
    BY <1>1 DEF ConvInv
  <1>3. Len(img) \in Nat
    BY <1>2 DEF Image
  <1>4. IsSeq(put) /\ Len(put) \in Nat /\ Placed(bad, yaffs_offs, yaffs_part, flash, put)
    BY <1>1, PutIsSeq
  <1>5. n' = InLen'
    BY <1>1 DEF InLen
  <1>a. ASSUME sub \in 0 .. iodiv - 1, bytes \in Nat, DOMAIN mem' = 0 .. 2 * iodiv,
               Len(put') = OutPos(img, iodiv, Len(img) + 1), Converted'
        PROVE  ConvInv'
    BY <1>1, <1>2, <1>5, <1>a DEF ConvInv
  <1>b. ASSUME sub = 0
        PROVE  mem' = mem /\ put' = put /\ Converted'
    <2>1. mem' = mem /\ put' = put
      BY <1>b DEF EndOfImage, OpenGroup, out
    <2>2. QED
      BY <1>1, <1>2, <2>1 DEF Converted, AllGood
  <1>6. CASE NothingRead
    <2>1. sub = 0 /\ bytes = 0 /\ n = 0 /\ Len(put) = 0
      BY <1>6 DEF NothingRead
    <2>2. Len(img) = 0
      <3>1. SUFFICES ASSUME Len(img) # 0 PROVE FALSE
        OBVIOUS
      <3>2. 1 \in 1 .. Len(img)
        BY <1>3, <3>1
      <3>3. /\ InPos(img, 1) \in Nat /\ img[1].chunks \in Nat
            /\ InPos(img, 1 + 1) = InPos(img, 1) + 1 + img[1].chunks
            /\ InPos(img, 1 + 1) <= InLen /\ InLen \in Nat
        BY <1>2, <3>2, InPlaces, ObjectType DEF InLen
      <3>4. PICK a \in Nat, c \in Nat : a = InPos(img, 1) /\ c = img[1].chunks
        BY <3>3
      <3>5. a + 1 + c <= InLen
        BY <3>3, <3>4
      <3>6. QED
        BY <1>1, <2>1, <3>5
    <2>3. Len(put) = OutPos(img, iodiv, Len(img) + 1)
      <3>1. Len(img) + 1 = 1
        BY <2>2
      <3>2. QED
        BY <2>1, <3>1, OutStart
    <2>4. 0 \in 0 .. iodiv - 1
      BY <1>2
    <2>5. QED
      BY <1>2, <1>a, <1>b, <2>1, <2>3, <2>4
  <1>7. ASSUME NEW o, NEW q, NEW r, Reading(o, q, r)
        PROVE  ConvInv'
    <2>1. /\ o \in 1 .. Len(img) /\ q \in Nat /\ r \in 0 .. iodiv - 1 /\ r \in Nat
          /\ iodiv * q \in Nat /\ img[o].chunks \in Nat /\ InPos(img, o) \in Nat
          /\ OutPos(img, iodiv, o) \in Nat /\ bytes \in Nat /\ sub = r
          /\ InPos(img, o + 1) = InPos(img, o) + 1 + img[o].chunks
      BY <1>7, ReadingFacts
    <2>2. /\ iodiv * q + r <= img[o].chunks
          /\ n = InPos(img, o) + 1 + (iodiv * q + r)
          /\ bytes = BytesOf(img, iodiv, o, q, r)
          /\ r > 0 => bk = Spare(Chunk(img, o, iodiv * q + 1))
          /\ Len(put) = OutPos(img, iodiv, o) + 1 + q
      BY <1>7 DEF Reading
    <2>3. iodiv * q + r = img[o].chunks /\ o = Len(img)
      <3>1. PICK z \in Nat, a \in Nat, c \in Nat :
              z = iodiv * q /\ a = InPos(img, o) /\ c = img[o].chunks
        BY <2>1
      <3>2. /\ z + r <= c /\ n = a + 1 + (z + r) /\ InPos(img, o + 1) = a + 1 + c
        BY <2>1, <2>2, <3>1
      <3>3. InPos(img, o + 1) <= InLen /\ InLen \in Nat
        BY <1>2, <2>1, InPlaces DEF InLen
      <3>4. z + r = c /\ InLen = a + 1 + c
        <4>1. a + 1 + c <= n /\ r \in Nat
          BY <1>1, <2>1, <3>2, <3>3
        <4>2. QED
          BY <1>1, <3>2, <3>3, <4>1
      <3>5. o = Len(img)
        <4>1. SUFFICES ASSUME o # Len(img) PROVE FALSE
          OBVIOUS
        <4>2. PICK p : p = o + 1 /\ p \in 1 .. Len(img)
          BY <1>3, <2>1, <4>1
        <4>3. /\ InPos(img, p + 1) = InPos(img, p) + 1 + img[p].chunks
              /\ InPos(img, p + 1) <= InLen /\ img[p].chunks \in Nat
          BY <1>2, <4>2, InPlaces, ObjectType DEF InLen
        <4>4. PICK y \in Nat : y = img[p].chunks
          BY <4>3
        <4>5. (a + 1 + c) + 1 + y <= a + 1 + c
          BY <3>2, <3>4, <4>2, <4>3, <4>4
        <4>6. QED
          BY <4>5
      <3>6. QED
        BY <3>1, <3>4, <3>5
    <2>4. /\ r = 0 => Len(put) = OutPos(img, iodiv, Len(img) + 1)
          /\ r # 0 => Len(put) + 1 = OutPos(img, iodiv, Len(img) + 1)
      BY <1>7, <2>3, ObjectEnd
    <2>5. CASE r = 0
      BY <1>2, <1>a, <1>b, <2>1, <2>4, <2>5
    <2>6. CASE r # 0
      <3>1. r \in 1 .. iodiv - 1 /\ r \in 1 .. iodiv /\ sub > 0
        BY <1>2, <2>1, <2>6
      <3>2. PICK m : m = FitBoth(mem, r, bk)
        OBVIOUS
      <3>3. mem' = m /\ Became(yaffs_put_page(Out, PageAt(m, 0)))
        BY <2>1, <3>1, <3>2 DEF EndOfImage, OpenGroup
      <3>4. /\ DOMAIN m = 0 .. 2 * iodiv
            /\ \A c \in 0 .. iodiv - 1 : m[c] = mem[c]
        <4>1. /\ DOMAIN FitBoth(mem, r, bk) = 0 .. 2 * iodiv
              /\ \A c \in 0 .. iodiv - 1 : FitBoth(mem, r, bk)[c] = mem[c]
          BY <1>2, <3>1, FitBothIs
        <4>2. QED
          BY <3>2, <4>1, Zenon
      <3>5. \A c \in 0 .. r - 1 : m[c] = mem[c]
        <4>1. \A c \in 0 .. r - 1 : c \in 0 .. iodiv - 1
          BY <1>2, <2>1
        <4>2. QED
          BY <3>4, <4>1
      <3>6. PICK page : page = PageAt(m, 0)
        OBVIOUS
      <3>7. \A c \in 1 .. r : page.main[c - 1] = Data(Chunk(img, o, iodiv * q + c))
        <4>1. \A c \in 1 .. r :
                PageAt(m, 0).main[c - 1] = Data(Chunk(img, o, iodiv * q + c))
          BY <1>7, <2>6, <3>5, OpenPage
        <4>2. QED
          BY <3>6, <4>1, Zenon
      <3>8. GoodData(page, img, iodiv, Len(put) + 1)
        <4>1. OutPos(img, iodiv, o) + 1 + (q + 1) = Len(put) + 1
          <5>1. PICK a \in Nat : a = OutPos(img, iodiv, o)
            BY <2>1
          <5>2. a + 1 + (q + 1) = (a + 1 + q) + 1
            BY <2>1
          <5>3. QED
            BY <2>2, <5>1, <5>2
        <4>2. GoodData(page, img, iodiv, OutPos(img, iodiv, o) + 1 + (q + 1))
          BY <1>2, <2>1, <2>3, <3>1, <3>7, GroupGood
        <4>3. QED
          BY <4>1, <4>2
      <3>9. put' = Append(put, page)
        BY <1>4, <3>3, <3>6, PutOnce
      <3>10. /\ Len(put') = Len(put) + 1 /\ put'[Len(put) + 1] = page
             /\ \A k \in 1 .. Len(put) : put'[k] = put[k]
        BY <1>4, <3>9, AppendIs
      <3>11. Converted'
        <4>1. SUFFICES ASSUME NEW k \in 1 .. Len(put')
                       PROVE  /\ GoodData(put'[k], img, iodiv, k)
                              /\ ~Closing(k)' => GoodTags(put'[k], img, iodiv, k)
          BY <1>1 DEF Converted
        <4>2. CASE k = Len(put) + 1
          BY <1>1, <3>1, <3>8, <3>10, <4>2 DEF Closing
        <4>3. CASE k # Len(put) + 1
          <5>1. k \in 1 .. Len(put)
            BY <1>4, <3>10, <4>3
          <5>2. QED
            BY <1>2, <3>10, <5>1 DEF AllGood
        <4>4. QED
          BY <4>2, <4>3
      <3>12. QED
        BY <1>a, <2>1, <2>4, <2>6, <3>3, <3>4, <3>10, <3>11
    <2>7. QED
      BY <2>5, <2>6
  <1>8. QED
    BY <1>2, <1>6, <1>7

LEMMA ConvBurn == PlaceInv /\ ConvInv /\ yaffs_burn => ConvInv'
  BY DEF ConvInv, yaffs_burn, buffer, NothingRead

LEMMA ConvStep == PlaceInv /\ ConvInv /\ [Next]_vars => ConvInv'
  <1> SUFFICES ASSUME PlaceInv, ConvInv, [Next]_vars
               PROVE  ConvInv'
    OBVIOUS
  <1>1. CASE UNCHANGED vars
    BY <1>1 DEF ConvInv, vars, buffer, out, NothingRead, Reading, InLen, Converted, Closing
  <1>2. QED
    BY <1>1, ConvBurn, ConvDirect, ConvHeader, ConvData, ConvEnd DEF Next

LEMMA ConvInit == Init => ConvInv
  <1> SUFFICES ASSUME Init
               PROVE  ConvInv
    OBVIOUS
  <1>1. iodiv \in Nat \ {0} /\ img \in Image
    BY YaffsAssumption DEF Init, Image
  <1>2. put = <<>> /\ Len(put) = 0 /\ n = 0 /\ sub = 0 /\ bytes = 0 /\ pc = "start"
        /\ DOMAIN mem = 0 .. 2 * iodiv
    BY DEF Init
  <1>3. AllGood(img, iodiv, put)
    BY <1>2 DEF AllGood
  <1>4. QED
    BY <1>1, <1>2, <1>3 DEF ConvInv, NothingRead

\* The invariants give the conversion's promise.
LEMMA ConvGives == PlaceInv /\ ConvInv => ConversionInv
  <1> SUFFICES ASSUME PlaceInv, ConvInv
               PROVE  ConversionInv
    OBVIOUS
  <1>1. /\ img \in Image /\ iodiv \in Nat \ {0} /\ DOMAIN mem = 0 .. 2 * iodiv
        /\ pc \in {"start", "conv", "done"}
    BY DEF ConvInv
  <1>2. Len(img) \in Nat
    BY <1>1 DEF Image
  <1>3. InLen \in Nat
    <2>1. CASE Len(img) = 0
      BY <2>1, InStart DEF InLen
    <2>2. CASE Len(img) # 0
      <3>1. 1 \in 1 .. Len(img)
        BY <1>2, <2>2
      <3>2. QED
        BY <1>1, <3>1, InPlaces DEF InLen
    <2>3. QED
      BY <2>1, <2>2
  <1>4. /\ yaffs_part \in Nat /\ yaffs_offs + yaffs_part = PartBlocks * PagesPerBlock
    <2>1. Total \in Nat /\ Total = PartBlocks * PagesPerBlock
      BY PagesAre DEF Total
    <2>2. yaffs_part \in Nat /\ yaffs_offs + yaffs_part = Total
      BY <2>1 DEF PlaceInv, Placed
    <2>3. QED
      BY <2>1, <2>2
  <1>5. n \in 0 .. InLen /\ sub \in 0 .. iodiv - 1 /\ bytes \in Nat
    <2>1. CASE NothingRead
      BY <1>1, <1>3, <2>1 DEF NothingRead
    <2>2. ASSUME NEW o, NEW q, NEW r, Reading(o, q, r)
          PROVE  n \in 0 .. InLen /\ sub \in 0 .. iodiv - 1 /\ bytes \in Nat
      <3>1. n \in 1 .. InLen /\ r \in 0 .. iodiv - 1 /\ sub = r /\ bytes \in Nat
        BY <2>2, ReadingFacts
      <3>2. QED
        BY <1>3, <3>1
    <2>3. CASE pc = "done"
      BY <1>3, <2>3 DEF ConvInv
    <2>4. QED
      BY <2>1, <2>2, <2>3 DEF ConvInv
  <1>6. TypeOK
    BY <1>1, <1>4, <1>5 DEF TypeOK
  <1>7. Converted /\ AllPut
    BY DEF ConvInv, AllGood, Converted, AllPut
  <1>8. QED
    BY <1>6, <1>7 DEF ConversionInv

\* However headers and chunks follow each other, for every image and every
\* size of NAND page, each page put has the data of its object and chunks
\* under the tags of its group, none is left in the buffer at the end, and
\* only the tags of a group the image ends in are not those of a group
\* (yaffs_conv, page_fit).
THEOREM ConversionHolds == Spec => []ConversionInv
  <1>1. Init => PlaceInv
    BY DEF Init, PlaceInv, Total
  <1>2. QED
    BY <1>1, ConvInit, PlaceStep, ConvStep, ConvGives, PTL DEF Spec
=============================================================================
