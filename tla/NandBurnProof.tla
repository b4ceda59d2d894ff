--------------------------- MODULE NandBurnProof ---------------------------
(***************************************************************************)
(* Theorems about NandBurn for every page, block and chip size, every set  *)
(* of bad blocks and every descriptor.                                     *)
(***************************************************************************)
EXTENDS NandBurnSlot, FiniteSetTheorems, TLAPS

\* Division by a positive number, as the provers need it: the quotient is an
\* integer, and a natural number when the dividend is one.
LEMMA DivType ==
  ASSUME NEW a \in Nat, NEW n \in Nat \ {0}
  PROVE  a \div n \in Nat /\ a % n \in 0 .. n - 1
  OBVIOUS

\* A number lies between its quotient's multiple and the next.
LEMMA DivBounds ==
  ASSUME NEW a \in Nat, NEW n \in Nat \ {0}
  PROVE  n * (a \div n) <= a /\ a < n * (a \div n) + n
  OBVIOUS

\* A number is its quotient's multiple and its remainder.
LEMMA DivMod ==
  ASSUME NEW a \in Nat, NEW n \in Nat \ {0},
         NEW q \in Nat, q = a \div n, NEW r \in Nat, r = a % n
  PROVE  a = n * q + r
  OBVIOUS

\* Those bounds determine the quotient.
LEMMA DivUnique ==
  ASSUME NEW a \in Nat, NEW n \in Nat \ {0}, NEW q \in Nat,
         n * q <= a, a < n * q + n
  PROVE  a \div n = q
  OBVIOUS

\* The fields of a descriptor.
LEMMA DescType ==
  ASSUME NEW d \in CallerDesc
  PROVE  /\ d.dev \in AllDevs
         /\ d.offo \in Nat /\ d.length \in Nat /\ d.max \in Nat
         /\ d.same \in BOOLEAN /\ d.cfg \in BOOLEAN
  BY DescAssumption DEF CallerDesc, Desc

\* The sizes burn_image_loop works with are numbers.
LEMMA StepType ==
  ASSUME NEW d \in CallerDesc
  PROVE  /\ StepOf(d.dev) \in Nat \ {0}
         /\ SrcStepOf(d.dev) \in Nat \ {0}
         /\ BurnLength(d) \in Nat
  <1>1. fnd_align \in Nat \ {0}
    BY SizesAssumption DEF fnd_align
  <1>2. fnd_size_shrink(d.length) \in Nat
    <2>1. d.length \div fnd_align \in Nat
      BY <1>1, DivType, DescType
    <2>2. QED
      BY <2>1, SizesAssumption DEF fnd_size_shrink
  <1>3. QED
    BY <1>1, <1>2, DescType, SizesAssumption DEF StepOf, SrcStepOf, BurnLength

\* A number of failed operations is a number: only finitely many blocks are
\* erased.
LEMMA ErasedFinite ==
  ASSUME NEW d \in CallerDesc, NEW failed \in SUBSET ErasedBlocks(d)
  PROVE  IsFiniteSet(failed) /\ Cardinality(failed) \in Nat
  <1> DEFINE size == EraseSize(d.dev, d.max)
             n == (size + (d.offo % BlockSize) + BlockSize - 1) \div BlockSize
  <1>1. size \in Nat
    <2>1. fnd_align \in Nat \ {0}
      BY SizesAssumption DEF fnd_align
    <2>2. d.max \div fnd_align \in Nat
      BY <2>1, DivType, DescType
    <2>3. QED
      BY <2>2, DescType, SizesAssumption DEF EraseSize, fnd_size_shrink
  <1>2. d.offo % BlockSize \in Nat /\ d.offo \div BlockSize \in Nat
    BY DivType, DescType, SizesAssumption
  <1>3. n \in Nat
    <2>1. size + (d.offo % BlockSize) + BlockSize - 1 \in Nat
      BY <1>1, <1>2, SizesAssumption
    <2>2. QED
      BY <2>1, DivType, SizesAssumption
  <1>4. EraseRange(d.offo, size) = BlockOf(d.offo) .. BlockOf(d.offo) + n - 1
    BY DEF EraseRange
  <1>5. IsFiniteSet(EraseRange(d.offo, size))
    BY <1>2, <1>3, <1>4, FS_Interval DEF BlockOf
  <1>6. failed \subseteq EraseRange(d.offo, size)
    BY DEF ErasedBlocks
  <1>7. QED
    BY <1>5, <1>6, FS_Subset, FS_CardinalityType

---------------------------------------------------------------------------
(* Type correctness, one step per action.                                  *)

\* The locals start with their types.
LEMMA TypeInit == Init => TypeOK
  BY SizesAssumption DEF Init, TypeOK, Results, Old

\* The erase leaves pages erased or alone, and only clears bad marks.
LEMMA TypeBegin == TypeOK /\ Begin => TypeOK'
  <1> SUFFICES ASSUME TypeOK, Begin PROVE TypeOK'
    OBVIOUS
  <1>1. CASE desc.same
    BY <1>1 DEF TypeOK, Begin, locals, Results
  <1>2. CASE ~desc.same /\ ~(vs_device_erasable(desc.dev) /\ desc.cfg)
    BY <1>2 DEF TypeOK, Begin, locals, Results
  <1>3. CASE ~desc.same /\ vs_device_erasable(desc.dev) /\ desc.cfg
    <2>1. PICK failed \in SUBSET ErasedBlocks(desc) :
            /\ ioerr + Cardinality(failed) <= MaxIoErrors
            /\ ioerr' = ioerr + Cardinality(failed)
            /\ vs_erase(desc, failed)
      BY <1>3 DEF Begin
    <2>2. Cardinality(failed) \in Nat
      BY ErasedFinite DEF TypeOK
    <2>3. ioerr' \in 0 .. MaxIoErrors
      BY <2>1, <2>2, SizesAssumption DEF TypeOK
    <2>4. flash' \in [Pages -> Int] /\ bad' \subseteq Blocks
      BY <2>1 DEF vs_erase, TypeOK, Erased
    <2>5. QED
      BY <1>3, <2>3, <2>4 DEF TypeOK, Begin, locals, Results
  <1>4. QED
    BY <1>1, <1>2, <1>3

\* The sizes burn_image_loop computes are numbers; leeway may be negative.
LEMMA TypeSetup == TypeOK /\ Setup => TypeOK'
  <1> SUFFICES ASSUME TypeOK, Setup PROVE TypeOK'
    OBVIOUS
  <1>1. desc.offo \in Nat /\ desc.max \in Nat /\ BurnLength(desc) \in Nat
    BY DescType, StepType DEF TypeOK
  <1>2. QED
    BY <1>1 DEF TypeOK, Setup, Results

\* A skipped block moves the offset up.
LEMMA TypeSkipBad == TypeOK /\ SkipBad => TypeOK'
  BY SizesAssumption DEF TypeOK, SkipBad, AfterSkip

\* What one step programs is always a page content.
LEMMA WriteType ==
  ASSUME TypeOK, NEW good \in 0 .. PageCount(StepOf(desc.dev)), vs_write(good)
  PROVE  flash' \in [Pages -> Int]
  <1> DEFINE src == SrcPage(desc.dev, offs_i)
             first == FirstPage(offs_o)
  <1>1. src \in Nat /\ first \in Nat
    <2>1. fnd_align \in Nat \ {0}
      BY SizesAssumption DEF fnd_align
    <2>2. offs_i \in Nat /\ offs_o \in Nat
      BY DEF TypeOK
    <2>3. offs_i \div fnd_align \in Nat /\ offs_i \div PageSize \in Nat
          /\ offs_o \div PageSize \in Nat
      BY <2>1, <2>2, DivType, SizesAssumption
    <2>4. QED
      BY <2>3 DEF SrcPage, FirstPage
  <1>2. ASSUME NEW p \in Pages
        PROVE  flash[p] \in Int /\ p \in Int
               /\ Program(desc.dev, flash[p], src + (p - first)) \in Int
    BY <1>1, <1>2, SizesAssumption DEF TypeOK, Program, Torn, Pages
  <1>3. QED
    BY <1>2 DEF vs_write, Torn

\* remain -= min(remain, step) does not go below zero.
LEMMA TypeWriteStep == TypeOK /\ WriteStep => TypeOK'
  <1> SUFFICES ASSUME TypeOK, WriteStep PROVE TypeOK'
    OBVIOUS
  <1>1. StepOf(desc.dev) \in Nat \ {0} /\ SrcStepOf(desc.dev) \in Nat \ {0}
    BY StepType DEF TypeOK
  <1>2. PICK good \in 0 .. PageCount(StepOf(desc.dev)) :
          /\ ioerr + (IF good < PageCount(StepOf(desc.dev)) THEN 1 ELSE 0)
               <= MaxIoErrors
          /\ ioerr' = ioerr
               + (IF good < PageCount(StepOf(desc.dev)) THEN 1 ELSE 0)
          /\ vs_write(good)
    BY DEF WriteStep
  <1>3. flash' \in [Pages -> Int]
    BY <1>2, WriteType
  <1>4. ioerr' \in 0 .. MaxIoErrors
    BY <1>2, SizesAssumption DEF TypeOK
  <1>5. offs_o' \in Nat /\ offs_i' \in Nat /\ remain' \in Nat
    BY <1>1 DEF TypeOK, WriteStep, AfterStep
  <1>6. QED
    BY <1>3, <1>4, <1>5 DEF TypeOK, WriteStep

\* Every step of the burn and of the reader keeps the types.
LEMMA TypeStep == TypeOK /\ [Next]_vars => TypeOK'
  <1> SUFFICES ASSUME TypeOK, [Next]_vars PROVE TypeOK'
    OBVIOUS
  <1>1. CASE BurnNext
    <2>1. CASE NoMoreGood \/ Finish
      BY <2>1 DEF NoMoreGood, Finish, TypeOK, locals, Results
    <2>2. QED
      BY <1>1, <2>1, TypeBegin, TypeSetup, TypeSkipBad, TypeWriteStep
         DEF BurnNext
  <1>2. CASE PowerCut
    BY <1>2 DEF PowerCut, TypeOK, locals, Results
  <1>3. CASE ReadNext
    BY <1>3 DEF ReadNext, ReadBegin, ReadSkip, ReadChunk, ReadEnd, TypeOK,
                locals
  <1>4. CASE UNCHANGED vars
    BY <1>4 DEF vars, TypeOK
  <1>5. QED
    BY <1>1, <1>2, <1>3, <1>4 DEF Next

\* Every variable of the specification keeps its type: in particular the
\* unsigned `remain` of burn_image_loop never wraps below zero.
THEOREM TypeCorrect == Spec => []TypeOK
  BY TypeInit, TypeStep, PTL DEF Spec

---------------------------------------------------------------------------
(* The inductive invariant of the loop.                                    *)

\* A block that the loop is in the middle of has been found good.
InsideGood ==
  IsNand(desc.dev) /\ StartsWell(desc) /\ offs_o % BlockSize # 0 =>
    BlockOf(offs_o) \notin bad

LoopInv ==
  pc = "loop" =>
    /\ desc.offo <= offs_o
    /\ OnStride(desc) => offs_o % StepOf(desc.dev) = 0
    /\ InsideGood

IInv == TypeOK /\ Accounting /\ LoopInv

\* Being a multiple, in the form the provers can use.
LEMMA Multiple ==
  ASSUME NEW a \in Nat, NEW n \in Nat \ {0}
  PROVE  a % n = 0 <=> a = n * (a \div n)
  OBVIOUS

\* A product is a multiple of its factor.
LEMMA MultipleOf ==
  ASSUME NEW n \in Nat \ {0}, NEW k \in Nat
  PROVE  (n * k) % n = 0 /\ (n * k) \div n = k
  OBVIOUS

\* Products of natural numbers.
LEMMA MulCancel ==
  ASSUME NEW s \in Nat \ {0}, NEW a \in Nat, NEW b \in Nat, s * a < s * b
  PROVE  a < b
  OBVIOUS

\* Multiplication is monotone.
LEMMA MulMono ==
  ASSUME NEW s \in Nat, NEW a \in Nat, NEW b \in Nat, a <= b
  PROVE  s * a <= s * b
  OBVIOUS

\* A product with a sum, and with a successor.
LEMMA MulSplit ==
  ASSUME NEW s \in Nat, NEW k \in Nat, NEW q \in Nat
  PROVE  /\ k * q \in Nat /\ k * q + k \in Nat
         /\ (s * k) * q + s * k = s * (k * q + k)
         /\ s * (q + 1) = s * q + s
  OBVIOUS

\* Products of three factors.
LEMMA MulAssoc ==
  ASSUME NEW s \in Nat, NEW k \in Nat, NEW q \in Nat
  PROVE  k * q \in Nat /\ (s * k) * q = s * (k * q)
  OBVIOUS

\* A product is zero only when a factor is.
LEMMA MulPos ==
  ASSUME NEW k \in Nat, NEW q \in Nat
  PROVE  k * q # 0 <=> k # 0 /\ q # 0
  OBVIOUS

\* The stride of every device divides the block size, and is whole pages.
LEMMA Strides ==
  ASSUME NEW d \in CallerDesc
  PROVE  /\ \E k \in Nat \ {0} : BlockSize = StepOf(d.dev) * k
         /\ \E c \in Nat \ {0} : StepOf(d.dev) = PageSize * c
  <1>1. PICK k \in Nat : BlockSize = Step * k
    BY DivType, Multiple, SizesAssumption, StrideAssumption
  <1>2. PICK c \in Nat : Step = PageSize * c
    BY DivType, Multiple, SizesAssumption, StrideAssumption
  <1>3. k # 0 /\ c # 0
    BY <1>1, <1>2, SizesAssumption
  <1>4. c * k \in Nat \ {0} /\ BlockSize = PageSize * (c * k)
    BY <1>1, <1>2, <1>3, MulAssoc, MulPos, SizesAssumption
  <1>5. PageSize = PageSize * 1
    BY SizesAssumption
  <1>6. QED
    BY <1>1, <1>2, <1>3, <1>4, <1>5 DEF StepOf

\* A stride starting at a multiple of the stride lies within one block.
LEMMA StrideInBlock ==
  ASSUME NEW o \in Nat, NEW s \in Nat \ {0}, NEW k \in Nat \ {0},
         BlockSize = s * k, o % s = 0,
         NEW x \in Nat, o <= x, x < o + s
  PROVE  x \div BlockSize = o \div BlockSize
  <1>1. PICK j \in Nat : o = s * j
    BY DivType, Multiple
  <1>2. PICK q \in Nat : q = o \div BlockSize
    BY DivType, SizesAssumption
  <1>3. BlockSize * q <= o /\ o < BlockSize * q + BlockSize
    BY <1>2, DivBounds, SizesAssumption
  <1>4. k * q + k \in Nat /\ BlockSize * q + BlockSize = s * (k * q + k)
    BY MulSplit
  <1>5. j < k * q + k
    BY <1>1, <1>3, <1>4, MulCancel
  <1>6. s * (j + 1) <= s * (k * q + k)
    BY <1>4, <1>5, MulMono
  <1>7. s * (j + 1) = o + s
    BY <1>1, MulSplit
  <1>8. BlockSize * q <= x /\ x < BlockSize * q + BlockSize
    <2>1. BlockSize * q \in Nat
      BY SizesAssumption
    <2>2. QED
      BY <2>1, <1>3, <1>4, <1>6, <1>7, SizesAssumption
  <1>9. QED
    BY <1>2, <1>8, DivUnique, SizesAssumption

\* The pages one step programs all lie in the block the offset is in.
LEMMA StepPages ==
  ASSUME TypeOK, OnStride(desc), offs_o % StepOf(desc.dev) = 0,
         NEW p \in Pages,
         FirstPage(offs_o) <= p,
         p < FirstPage(offs_o) + PageCount(StepOf(desc.dev))
  PROVE  BlockOfPage(p) = BlockOf(offs_o)
  <1> DEFINE s == StepOf(desc.dev)
  <1>1. s \in Nat \ {0} /\ offs_o \in Nat /\ p \in Nat
    BY StepType, SizesAssumption DEF TypeOK, Pages
  <1>2. PICK k \in Nat \ {0} : BlockSize = s * k
    BY Strides DEF TypeOK
  <1>3. PICK c \in Nat \ {0} : s = PageSize * c
    BY Strides DEF TypeOK
  <1>4. PICK j \in Nat : offs_o = s * j
    <2>1. offs_o = s * (offs_o \div s)
      BY <1>1, Multiple
    <2>2. offs_o \div s \in Nat
      BY <1>1, DivType
    <2> HIDE DEF s
    <2>3. QED
      BY <2>1, <2>2
  <1>5. c * j \in Nat /\ offs_o = PageSize * (c * j)
    BY <1>3, <1>4, MulAssoc, SizesAssumption
  <1>6. FirstPage(offs_o) = c * j /\ PageCount(s) = c
    BY <1>3, <1>5, MultipleOf, SizesAssumption DEF FirstPage, PageCount
  <1>7. c * j <= p /\ p + 1 <= c * j + c
    BY <1>1, <1>5, <1>6
  <1>8. PageSize * (c * j) <= PageSize * p
    BY <1>1, <1>5, <1>7, MulMono, SizesAssumption
  <1>9. PageSize * (p + 1) <= PageSize * (c * j + c)
    BY <1>1, <1>5, <1>7, MulMono, SizesAssumption
  <1>10. PageSize * (p + 1) = PageSize * p + PageSize
    BY <1>1, MulSplit, SizesAssumption
  <1>11. PageSize * (c * j + c) = offs_o + s
    <2>1. (PageSize * c) * j + PageSize * c = PageSize * (c * j + c)
      BY MulSplit, SizesAssumption
    <2>2. QED
      BY <2>1, <1>3, <1>4
  <1>12. p * PageSize \in Nat /\ p * PageSize = PageSize * p
    BY <1>1, SizesAssumption
  <1>13. offs_o <= p * PageSize /\ p * PageSize < offs_o + s
    <2>1. PageSize * p \in Nat
      BY <1>12
    <2>2. QED
      BY <2>1, <1>1, <1>5, <1>8, <1>9, <1>10, <1>11, <1>12, SizesAssumption
  <1>14. (p * PageSize) \div BlockSize = offs_o \div BlockSize
    BY <1>1, <1>2, <1>12, <1>13, StrideInBlock
  <1>15. QED
    BY <1>14 DEF BlockOfPage, BlockOf

\* An offset within [start, start + size) lies in a block of the range.
LEMMA InEraseRange ==
  ASSUME NEW start \in Nat, NEW size \in Nat, NEW o \in Nat,
         start <= o, o < start + size
  PROVE  BlockOf(o) \in EraseRange(start, size)
  <1>1. PICK b \in Nat : b = start \div BlockSize
    BY DivType, SizesAssumption
  <1>2. PICK q \in Nat : q = o \div BlockSize
    BY DivType, SizesAssumption
  <1>3. PICK r \in Nat : r = start % BlockSize
    BY DivType, SizesAssumption
  <1>4. start = BlockSize * b + r
    BY <1>1, <1>3, SizesAssumption
  <1>5. BlockSize * b <= start /\ BlockSize * q <= o
        /\ o < BlockSize * q + BlockSize
    BY <1>1, <1>2, DivBounds, SizesAssumption
  <1>6. BlockSize * b \in Nat /\ BlockSize * q \in Nat
        /\ BlockSize * (q + 1) = BlockSize * q + BlockSize
    BY MulSplit, SizesAssumption
  <1>7. b <= q
    <2>1. BlockSize * b < BlockSize * (q + 1)
      BY <1>5, <1>6, SizesAssumption
    <2>2. b < q + 1
      BY <2>1, MulCancel, SizesAssumption
    <2>3. QED
      BY <2>2
  <1>8. PICK t \in Nat : t = size + r + BlockSize - 1
    BY SizesAssumption
  <1>9. PICK n \in Nat : n = t \div BlockSize
    BY DivType, SizesAssumption
  <1>10. t < BlockSize * n + BlockSize
    BY <1>9, DivBounds, SizesAssumption
  <1>11. q < b + n
    <2>1. BlockSize * (b + n + 1) = BlockSize * b + BlockSize * n + BlockSize
      BY SizesAssumption
    <2>2. BlockSize * n \in Nat
      BY SizesAssumption
    <2>3. BlockSize * (q + 1) < BlockSize * (b + n + 1)
      BY <2>1, <2>2, <1>4, <1>5, <1>6, <1>8, <1>10, SizesAssumption
    <2>4. q + 1 < b + n + 1
      BY <2>3, MulCancel, SizesAssumption
    <2>5. QED
      BY <2>4
  <1>12. EraseRange(start, size) = b .. b + n - 1
    BY <1>1, <1>3, <1>8, <1>9 DEF EraseRange, BlockOf
  <1>13. QED
    BY <1>2, <1>7, <1>11, <1>12 DEF BlockOf

\* Erasing less erases no other blocks.
LEMMA EraseRangeMono ==
  ASSUME NEW start \in Nat, NEW size \in Nat, NEW more \in Nat, size <= more
  PROVE  EraseRange(start, size) \subseteq EraseRange(start, more)
  <1>1. PICK r \in Nat : r = start % BlockSize
    BY DivType, SizesAssumption
  <1>2. PICK t \in Nat : t = size + r + BlockSize - 1
    BY SizesAssumption
  <1>3. PICK u \in Nat : u = more + r + BlockSize - 1
    BY SizesAssumption
  <1>4. PICK n \in Nat : n = t \div BlockSize
    BY DivType, SizesAssumption
  <1>5. PICK m \in Nat : m = u \div BlockSize
    BY DivType, SizesAssumption
  <1>6. n <= m
    <2>1. BlockSize * n <= t /\ u < BlockSize * m + BlockSize
      BY <1>4, <1>5, DivBounds, SizesAssumption
    <2>2. BlockSize * (m + 1) = BlockSize * m + BlockSize
          /\ BlockSize * n \in Nat /\ BlockSize * m \in Nat
      BY MulSplit, SizesAssumption
    <2>3. BlockSize * n < BlockSize * (m + 1)
      BY <2>1, <2>2, <1>2, <1>3, SizesAssumption
    <2>4. n < m + 1
      BY <2>3, MulCancel, SizesAssumption
    <2>5. QED
      BY <2>4
  <1>7. start \div BlockSize \in Nat
    BY DivType, SizesAssumption
  <1>8. QED
    BY <1>1, <1>2, <1>3, <1>4, <1>5, <1>6, <1>7 DEF EraseRange, BlockOf

\* fnd_vs_erase erases no more than it is asked to.
LEMMA EraseSizeBound ==
  ASSUME NEW d \in CallerDesc
  PROVE  EraseSize(d.dev, d.max) \in Nat /\ EraseSize(d.dev, d.max) <= d.max
  <1>1. fnd_align \in Nat \ {0} /\ PageSize <= fnd_align
    BY SizesAssumption DEF fnd_align
  <1>2. PICK q \in Nat : q = d.max \div fnd_align
    BY <1>1, DivType, DescType
  <1>3. fnd_align * q <= d.max
    BY <1>1, <1>2, DivBounds, DescType
  <1>4. q * PageSize <= q * fnd_align /\ q * fnd_align = fnd_align * q
    BY <1>1, MulMono, SizesAssumption
  <1>5. q * PageSize \in Nat /\ q * fnd_align \in Nat
    BY <1>1, SizesAssumption
  <1>6. QED
    BY <1>2, <1>3, <1>4, <1>5, DescType DEF EraseSize, fnd_size_shrink

---------------------------------------------------------------------------
(* The loop invariant is preserved.                                        *)

\* The loop invariant holds before the burn begins.
LEMMA LoopInit == Init => IInv
  BY TypeInit DEF Init, IInv, Accounting, LoopInv

\* Outside the loop there is nothing to show.
LEMMA NotInLoop == TypeOK' /\ pc' # "loop" => IInv'
  BY DEF IInv, Accounting, LoopInv

\* The setup of burn_image_loop establishes the loop invariant.
LEMMA LoopSetup == IInv /\ Setup => IInv'
  <1> SUFFICES ASSUME IInv, Setup PROVE IInv'
    OBVIOUS
  <1>1. TypeOK'
    BY TypeSetup DEF IInv
  <1>2. desc \in CallerDesc /\ desc' = desc /\ bad' = bad
    BY DEF IInv, TypeOK, Setup
  <1>3. desc.offo \in Nat /\ desc.max \in Nat /\ BurnLength(desc) \in Nat
    BY <1>2, DescType, StepType
  <1>4. offs_o' = desc.offo /\ remain' = BurnLength(desc)
        /\ leeway' = desc.max - BurnLength(desc)
    BY DEF Setup
  <1>5. Accounting'
    BY <1>2, <1>3, <1>4 DEF Accounting, Fits
  <1>6. LoopInv'
    BY <1>2, <1>3, <1>4 DEF LoopInv, InsideGood, StartsWell, OnStride
  <1>7. QED
    BY <1>1, <1>5, <1>6 DEF IInv

\* Moving on by a block keeps a multiple of the stride a multiple of it.
LEMMA AddMultiple ==
  ASSUME NEW o \in Nat, NEW s \in Nat \ {0}, NEW k \in Nat
  PROVE  o % s = 0 => (o + s * k) % s = 0
  <1> SUFFICES ASSUME o % s = 0 PROVE (o + s * k) % s = 0
    OBVIOUS
  <1>1. PICK j \in Nat : o = s * j
    BY DivType, Multiple
  <1>2. j + k \in Nat /\ o + s * k = s * (j + k)
    BY <1>1
  <1>3. QED
    BY <1>2, MultipleOf

\* Skipping a bad block keeps the sum, and the leeway at or above zero.
LEMMA LoopSkipBad == IInv /\ SkipBad => IInv'
  <1> SUFFICES ASSUME IInv, SkipBad PROVE IInv'
    OBVIOUS
  <1>1. TypeOK'
    BY TypeSkipBad DEF IInv
  <1>2. desc \in CallerDesc /\ offs_o \in Nat /\ leeway \in Int /\ remain \in Nat
    BY DEF IInv, TypeOK
  <1>3. desc.offo \in Nat /\ desc.max \in Nat /\ StepOf(desc.dev) \in Nat \ {0}
    BY <1>2, DescType, StepType
  <1>4. /\ desc' = desc /\ bad' = bad /\ remain' = remain /\ remain > 0
        /\ pc = "loop" /\ pc' = "loop"
        /\ leeway > BlockSize /\ leeway' = leeway - BlockSize
        /\ offs_o' = offs_o + BlockSize /\ offs_o % BlockSize = 0
    BY DEF SkipBad, CanSkip, AfterSkip, AtBadBlock
  <1>5. Accounting'
    BY <1>2, <1>3, <1>4, SizesAssumption DEF IInv, Accounting, Fits, BurnLength
  <1>6. PICK k \in Nat \ {0} : BlockSize = StepOf(desc.dev) * k
    BY <1>2, Strides
  <1>7. OnStride(desc) => (offs_o + BlockSize) % StepOf(desc.dev) = 0
    BY <1>2, <1>3, <1>4, <1>6, AddMultiple DEF IInv, LoopInv
  <1>8. (offs_o + BlockSize) % BlockSize = 0
    <2>1. BlockSize * 1 = BlockSize
      BY SizesAssumption
    <2>2. (offs_o + BlockSize * 1) % BlockSize = 0
      BY <1>2, <1>4, AddMultiple, SizesAssumption
    <2>3. QED
      BY <2>1, <2>2
  <1>9. LoopInv'
    BY <1>2, <1>3, <1>4, <1>7, <1>8, SizesAssumption
       DEF IInv, LoopInv, InsideGood, OnStride
  <1>10. QED
    BY <1>1, <1>5, <1>9 DEF IInv

\* A step that does not end at a block boundary ends in the block it began in.
LEMMA StepStaysInBlock ==
  ASSUME NEW o \in Nat, NEW s \in Nat \ {0}, NEW k \in Nat \ {0},
         BlockSize = s * k, o % s = 0, (o + s) % BlockSize # 0
  PROVE  BlockOf(o + s) = BlockOf(o)
  <1>1. PICK q \in Nat : q = o \div BlockSize
    BY DivType, SizesAssumption
  <1>2. o + s - 1 \in Nat /\ o <= o + s - 1 /\ o + s - 1 < o + s
    OBVIOUS
  <1>3. (o + s - 1) \div BlockSize = q
    BY <1>1, <1>2, StrideInBlock
  <1>4. BlockSize * q \in Nat /\ BlockSize * (q + 1) = BlockSize * q + BlockSize
    BY MulSplit, SizesAssumption
  <1>5. BlockSize * q <= o + s - 1 /\ o + s - 1 < BlockSize * q + BlockSize
    BY <1>2, <1>3, DivBounds, SizesAssumption
  <1>6. o + s # BlockSize * (q + 1)
    <2>1. (BlockSize * (q + 1)) % BlockSize = 0
      BY MultipleOf, SizesAssumption
    <2>2. QED
      BY <2>1
  <1>7. BlockSize * q <= o + s /\ o + s < BlockSize * q + BlockSize
    BY <1>4, <1>5, <1>6, SizesAssumption
  <1>8. (o + s) \div BlockSize = q
    BY <1>7, DivUnique, SizesAssumption
  <1>9. QED
    BY <1>1, <1>8 DEF BlockOf

\* Writing a step keeps the sum and the alignment of the offset.
LEMMA LoopWriteStep == IInv /\ WriteStep => IInv'
  <1> SUFFICES ASSUME IInv, WriteStep PROVE IInv'
    OBVIOUS
  <1>1. TypeOK'
    BY TypeWriteStep DEF IInv
  <1>2. desc \in CallerDesc /\ offs_o \in Nat /\ leeway \in Int /\ remain \in Nat
    BY DEF IInv, TypeOK
  <1>3. PICK s \in Nat \ {0} : s = StepOf(desc.dev)
    BY <1>2, StepType
  <1>4. desc.offo \in Nat /\ desc.max \in Nat
    BY <1>2, DescType
  <1>5. /\ desc' = desc /\ bad' = bad /\ leeway' = leeway /\ remain > 0
        /\ pc = "loop" /\ pc' = "loop" /\ offs_o' = offs_o + s
        /\ remain' = IF remain < s THEN 0 ELSE remain - s
    BY <1>3 DEF WriteStep, AfterStep
  <1>6. Accounting'
    BY <1>2, <1>4, <1>5 DEF IInv, Accounting, Fits, BurnLength
  <1>7. PICK k \in Nat \ {0} : BlockSize = s * k
    BY <1>2, <1>3, Strides
  <1>8. OnStride(desc) => (offs_o + s) % s = 0
    <2>1. s * 1 = s
      OBVIOUS
    <2>2. OnStride(desc) => offs_o % s = 0
      BY <1>3, <1>5 DEF IInv, LoopInv
    <2>3. offs_o % s = 0 => (offs_o + s * 1) % s = 0
      BY <1>2, AddMultiple
    <2>4. QED
      BY <2>1, <2>2, <2>3
  <1>9. InsideGood'
    <2> SUFFICES ASSUME IsNand(desc.dev), StartsWell(desc),
                        (offs_o + s) % BlockSize # 0
                 PROVE  BlockOf(offs_o + s) \notin bad
      BY <1>5 DEF InsideGood, StartsWell, OnStride
    <2>1. offs_o % s = 0
      BY <1>3, <1>5 DEF IInv, LoopInv, StartsWell
    <2>2. BlockOf(offs_o) \notin bad
      BY <1>5 DEF IInv, LoopInv, InsideGood, WriteStep, AtBadBlock
    <2>3. QED
      BY <1>2, <1>7, <2>1, <2>2, StepStaysInBlock
  <1>10. LoopInv'
    BY <1>2, <1>3, <1>4, <1>5, <1>8, <1>9 DEF IInv, LoopInv, OnStride
  <1>11. QED
    BY <1>1, <1>6, <1>10 DEF IInv

\* Every step keeps the loop invariant.
LEMMA LoopStep == IInv /\ [Next]_vars => IInv'
  <1> SUFFICES ASSUME IInv, [Next]_vars PROVE IInv'
    OBVIOUS
  <1>1. TypeOK'
    BY TypeStep DEF IInv
  <1>2. CASE Begin \/ NoMoreGood \/ Finish \/ PowerCut
    BY <1>1, <1>2, NotInLoop DEF Begin, NoMoreGood, Finish, PowerCut
  <1>3. CASE ReadNext
    BY <1>1, <1>3, NotInLoop
       DEF ReadNext, ReadBegin, ReadSkip, ReadChunk, ReadEnd
  <1>4. CASE UNCHANGED vars
    BY <1>4 DEF vars, IInv, TypeOK, Accounting, LoopInv, InsideGood, StartsWell
  <1>5. QED
    BY <1>2, <1>3, <1>4, LoopSetup, LoopSkipBad, LoopWriteStep
       DEF Next, BurnNext

\* The invariant of the loop of burn_image_loop (burn.c:115-172) holds
\* throughout: the types, the accounting, and where the offset can stand.
THEOREM LoopInvariant == Spec => []IInv
  BY LoopInit, LoopStep, PTL DEF Spec

\* The leeway accounting of burn_image_loop holds for every chip geometry,
\* descriptor and set of bad blocks.
THEOREM AccountingHolds == Spec => []Accounting
  <1>1. IInv => Accounting
    BY DEF IInv
  <1>2. QED
    BY LoopInvariant, <1>1, PTL

---------------------------------------------------------------------------
(* The two action properties.                                              *)

\* What a program step may change: the pages of the current step.
LEMMA WriteFrame ==
  ASSUME IInv, WriteStep, OnStride(desc), NEW p \in Pages, flash'[p] # flash[p]
  PROVE  BlockOfPage(p) = BlockOf(offs_o)
  <1>1. TypeOK /\ pc = "loop"
    BY DEF IInv, WriteStep
  <1>2. PICK good \in 0 .. PageCount(StepOf(desc.dev)) : vs_write(good)
    BY DEF WriteStep
  <1>3. FirstPage(offs_o) \in Nat /\ PageCount(StepOf(desc.dev)) \in Nat /\ p \in Nat
    <2>1. StepOf(desc.dev) \in Nat /\ offs_o \in Nat /\ p \in Nat
      BY <1>1, StepType, SizesAssumption DEF TypeOK, Pages
    <2>2. StepOf(desc.dev) \div PageSize \in Nat /\ offs_o \div PageSize \in Nat
      BY <2>1, DivType, SizesAssumption
    <2>3. QED
      BY <2>1, <2>2 DEF FirstPage, PageCount
  <1>4. FirstPage(offs_o) <= p
        /\ p < FirstPage(offs_o) + PageCount(StepOf(desc.dev))
    BY <1>2, <1>3 DEF vs_write
  <1>5. offs_o % StepOf(desc.dev) = 0
    BY <1>1 DEF IInv, LoopInv
  <1>6. QED
    BY <1>1, <1>4, <1>5, StepPages

\* What an erase may change: the blocks of the range.
LEMMA EraseFrame ==
  ASSUME IInv, Begin, NEW p \in Pages, flash'[p] # flash[p]
  PROVE  BlockOfPage(p) \in EraseRange(desc.offo, desc.max) /\ flash'[p] = Erased
  <1>1. PICK failed \in SUBSET ErasedBlocks(desc) : vs_erase(desc, failed)
    BY DEF Begin
  <1>2. BlockOfPage(p) \in ErasedBlocks(desc) /\ flash'[p] = Erased
    BY <1>1 DEF vs_erase
  <1>3. desc \in CallerDesc /\ desc.offo \in Nat /\ desc.max \in Nat
    BY DescType DEF IInv, TypeOK
  <1>4. EraseRange(desc.offo, EraseSize(desc.dev, desc.max))
          \subseteq EraseRange(desc.offo, desc.max)
    BY <1>3, EraseSizeBound, EraseRangeMono
  <1>5. QED
    BY <1>2, <1>4 DEF ErasedBlocks

\* No other action touches the flash.
LEMMA FlashFrame ==
  ASSUME [Next]_vars, ~Begin, ~WriteStep
  PROVE  flash' = flash
  BY DEF Next, BurnNext, ReadNext, Setup, SkipBad, NoMoreGood, Finish, PowerCut,
         ReadBegin, ReadSkip, ReadChunk, ReadEnd, vars

\* Burning an image that fits its range leaves every block outside the range
\* as it was, for every geometry, every set of bad blocks, with failing
\* device operations and power cuts.
THEOREM RangeRespected == Spec => StaysInRange
  <1> DEFINE A == Fits(desc) /\ OnStride(desc) =>
                    \A p \in Pages : flash'[p] # flash[p] =>
                      BlockOfPage(p) \in EraseRange(desc.offo, desc.max)
  <1>1. IInv /\ [Next]_vars => A
    <2> SUFFICES ASSUME IInv, [Next]_vars, Fits(desc), OnStride(desc),
                        NEW p \in Pages, flash'[p] # flash[p]
                 PROVE  BlockOfPage(p) \in EraseRange(desc.offo, desc.max)
      OBVIOUS
    <2>1. CASE Begin
      BY <2>1, EraseFrame
    <2>2. CASE WriteStep
      <3>1. BlockOfPage(p) = BlockOf(offs_o)
        BY <2>2, WriteFrame
      <3>2. desc.offo \in Nat /\ desc.max \in Nat /\ offs_o \in Nat
            /\ remain \in Nat /\ leeway \in Int
        BY DescType DEF IInv, TypeOK
      <3>3. desc.offo <= offs_o /\ remain > 0 /\ leeway >= 0
            /\ offs_o + remain + leeway = desc.offo + desc.max
        BY <2>2 DEF IInv, Accounting, LoopInv, WriteStep
      <3>4. offs_o < desc.offo + desc.max
        BY <3>2, <3>3
      <3>5. QED
        BY <3>1, <3>2, <3>3, <3>4, InEraseRange
    <2>3. QED
      BY <2>1, <2>2, FlashFrame
  <1>2. QED
    BY <1>1, LoopInvariant, PTL DEF Spec, StaysInRange

\* No page of a block marked bad is ever programmed, for every geometry and
\* every set of bad blocks.
THEOREM BadBlocksSpared == Spec => NeverProgramsBad
  <1> DEFINE A == IsNand(desc.dev) /\ StartsWell(desc) =>
                    \A p \in Pages : flash'[p] # flash[p] /\ flash'[p] # Erased =>
                      BlockOfPage(p) \notin bad
  <1>1. IInv /\ [Next]_vars => A
    <2> SUFFICES ASSUME IInv, [Next]_vars, IsNand(desc.dev), StartsWell(desc),
                        NEW p \in Pages, flash'[p] # flash[p],
                        flash'[p] # Erased
                 PROVE  BlockOfPage(p) \notin bad
      OBVIOUS
    <2>1. ~Begin
      BY EraseFrame
    <2>2. CASE WriteStep
      <3>1. BlockOfPage(p) = BlockOf(offs_o)
        BY <2>2, WriteFrame DEF StartsWell
      <3>2. BlockOf(offs_o) \notin bad
        BY <2>2 DEF IInv, LoopInv, InsideGood, WriteStep, AtBadBlock
      <3>3. QED
        BY <3>1, <3>2
    <2>3. QED
      BY <2>1, <2>2, FlashFrame
  <1>2. QED
    BY <1>1, LoopInvariant, PTL DEF Spec, NeverProgramsBad

---------------------------------------------------------------------------
(* The refusal.                                                            *)

\* The bad blocks behind the offset, of which the loop skipped some.
Passed == bad \cap (BlockOf(desc.offo) .. BlockOf(offs_o) - 1)

\* What the leeway lost since the setup was spent on bad blocks: no more than
\* a block for each that lies behind the offset.
Charged ==
  pc = "loop" =>
    desc.max - BurnLength(desc) <= leeway + BlockSize * Cardinality(Passed)

FullInv == IInv /\ Charged /\ RefusesOnlyWhenFull

\* Part of the bad blocks of a chip is finite.
LEMMA BadFinite ==
  ASSUME TypeOK, NEW S \in SUBSET bad
  PROVE  IsFiniteSet(S) /\ Cardinality(S) \in Nat
  <1>1. IsFiniteSet(0 .. NBlocks - 1)
    BY FS_Interval, SizesAssumption
  <1>2. S \in SUBSET (0 .. NBlocks - 1)
    BY DEF TypeOK, Blocks
  <1>3. QED
    BY <1>1, <1>2, FS_Subset, FS_CardinalityType

\* The offset of a later block boundary lies in no earlier block.
LEMMA BlockOfMono ==
  ASSUME NEW a \in Nat, NEW b \in Nat, a <= b
  PROVE  BlockOf(a) \in Nat /\ BlockOf(b) \in Nat /\ BlockOf(a) <= BlockOf(b)
  <1>1. PICK p \in Nat : p = a \div BlockSize
    BY DivType, SizesAssumption
  <1>2. PICK q \in Nat : q = b \div BlockSize
    BY DivType, SizesAssumption
  <1>3. BlockSize * p <= a /\ b < BlockSize * q + BlockSize
    BY <1>1, <1>2, DivBounds, SizesAssumption
  <1>4. /\ BlockSize * p \in Nat /\ BlockSize * q \in Nat
        /\ BlockSize * (q + 1) = BlockSize * q + BlockSize
    BY MulSplit, SizesAssumption
  <1>5. BlockSize * p < BlockSize * (q + 1)
    BY <1>3, <1>4, SizesAssumption
  <1>6. p < q + 1
    BY <1>5, MulCancel, SizesAssumption
  <1>7. QED
    BY <1>1, <1>2, <1>6 DEF BlockOf

\* A product with a number of blocks grows with the number.
LEMMA BlocksMono ==
  ASSUME NEW a \in Nat, NEW b \in Nat, a <= b
  PROVE  /\ BlockSize * a \in Nat /\ BlockSize * b \in Nat
         /\ BlockSize * a <= BlockSize * b
         /\ BlockSize * (a + 1) = BlockSize * a + BlockSize
  BY MulMono, MulSplit, SizesAssumption

\* At the start nothing was spent.
LEMMA ChargedSetup == IInv /\ Setup => Charged'
  <1> SUFFICES ASSUME IInv, Setup, pc' = "loop"
               PROVE  desc'.max - BurnLength(desc')
                        <= leeway' + BlockSize * Cardinality(Passed')
    BY DEF Charged
  <1>1. TypeOK /\ TypeOK'
    BY TypeSetup DEF IInv
  <1>2. desc' = desc /\ leeway' = desc.max - BurnLength(desc)
    BY DEF Setup
  <1>3. desc.max \in Nat /\ BurnLength(desc) \in Nat
    BY <1>1, DescType, StepType DEF TypeOK
  <1>4. Cardinality(Passed') \in Nat
    <2>1. Passed' \in SUBSET bad /\ bad' = bad
      BY DEF Passed, Setup
    <2>2. QED
      BY <1>1, <2>1, BadFinite
  <1>5. BlockSize * Cardinality(Passed') \in Nat
    BY <1>4, SizesAssumption
  <1>6. QED
    BY <1>2, <1>3, <1>5

\* A block that is skipped is bad, and lies behind the offset afterwards.
LEMMA ChargedSkipBad == IInv /\ Charged /\ SkipBad => Charged'
  <1> SUFFICES ASSUME IInv, Charged, SkipBad
               PROVE  desc'.max - BurnLength(desc')
                        <= leeway' + BlockSize * Cardinality(Passed')
    BY DEF Charged
  <1>1. TypeOK
    BY DEF IInv
  <1>2. /\ desc' = desc /\ bad' = bad /\ pc = "loop"
        /\ leeway' = leeway - BlockSize /\ offs_o' = offs_o + BlockSize
        /\ offs_o % BlockSize = 0 /\ BlockOf(offs_o) \in bad
    BY DEF SkipBad, AfterSkip, AtBadBlock
  <1>3. /\ desc.max \in Nat /\ BurnLength(desc) \in Nat /\ desc.offo \in Nat
        /\ offs_o \in Nat /\ leeway \in Int
    BY <1>1, DescType, StepType DEF TypeOK
  <1>4. desc.offo <= offs_o
    BY <1>2 DEF IInv, LoopInv
  <1> DEFINE c == BlockOf(offs_o)
             b == BlockOf(desc.offo)
  <1>5. b \in Nat /\ c \in Nat /\ b <= c
    BY <1>3, <1>4, BlockOfMono
  <1>6. BlockOf(offs_o + BlockSize) = c + 1
    <2>1. offs_o = BlockSize * c
      BY <1>2, <1>3, Multiple, SizesAssumption DEF BlockOf
    <2>2. BlockSize * (c + 1) = offs_o + BlockSize
      BY <1>5, <2>1, BlocksMono
    <2> HIDE DEF c
    <2>3. (BlockSize * (c + 1)) \div BlockSize = c + 1
      BY <1>5, MultipleOf, SizesAssumption
    <2>4. QED
      BY <2>2, <2>3 DEF BlockOf
  <1> HIDE DEF b, c
  <1>7. Passed = bad \cap (b .. c - 1) /\ Passed' = bad \cap (b .. (c + 1) - 1)
    BY <1>2, <1>6 DEF Passed, b, c
  <1>8. Passed' = Passed \cup {c} /\ c \notin Passed
    BY <1>2, <1>5, <1>7 DEF c
  <1>9. Passed \in SUBSET bad
    BY DEF Passed
  <1>10. IsFiniteSet(Passed) /\ Cardinality(Passed) \in Nat
    BY <1>1, <1>9, BadFinite
  <1>11. Cardinality(Passed') = Cardinality(Passed) + 1
    BY <1>8, <1>10, FS_AddElement
  <1>12. BlockSize * (Cardinality(Passed) + 1) = BlockSize * Cardinality(Passed) + BlockSize
         /\ BlockSize * Cardinality(Passed) \in Nat
    BY <1>10, BlocksMono
  <1>13. desc.max - BurnLength(desc) <= leeway + BlockSize * Cardinality(Passed)
    BY <1>2 DEF Charged
  <1>14. QED
    BY <1>2, <1>3, <1>11, <1>12, <1>13, SizesAssumption

\* A step of data leaves no fewer blocks behind.
LEMMA ChargedWriteStep == IInv /\ Charged /\ WriteStep => Charged'
  <1> SUFFICES ASSUME IInv, Charged, WriteStep
               PROVE  desc'.max - BurnLength(desc')
                        <= leeway' + BlockSize * Cardinality(Passed')
    BY DEF Charged
  <1>1. TypeOK
    BY DEF IInv
  <1>2. /\ desc' = desc /\ bad' = bad /\ pc = "loop" /\ leeway' = leeway
        /\ offs_o' = offs_o + StepOf(desc.dev)
    BY DEF WriteStep
  <1>3. /\ desc.max \in Nat /\ BurnLength(desc) \in Nat /\ desc.offo \in Nat
        /\ offs_o \in Nat /\ leeway \in Int /\ StepOf(desc.dev) \in Nat
    BY <1>1, DescType, StepType DEF TypeOK
  <1>4. desc.offo <= offs_o
    BY <1>2 DEF IInv, LoopInv
  <1>5. /\ BlockOf(desc.offo) \in Nat /\ BlockOf(offs_o) \in Nat
        /\ BlockOf(offs_o') \in Nat /\ BlockOf(offs_o) <= BlockOf(offs_o')
    <2>1. offs_o' \in Nat /\ offs_o <= offs_o'
      BY <1>2, <1>3
    <2>2. QED
      BY <1>3, <1>4, <2>1, BlockOfMono
  <1>6. Passed \in SUBSET Passed' /\ Passed' \in SUBSET bad /\ Passed \in SUBSET bad
    <2>1. Passed' = bad \cap (BlockOf(desc.offo) .. BlockOf(offs_o') - 1)
      BY <1>2 DEF Passed
    <2>2. QED
      BY <1>5, <2>1 DEF Passed
  <1>7. /\ IsFiniteSet(Passed') /\ Cardinality(Passed') \in Nat
        /\ Cardinality(Passed) \in Nat
    BY <1>1, <1>6, BadFinite
  <1>8. Cardinality(Passed) <= Cardinality(Passed')
    BY <1>6, <1>7, FS_Subset
  <1>9. /\ BlockSize * Cardinality(Passed) \in Nat
        /\ BlockSize * Cardinality(Passed') \in Nat
        /\ BlockSize * Cardinality(Passed) <= BlockSize * Cardinality(Passed')
    BY <1>7, <1>8, BlocksMono
  <1>10. desc.max - BurnLength(desc) <= leeway + BlockSize * Cardinality(Passed)
    BY <1>2 DEF Charged
  <1>11. QED
    BY <1>2, <1>3, <1>9, <1>10

\* The range of a block-aligned image: less than a block longer than it.
LEMMA AlignedRange ==
  ASSUME NEW start \in Nat, NEW size \in Nat, start % BlockSize = 0
  PROVE  \E n \in Nat :
           /\ EraseRange(start, size) = BlockOf(start) .. BlockOf(start) + n - 1
           /\ IsFiniteSet(EraseRange(start, size))
           /\ Cardinality(EraseRange(start, size)) = n
           /\ BlockSize * n < size + BlockSize
           /\ start + size <= BlockSize * (BlockOf(start) + n)
  <1>1. PICK b \in Nat : b = BlockOf(start)
    BY DivType, SizesAssumption DEF BlockOf
  <1>2. start = BlockSize * b
    BY <1>1, Multiple, SizesAssumption DEF BlockOf
  <1>3. PICK t \in Nat : t = size + 0 + BlockSize - 1
    BY SizesAssumption
  <1>4. PICK n \in Nat : n = t \div BlockSize
    BY DivType, SizesAssumption
  <1>5. EraseRange(start, size) = b .. b + n - 1
    BY <1>1, <1>3, <1>4 DEF EraseRange
  <1>6. IsFiniteSet(b .. b + n - 1) /\ Cardinality(b .. b + n - 1) = n
    <2> DEFINE z == b + n - 1
    <2>1. b \in Int /\ z \in Int /\ (IF b > z THEN 0 ELSE z - b + 1) = n
      OBVIOUS
    <2> HIDE DEF z
    <2>2. IsFiniteSet(b .. z) /\ Cardinality(b .. z) = n
      BY <2>1, FS_Interval
    <2>3. QED
      BY <2>2 DEF z
  <1>7. BlockSize * n <= t /\ t < BlockSize * n + BlockSize /\ BlockSize * n \in Nat
    BY <1>4, DivBounds, SizesAssumption
  <1>8. BlockSize * (b + n) = BlockSize * b + BlockSize * n
    BY SizesAssumption
  <1>9. BlockSize * n < size + BlockSize /\ start + size <= BlockSize * (b + n)
    BY <1>2, <1>3, <1>7, <1>8, SizesAssumption
  <1>10. QED
    BY <1>1, <1>5, <1>6, <1>9

\* When the loop gives up, its good blocks are spent: every block of leeway
\* it ever had went to a bad block of the range, and one more is bad.
LEMMA RefusalJustified ==
  ASSUME IInv, Charged, NoMoreGood, desc.offo % BlockSize = 0
  PROVE  BlockSize * Cardinality(EraseRange(desc.offo, desc.max) \ bad)
           < BurnLength(desc) + BlockSize
  <1> DEFINE R == EraseRange(desc.offo, desc.max)
             L == BurnLength(desc)
             b == BlockOf(desc.offo)
             c == BlockOf(offs_o)
  <1>1. TypeOK
    BY DEF IInv
  <1>2. /\ pc = "loop" /\ remain > 0 /\ leeway <= BlockSize
        /\ offs_o % BlockSize = 0 /\ c \in bad
    BY SizesAssumption DEF NoMoreGood, CanSkip, AtBadBlock, IInv, TypeOK
  <1>3. /\ desc.max \in Nat /\ L \in Nat /\ desc.offo \in Nat
        /\ offs_o \in Nat /\ leeway \in Int /\ remain \in Nat
    BY <1>1, DescType, StepType DEF TypeOK
  <1>4. /\ desc.offo <= offs_o
        /\ offs_o + remain + leeway = desc.offo + desc.max
        /\ L <= desc.max => leeway >= 0
    BY <1>2 DEF IInv, LoopInv, Accounting, Fits
  <1>5. desc.max - L <= leeway + BlockSize * Cardinality(Passed)
    BY <1>2 DEF Charged
  <1>6. PICK n \in Nat : /\ R = b .. b + n - 1
                         /\ IsFiniteSet(R) /\ Cardinality(R) = n
                         /\ BlockSize * n < desc.max + BlockSize
                         /\ desc.offo + desc.max <= BlockSize * (b + n)
    BY <1>3, AlignedRange
  <1>7. b \in Nat /\ c \in Nat /\ b <= c /\ offs_o = BlockSize * c
    BY <1>2, <1>3, <1>4, BlockOfMono, Multiple, SizesAssumption DEF BlockOf
  <1> DEFINE G == R \ bad
  <1>8. IsFiniteSet(G) /\ Cardinality(G) \in Nat /\ Cardinality(G) <= n
    <2>1. G \in SUBSET R
      OBVIOUS
    <2> HIDE DEF G, R
    <2>2. QED
      BY <1>6, <2>1, FS_Subset, FS_CardinalityType
  <1> HIDE DEF R, L, b, c, G
  <1>9. CASE L > desc.max
    <2>1. BlockSize * Cardinality(G) <= BlockSize * n
          /\ BlockSize * Cardinality(G) \in Nat /\ BlockSize * n \in Nat
      BY <1>8, BlocksMono
    <2>2. BlockSize * Cardinality(G) < L + BlockSize
      BY <1>3, <1>6, <1>9, <2>1, SizesAssumption
    <2>3. QED
      BY <2>2 DEF G, R, L
  <1>10. CASE L <= desc.max
    <2>1. offs_o < desc.offo + desc.max
      BY <1>2, <1>3, <1>4, <1>10
    <2>2. BlockSize * c < BlockSize * (b + n)
      <3>1. BlockSize * (b + n) \in Nat
        BY <1>7, SizesAssumption
      <3>2. QED
        BY <1>3, <1>6, <1>7, <2>1, <3>1
    <2>3. c < b + n
      <3>1. b + n \in Nat
        BY <1>7
      <3>2. QED
        BY <1>7, <2>2, <3>1, MulCancel, SizesAssumption
    <2> DEFINE P == Passed
               Q == P \cup {c}
    <2>4. P = bad \cap (b .. c - 1)
      BY DEF Passed, b, c
    <2>5. IsFiniteSet(P) /\ Cardinality(P) \in Nat
      BY <1>1, <2>4, BadFinite
    <2> HIDE DEF P
    <2>6. Cardinality(Q) = Cardinality(P) + 1 /\ IsFiniteSet(Q)
      <3>1. c \notin P
        BY <1>7, <2>4
      <3>2. QED
        BY <2>5, <3>1, FS_AddElement
    <2>7. Q \in SUBSET R /\ Q \cap G = {}
      BY <1>2, <1>6, <1>7, <2>3, <2>4 DEF G
    <2> HIDE DEF Q
    <2>8. Cardinality(G) + Cardinality(Q) <= n
      <3>1. Cardinality(G \cup Q) = Cardinality(G) + Cardinality(Q) - Cardinality(G \cap Q)
        BY <1>8, <2>6, FS_Union
      <3>2. G \cap Q = {} /\ Cardinality(G \cap Q) = 0
        BY <2>7, FS_EmptySet
      <3>3. G \cup Q \in SUBSET R
        BY <2>7 DEF G
      <3>4. Cardinality(G \cup Q) <= n
        BY <1>6, <3>3, FS_Subset
      <3>5. QED
        BY <1>8, <2>5, <2>6, <3>1, <3>2, <3>4
    <2>9. Cardinality(G) + (Cardinality(P) + 1) <= n
      BY <2>6, <2>8
    <2> DEFINE g == Cardinality(G)
               k == Cardinality(P)
    <2>10. g \in Nat /\ k \in Nat /\ g + (k + 1) \in Nat /\ g + (k + 1) <= n
      BY <1>8, <2>5, <2>9
    <2>11. desc.max - L <= leeway + BlockSize * k
      BY <1>5 DEF P
    <2> HIDE DEF g, k
    <2>12. BlockSize * (g + (k + 1)) = BlockSize * g + BlockSize * k + BlockSize
           /\ BlockSize * g \in Nat /\ BlockSize * k \in Nat /\ BlockSize * n \in Nat
      BY <2>10, SizesAssumption
    <2>13. BlockSize * (g + (k + 1)) <= BlockSize * n
      BY <2>10, BlocksMono
    <2>14. BlockSize * g < L + BlockSize
      BY <1>2, <1>3, <1>6, <2>11, <2>12, <2>13, SizesAssumption
    <2>15. QED
      BY <2>14 DEF g, G, R, L
  <1>11. QED
    BY <1>3, <1>9, <1>10

\* Every step keeps the invariant of the refusal.
LEMMA FullStep == FullInv /\ [Next]_vars => FullInv'
  <1> SUFFICES ASSUME FullInv, [Next]_vars PROVE FullInv'
    OBVIOUS
  <1>1. IInv /\ IInv'
    BY LoopStep DEF FullInv
  <1>2. CASE Begin
    BY <1>1, <1>2 DEF FullInv, Charged, RefusesOnlyWhenFull, Begin, IInv, TypeOK
  <1>3. CASE Setup
    BY <1>1, <1>3, ChargedSetup DEF FullInv, RefusesOnlyWhenFull, Setup
  <1>4. CASE SkipBad
    BY <1>1, <1>4, ChargedSkipBad DEF FullInv, RefusesOnlyWhenFull, SkipBad
  <1>5. CASE NoMoreGood
    <2>1. desc' = desc /\ bad' = bad /\ pc' = "done"
      BY <1>5 DEF NoMoreGood
    <2>2. Charged /\ (desc.offo % BlockSize = 0 =>
            BlockSize * Cardinality(EraseRange(desc.offo, desc.max) \ bad)
              < BurnLength(desc) + BlockSize)
      BY <1>1, <1>5, RefusalJustified DEF FullInv
    <2>3. QED
      BY <1>1, <2>1, <2>2 DEF FullInv, Charged, RefusesOnlyWhenFull
  <1>6. CASE WriteStep
    BY <1>1, <1>6, ChargedWriteStep DEF FullInv, RefusesOnlyWhenFull, WriteStep
  <1>7. CASE Finish \/ PowerCut
    BY <1>1, <1>7 DEF FullInv, Charged, RefusesOnlyWhenFull, Finish, PowerCut
  <1>8. CASE ReadNext
    BY <1>1, <1>8 DEF FullInv, Charged, RefusesOnlyWhenFull, ReadNext, ReadBegin,
       ReadSkip, ReadChunk, ReadEnd
  <1>9. CASE UNCHANGED vars
    BY <1>1, <1>9 DEF vars, FullInv, Charged, Passed, RefusesOnlyWhenFull
  <1>10. QED
    BY <1>2, <1>3, <1>4, <1>5, <1>6, <1>7, <1>8, <1>9 DEF Next, BurnNext

\* -EBADBLK is never returned while the good blocks of the range hold the
\* image and a block more, for every geometry, every set of bad blocks and
\* however the skipped blocks and the writes follow each other
\* (burn.c:151-165).
THEOREM RefusalsAreRight == Spec => []RefusesOnlyWhenFull
  <1>1. Init => FullInv
    BY LoopInit DEF FullInv, Init, Charged, RefusesOnlyWhenFull
  <1>2. FullInv => RefusesOnlyWhenFull
    BY DEF FullInv
  <1>3. QED
    BY <1>1, <1>2, FullStep, PTL DEF Spec

---------------------------------------------------------------------------
(* The slot: the burner and the reader implement ImageSlot.                *)

\* How many good pages of the image's place lie before page p.
Rank(p) == Cardinality({q \in GoodPages(desc) : q < p})

\* The first n pages of the image lie on the first n good pages.
Placed(n) ==
  \A k \in 0 .. n - 1 :
    \E p \in GoodPages(desc) : Rank(p) = k /\ flash[p] = k

\* The good blocks of the range are erased from an offset on.
Ready(o) ==
  \A p \in GoodPages(desc) :
    p >= FirstPage(o) /\ BlockOfPage(p) \in EraseRange(desc.offo, desc.max) =>
      flash[p] = Erased

\* What the loop has achieved, no fault having occurred: the source offset
\* counts the good pages behind the output offset, and those hold the image.
Progress ==
  /\ IsNand(desc.dev) => Ready(offs_o)
  /\ offs_i = PageSize * Rank(FirstPage(offs_o))
  /\ remain = IF BurnLength(desc) < offs_i THEN 0 ELSE BurnLength(desc) - offs_i
  /\ Placed(Rank(FirstPage(offs_o)))

BurnInv ==
  ~slotFault =>
    /\ pc = "setup" /\ IsNand(desc.dev) /\ desc.cfg => Ready(desc.offo)
    /\ pc = "loop" => Progress
    /\ Ended /\ ret = "ok" => Placed(ImagePages(desc))

\* The state of the reader has its type.
ReadType ==
  rd \in [start : Nat, remain : Nat, skip : Nat, data : SUBSET (Int \X Int),
          count : Nat, ret : {"none", "error", "ok"}]

\* The second walk over the bad blocks is where the first one was when it
\* had written as many pages.
ReadProgress ==
  /\ desc.dev = "nnd"
  /\ rd.start % PageSize = 0 /\ desc.offo <= rd.start
  /\ rd.start % BlockSize # 0 => BlockOf(rd.start) \notin bad
  /\ rd.count = Rank(FirstPage(rd.start))
  /\ rd.count <= ImagePages(desc)
  /\ rd.remain = PageSize * (ImagePages(desc) - rd.count)
  /\ rd.data = {<<k, k>> : k \in 0 .. rd.count - 1}

ReadInv ==
  /\ ReadType
  /\ pc # "end" => rd.ret = "none"
  /\ pc \in {"idle", "setup", "loop"} => ret = "none"
  /\ pc = "read" /\ ret = "ok" /\ ~slotFault => ReadProgress

SlotInv == IInv /\ BurnInv /\ ReadInv
---------------------------------------------------------------------------
(* Positions in pages.                                                     *)

\* Pages of a block.
PPB == BlockSize \div PageSize

\* A block is whole pages.
LEMMA PPBType == PPB \in Nat \ {0} /\ BlockSize = PageSize * PPB
  <1>1. PICK k \in Nat : BlockSize = Step * k
    BY DivType, Multiple, SizesAssumption, StrideAssumption, ZenonT(40)
  <1>2. PICK c \in Nat : Step = PageSize * c
    BY DivType, Multiple, SizesAssumption, StrideAssumption, ZenonT(40)
  <1>3. c * k \in Nat /\ BlockSize = PageSize * (c * k)
    BY <1>1, <1>2, MulAssoc, SizesAssumption
  <1>4. c * k # 0
    BY <1>1, <1>2, <1>3, SizesAssumption, MulPos
  <1>5. PICK r \in Nat \ {0} : r = c * k
    BY <1>3, <1>4
  <1>6. (PageSize * r) \div PageSize = r
    BY MultipleOf, SizesAssumption
  <1>7. QED
    BY <1>3, <1>5, <1>6 DEF PPB

\* Dividing both numbers by a common factor leaves the quotient.
LEMMA DivCommon ==
  ASSUME NEW s \in Nat \ {0}, NEW r \in Nat \ {0}, NEW p \in Nat
  PROVE  /\ (s * p) \div (s * r) = p \div r
         /\ (s * p) % (s * r) = 0 <=> p % r = 0
  <1> DEFINE q == p \div r
             n == s * r
             a == s * p
  <1>1. q \in Nat /\ r * q <= p /\ p < r * q + r
    BY DivType, DivBounds
  <1>2. n \in Nat \ {0} /\ a \in Nat
    BY MulPos
  <1> HIDE DEF q
  <1>3. n * q = s * (r * q) /\ r * q \in Nat
    BY <1>1, MulAssoc
  <1>4. s * (r * q) <= s * p
    BY <1>1, <1>3, MulMono
  <1>5. s * (p + 1) <= s * (r * q + r)
    BY <1>1, <1>3, MulMono
  <1>6. s * (p + 1) = a + s /\ s * (r * q + r) = n * q + n
    <2>1. s * (p + 1) = s * p + s
      BY MulSplit
    <2>2. (s * r) * q + s * r = s * (r * q + r)
      BY <1>1, MulSplit
    <2>3. QED
      BY <2>1, <2>2
  <1>7. n * q <= a /\ a < n * q + n
    <2>1. n * q \in Nat
      BY <1>1, <1>2
    <2> HIDE DEF a, n
    <2>2. a + s <= n * q + n /\ n * q <= a
      BY <1>3, <1>4, <1>5, <1>6 DEF a
    <2>3. QED
      BY <1>2, <2>1, <2>2
  <1> HIDE DEF n, a
  <1>8. a \div n = q
    BY <1>1, <1>2, <1>7, DivUnique
  <1>9. a % n = 0 <=> a = n * q
    BY <1>2, <1>8, Multiple
  <1>10. p % r = 0 <=> p = r * q
    BY Multiple DEF q
  <1>11. a = n * q <=> p = r * q
    <2>1. p = r * q => a = n * q
      BY <1>3 DEF a
    <2>2. a = n * q => p = r * q
      <3>1. r * q < p => s * (r * q) < s * p
        <4>1. SUFFICES ASSUME r * q < p PROVE s * (r * q) < s * p
          OBVIOUS
        <4>2. s * (r * q + 1) <= s * p
          BY <1>3, <4>1, MulMono
        <4>3. s * (r * q + 1) = s * (r * q) + s
          BY <1>3, MulSplit
        <4>4. s * (r * q) \in Nat /\ s * p \in Nat
          BY <1>3
        <4>5. QED
          BY <4>2, <4>3, <4>4
      <3>2. QED
        BY <1>1, <1>3, <3>1 DEF a
    <2>3. QED
      BY <2>1, <2>2
  <1>12. QED
    BY <1>8, <1>9, <1>10, <1>11 DEF a, n, q

\* The block of a page, and the pages of the chip.
LEMMA PageBlock ==
  ASSUME NEW p \in Nat
  PROVE  BlockOfPage(p) = p \div PPB
  <1>1. p * PageSize = PageSize * p
    BY SizesAssumption
  <1>2. QED
    BY <1>1, PPBType, DivCommon, SizesAssumption DEF BlockOfPage

LEMMA PagesAre == Pages = 0 .. NBlocks * PPB - 1 /\ NBlocks * PPB \in Nat
  <1>1. NBlocks * PPB \in Nat
    BY PPBType, SizesAssumption
  <1> DEFINE t == NBlocks * PPB
  <1>2. NBlocks * BlockSize = PageSize * t
    <2>1. \A s, r, m \in Nat : m * (s * r) = s * (m * r)
      OBVIOUS
    <2>2. QED
      BY <2>1, PPBType, SizesAssumption
  <1> HIDE DEF t
  <1>3. (PageSize * t) \div PageSize = t
    BY <1>1, MultipleOf, SizesAssumption DEF t
  <1>4. QED
    BY <1>1, <1>2, <1>3 DEF Pages, t

\* A page-aligned offset in pages.
LEMMA AlignedPages ==
  ASSUME NEW o \in Nat, o % PageSize = 0
  PROVE  /\ FirstPage(o) \in Nat /\ o = PageSize * FirstPage(o)
         /\ BlockOf(o) = FirstPage(o) \div PPB
         /\ o % BlockSize = 0 <=> FirstPage(o) % PPB = 0
  <1>1. FirstPage(o) \in Nat /\ o = PageSize * FirstPage(o)
    BY DivType, Multiple, SizesAssumption DEF FirstPage
  <1>2. PICK f \in Nat : f = FirstPage(o)
    BY <1>1
  <1>3. /\ (PageSize * f) \div (PageSize * PPB) = f \div PPB
        /\ (PageSize * f) % (PageSize * PPB) = 0 <=> f % PPB = 0
    <2>1. PPB \in Nat \ {0} /\ PageSize \in Nat \ {0}
      BY PPBType, SizesAssumption
    <2>2. QED
      BY <2>1, DivCommon
  <1>4. QED
    BY <1>1, <1>2, <1>3, PPBType DEF BlockOf

\* The page where a whole number of pages further begins.
LEMMA PagesOn ==
  ASSUME NEW f \in Nat, NEW c \in Nat
  PROVE  /\ PageSize * f + PageSize * c = PageSize * (f + c)
         /\ FirstPage(PageSize * (f + c)) = f + c
         /\ (PageSize * (f + c)) % PageSize = 0
         /\ PageCount(PageSize * c) = c
         /\ PageSize * c \in Nat
  <1>1. f + c \in Nat
    OBVIOUS
  <1>2. QED
    BY <1>1, MultipleOf, SizesAssumption DEF FirstPage, PageCount

---------------------------------------------------------------------------
(* Counting good pages.                                                    *)

\* Any part of the good pages is a finite set of numbers.
LEMMA GoodFinite ==
  ASSUME NEW S \in SUBSET GoodPages(desc)
  PROVE  IsFiniteSet(S) /\ Cardinality(S) \in Nat /\ S \subseteq Nat
  <1>1. IsFiniteSet(0 .. NBlocks * PPB - 1) /\ 0 .. NBlocks * PPB - 1 \subseteq Nat
    <2> DEFINE z == NBlocks * PPB - 1
    <2>1. z \in Int
      BY PagesAre
    <2> HIDE DEF z
    <2>2. IsFiniteSet(0 .. z) /\ 0 .. z \subseteq Nat
      BY <2>1, FS_Interval
    <2>3. QED
      BY <2>2 DEF z
  <1>2. S \in SUBSET (0 .. NBlocks * PPB - 1)
    BY PagesAre DEF GoodPages
  <1>3. QED
    BY <1>1, <1>2, FS_Subset, FS_CardinalityType

LEMMA RankType ==
  ASSUME NEW p \in Nat
  PROVE  Rank(p) \in Nat
  <1>1. {q \in GoodPages(desc) : q < p} \in SUBSET GoodPages(desc)
    OBVIOUS
  <1>2. QED
    BY <1>1, GoodFinite DEF Rank

\* The rank grows by the good pages passed.
LEMMA RankAdds ==
  ASSUME NEW a \in Nat, NEW b \in Nat, a <= b
  PROVE  /\ Rank(b) = Rank(a) + Cardinality({q \in GoodPages(desc) : a <= q /\ q < b})
         /\ Cardinality({q \in GoodPages(desc) : a <= q /\ q < b}) \in Nat
  <1> DEFINE G == GoodPages(desc)
             A == {q \in G : q < a}
             B == {q \in G : q < b}
             M == {q \in G : a <= q /\ q < b}
  <1>1. G \subseteq Nat
    <2>1. G \in SUBSET G
      OBVIOUS
    <2>2. QED
      BY <2>1, GoodFinite
  <1>2. /\ IsFiniteSet(A) /\ IsFiniteSet(M)
        /\ Cardinality(A) \in Nat /\ Cardinality(M) \in Nat
    <2>1. A \in SUBSET G /\ M \in SUBSET G
      OBVIOUS
    <2>2. QED
      BY <2>1, GoodFinite
  <1> HIDE DEF G
  <1>3. B = A \cup M /\ A \cap M = {}
    <2>1. \A q \in G : q \in Nat
      BY <1>1
    <2>2. \A q \in G : (q < b <=> q < a \/ (a <= q /\ q < b))
                       /\ ~(q < a /\ a <= q)
      BY <2>1
    <2>3. QED
      BY <2>2, Zenon
  <1> HIDE DEF A, B, M
  <1>4. Cardinality(A \cup M) = Cardinality(A) + Cardinality(M) - Cardinality(A \cap M)
    BY <1>2, FS_Union
  <1>5. Cardinality(A \cap M) = 0
    BY <1>3, FS_EmptySet
  <1>6. Cardinality(B) = Cardinality(A) + Cardinality(M)
    BY <1>2, <1>3, <1>4, <1>5
  <1>7. QED
    BY <1>2, <1>6 DEF A, B, M, G, Rank

\* Over good pages it counts them all.
LEMMA RankRun ==
  ASSUME NEW a \in Nat, NEW b \in Nat, a <= b,
         \A p \in a .. b - 1 : p \in GoodPages(desc)
  PROVE  Rank(b) = Rank(a) + (b - a)
  <1> DEFINE M == {q \in GoodPages(desc) : a <= q /\ q < b}
  <1>1. GoodPages(desc) \subseteq Nat
    <2>1. GoodPages(desc) \in SUBSET GoodPages(desc)
      OBVIOUS
    <2>2. QED
      BY <2>1, GoodFinite
  <1>2. M = a .. b - 1
    BY <1>1
  <1>3. Cardinality(a .. b - 1) = b - a
    <2> DEFINE z == b - 1
    <2>1. a \in Int /\ z \in Int /\ (IF a > z THEN 0 ELSE z - a + 1) = b - a
      OBVIOUS
    <2> HIDE DEF z
    <2>2. Cardinality(a .. z) = b - a
      BY <2>1, FS_Interval
    <2>3. QED
      BY <2>2 DEF z
  <1>4. QED
    BY <1>2, <1>3, RankAdds

\* Over bad ones it stays.
LEMMA RankGap ==
  ASSUME NEW a \in Nat, NEW b \in Nat, a <= b,
         \A p \in GoodPages(desc) : ~(a <= p /\ p < b)
  PROVE  Rank(b) = Rank(a)
  <1> DEFINE M == {q \in GoodPages(desc) : a <= q /\ q < b}
  <1>1. M = {}
    OBVIOUS
  <1>2. Cardinality(M) = 0
    BY <1>1, FS_EmptySet
  <1>3. QED
    BY <1>2, RankAdds, RankType

\* A later page has no lower rank, and a higher one behind a good page.
LEMMA RankMono ==
  ASSUME NEW a \in Nat, NEW b \in Nat, a <= b
  PROVE  Rank(a) <= Rank(b) /\ (a < b /\ a \in GoodPages(desc) => Rank(a) < Rank(b))
  <1>1. \A x, y \in Nat : x <= y => Rank(x) <= Rank(y)
    <2> TAKE x, y \in Nat
    <2> HAVE x <= y
    <2> DEFINE c == Cardinality({q \in GoodPages(desc) : x <= q /\ q < y})
    <2>1. Rank(y) = Rank(x) + c /\ c \in Nat
      BY RankAdds
    <2> HIDE DEF c
    <2>2. Rank(x) \in Nat /\ Rank(y) \in Nat
      BY RankType
    <2>3. QED
      BY <2>1, <2>2
  <1>2. ASSUME a < b, a \in GoodPages(desc)
        PROVE  Rank(a) < Rank(b)
    <2>1. a + 1 \in Nat /\ a + 1 <= b /\ a <= a + 1
      BY <1>2
    <2>2. \A p \in a .. (a + 1) - 1 : p = a
      OBVIOUS
    <2>3. Rank(a + 1) = Rank(a) + ((a + 1) - a)
      BY <1>2, <2>1, <2>2, RankRun
    <2>4. Rank(a + 1) <= Rank(b)
      BY <1>1, <2>1
    <2>5. QED
      BY <2>1, <2>3, <2>4, RankType
  <1>3. QED
    BY <1>1, <1>2

\* Two good pages of the same rank are the same page.
LEMMA RankUnique ==
  ASSUME NEW p \in GoodPages(desc), NEW q \in GoodPages(desc), Rank(p) = Rank(q)
  PROVE  p = q
  <1>1. p \in Nat /\ q \in Nat
    <2>1. GoodPages(desc) \in SUBSET GoodPages(desc)
      OBVIOUS
    <2>2. QED
      BY <2>1, GoodFinite
  <1>2. ~(p < q) /\ ~(q < p)
    BY <1>1, RankMono, RankType
  <1>3. QED
    BY <1>1, <1>2

\* An image that is placed is laid out.
LEMMA PlacedLaidOut == Placed(ImagePages(desc)) => LaidOut(desc)
  <1> SUFFICES ASSUME Placed(ImagePages(desc)), NEW k \in 0 .. ImagePages(desc) - 1
               PROVE  flash[HomeOf(desc, k)] = k
    BY DEF LaidOut
  <1>1. PICK p \in GoodPages(desc) : Rank(p) = k /\ flash[p] = k
    BY DEF Placed
  <1>2. HomeOf(desc, k) \in GoodPages(desc) /\ Rank(HomeOf(desc, k)) = k
    BY <1>1 DEF HomeOf, Rank
  <1>3. QED
    BY <1>1, <1>2, RankUnique
---------------------------------------------------------------------------
(* The burner's half.                                                      *)

\* Marks and descriptor unchanged, the good pages are the same.
LEMMA RankSame ==
  ASSUME desc' = desc, bad' = bad
  PROVE  GoodPages(desc)' = GoodPages(desc) /\ \A p : Rank(p)' = Rank(p)
  BY DEF GoodPages, Rank

\* A later offset starts on no earlier page.
LEMMA FirstPageMono ==
  ASSUME NEW a \in Nat, NEW b \in Nat, a <= b
  PROVE  /\ FirstPage(a) \in Nat /\ FirstPage(b) \in Nat
         /\ FirstPage(a) <= FirstPage(b)
  <1>1. PICK p \in Nat : p = a \div PageSize
    BY DivType, SizesAssumption
  <1>2. PICK q \in Nat : q = b \div PageSize
    BY DivType, SizesAssumption
  <1>3. PageSize * p <= a /\ b < PageSize * q + PageSize
    BY <1>1, <1>2, DivBounds, SizesAssumption
  <1>4. /\ PageSize * p \in Nat /\ PageSize * q \in Nat
        /\ PageSize * (q + 1) = PageSize * q + PageSize
    BY MulSplit, SizesAssumption
  <1>5. PageSize * p < PageSize * (q + 1)
    BY <1>3, <1>4, SizesAssumption
  <1>6. p < q + 1
    BY <1>5, MulCancel, SizesAssumption
  <1>7. QED
    BY <1>1, <1>2, <1>6 DEF FirstPage

\* The pages of one step: whole, and on the chip when it starts there.
LEMMA StepInside ==
  ASSUME NEW d \in CallerDesc, NEW o \in Nat, o % StepOf(d.dev) = 0
  PROVE  /\ o % PageSize = 0
         /\ PageCount(StepOf(d.dev)) \in Nat \ {0}
         /\ StepOf(d.dev) = PageSize * PageCount(StepOf(d.dev))
         /\ o < NBlocks * BlockSize =>
              FirstPage(o) + PageCount(StepOf(d.dev)) <= NBlocks * PPB
  <1>1. PICK s \in Nat \ {0} : s = StepOf(d.dev)
    BY StepType
  <1>2. PICK k \in Nat \ {0} : BlockSize = s * k
    BY <1>1, Strides
  <1>3. PICK c \in Nat \ {0} : s = PageSize * c
    BY <1>1, Strides
  <1>4. PICK j \in Nat : o = s * j
    BY <1>1, DivType, Multiple, ZenonT(40)
  <1>5. c * j \in Nat /\ o = PageSize * (c * j)
    BY <1>3, <1>4, MulAssoc, SizesAssumption
  <1>6. FirstPage(o) = c * j /\ PageCount(s) = c /\ o % PageSize = 0
    BY <1>3, <1>5, MultipleOf, SizesAssumption DEF FirstPage, PageCount
  <1>7. ASSUME o < NBlocks * BlockSize
        PROVE  c * j + c <= NBlocks * PPB
    <2>1. k * NBlocks \in Nat /\ NBlocks * BlockSize = s * (k * NBlocks)
      BY <1>2, MulAssoc, SizesAssumption
    <2>2. j < k * NBlocks
      BY <1>4, <1>7, <2>1, MulCancel
    <2>3. s * (j + 1) <= s * (k * NBlocks)
      BY <2>1, <2>2, MulMono
    <2>4. s * (j + 1) = PageSize * (c * j + c)
      <3>1. (PageSize * c) * j + PageSize * c = PageSize * (c * j + c)
        BY MulSplit, SizesAssumption
      <3>2. s * (j + 1) = s * j + s
        BY MulSplit
      <3>3. QED
        BY <1>3, <3>1, <3>2
    <2>5. NBlocks * BlockSize = PageSize * (NBlocks * PPB) /\ NBlocks * PPB \in Nat
      <3>1. \A t, r, m \in Nat : m * (t * r) = t * (m * r)
        OBVIOUS
      <3>2. QED
        BY <3>1, PPBType, PagesAre, SizesAssumption
    <2>6. PageSize * (c * j + c) <= PageSize * (NBlocks * PPB)
      BY <2>1, <2>3, <2>4, <2>5
    <2> DEFINE u == c * j + c
               v == NBlocks * PPB
    <2>7. u \in Nat /\ v \in Nat
      BY <1>5, <2>5
    <2> HIDE DEF u, v
    <2>8. PageSize * u < PageSize * (v + 1)
      <3>1. PageSize * (v + 1) = PageSize * v + PageSize
        BY <2>7, MulSplit, SizesAssumption
      <3>2. PageSize * u <= PageSize * v
        BY <2>6 DEF u, v
      <3>3. PageSize * u \in Nat /\ PageSize * v \in Nat
        BY <2>7, SizesAssumption
      <3>4. QED
        BY <3>1, <3>2, <3>3, SizesAssumption
    <2>9. u < v + 1
      BY <2>7, <2>8, MulCancel, SizesAssumption
    <2>10. u <= v
      BY <2>7, <2>9
    <2>11. QED
      BY <2>10 DEF u, v
  <1>8. QED
    BY <1>1, <1>3, <1>6, <1>7

\* The pages of one block.
LEMMA BlockPages ==
  ASSUME NEW f \in Nat, NEW p \in Nat, f % PPB = 0, f <= p, p < f + PPB
  PROVE  p \div PPB = f \div PPB
  <1>1. PPB \in Nat \ {0}
    BY PPBType
  <1>2. PICK q \in Nat : q = f \div PPB
    BY <1>1, DivType
  <1>3. f = PPB * q
    BY <1>1, <1>2, Multiple
  <1>4. PPB * q <= p /\ p < PPB * q + PPB
    BY <1>3
  <1>5. p \div PPB = q
    BY <1>1, <1>4, DivUnique
  <1>6. QED
    BY <1>2, <1>5

\* Skipping a bad block passes no good page.
LEMMA RankOverBad ==
  ASSUME TypeOK, IsNand(desc.dev), NEW o \in Nat, o % BlockSize = 0,
         BlockOf(o) \in bad
  PROVE  /\ o % PageSize = 0 /\ (o + BlockSize) % PageSize = 0
         /\ FirstPage(o) \in Nat
         /\ FirstPage(o + BlockSize) = FirstPage(o) + PPB
         /\ Rank(FirstPage(o + BlockSize)) = Rank(FirstPage(o))
  <1>1. o % PageSize = 0
    <2>1. PICK j \in Nat : o = BlockSize * j
      <3>1. BlockSize \in Nat \ {0}
        BY SizesAssumption
      <3>2. o = BlockSize * (o \div BlockSize)
        BY <3>1, Multiple
      <3>3. o \div BlockSize \in Nat
        BY <3>1, DivType
      <3>4. QED
        BY <3>2, <3>3
    <2>2. PPB * j \in Nat /\ o = PageSize * (PPB * j)
      BY <2>1, PPBType, MulAssoc, SizesAssumption
    <2>3. QED
      BY <2>2, MultipleOf, SizesAssumption
  <1>2. PICK f \in Nat : f = FirstPage(o) /\ o = PageSize * f
                         /\ BlockOf(o) = f \div PPB /\ f % PPB = 0
    BY <1>1, AlignedPages
  <1>3. /\ FirstPage(o + BlockSize) = f + PPB
        /\ (o + BlockSize) % PageSize = 0
    BY <1>2, PPBType, PagesOn
  <1>4. ASSUME NEW p \in GoodPages(desc), f <= p, p < f + PPB
        PROVE  FALSE
    <2>1. p \in Nat
      BY PagesAre DEF GoodPages
    <2>2. BlockOfPage(p) = BlockOf(o)
      BY <1>2, <1>4, <2>1, PageBlock, BlockPages
    <2>3. QED
      BY <2>2 DEF GoodPages
  <1>5. f + PPB \in Nat /\ f <= f + PPB
    BY PPBType
  <1>6. Rank(f + PPB) = Rank(f)
    BY <1>4, <1>5, RankGap
  <1>7. QED
    BY <1>1, <1>2, <1>3, <1>6

\* Nothing lies before the place of the image.
LEMMA RankStart ==
  ASSUME NEW d \in CallerDesc, d = desc
  PROVE  Rank(FirstPage(d.offo)) = 0
  <1>1. FirstPage(d.offo) \in Nat
    BY DescType, FirstPageMono
  <1>2. {q \in GoodPages(desc) : q < FirstPage(d.offo)} = {}
    <2>1. \A q \in GoodPages(desc) : q \in Nat /\ q >= FirstPage(d.offo)
      BY PagesAre DEF GoodPages
    <2>2. QED
      BY <1>1, <2>1
  <1>3. QED
    BY <1>2, FS_EmptySet DEF Rank

\* The pages one step writes, no fault having occurred, are good pages.
LEMMA StepGood ==
  ASSUME IInv, WriteStep, Fits(desc), StartsWell(desc), InChip(desc),
         NEW p \in Nat, FirstPage(offs_o) <= p,
         p < FirstPage(offs_o) + PageCount(StepOf(desc.dev))
  PROVE  /\ p \in GoodPages(desc)
         /\ BlockOfPage(p) \in EraseRange(desc.offo, desc.max)
  <1>1. TypeOK /\ pc = "loop" /\ desc \in CallerDesc
    BY DEF IInv, TypeOK, WriteStep
  <1>2. /\ desc.offo \in Nat /\ desc.max \in Nat /\ offs_o \in Nat
        /\ remain \in Nat /\ leeway \in Int
    BY <1>1, DescType DEF TypeOK
  <1>3. /\ desc.offo <= offs_o /\ remain > 0 /\ leeway >= 0
        /\ offs_o + remain + leeway = desc.offo + desc.max
        /\ offs_o % StepOf(desc.dev) = 0
    BY <1>1 DEF IInv, Accounting, LoopInv, WriteStep, StartsWell
  <1>4. offs_o < desc.offo + desc.max
    BY <1>2, <1>3
  <1>5. offs_o < NBlocks * BlockSize
    <2>1. NBlocks * BlockSize \in Nat
      BY SizesAssumption
    <2>2. QED
      BY <1>2, <1>4, <2>1 DEF InChip
  <1>6. FirstPage(offs_o) + PageCount(StepOf(desc.dev)) <= NBlocks * PPB
        /\ PageCount(StepOf(desc.dev)) \in Nat
    BY <1>1, <1>2, <1>3, <1>5, StepInside
  <1>7. FirstPage(desc.offo) <= FirstPage(offs_o) /\ FirstPage(desc.offo) \in Nat
        /\ FirstPage(offs_o) \in Nat
    BY <1>2, <1>3, FirstPageMono
  <1>8. p \in Pages
    BY <1>6, <1>7, PagesAre
  <1>9. BlockOfPage(p) = BlockOf(offs_o)
    BY <1>1, <1>3, <1>8, StepPages DEF StartsWell
  <1>10. IsNand(desc.dev) => BlockOf(offs_o) \notin bad
    BY <1>1 DEF IInv, LoopInv, InsideGood, WriteStep, AtBadBlock
  <1>11. BlockOf(offs_o) \in EraseRange(desc.offo, desc.max)
    BY <1>2, <1>3, <1>4, InEraseRange
  <1>12. QED
    BY <1>7, <1>8, <1>9, <1>10, <1>11 DEF GoodPages
\* The erase of a burn without a fault leaves every good page of the range
\* erased: for bnd the scrub makes the whole range good.
LEMMA BurnBegin == IInv /\ BurnInv /\ ReadInv /\ Begin => BurnInv'
  <1> SUFFICES ASSUME IInv, ReadInv, Begin, ~slotFault' PROVE BurnInv'
    BY DEF BurnInv
  <1>1. TypeOK /\ desc' = desc /\ desc \in CallerDesc /\ pc = "idle"
    BY DEF IInv, TypeOK, Begin
  <1>2. CASE desc.same
    BY <1>1, <1>2 DEF Begin, BurnInv, Ended
  <1>3. CASE ~desc.same
    <2>1. pc' = "setup"
      BY <1>1, <1>3 DEF Begin
    <2>2. SUFFICES ASSUME IsNand(desc.dev), desc.cfg,
                          NEW p \in GoodPages(desc)',
                          BlockOfPage(p) \in EraseRange(desc.offo, desc.max)
                   PROVE  flash'[p] = Erased
      BY <1>1, <2>1 DEF BurnInv, Ready, Ended
    <2>3. PICK failed \in SUBSET ErasedBlocks(desc) :
            /\ ioerr' = ioerr + Cardinality(failed)
            /\ vs_erase(desc, failed)
      BY <1>3, <2>2 DEF Begin, vs_device_erasable
    <2>4. failed = {}
      <3>1. Cardinality(failed) \in Nat /\ ioerr \in Nat
        BY <1>1, ErasedFinite, SizesAssumption DEF TypeOK
      <3>2. ioerr' = 0
        BY DEF slotFault
      <3>3. Cardinality(failed) = 0
        BY <2>3, <3>1, <3>2
      <3>4. IsFiniteSet(failed)
        BY <1>1, ErasedFinite
      <3>5. QED
        BY <3>3, <3>4, FS_EmptySet
    <2>5. desc.dev # "fnd" /\ EraseSize(desc.dev, desc.max) = desc.max
      BY <1>1 DEF slotFault, EraseSize
    <2>6. BlockOfPage(p) \in ErasedBlocks(desc)
      BY <1>1, <2>2, <2>3, <2>5 DEF ErasedBlocks, vs_erase, GoodPages
    <2>7. p \in Pages
      BY DEF GoodPages
    <2>8. QED
      BY <2>3, <2>4, <2>6, <2>7 DEF vs_erase
  <1>4. QED
    BY <1>1, <1>2, <1>3, DescType

\* The loop starts with nothing placed.
LEMMA BurnSetup == IInv /\ BurnInv /\ Setup => BurnInv'
  <1> SUFFICES ASSUME IInv, BurnInv, Setup, ~slotFault' PROVE BurnInv'
    BY DEF BurnInv
  <1>1. /\ TypeOK /\ desc \in CallerDesc
        /\ desc' = desc /\ bad' = bad /\ flash' = flash /\ ioerr' = ioerr
        /\ pc = "setup"
    BY DEF IInv, TypeOK, Setup
  <1>2. ~slotFault
    BY <1>1 DEF slotFault, StartsWell
  <1>3. CASE pc' = "done" /\ ret' # "ok"
    BY <1>3 DEF BurnInv, Ended
  <1>4. CASE pc' = "loop"
    <2>1. IsNand(desc.dev) => desc.cfg
      BY <1>4 DEF Setup
    <2>2. IsNand(desc.dev) => Ready(desc.offo)
      BY <1>1, <1>2, <2>1 DEF BurnInv
    <2>3. offs_o' = desc.offo /\ offs_i' = 0 /\ remain' = BurnLength(desc)
      BY DEF Setup
    <2>4. IsNand(desc.dev) => Ready(desc.offo)'
      BY <1>1, <2>2, RankSame DEF Ready
    <2>5. Rank(FirstPage(desc.offo)) = 0
      BY <1>1, RankStart
    <2>6. Rank(FirstPage(desc.offo))' = 0
      BY <1>1, <2>5, RankSame
    <2>7. Placed(0)'
      BY DEF Placed
    <2>8. BurnLength(desc) \in Nat
      BY <1>1, StepType
    <2>9. Progress'
      <3>1. Rank(FirstPage(offs_o))' = 0
        BY <1>1, <2>3, <2>6
      <3>2. (IsNand(desc.dev) => Ready(offs_o))'
        BY <1>1, <2>3, <2>4 DEF Ready
      <3>3. Placed(Rank(FirstPage(offs_o)))'
        BY <2>7, <3>1 DEF Placed
      <3>4. PageSize * 0 = 0
        BY SizesAssumption
      <3>5. QED
        BY <1>1, <2>3, <2>8, <3>1, <3>2, <3>3, <3>4 DEF Progress
    <2>10. QED
      BY <1>4, <2>9 DEF BurnInv, Ended
  <1>5. QED
    BY <1>1, <1>3, <1>4 DEF Setup

\* A skipped block holds nothing of the image.
LEMMA BurnSkipBad == IInv /\ BurnInv /\ SkipBad => BurnInv'
  <1> SUFFICES ASSUME IInv, BurnInv, SkipBad, ~slotFault' PROVE BurnInv'
    BY DEF BurnInv
  <1>1. /\ TypeOK /\ desc \in CallerDesc /\ offs_o \in Nat
        /\ desc' = desc /\ bad' = bad /\ flash' = flash /\ ioerr' = ioerr
        /\ pc = "loop" /\ pc' = "loop" /\ offs_i' = offs_i /\ remain' = remain
        /\ offs_o' = offs_o + BlockSize
        /\ IsNand(desc.dev) /\ offs_o % BlockSize = 0 /\ BlockOf(offs_o) \in bad
    BY DEF IInv, TypeOK, SkipBad, AtBadBlock
  <1>2. ~slotFault
    BY <1>1 DEF slotFault, StartsWell
  <1>3. Progress
    BY <1>1, <1>2 DEF BurnInv
  <1>4. /\ FirstPage(offs_o) \in Nat
        /\ FirstPage(offs_o + BlockSize) = FirstPage(offs_o) + PPB
        /\ Rank(FirstPage(offs_o + BlockSize)) = Rank(FirstPage(offs_o))
    BY <1>1, RankOverBad
  <1>5. Rank(FirstPage(offs_o))' = Rank(FirstPage(offs_o))
    BY <1>1, <1>4, RankSame
  <1>6. Ready(offs_o)'
    <2>1. Ready(offs_o)
      BY <1>1, <1>3 DEF Progress
    <2>2. \A p \in GoodPages(desc) : p \in Nat
      BY PagesAre DEF GoodPages
    <2>3. QED
      BY <1>1, <1>4, <2>1, <2>2, RankSame, PPBType DEF Ready
  <1>7. Placed(Rank(FirstPage(offs_o)))'
    BY <1>1, <1>3, <1>5, RankSame DEF Progress, Placed
  <1>8. Progress'
    BY <1>1, <1>3, <1>5, <1>6, <1>7 DEF Progress
  <1>9. QED
    BY <1>1, <1>8 DEF BurnInv, Ended

\* What one step without a fault writes: the next pages of the image.
LEMMA StepWrites ==
  ASSUME IInv, BurnInv, WriteStep, ~slotFault',
         NEW f \in Nat, f = FirstPage(offs_o),
         NEW c \in Nat \ {0}, c = PageCount(StepOf(desc.dev))
  PROVE  \A p \in Pages : flash'[p] = IF f <= p /\ p < f + c
                                      THEN Rank(f) + (p - f) ELSE flash[p]
  <1>1. /\ TypeOK /\ desc \in CallerDesc /\ pc = "loop"
        /\ desc' = desc /\ bad' = bad
    BY DEF IInv, TypeOK, WriteStep
  <1>2. PICK good \in 0 .. c :
          /\ ioerr' = ioerr + (IF good < c THEN 1 ELSE 0)
          /\ vs_write(good)
    BY DEF WriteStep
  <1>3. ioerr = 0 /\ good = c
    <2>1. ioerr \in Nat /\ ioerr' = 0
      BY <1>1, SizesAssumption DEF TypeOK, slotFault
    <2>2. QED
      BY <1>2, <2>1
  <1>4. /\ ~slotFault /\ Fits(desc) /\ StartsWell(desc) /\ InChip(desc)
        /\ desc.dev # "fnd"
    BY <1>1, <1>3 DEF slotFault, StartsWell
  <1>5. Progress
    BY <1>1, <1>4 DEF BurnInv
  <1>6. Rank(f) \in Nat /\ SrcPage(desc.dev, offs_i) = Rank(f)
    <2>1. Rank(f) \in Nat
      BY RankType
    <2>2. offs_i = PageSize * Rank(f)
      BY <1>5 DEF Progress
    <2>3. offs_i \div PageSize = Rank(f)
      BY <2>1, <2>2, MultipleOf, SizesAssumption
    <2>4. QED
      BY <1>4, <2>1, <2>3 DEF SrcPage
  <1> SUFFICES ASSUME NEW p \in Pages
               PROVE  flash'[p] = IF f <= p /\ p < f + c
                                  THEN Rank(f) + (p - f) ELSE flash[p]
    OBVIOUS
  <1>7. p \in Nat
    BY PagesAre
  <1>8. flash'[p] = IF f <= p /\ p < f + c
                    THEN Program(desc.dev, flash[p], Rank(f) + (p - f))
                    ELSE flash[p]
    BY <1>2, <1>3, <1>6, <1>7 DEF vs_write
  <1>9. ASSUME f <= p, p < f + c
        PROVE  Program(desc.dev, flash[p], Rank(f) + (p - f)) = Rank(f) + (p - f)
    <2>1. p \in GoodPages(desc) /\ BlockOfPage(p) \in EraseRange(desc.offo, desc.max)
      BY <1>4, <1>7, <1>9, StepGood
    <2>2. IsNand(desc.dev) => flash[p] = Erased
      BY <1>5, <1>7, <1>9, <2>1 DEF Progress, Ready
    <2>3. desc.dev = "mmc" \/ IsNand(desc.dev)
      BY <1>1, DescType DEF AllDevs, IsNand
    <2>4. QED
      BY <2>2, <2>3 DEF Program
  <1>10. QED
    BY <1>8, <1>9

\* A step adds its pages to those that are placed.
LEMMA BurnWriteStep == IInv /\ BurnInv /\ WriteStep => BurnInv'
  <1> SUFFICES ASSUME IInv, BurnInv, WriteStep, ~slotFault' PROVE BurnInv'
    BY DEF BurnInv
  <1>1. /\ TypeOK /\ desc \in CallerDesc /\ offs_o \in Nat /\ remain \in Nat
        /\ desc' = desc /\ bad' = bad /\ pc = "loop" /\ pc' = "loop"
        /\ offs_o' = offs_o + StepOf(desc.dev)
        /\ offs_i' = offs_i + SrcStepOf(desc.dev)
        /\ remain' = AfterStep(remain, StepOf(desc.dev))
    BY DEF IInv, TypeOK, WriteStep
  <1>2. ioerr = 0
    <2>1. PICK good \in 0 .. PageCount(StepOf(desc.dev)) :
            ioerr' = ioerr
              + (IF good < PageCount(StepOf(desc.dev)) THEN 1 ELSE 0)
      BY DEF WriteStep
    <2>2. ioerr \in Nat /\ ioerr' = 0
      BY <1>1, SizesAssumption DEF TypeOK, slotFault
    <2>3. QED
      BY <2>1, <2>2
  <1>3. /\ ~slotFault /\ Fits(desc) /\ StartsWell(desc) /\ InChip(desc)
        /\ desc.dev # "fnd"
    BY <1>1, <1>2 DEF slotFault, StartsWell
  <1>4. Progress
    BY <1>1, <1>3 DEF BurnInv
  <1>5. offs_o % StepOf(desc.dev) = 0
    BY <1>1, <1>3 DEF IInv, LoopInv, StartsWell
  <1>6. PICK c \in Nat \ {0} : /\ c = PageCount(StepOf(desc.dev))
                               /\ StepOf(desc.dev) = PageSize * c
    BY <1>1, <1>5, StepInside
  <1>7. offs_o % PageSize = 0
    BY <1>1, <1>5, StepInside
  <1>8. PICK f \in Nat : f = FirstPage(offs_o) /\ offs_o = PageSize * f
    BY <1>1, <1>7, AlignedPages
  <1>9. FirstPage(offs_o') = f + c
    BY <1>1, <1>6, <1>8, PagesOn
  <1>10. \A p \in f .. f + c - 1 : p \in GoodPages(desc)
    BY <1>3, <1>6, <1>8, StepGood
  <1>11. Rank(f) \in Nat /\ Rank(f + c) = Rank(f) + c
    <2>1. f + c \in Nat /\ f <= f + c
      OBVIOUS
    <2>2. Rank(f + c) = Rank(f) + ((f + c) - f)
      BY <1>10, <2>1, RankRun
    <2>3. QED
      BY <2>2, RankType
  <1>12. \A p \in Pages : flash'[p] = IF f <= p /\ p < f + c
                                      THEN Rank(f) + (p - f) ELSE flash[p]
    BY <1>6, <1>8, StepWrites
  <1>13. \A p \in GoodPages(desc) : p \in Pages /\ p \in Nat
    BY PagesAre DEF GoodPages
  <1>14. Rank(FirstPage(offs_o))' = Rank(f) + c
    BY <1>1, <1>9, <1>11, RankSame
  <1>15. IsNand(desc.dev) => Ready(offs_o)'
    BY <1>1, <1>4, <1>8, <1>9, <1>12, <1>13, RankSame DEF Progress, Ready
  <1>16. offs_i' = PageSize * (Rank(f) + c) /\ SrcStepOf(desc.dev) = PageSize * c
         /\ offs_i = PageSize * Rank(f) /\ offs_i \in Nat
    <2>1. SrcStepOf(desc.dev) = StepOf(desc.dev)
      BY <1>3 DEF SrcStepOf, StepOf
    <2>2. offs_i = PageSize * Rank(f) /\ offs_i \in Nat
      BY <1>1, <1>4, <1>8 DEF Progress, TypeOK
    <2>3. PageSize * Rank(f) + PageSize * c = PageSize * (Rank(f) + c)
      BY <1>11, PagesOn
    <2>4. QED
      BY <1>1, <1>6, <2>1, <2>2, <2>3
  <1>17. (remain = IF BurnLength(desc) < offs_i THEN 0 ELSE BurnLength(desc) - offs_i)'
    <2>1. BurnLength(desc) \in Nat /\ StepOf(desc.dev) \in Nat
      BY <1>1, StepType
    <2>2. offs_i' = offs_i + StepOf(desc.dev)
      BY <1>1, <1>6, <1>16
    <2>3. remain = IF BurnLength(desc) < offs_i THEN 0 ELSE BurnLength(desc) - offs_i
      BY <1>4 DEF Progress
    <2>4. QED
      BY <1>1, <1>16, <2>1, <2>2, <2>3 DEF AfterStep
  <1>18. ASSUME NEW k \in 0 .. Rank(f) + c - 1
         PROVE  \E p \in GoodPages(desc) : Rank(p) = k /\ flash'[p] = k
    <2>1. CASE k < Rank(f)
      <3>1. k \in 0 .. Rank(f) - 1
        BY <1>11, <2>1
      <3>2. PICK p \in GoodPages(desc) : Rank(p) = k /\ flash[p] = k
        BY <1>4, <1>8, <3>1 DEF Progress, Placed
      <3>3. p \in Nat /\ p \in Pages
        BY <1>13
      <3>4. p < f
        <4>1. f <= p => Rank(f) <= Rank(p)
          BY <3>3, RankMono
        <4>2. QED
          BY <1>11, <2>1, <3>2, <3>3, <4>1
      <3>5. flash'[p] = k
        BY <1>12, <3>2, <3>3, <3>4
      <3>6. QED
        BY <3>2, <3>5
    <2>2. CASE k >= Rank(f)
      <3>1. PICK p \in Nat : p = f + (k - Rank(f))
        BY <1>11, <2>2
      <3>2. f <= p /\ p < f + c /\ k = Rank(f) + (p - f)
        BY <1>11, <2>2, <3>1
      <3>3. \A q \in f .. p - 1 : q \in GoodPages(desc)
        BY <1>10, <3>2
      <3>4. Rank(p) = Rank(f) + (p - f)
        BY <3>2, <3>3, RankRun
      <3>5. p \in GoodPages(desc)
        BY <1>10, <3>2
      <3>6. flash'[p] = k
        BY <1>12, <1>13, <3>2, <3>5
      <3>7. QED
        BY <3>2, <3>4, <3>5, <3>6
    <2>3. QED
      BY <1>11, <2>1, <2>2
  <1>19. Progress'
    <2>1. Placed(Rank(FirstPage(offs_o)))'
      <3>1. PICK r \in Nat : r = Rank(f) + c
        BY <1>11
      <3>2. Rank(FirstPage(offs_o))' = r
        BY <1>14, <3>1
      <3>3. \A k \in 0 .. r - 1 :
              \E p \in GoodPages(desc) : Rank(p) = k /\ flash'[p] = k
        BY <1>11, <1>18, <3>1
      <3>4. \A k \in 0 .. r - 1 :
              \E p \in GoodPages(desc)' : Rank(p)' = k /\ flash'[p] = k
        BY <1>1, <3>3, RankSame
      <3>5. QED
        BY <3>2, <3>4 DEF Placed
    <2>2. QED
      BY <1>1, <1>14, <1>15, <1>16, <1>17, <2>1 DEF Progress
  <1>20. QED
    BY <1>1, <1>19 DEF BurnInv, Ended
\* The pages of an image are no more than a count of them that covers it.
LEMMA CoveringPages ==
  ASSUME NEW len \in Nat, NEW r \in Nat, len <= PageSize * r
  PROVE  (len + PageSize - 1) \div PageSize \in 0 .. r
  <1>1. PICK t \in Nat : t = len + PageSize - 1
    BY SizesAssumption
  <1>2. PICK n \in Nat : n = t \div PageSize
    BY <1>1, DivType, SizesAssumption
  <1>3. PageSize * n <= t
    BY <1>2, DivBounds, SizesAssumption
  <1>4. /\ PageSize * (r + 1) = PageSize * r + PageSize
        /\ PageSize * r \in Nat /\ PageSize * n \in Nat
    BY MulSplit, SizesAssumption
  <1>5. PageSize * n < PageSize * (r + 1)
    BY <1>1, <1>3, <1>4, SizesAssumption
  <1>6. n < r + 1
    BY <1>5, MulCancel, SizesAssumption
  <1>7. QED
    BY <1>1, <1>2, <1>6

\* When nothing remains the whole image is placed.
LEMMA BurnFinish == IInv /\ BurnInv /\ Finish => BurnInv'
  <1> SUFFICES ASSUME IInv, BurnInv, Finish, ~slotFault' PROVE BurnInv'
    BY DEF BurnInv
  <1>1. /\ TypeOK /\ desc \in CallerDesc /\ offs_o \in Nat
        /\ desc' = desc /\ bad' = bad /\ flash' = flash /\ ioerr' = ioerr
        /\ pc = "loop" /\ pc' = "done" /\ remain = 0
    BY DEF IInv, TypeOK, Finish
  <1>2. Progress
    BY <1>1 DEF BurnInv, slotFault, StartsWell
  <1>3. PICK r \in Nat : r = Rank(FirstPage(offs_o))
    BY <1>1, FirstPageMono, RankType
  <1>4. BurnLength(desc) \in Nat /\ BurnLength(desc) <= PageSize * r
    <2>1. BurnLength(desc) \in Nat
      BY <1>1, StepType
    <2>2. offs_i = PageSize * r /\ offs_i \in Nat
          /\ remain = IF BurnLength(desc) < offs_i THEN 0 ELSE BurnLength(desc) - offs_i
      BY <1>1, <1>2, <1>3 DEF Progress, TypeOK
    <2>3. BurnLength(desc) <= offs_i
      BY <1>1, <2>1, <2>2
    <2>4. QED
      BY <2>1, <2>2, <2>3
  <1>5. ImagePages(desc) \in 0 .. r
    BY <1>4, CoveringPages DEF ImagePages
  <1>6. Placed(ImagePages(desc))
    BY <1>2, <1>3, <1>5 DEF Progress, Placed
  <1>7. Placed(ImagePages(desc))'
    BY <1>1, <1>6, RankSame DEF Placed
  <1>8. QED
    BY <1>1, <1>7 DEF BurnInv

\* Every step keeps what the burner has achieved.
LEMMA BurnStep == SlotInv /\ [Next]_vars => BurnInv'
  <1> SUFFICES ASSUME SlotInv, [Next]_vars PROVE BurnInv'
    OBVIOUS
  <1>1. IInv /\ BurnInv /\ ReadInv
    BY DEF SlotInv
  <1>2. CASE NoMoreGood \/ PowerCut
    BY <1>2 DEF NoMoreGood, PowerCut, BurnInv, Ended
  <1>3. CASE ReadNext \/ UNCHANGED vars
    <2>1. /\ desc' = desc /\ bad' = bad /\ flash' = flash /\ ioerr' = ioerr
          /\ ret' = ret /\ UNCHANGED locals
          /\ Ended' <=> Ended
          /\ pc' \in {"setup", "loop"} => pc' = pc
      BY <1>3 DEF ReadNext, ReadBegin, ReadSkip, ReadChunk, ReadEnd, vars, locals,
                  Ended
    <2>2. slotFault' <=> slotFault
      BY <2>1 DEF slotFault, StartsWell
    <2>3. \A n : Placed(n)' <=> Placed(n)
      BY <2>1, RankSame DEF Placed
    <2>4. \A o : Ready(o)' <=> Ready(o)
      BY <2>1, RankSame DEF Ready
    <2>5. Progress' <=> Progress
      <3>1. offs_i' = offs_i /\ offs_o' = offs_o /\ remain' = remain
        BY <2>1 DEF locals
      <3>2. Rank(FirstPage(offs_o))' = Rank(FirstPage(offs_o))
        BY <2>1, <3>1, RankSame
      <3>3. Placed(Rank(FirstPage(offs_o)))' <=> Placed(Rank(FirstPage(offs_o)))
        BY <2>1, <3>2, RankSame DEF Placed
      <3>4. Ready(offs_o)' <=> Ready(offs_o)
        BY <2>1, <3>1, RankSame DEF Ready
      <3>5. QED
        BY <2>1, <3>1, <3>2, <3>3, <3>4 DEF Progress
    <2>6. Placed(ImagePages(desc))' <=> Placed(ImagePages(desc))
      BY <2>1, RankSame DEF Placed
    <2>7. Ready(desc.offo)' <=> Ready(desc.offo)
      BY <2>1, RankSame DEF Ready
    <2>8. ASSUME ~slotFault
          PROVE  /\ pc = "setup" /\ IsNand(desc.dev) /\ desc.cfg => Ready(desc.offo)
                 /\ pc = "loop" => Progress
                 /\ Ended /\ ret = "ok" => Placed(ImagePages(desc))
      BY <1>1, <2>8, Zenon DEF BurnInv
    <2>9. ASSUME ~slotFault'
          PROVE  /\ pc' = "setup" /\ IsNand(desc.dev) /\ desc.cfg => Ready(desc.offo)'
                 /\ pc' = "loop" => Progress'
                 /\ Ended' /\ ret' = "ok" => Placed(ImagePages(desc))'
      BY <2>1, <2>2, <2>5, <2>6, <2>7, <2>8, <2>9
    <2>10. QED
      BY <2>1, <2>9 DEF BurnInv
  <1>4. QED
    BY <1>1, <1>2, <1>3, BurnBegin, BurnSetup, BurnSkipBad, BurnWriteStep,
       BurnFinish DEF Next, BurnNext
---------------------------------------------------------------------------
(* The reader's half.                                                      *)

\* The number of pages of an image.
LEMMA ImagePagesType ==
  ASSUME NEW d \in CallerDesc
  PROVE  ImagePages(d) \in Nat /\ ImagePages(d) * PageSize \in Nat
         /\ ImagePages(d) * PageSize = PageSize * ImagePages(d)
  <1>1. BurnLength(d) + PageSize - 1 \in Nat
    BY StepType, SizesAssumption
  <1>2. ImagePages(d) \in Nat
    BY <1>1, DivType, SizesAssumption DEF ImagePages
  <1>3. QED
    BY <1>2, SizesAssumption

\* Reading keeps the types of the reader.
LEMMA ReadTypeStep == TypeOK /\ ReadType /\ [Next]_vars => ReadType'
  <1> SUFFICES ASSUME TypeOK, ReadType, [Next]_vars PROVE ReadType'
    OBVIOUS
  <1>1. /\ rd.start \in Nat /\ rd.remain \in Nat /\ rd.skip \in Nat
        /\ rd.data \in SUBSET (Int \X Int) /\ rd.count \in Nat
    BY DEF ReadType
  <1>2. CASE ReadBegin
    <2>1. desc \in CallerDesc /\ desc.offo \in Nat
      BY DescType DEF TypeOK
    <2>2. ImagePages(desc) * PageSize \in Nat
      BY <2>1, ImagePagesType
    <2>3. QED
      BY <1>2, <2>1, <2>2 DEF ReadBegin, ReadType
  <1>3. CASE ReadSkip
    <2>1. rd.start + BlockSize \in Nat /\ rd.skip + 1 \in Nat
      BY <1>1, SizesAssumption
    <2>2. QED
      BY <1>3, <2>1 DEF ReadSkip, ReadType
  <1>4. CASE ReadEnd
    BY <1>4 DEF ReadEnd, ReadType
  <1>5. CASE ReadChunk
    <2> DEFINE left  == BlockSize - (rd.start % BlockSize)
               w     == IF left < rd.remain THEN left ELSE rd.remain
               first == FirstPage(rd.start)
               got   == {p \in Pages : first <= p /\ p < first + PageCount(w)}
               more  == {<<rd.count + (p - first), flash[p]>> : p \in got}
    <2>1. left \in Nat /\ w \in Nat /\ w <= rd.remain
      <3>1. rd.start % BlockSize \in 0 .. BlockSize - 1
        BY <1>1, DivType, SizesAssumption
      <3>2. QED
        BY <1>1, <3>1, SizesAssumption
    <2>2. first \in Nat /\ PageCount(w) \in Nat
      <3> HIDE DEF w
      <3>1. QED
        BY <1>1, <2>1, DivType, SizesAssumption DEF FirstPage, PageCount
    <2>3. more \in SUBSET (Int \X Int)
      <3>1. \A p \in got : rd.count + (p - first) \in Int /\ flash[p] \in Int
        <4>1. \A p \in got : p \in Nat /\ p \in Pages
          BY PagesAre
        <4> HIDE DEF first, got
        <4>2. QED
          BY <1>1, <2>2, <4>1 DEF TypeOK
      <3> HIDE DEF first, got
      <3>2. QED
        BY <3>1
    <2>4. CASE rd' = [rd EXCEPT !.ret = "error"]
      BY <2>4 DEF ReadType
    <2>5. CASE rd' = [rd EXCEPT !.data = @ \cup more, !.count = @ + PageCount(w),
                       !.start = @ + w, !.remain = @ - w, !.skip = 0]
      <3> HIDE DEF more, w
      <3>1. /\ rd.data \cup more \in SUBSET (Int \X Int)
            /\ rd.count + PageCount(w) \in Nat /\ rd.start + w \in Nat
            /\ rd.remain - w \in Nat
        BY <1>1, <2>1, <2>2, <2>3
      <3>2. QED
        BY <2>5, <3>1 DEF ReadType
    <2>6. QED
      BY <1>5, <2>4, <2>5 DEF ReadChunk
  <1>6. CASE rd' = rd
    BY <1>6 DEF ReadType
  <1>7. QED
    BY <1>2, <1>3, <1>4, <1>5, <1>6
       DEF Next, BurnNext, ReadNext, Begin, Setup, SkipBad, NoMoreGood, WriteStep,
           Finish, PowerCut, vars

\* What one read takes: whole pages of one block, up to its end or to that
\* of the image.
Chunk(s, m) ==
  IF BlockSize - (s % BlockSize) < PageSize * m
  THEN BlockSize - (s % BlockSize) ELSE PageSize * m

LEMMA ChunkPages ==
  ASSUME NEW s \in Nat, s % PageSize = 0, NEW m \in Nat \ {0}
  PROVE  \E c \in Nat \ {0} :
           /\ Chunk(s, m) = PageSize * c
           /\ c <= m
           /\ \A p \in Nat : FirstPage(s) <= p /\ p < FirstPage(s) + c =>
                               p \div PPB = BlockOf(s)
           /\ (s + PageSize * c) % BlockSize # 0 =>
                BlockOf(s + PageSize * c) = BlockOf(s)
  <1>1. PICK f \in Nat : f = FirstPage(s) /\ s = PageSize * f
                         /\ BlockOf(s) = f \div PPB
    BY AlignedPages
  <1>2. PPB \in Nat \ {0} /\ BlockSize = PageSize * PPB
    BY PPBType
  <1>3. PICK b \in Nat : b = f \div PPB /\ PPB * b <= f /\ f < PPB * b + PPB
    BY <1>2, DivType, DivBounds
  <1>4. PICK e \in Nat : e = PPB * b /\ BlockSize * b = PageSize * e
    BY <1>2, MulAssoc, SizesAssumption
  <1>5. PICK l \in Nat \ {0} : l = e + PPB - f
    BY <1>2, <1>3, <1>4
  <1>6. BlockSize - (s % BlockSize) = PageSize * l
    <2>1. PICK r \in Nat : r = s % BlockSize
      BY DivType, SizesAssumption
    <2>2. s = BlockSize * b + r
      <3>1. s \div BlockSize = b
        BY <1>1, <1>3 DEF BlockOf
      <3>2. QED
        BY <2>1, <3>1, DivMod, SizesAssumption, SMTT(30)
    <2>3. PageSize * f = PageSize * e + r
      BY <1>1, <1>4, <2>2
    <2>4. f + l = e + PPB
      BY <1>2, <1>4, <1>5
    <2>5. PageSize * (f + l) = PageSize * f + PageSize * l
          /\ PageSize * (e + PPB) = PageSize * e + PageSize * PPB
      BY <1>2, SizesAssumption
    <2>6. PageSize * f + PageSize * l = PageSize * e + BlockSize
      BY <1>2, <2>4, <2>5
    <2>7. /\ PageSize * f \in Nat /\ PageSize * l \in Nat /\ PageSize * e \in Nat
          /\ BlockSize \in Nat
      BY SizesAssumption
    <2> DEFINE x == PageSize * f
               y == PageSize * l
               z == PageSize * e
    <2> HIDE DEF x, y, z
    <2>8. x = z + r /\ x + y = z + BlockSize /\ x \in Nat /\ y \in Nat /\ z \in Nat
      BY <2>3, <2>6, <2>7 DEF x, y, z
    <2>9. BlockSize - r = y
      BY <2>7, <2>8
    <2>10. QED
      BY <2>1, <2>9 DEF y
  <1>7. PICK c \in Nat \ {0} : c = IF l < m THEN l ELSE m
    OBVIOUS
  <1>8. Chunk(s, m) = PageSize * c
    <2>1. PageSize * l < PageSize * m <=> l < m
      <3>1. PageSize * l < PageSize * m => l < m
        BY MulCancel, SizesAssumption
      <3>2. l < m => PageSize * l < PageSize * m
        <4>1. SUFFICES ASSUME l < m PROVE PageSize * l < PageSize * m
          OBVIOUS
        <4>2. PageSize * (l + 1) <= PageSize * m
          BY <4>1, MulMono, SizesAssumption
        <4>3. PageSize * (l + 1) = PageSize * l + PageSize
          BY MulSplit, SizesAssumption
        <4>4. PageSize * l \in Nat /\ PageSize * m \in Nat
          BY SizesAssumption
        <4>5. QED
          BY <4>2, <4>3, <4>4, SizesAssumption
      <3>3. QED
        BY <3>1, <3>2
    <2>2. QED
      BY <1>6, <1>7, <2>1 DEF Chunk
  <1>9. f + c <= e + PPB /\ c <= m
    BY <1>2, <1>4, <1>5, <1>7
  <1>10. ASSUME NEW p \in Nat, f <= p, p < e + PPB
         PROVE  p \div PPB = b
    <2>1. PPB * b <= p /\ p < PPB * b + PPB
      BY <1>3, <1>4, <1>10
    <2>2. QED
      BY <1>2, <2>1, DivUnique
  <1>11. ASSUME (s + PageSize * c) % BlockSize # 0
         PROVE  BlockOf(s + PageSize * c) = b
    <2>1. /\ s + PageSize * c = PageSize * (f + c)
          /\ FirstPage(PageSize * (f + c)) = f + c
          /\ (PageSize * (f + c)) % PageSize = 0
      <3>1. f \in Nat /\ c \in Nat
        OBVIOUS
      <3>2. s + PageSize * c = PageSize * f + PageSize * c
        BY <1>1
      <3>3. QED
        BY <3>1, <3>2, PagesOn
    <2>2. PageSize * (f + c) \in Nat /\ f + c \in Nat
      BY SizesAssumption
    <2>3. /\ BlockOf(PageSize * (f + c)) = (f + c) \div PPB
          /\ (PageSize * (f + c)) % BlockSize = 0 <=> (f + c) % PPB = 0
      BY <2>1, <2>2, AlignedPages
    <2>4. f + c # e + PPB
      <3>1. PPB * (b + 1) = e + PPB /\ b + 1 \in Nat
        BY <1>2, <1>4, MulSplit
      <3>2. (PPB * (b + 1)) % PPB = 0
        BY <1>2, <3>1, MultipleOf
      <3>3. QED
        BY <1>11, <2>1, <2>3, <3>1, <3>2
    <2>5. f + c < e + PPB
      BY <1>2, <1>4, <1>9, <2>2, <2>4
    <2>6. (f + c) \div PPB = b
      BY <1>10, <2>2, <2>5
    <2>7. QED
      BY <2>1, <2>3, <2>6
  <1>12. \A p \in Nat : f <= p /\ p < f + c => p \div PPB = b
    <2>1. \A p \in Nat : f <= p /\ p < f + c => p < e + PPB
      BY <1>2, <1>4, <1>9
    <2>2. QED
      BY <1>10, <2>1
  <1>13. QED
    BY <1>1, <1>3, <1>7, <1>8, <1>9, <1>11, <1>12
\* The reader starts where the burner started.
LEMMA ProgressBegin ==
  ASSUME SlotInv, ReadBegin, ~slotFault, ReadType'
  PROVE  ReadProgress'
  <1>1. /\ TypeOK /\ desc \in CallerDesc /\ desc' = desc /\ bad' = bad
        /\ desc.dev = "nnd" /\ StartsWell(desc)
    BY DEF SlotInv, IInv, TypeOK, ReadBegin, slotFault
  <1>2. /\ rd'.start = desc.offo /\ rd'.remain = ImagePages(desc) * PageSize
        /\ rd'.data = {} /\ rd'.count = 0
    BY DEF ReadBegin
  <1>3. desc.offo \in Nat /\ desc.offo % PageSize = 0
    <2>1. desc.offo \in Nat /\ desc.offo % StepOf(desc.dev) = 0
      BY <1>1, DescType DEF StartsWell, OnStride
    <2>2. QED
      BY <1>1, <2>1, StepInside
  <1>4. Rank(FirstPage(desc.offo))' = 0
    BY <1>1, RankStart, RankSame
  <1>5. /\ ImagePages(desc) \in Nat
        /\ ImagePages(desc) * PageSize = PageSize * ImagePages(desc)
        /\ ImagePages(desc) - 0 = ImagePages(desc)
    BY <1>1, ImagePagesType
  <1>6. {<<k, k>> : k \in 0 .. 0 - 1} = {}
    OBVIOUS
  <1>7. desc.offo % BlockSize # 0 => BlockOf(desc.offo) \notin bad
    BY <1>1 DEF StartsWell
  <1>8. rd'.count = Rank(FirstPage(rd.start))'
    BY <1>1, <1>2, <1>4
  <1>9. QED
    BY <1>1, <1>2, <1>3, <1>5, <1>6, <1>7, <1>8 DEF ReadProgress

\* A bad block is skipped at its start, and has no page of the image.
LEMMA ProgressSkip ==
  ASSUME SlotInv, ReadSkip, pc' = "read", ReadProgress
  PROVE  ReadProgress'
  <1>1. /\ TypeOK /\ desc \in CallerDesc /\ desc' = desc /\ bad' = bad
        /\ BlockOf(rd.start) \in bad /\ ReadType
        /\ rd' = [rd EXCEPT !.start = @ + BlockSize, !.skip = @ + 1]
    BY DEF SlotInv, IInv, TypeOK, ReadInv, ReadSkip, ReadAtBad
  <1>2. /\ rd.start \in Nat /\ rd'.start = rd.start + BlockSize
        /\ rd'.remain = rd.remain /\ rd'.data = rd.data /\ rd'.count = rd.count
    BY <1>1 DEF ReadType
  <1>3. rd.start % BlockSize = 0 /\ IsNand(desc.dev)
    BY <1>1 DEF ReadProgress, IsNand
  <1>4. /\ (rd.start + BlockSize) % PageSize = 0
        /\ Rank(FirstPage(rd.start + BlockSize)) = Rank(FirstPage(rd.start))
    BY <1>1, <1>2, <1>3, RankOverBad
  <1>5. (rd.start + BlockSize) % BlockSize = 0
    <2>1. BlockSize * 1 = BlockSize
      BY SizesAssumption
    <2>2. (rd.start + BlockSize * 1) % BlockSize = 0
      BY <1>2, <1>3, AddMultiple, SizesAssumption
    <2>3. QED
      BY <2>1, <2>2
  <1>6. rd'.count = Rank(FirstPage(rd.start))'
    BY <1>1, <1>2, <1>4, RankSame DEF ReadProgress
  <1>7. desc.offo <= rd.start + BlockSize
    <2>1. desc.offo \in Nat /\ desc.offo <= rd.start
      BY <1>1, DescType DEF ReadProgress
    <2>2. QED
      BY <1>2, <2>1, SizesAssumption
  <1>8. ImagePages(desc)' = ImagePages(desc)
    BY <1>1
  <1>9. QED
    BY <1>1, <1>2, <1>4, <1>5, <1>6, <1>7, <1>8 DEF ReadProgress

\* The pages one read takes are the next good pages, and hold the next pages
\* of the image.
LEMMA ChunkHolds ==
  ASSUME SlotInv, ReadProgress, pc = "read", ret = "ok", ~slotFault, ~ReadAtBad,
         NEW f \in Nat, f = FirstPage(rd.start),
         NEW c \in Nat \ {0}, rd.count + c <= ImagePages(desc),
         \A p \in Nat : f <= p /\ p < f + c => p \div PPB = BlockOf(rd.start)
  PROVE  \A p \in f .. f + c - 1 :
           p \in GoodPages(desc) /\ flash[p] = rd.count + (p - f)
                                 /\ Rank(p) = rd.count + (p - f)
  <1>1. /\ TypeOK /\ ReadType /\ desc \in CallerDesc /\ desc.dev = "nnd"
        /\ rd.start \in Nat /\ rd.count \in Nat /\ BlockOf(rd.start) \notin bad
    BY DEF SlotInv, IInv, TypeOK, ReadInv, ReadProgress, ReadType, ReadAtBad
  <1>2. Placed(ImagePages(desc)) /\ ImagePages(desc) \in Nat
    BY <1>1, ImagePagesType DEF SlotInv, BurnInv, Ended
  <1>3. rd.count = Rank(f)
    BY DEF ReadProgress
  <1>4. FirstPage(desc.offo) \in Nat /\ FirstPage(desc.offo) <= f
    <2>1. desc.offo \in Nat /\ desc.offo <= rd.start
      BY <1>1, DescType DEF ReadProgress
    <2>2. QED
      BY <1>1, <2>1, FirstPageMono
  <1>5. PPB \in Nat \ {0}
    BY PPBType
  <1>6. PICK b \in Nat : b = BlockOf(rd.start)
    BY <1>1, DivType, SizesAssumption DEF BlockOf
  \* The block is on the chip: a page of the image is still to come.
  <1>7. b < NBlocks
    <2> SUFFICES ASSUME NBlocks <= b PROVE FALSE
      BY <1>6, SizesAssumption
    <2>1. rd.count \in 0 .. ImagePages(desc) - 1
      BY <1>1, <1>2
    <2>2. PICK p \in GoodPages(desc) : Rank(p) = rd.count
      BY <1>2, <2>1 DEF Placed
    <2>3. p \in Nat /\ p < NBlocks * PPB /\ NBlocks * PPB \in Nat
      BY PagesAre DEF GoodPages
    <2>4. f \div PPB = b
      BY <1>6
    <2>5. PPB * b <= f
      BY <1>5, <2>4, DivBounds
    <2>6. PPB * NBlocks <= PPB * b
      BY <1>5, MulMono, SizesAssumption
    <2>7. PPB * NBlocks = NBlocks * PPB /\ PPB * b \in Nat
      BY <1>5, SizesAssumption
    <2>8. p < f
      BY <2>3, <2>5, <2>6, <2>7
    <2>9. Rank(p) < Rank(f)
      BY <2>2, <2>3, <2>8, RankMono
    <2>10. QED
      BY <1>1, <1>3, <2>2, <2>9
  <1>8. ASSUME NEW p \in Nat, f <= p, p < f + c
        PROVE  p \in GoodPages(desc)
    <2>1. p \div PPB = b
      BY <1>6, <1>8
    <2>2. p < PPB * b + PPB
      BY <1>5, <2>1, DivBounds
    <2>3. PPB * (b + 1) <= PPB * NBlocks
      BY <1>5, <1>7, MulMono, SizesAssumption
    <2>4. PPB * (b + 1) = PPB * b + PPB
      BY <1>5, MulSplit
    <2>5. PPB * NBlocks = NBlocks * PPB /\ NBlocks * PPB \in Nat /\ PPB * b \in Nat
      BY <1>5, SizesAssumption
    <2>6. p \in Pages
      <3>1. p < NBlocks * PPB
        BY <1>5, <2>2, <2>3, <2>4, <2>5
      <3>2. QED
        BY <3>1, PagesAre
    <2>7. BlockOfPage(p) \notin bad
      BY <1>1, <1>6, <2>1, PageBlock
    <2>8. p >= FirstPage(desc.offo)
      BY <1>4, <1>8
    <2>9. QED
      BY <2>6, <2>7, <2>8 DEF GoodPages
  <1> TAKE p \in f .. f + c - 1
  <1>9. p \in Nat /\ f <= p /\ p < f + c
    OBVIOUS
  <1>10. p \in GoodPages(desc)
    BY <1>8, <1>9
  <1>11. Rank(p) = rd.count + (p - f)
    <2>1. \A q \in f .. p - 1 : q \in GoodPages(desc)
      BY <1>8, <1>9
    <2>2. QED
      BY <1>3, <1>9, <2>1, RankRun
  <1>12. PICK k \in 0 .. ImagePages(desc) - 1 : k = rd.count + (p - f)
    BY <1>1, <1>2, <1>9
  <1>13. PICK q \in GoodPages(desc) : Rank(q) = k /\ flash[q] = k
    BY <1>2 DEF Placed
  <1>14. q = p
    BY <1>10, <1>11, <1>12, <1>13, RankUnique
  <1>15. QED
    BY <1>10, <1>11, <1>12, <1>13, <1>14

\* A read of a chunk moves the reader on by as many good pages.
LEMMA ProgressChunk ==
  ASSUME SlotInv, ReadChunk, pc' = "read", ReadProgress, ret = "ok", ~slotFault
  PROVE  ReadProgress'
  <1>1. /\ TypeOK /\ desc \in CallerDesc /\ desc' = desc /\ bad' = bad
        /\ ~ReadAtBad /\ ReadType /\ rd.remain > 0 /\ pc = "read"
    BY DEF SlotInv, IInv, TypeOK, ReadInv, ReadChunk
  <1>2. rd.start \in Nat /\ rd.count \in Nat /\ rd.remain \in Nat
    BY <1>1 DEF ReadType
  <1>3. ImagePages(desc) \in Nat
    BY <1>1, ImagePagesType
  <1>4. PICK m \in Nat : m = ImagePages(desc) - rd.count /\ rd.remain = PageSize * m
    BY <1>2, <1>3 DEF ReadProgress
  <1>5. m # 0
    BY <1>1, <1>4, SizesAssumption
  <1>6. rd.start % PageSize = 0
    BY DEF ReadProgress
  <1>7. PICK f \in Nat : f = FirstPage(rd.start) /\ rd.start = PageSize * f
    BY <1>2, <1>6, AlignedPages
  <1>8. PICK c \in Nat \ {0} :
          /\ Chunk(rd.start, m) = PageSize * c
          /\ c <= m
          /\ \A p \in Nat : f <= p /\ p < f + c => p \div PPB = BlockOf(rd.start)
          /\ (rd.start + PageSize * c) % BlockSize # 0 =>
               BlockOf(rd.start + PageSize * c) = BlockOf(rd.start)
    <2>1. m \in Nat \ {0}
      BY <1>5
    <2>2. \E c \in Nat \ {0} :
            /\ Chunk(rd.start, m) = PageSize * c
            /\ c <= m
            /\ \A p \in Nat :
                 FirstPage(rd.start) <= p /\ p < FirstPage(rd.start) + c =>
                   p \div PPB = BlockOf(rd.start)
            /\ (rd.start + PageSize * c) % BlockSize # 0 =>
                 BlockOf(rd.start + PageSize * c) = BlockOf(rd.start)
      BY <1>2, <1>6, <2>1, ChunkPages
    <2>3. QED
      BY <1>7, <2>2, Zenon
  <1>9. PageCount(PageSize * c) = c /\ PageSize * c \in Nat
    BY <1>8, PagesOn
  <1> DEFINE got  == {p \in Pages : f <= p /\ p < f + c}
             more == {<<rd.count + (p - f), flash[p]>> : p \in got}
  <1>10. rd' = [rd EXCEPT !.data = @ \cup more, !.count = @ + c,
                  !.start = @ + PageSize * c, !.remain = @ - PageSize * c, !.skip = 0]
    <2>1. (IF BlockSize - (rd.start % BlockSize) < rd.remain
           THEN BlockSize - (rd.start % BlockSize) ELSE rd.remain) = PageSize * c
      BY <1>4, <1>8 DEF Chunk
    <2> DEFINE w == IF BlockSize - (rd.start % BlockSize) < rd.remain
                    THEN BlockSize - (rd.start % BlockSize) ELSE rd.remain
               g == {p \in Pages : FirstPage(rd.start) <= p
                                   /\ p < FirstPage(rd.start) + PageCount(w)}
    <2>2. rd' = [rd EXCEPT
                  !.data = @ \cup {<<rd.count + (p - FirstPage(rd.start)), flash[p]>>
                                     : p \in g},
                  !.count = @ + PageCount(w),
                  !.start = @ + w, !.remain = @ - w, !.skip = 0]
      BY DEF ReadChunk
    <2>3. w = PageSize * c /\ PageCount(w) = c
      BY <1>9, <2>1
    <2> HIDE DEF w
    <2>4. QED
      BY <1>7, <2>2, <2>3, ZenonT(40)
  <1>11. rd.count + c <= ImagePages(desc)
    BY <1>2, <1>3, <1>4, <1>8
  <1>12. \A p \in f .. f + c - 1 :
           p \in GoodPages(desc) /\ flash[p] = rd.count + (p - f)
                                 /\ Rank(p) = rd.count + (p - f)
    BY <1>1, <1>7, <1>8, <1>11, ChunkHolds
  <1>13. got = f .. f + c - 1
    <2>1. \A p \in f .. f + c - 1 : p \in Pages
      BY <1>12 DEF GoodPages
    <2>2. \A p \in Pages : p \in Nat
      BY PagesAre
    <2>3. QED
      BY <2>1, <2>2
  <1>14. more = {<<k, k>> : k \in rd.count .. rd.count + c - 1}
    <2> HIDE DEF got
    <2>1. \A p \in got : /\ flash[p] = rd.count + (p - f)
                         /\ rd.count + (p - f) \in rd.count .. rd.count + c - 1
      <3> TAKE p \in got
      <3>1. p \in f .. f + c - 1
        BY <1>13
      <3>2. rd.count + (p - f) \in rd.count .. rd.count + c - 1
        BY <1>2, <3>1
      <3>3. QED
        BY <1>12, <3>1, <3>2
    <2>2. \A k \in rd.count .. rd.count + c - 1 :
            \E p \in got : rd.count + (p - f) = k /\ flash[p] = k
      <3> TAKE k \in rd.count .. rd.count + c - 1
      <3>1. f + (k - rd.count) \in got
        BY <1>2, <1>13
      <3>2. rd.count + ((f + (k - rd.count)) - f) = k
        BY <1>2
      <3>3. QED
        BY <1>12, <1>13, <3>1, <3>2
    <2>3. QED
      BY <2>1, <2>2
  <1>15. /\ rd'.start = rd.start + PageSize * c /\ rd'.count = rd.count + c
         /\ rd'.remain = rd.remain - PageSize * c /\ rd'.data = rd.data \cup more
    <2> HIDE DEF more
    <2>1. QED
      BY <1>1, <1>10 DEF ReadType
  <1>16. rd'.data = {<<k, k>> : k \in 0 .. rd'.count - 1}
    <2>1. rd.data = {<<k, k>> : k \in 0 .. rd.count - 1}
      BY DEF ReadProgress
    <2>2. \A k : k \in 0 .. (rd.count + c) - 1 <=>
                 k \in 0 .. rd.count - 1 \/ k \in rd.count .. rd.count + c - 1
      BY <1>2
    <2> HIDE DEF more
    <2> DEFINE A == 0 .. rd.count - 1
               B == rd.count .. rd.count + c - 1
               C == 0 .. (rd.count + c) - 1
    <2>3. C = A \cup B
      BY <2>2
    <2> HIDE DEF A, B, C
    <2>4. {<<k, k>> : k \in C} = {<<k, k>> : k \in A} \cup {<<k, k>> : k \in B}
      BY <2>3
    <2>5. QED
      BY <1>14, <1>15, <2>1, <2>4 DEF A, B, C
  <1>17. /\ rd'.start = PageSize * (f + c) /\ FirstPage(rd'.start) = f + c
         /\ rd'.start % PageSize = 0
    <2>1. f \in Nat /\ c \in Nat
      OBVIOUS
    <2>2. rd'.start = PageSize * f + PageSize * c
      BY <1>7, <1>15
    <2>3. QED
      BY <2>1, <2>2, PagesOn
  <1>18. rd'.count = Rank(FirstPage(rd.start))'
    <2>1. f + c \in Nat /\ f <= f + c
      OBVIOUS
    <2>2. Rank(f + c) = Rank(f) + ((f + c) - f)
      BY <1>12, <2>1, RankRun
    <2>3. Rank(f) = rd.count
      BY <1>7 DEF ReadProgress
    <2>4. Rank(f + c)' = rd.count + c
      BY <1>1, <1>2, <2>2, <2>3, RankSame
    <2>5. QED
      BY <1>15, <1>17, <2>4
  <1>19. rd'.remain = PageSize * (ImagePages(desc) - rd'.count)
    <2>1. PICK l \in Nat : l = m - c
      BY <1>8
    <2>2. ImagePages(desc) - rd'.count = l
      BY <1>2, <1>3, <1>4, <1>15, <2>1
    <2>3. PageSize * (l + c) = PageSize * l + PageSize * c
          /\ PageSize * l \in Nat /\ PageSize * c \in Nat
      BY SizesAssumption
    <2>4. l + c = m
      BY <2>1
    <2>5. PageSize * m - PageSize * c = PageSize * l
      BY <2>3, <2>4
    <2>6. QED
      BY <1>4, <1>15, <2>2, <2>5
  <1>20. rd'.start % BlockSize # 0 => BlockOf(rd'.start) \notin bad
    BY <1>1, <1>8, <1>15 DEF ReadAtBad
  <1>21. desc.offo <= rd'.start
    <2>1. desc.offo \in Nat /\ desc.offo <= rd.start
      BY <1>1, DescType DEF ReadProgress
    <2>2. QED
      BY <1>2, <1>9, <1>15, <2>1
  <1>22. desc'.dev = "nnd" /\ ImagePages(desc)' = ImagePages(desc)
    BY <1>1 DEF ReadProgress
  <1>23. QED
    BY <1>1, <1>11, <1>15, <1>16, <1>17, <1>18, <1>19, <1>20, <1>21, <1>22
       DEF ReadProgress
\* Every step keeps where the reader stands.
LEMMA ReadStep == SlotInv /\ [Next]_vars => ReadInv'
  <1> SUFFICES ASSUME SlotInv, [Next]_vars PROVE ReadInv'
    OBVIOUS
  <1>1. TypeOK /\ ReadType /\ ReadInv
    BY DEF SlotInv, IInv, ReadInv
  <1>2. ReadType'
    BY <1>1, ReadTypeStep
  <1>3. ASSUME ~ReadNext
        PROVE  /\ pc' # "end" => rd'.ret = "none"
               /\ pc' \in {"idle", "setup", "loop"} => ret' = "none"
               /\ ~(pc' = "read" /\ pc # "read") /\ (pc' = "read" => UNCHANGED vars)
    <2>1. CASE Begin
      BY <1>1, <2>1 DEF Begin, ReadInv
    <2>2. CASE Setup \/ SkipBad
      BY <1>1, <2>2 DEF Setup, SkipBad, ReadInv
    <2>3. CASE NoMoreGood \/ WriteStep \/ Finish \/ PowerCut
      BY <1>1, <2>3 DEF NoMoreGood, WriteStep, Finish, PowerCut, ReadInv
    <2>4. CASE UNCHANGED vars
      BY <1>1, <2>4 DEF vars, ReadInv
    <2>5. QED
      BY <1>3, <2>1, <2>2, <2>3, <2>4 DEF Next, BurnNext
  <1>4. CASE ~ReadNext
    <2>1. ASSUME pc' = "read", ret' = "ok", ~slotFault'
          PROVE  ReadProgress'
      <3>1. UNCHANGED vars
        BY <1>3, <1>4, <2>1
      <3>2. /\ desc' = desc /\ bad' = bad /\ rd' = rd /\ pc' = pc /\ ret' = ret
            /\ ioerr' = ioerr
        BY <3>1 DEF vars
      <3>3. ReadProgress
        BY <1>1, <2>1, <3>2 DEF ReadInv, slotFault, StartsWell
      <3>4. Rank(FirstPage(rd.start))' = Rank(FirstPage(rd.start))
        BY <3>2, RankSame
      <3>5. QED
        BY <3>2, <3>3, <3>4 DEF ReadProgress
    <2>2. QED
      BY <1>2, <1>3, <1>4, <2>1 DEF ReadInv
  <1>5. CASE ReadNext
    <2>1. /\ desc' = desc /\ bad' = bad /\ ret' = ret /\ ioerr' = ioerr
          /\ pc' \in {"read", "end"} /\ pc \in {"done", "read"}
      BY <1>5 DEF ReadNext, ReadBegin, ReadSkip, ReadChunk, ReadEnd
    <2>2. slotFault' <=> slotFault
      BY <2>1 DEF slotFault, StartsWell
    <2>3. pc' # "end" => rd'.ret = "none"
      <3>1. CASE ReadBegin
        BY <3>1 DEF ReadBegin
      <3>2. CASE ReadSkip \/ ReadEnd
        BY <1>1, <3>2 DEF ReadSkip, ReadEnd, ReadInv, ReadType
      <3>3. CASE ReadChunk
        BY <1>1, <3>3 DEF ReadChunk, ReadInv, ReadType
      <3>4. QED
        BY <1>5, <3>1, <3>2, <3>3 DEF ReadNext
    <2>4. ASSUME pc' = "read", ret = "ok", ~slotFault
          PROVE  ReadProgress'
      <3>1. CASE ReadBegin
        BY <1>2, <2>4, <3>1, ProgressBegin
      <3>2. CASE ReadSkip
        <4>1. ReadProgress
          BY <1>1, <2>4, <3>2 DEF ReadInv, ReadSkip
        <4>2. QED
          BY <2>4, <3>2, <4>1, ProgressSkip
      <3>3. CASE ReadChunk
        <4>1. ReadProgress
          BY <1>1, <2>4, <3>3 DEF ReadInv, ReadChunk
        <4>2. QED
          BY <2>4, <3>3, <4>1, ProgressChunk
      <3>4. QED
        BY <1>5, <2>4, <3>1, <3>2, <3>3 DEF ReadNext, ReadEnd
    <2>5. QED
      BY <1>2, <2>1, <2>2, <2>3, <2>4 DEF ReadInv
  <1>6. QED
    BY <1>4, <1>5

\* Before the burn there is nothing to show.
LEMMA SlotInit == Init => SlotInv
  <1> SUFFICES ASSUME Init PROVE SlotInv
    OBVIOUS
  <1>1. BurnInv
    BY DEF Init, BurnInv, Ended
  <1>2. ReadType
    BY DEF Init, NoRead, ReadType
  <1>3. ReadInv
    BY <1>2 DEF Init, NoRead, ReadInv
  <1>4. QED
    BY <1>1, <1>3, LoopInit DEF SlotInv

\* The burner and the reader count the same good pages: wherever the burn
\* stands the pages behind it hold the image in order, and wherever the
\* reader stands it has read what the burner had written there
\* (burn.c:111-172, nand_base.c:1637-1712).
THEOREM SameWalk == Spec => []SlotInv
  <1>1. SlotInv /\ [Next]_vars => SlotInv'
    BY LoopStep, BurnStep, ReadStep DEF SlotInv
  <1>2. QED
    BY <1>1, SlotInit, PTL DEF Spec

---------------------------------------------------------------------------
(* The refinement.                                                         *)

\* The state of the slot, phase by phase.
Burned    == Ended /\ ret = "ok" /\ ~slotFault
Untouched == \A p \in Pages : flash[p] = Old
Whole     == rd.data = {<<k, k>> : k \in 0 .. ImagePages(desc) - 1}

View ==
  /\ slotBurn = IF pc = "idle" THEN "idle"
                ELSE IF pc \in {"setup", "loop"} THEN "busy"
                ELSE IF ret = "ok" THEN "ok" ELSE "failed"
  /\ slotContent = IF Burned THEN "image" ELSE IF Untouched THEN "old" ELSE "partial"
  /\ slotLoad = IF rd.ret = "none" THEN "none" ELSE IF rd.ret = "error" THEN "error"
                ELSE IF Whole THEN "image" ELSE "other"
  /\ slotFault \in BOOLEAN

\* The refinement mapping says so where the invariant holds.
LEMMA SlotView == SlotInv => View
  <1> SUFFICES ASSUME SlotInv PROVE View
    OBVIOUS
  <1>1. slotBurn = IF pc = "idle" THEN "idle"
                   ELSE IF pc \in {"setup", "loop"} THEN "busy"
                   ELSE IF ret = "ok" THEN "ok" ELSE "failed"
    BY DEF SlotInv, IInv, TypeOK, slotBurn, Ended
  <1>2. slotContent = IF Burned THEN "image" ELSE IF Untouched THEN "old" ELSE "partial"
    <2>1. slotBurn = "ok" <=> Ended /\ ret = "ok"
      BY <1>1 DEF SlotInv, IInv, TypeOK, Ended
    <2>2. Burned => LaidOut(desc)
      BY PlacedLaidOut DEF Burned, SlotInv, BurnInv
    <2>3. QED
      BY <2>1, <2>2 DEF slotContent, Burned, Untouched
  <1>3. slotLoad = IF rd.ret = "none" THEN "none" ELSE IF rd.ret = "error" THEN "error"
                   ELSE IF Whole THEN "image" ELSE "other"
    BY DEF SlotInv, ReadInv, ReadType, slotLoad, Whole
  <1>4. slotFault \in BOOLEAN
    BY DEF slotFault
  <1>5. QED
    BY <1>1, <1>2, <1>3, <1>4 DEF View

\* Nothing is old again once it is not.
LEMMA NeverOldAgain ==
  ASSUME TypeOK, WriteStep, ~(\A p \in Pages : flash[p] = Old)
  PROVE  ~(\A p \in Pages : flash'[p] = Old)
  <1>1. PICK p \in Pages : flash[p] # Old
    OBVIOUS
  <1>2. PICK good \in 0 .. PageCount(StepOf(desc.dev)) : vs_write(good)
    BY DEF WriteStep
  <1>3. SrcPage(desc.dev, offs_i) \in Nat /\ FirstPage(offs_o) \in Nat
    <2>1. fnd_align \in Nat \ {0} /\ offs_i \in Nat /\ offs_o \in Nat
      BY SizesAssumption DEF fnd_align, TypeOK
    <2>2. offs_i \div fnd_align \in Nat /\ offs_i \div PageSize \in Nat
          /\ offs_o \div PageSize \in Nat
      BY <2>1, DivType, SizesAssumption
    <2>3. QED
      BY <2>2 DEF SrcPage, FirstPage
  <1>4. p \in Nat
    BY PagesAre
  <1>5. flash'[p] # Old
    BY <1>1, <1>2, <1>3, <1>4 DEF vs_write, Program, Old, Torn, Erased
  <1>6. QED
    BY <1>5

\* The entry starts the slot, or refuses and leaves it.
LEMMA SlotBegin ==
  ASSUME SlotInv, View, SlotInv', View', Begin
  PROVE  Slot!Next
  <1>1. pc = "idle" /\ rd' = rd /\ desc' = desc /\ ret = "none"
    BY DEF Begin, SlotInv, ReadInv
  <1>2. slotLoad' = slotLoad
    BY <1>1 DEF View, Whole
  <1>3. slotBurn = "idle" /\ ~Burned
    BY <1>1 DEF View, Burned, Ended
  <1>4. CASE desc.same
    <2>1. pc' = "done" /\ ret' = "same" /\ flash' = flash /\ bad' = bad /\ ioerr' = ioerr
      BY <1>4 DEF Begin
    <2>2. slotFault' = slotFault
      BY <1>1, <2>1 DEF slotFault, StartsWell
    <2>3. ~Burned' /\ Untouched' = Untouched
      BY <2>1 DEF Burned, Untouched
    <2>4. slotBurn' = "failed" /\ slotContent' = slotContent
      BY <1>3, <2>1, <2>3 DEF View
    <2>5. Slot!Fail
      BY <1>2, <1>3, <2>2, <2>4 DEF Slot!Fail
    <2>6. QED
      BY <2>5 DEF Slot!Next
  <1>5. CASE ~desc.same
    <2>1. pc' = "setup"
      BY <1>5 DEF Begin
    <2>2. slotBurn' = "busy" /\ ~Burned'
      BY <2>1 DEF View, Burned, Ended
    <2>3. slotContent' \in {"old", "partial"} /\ slotFault' \in BOOLEAN
      BY <2>2 DEF View
    <2>4. Slot!Start
      BY <1>2, <1>3, <2>2, <2>3 DEF Slot!Start
    <2>5. QED
      BY <2>4 DEF Slot!Next
  <1>6. QED
    BY <1>4, <1>5

\* A refusal or a power cut fails the slot with what it holds.
LEMMA SlotFail ==
  ASSUME SlotInv, View, SlotInv', View',
         pc \in {"setup", "loop"}, pc' = "done", ret' # "ok",
         UNCHANGED <<desc, bad, flash, ioerr, rd>>
  PROVE  Slot!Next
  <1>1. slotFault' = slotFault /\ slotLoad' = slotLoad
    BY DEF slotFault, StartsWell, View, Whole
  <1>2. ~Burned /\ ~Burned' /\ Untouched' = Untouched
    BY DEF Burned, Ended, Untouched
  <1>3. slotBurn = "busy" /\ slotBurn' = "failed" /\ slotContent' = slotContent
    BY <1>2 DEF View
  <1>4. Slot!Fail
    BY <1>1, <1>3 DEF Slot!Fail
  <1>5. QED
    BY <1>4 DEF Slot!Next

\* Looking at bad marks and computing sizes is invisible.
LEMMA SlotQuiet ==
  ASSUME SlotInv, View, SlotInv', View',
         pc \in {"setup", "loop"}, pc' \in {"setup", "loop"},
         UNCHANGED <<desc, bad, flash, ioerr, rd>>
  PROVE  UNCHANGED Slot!slot
  <1>1. slotFault' = slotFault /\ slotLoad' = slotLoad
    BY DEF slotFault, StartsWell, View, Whole
  <1>2. ~Burned /\ ~Burned' /\ Untouched' = Untouched
    BY DEF Burned, Ended, Untouched
  <1>3. slotBurn = "busy" /\ slotBurn' = "busy" /\ slotContent' = slotContent
    BY <1>2 DEF View
  <1>4. QED
    BY <1>1, <1>3 DEF Slot!slot

\* A step of data works on the slot.
LEMMA SlotWork ==
  ASSUME SlotInv, View, SlotInv', View', WriteStep
  PROVE  Slot!Next
  <1>1. /\ TypeOK /\ pc = "loop" /\ pc' = "loop" /\ desc' = desc /\ bad' = bad
        /\ rd' = rd
    BY DEF SlotInv, IInv, WriteStep
  <1>2. slotLoad' = slotLoad
    BY <1>1 DEF View, Whole
  <1>3. ~Burned /\ ~Burned'
    BY <1>1 DEF Burned, Ended
  <1>4. slotBurn = "busy" /\ slotBurn' = "busy"
    BY <1>1 DEF View
  <1>5. slotContent' \in {slotContent, "partial"}
    <2>1. ~Untouched => ~Untouched'
      BY <1>1, NeverOldAgain DEF Untouched
    <2>2. QED
      BY <1>3, <2>1 DEF View
  <1>6. slotFault' \in {slotFault, TRUE}
    <2>1. slotFault => slotFault'
      <3>1. ioerr = 0 \/ ioerr' # 0
        <4>1. PICK x \in {0, 1} : ioerr' = ioerr + x
          BY DEF WriteStep
        <4>2. ioerr \in Nat
          BY <1>1, SizesAssumption DEF TypeOK
        <4>3. QED
          BY <4>1, <4>2
      <3>2. QED
        BY <1>1, <3>1 DEF slotFault, StartsWell
    <2>2. QED
      BY <2>1, Zenon DEF View
  <1>7. Slot!Work
    BY <1>2, <1>4, <1>5, <1>6 DEF Slot!Work
  <1>8. QED
    BY <1>7 DEF Slot!Next

\* The return of the burn: without a fault the slot holds the image.
LEMMA SlotSucceed ==
  ASSUME SlotInv, View, SlotInv', View', Finish
  PROVE  Slot!Next
  <1>1. /\ pc = "loop" /\ pc' = "done" /\ ret' = "ok"
        /\ UNCHANGED <<desc, bad, flash, ioerr, rd>>
    BY DEF Finish
  <1>2. slotFault' = slotFault /\ slotLoad' = slotLoad
    BY <1>1 DEF slotFault, StartsWell, View, Whole
  <1>3. ~Burned /\ (Burned' <=> ~slotFault) /\ Untouched' = Untouched
    <2>1. ~Burned /\ Untouched' = Untouched
      BY <1>1 DEF Burned, Ended, Untouched
    <2>2. Burned' <=> ~slotFault'
      BY <1>1 DEF Burned, Ended
    <2>3. QED
      BY <1>2, <2>1, <2>2
  <1>4. slotBurn = "busy" /\ slotBurn' = "ok"
    BY <1>1 DEF View
  <1>5. slotContent' = IF slotFault THEN slotContent ELSE "image"
    BY <1>3 DEF View
  <1>6. Slot!Succeed
    BY <1>2, <1>4, <1>5 DEF Slot!Succeed
  <1>7. QED
    BY <1>6 DEF Slot!Next

\* Reading changes nothing until it ends; a slot that holds the image then
\* gives the image, or an error.
LEMMA SlotRead ==
  ASSUME SlotInv, View, SlotInv', View', ReadNext
  PROVE  [Slot!Next]_(Slot!slot)
  <1>1. /\ pc \in {"done", "read"} /\ pc' \in {"read", "end"} /\ ret' = ret
        /\ UNCHANGED <<desc, bad, flash, ioerr>>
    BY DEF ReadNext, ReadBegin, ReadSkip, ReadChunk, ReadEnd
  <1>2. slotFault' = slotFault
    BY <1>1 DEF slotFault, StartsWell
  <1>3. (Burned' <=> Burned) /\ Untouched' = Untouched
    BY <1>1, <1>2 DEF Burned, Ended, Untouched
  <1>4. /\ slotBurn' = slotBurn /\ slotBurn \in {"ok", "failed"}
        /\ slotContent' = slotContent
    BY <1>1, <1>3 DEF View
  <1>5. rd.ret = "none" /\ slotLoad = "none"
    BY <1>1 DEF SlotInv, ReadInv, View
  <1>6. CASE rd'.ret = "none"
    BY <1>2, <1>4, <1>5, <1>6 DEF View, Slot!slot
  <1>7. CASE rd'.ret = "error"
    <2>1. slotLoad' = "error"
      BY <1>7 DEF View
    <2>2. Slot!Load
      BY <1>2, <1>4, <1>5, <2>1 DEF Slot!Load
    <2>3. QED
      BY <2>2 DEF Slot!Next
  <1>8. CASE rd'.ret = "ok"
    <2>1. pc = "read" /\ rd.remain = 0 /\ rd' = [rd EXCEPT !.ret = "ok"] /\ ReadType
      BY <1>5, <1>8 DEF ReadNext, ReadBegin, ReadSkip, ReadChunk, ReadEnd, SlotInv,
                        ReadInv, ReadType
    <2>2. Burned => Whole'
      <3> SUFFICES ASSUME Burned PROVE Whole'
        OBVIOUS
      <3>1. ReadProgress
        BY <2>1 DEF Burned, SlotInv, ReadInv
      <3>2. ImagePages(desc) \in Nat /\ rd.count \in Nat
        BY <2>1, ImagePagesType DEF SlotInv, IInv, TypeOK, ReadType
      <3>3. PICK l \in Nat : l = ImagePages(desc) - rd.count
        BY <3>1, <3>2 DEF ReadProgress
      <3>4. PageSize * l = 0
        BY <2>1, <3>1, <3>3 DEF ReadProgress
      <3>5. l = 0
        BY <3>4, MulPos, SizesAssumption
      <3>6. rd.count = ImagePages(desc)
        BY <3>2, <3>3, <3>5
      <3>7. rd'.data = rd.data
        BY <2>1 DEF ReadType
      <3>8. QED
        BY <1>1, <3>1, <3>6, <3>7 DEF ReadProgress, Whole
    <2>3. slotLoad' \in {"image", "error"}
                          \cup (IF slotContent = "image" THEN {} ELSE {"other"})
      <3>1. slotContent = "image" => Burned
        BY DEF View
      <3>2. QED
        BY <1>8, <2>2, <3>1 DEF View
    <2>4. Slot!Load
      BY <1>2, <1>4, <1>5, <2>3 DEF Slot!Load
    <2>5. QED
      BY <2>4 DEF Slot!Next
  <1>9. QED
    BY <1>6, <1>7, <1>8 DEF SlotInv, ReadInv, ReadType

\* A step of the burner or of the reader is a step of the slot, or the slot
\* does not notice.
LEMMA SlotStep ==
  ASSUME SlotInv, View, SlotInv', View', [Next]_vars
  PROVE  [Slot!Next]_(Slot!slot)
  <1>1. CASE Setup
    <2>1. /\ pc = "setup" /\ pc' \in {"done", "loop"} /\ (pc' = "done" => ret' # "ok")
          /\ UNCHANGED <<desc, bad, flash, ioerr, rd>>
      BY <1>1 DEF Setup
    <2>2. QED
      BY <2>1, SlotFail, SlotQuiet
  <1>2. CASE SkipBad
    <2>1. /\ pc = "loop" /\ pc' = "loop" /\ UNCHANGED <<desc, bad, flash, ioerr, rd>>
      BY <1>2 DEF SkipBad
    <2>2. QED
      BY <2>1, SlotQuiet
  <1>3. CASE NoMoreGood \/ PowerCut
    <2>1. /\ pc \in {"setup", "loop"} /\ pc' = "done" /\ ret' # "ok"
          /\ UNCHANGED <<desc, bad, flash, ioerr, rd>>
      BY <1>3 DEF NoMoreGood, PowerCut
    <2>2. QED
      BY <2>1, SlotFail
  <1>4. CASE UNCHANGED vars
    <2>1. /\ UNCHANGED <<pc, ret, desc, bad, flash, ioerr, rd>>
      BY <1>4 DEF vars
    <2>2. slotFault' = slotFault
      BY <2>1 DEF slotFault, StartsWell
    <2>3. (Burned' <=> Burned) /\ Untouched' = Untouched /\ Whole' = Whole
      BY <2>1, <2>2 DEF Burned, Ended, Untouched, Whole
    <2>4. QED
      BY <2>1, <2>2, <2>3 DEF View, Slot!slot
  <1>5. QED
    BY <1>1, <1>2, <1>3, <1>4, SlotBegin, SlotWork, SlotSucceed, SlotRead
       DEF Next, BurnNext

\* The burner, page by page over bad blocks, with failing operations and power
\* cuts, and the reader with its own walk over them implement ImageSlot: for
\* every geometry of the chip, every descriptor and every set of bad blocks a
\* burn that returns 0 without a fault has left the image, and the reader
\* returns that image or an error (burn.c:38-176, nand_base.c:1637-1789).
THEOREM SlotImplemented == Spec => ImplementsSlot
  <1>1. Init => Slot!Init
    <2> SUFFICES ASSUME Init PROVE Slot!Init
      OBVIOUS
    <2>1. View
      BY SlotInit, SlotView
    <2>2. pc = "idle" /\ Untouched /\ ~Burned /\ rd.ret = "none"
      BY DEF Init, NoRead, Untouched, Burned, Ended
    <2>3. QED
      BY <2>1, <2>2 DEF View, Slot!Init
  <1>2. SlotInv /\ View /\ SlotInv' /\ View' /\ [Next]_vars
          => [Slot!Next]_(Slot!slot)
    BY SlotStep
  <1>3. QED
    BY <1>1, <1>2, SameWalk, SlotView, PTL DEF Spec, ImplementsSlot, Slot!Spec
=============================================================================
