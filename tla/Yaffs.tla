-------------------------------- MODULE Yaffs --------------------------------
(***************************************************************************)
(* Burning a yaffs image to NAND: pages of 2 KB with 16 bytes of tags are  *)
(* put together to pages of the NAND (infotm/strategy/burn/yaffs_conv.c)   *)
(* and written over the bad blocks (infotm/strategy/burn/yaffs.c).         *)
(*                                                                         *)
(* The converter reads each page into its buffer where it belongs in the   *)
(* page being put together: the tags of a page lie where the next page     *)
(* goes.  `mem` is that buffer in cells of an input page; a cell holds the *)
(* data of a page or, at its start, tags.  `bk` is the place behind the    *)
(* output page where the tags of the first page of a group are kept.       *)
(***************************************************************************)
EXTENDS Integers, Sequences, FiniteSets

CONSTANTS
  Full,            \* bytes of a full input page
  Iodivs,          \* pages of 2 KB in a page of the NAND, for the NANDs looked at
  Images,          \* images: sequences of objects, [chunks, last]
  PartBlocks,      \* blocks of the partition
  PagesPerBlock,
  PageSize, SysInfo, \* bytes of a NAND page and of its spare area
  MaxBad           \* bound: bad blocks

ASSUME YaffsAssumption ==
  /\ Full \in Nat /\ Iodivs \subseteq Nat \ {0}
  /\ Images \subseteq Seq([chunks : Nat, last : Nat])
  /\ PartBlocks \in Nat \ {0} /\ PagesPerBlock \in Nat \ {0}
  /\ PageSize \in Nat \ {0} /\ SysInfo \in Nat /\ MaxBad \in Nat

Blocks == 0 .. PartBlocks - 1
Pages  == 0 .. PartBlocks * PagesPerBlock - 1
BlockOf(p) == p \div PagesPerBlock

VARIABLES
  iodiv, img, bad,
  pc,
  n,           \* input pages read
  mem, bk,     \* the buffer
  sub, bytes,  \* pages and bytes of the group being put together
  yaffs_offs, yaffs_part,
  flash,
  put          \* history: the pages given to yaffs_put_page

buffer == <<mem, bk, sub, bytes>>
out  == <<yaffs_offs, yaffs_part, flash, put>>
vars == <<iodiv, img, bad, pc, n, buffer, out>>

Old    == "old"
Erased == "erased"
Torn   == "torn"

---------------------------------------------------------------------------
(* The image: every object is a header and its data chunks, numbered from  *)
(* 1, of which only the last may be short.                                 *)

\* The sum of f[1] .. f[k], as the number of units counted there.
Units(f, k) == UNION {{j} \X (1 .. f[j]) : j \in 1 .. k}
SumTo(f, k) == Cardinality(Units(f, k))

\* The pages of the image i before its object o.
InPos(i, o) == SumTo([j \in 1 .. Len(i) |-> 1 + i[j].chunks], o - 1)
InLen == InPos(img, Len(img) + 1)

Tags(o, id, b) == [obj |-> o, chunkId |-> id, byteCount |-> b]

\* Page id of object o: its header or a chunk.
Chunk(i, o, id) ==
  Tags(o, id, IF id = 0 THEN 0 ELSE IF id = i[o].chunks THEN i[o].last ELSE Full)

\* Page k of the image, as its tags.
Page(i, k) ==
  LET o == CHOOSE j \in 1 .. Len(i) : InPos(i, j) < k /\ k <= InPos(i, j + 1)
  IN  Chunk(i, o, k - InPos(i, o) - 1)

Input(k) == Page(img, k)

Data(t) == <<"data", t>>
Spare(t) == <<"tags", t>>
Nothing == <<"nothing", Tags(0, 0, 0)>>

---------------------------------------------------------------------------
(* yaffs_put_page.                                                         *)

IsBad(offs) == BlockOf(offs) \in bad

MaySkip(part) == part > PagesPerBlock

\* Mutant: only the first block is looked at.
AtBoundary_First(offs) == offs = 0

AtBoundary(offs) == offs % PagesPerBlock = 0

\* The blocks skipped at a block boundary: over bad ones while there is more
\* than a block left.
Skips(offs, part) ==
  IF ~AtBoundary(offs) THEN 0
  ELSE CHOOSE k \in 0 .. PartBlocks :
         /\ \A j \in 0 .. k - 1 : IsBad(offs + j * PagesPerBlock)
                                  /\ MaySkip(part - j * PagesPerBlock)
         /\ ~(IsBad(offs + k * PagesPerBlock) /\ MaySkip(part - k * PagesPerBlock))

Program(f, p, page) ==
  [q \in Pages |-> IF q # p THEN f[q] ELSE IF f[p] = Erased THEN page ELSE Torn]

\* A page without room or without a good block is dropped.  Its caller does
\* not look at the result.
yaffs_put_page(st, page) ==
  LET s == Skips(st.offs, st.part)
      offs == st.offs + s * PagesPerBlock
      part == st.part - s * PagesPerBlock
      called == Append(st.put, page)
  IN  IF st.part <= 0 THEN [st EXCEPT !.put = called]
      ELSE IF AtBoundary(offs) /\ IsBad(offs)
        THEN [st EXCEPT !.offs = offs, !.part = part, !.put = called]
      ELSE [offs |-> offs + 1, part |-> part - 1, put |-> called,
            flash |-> Program(st.flash, offs, page)]

Out == [offs |-> yaffs_offs, part |-> yaffs_part, flash |-> flash, put |-> put]
Became(st) ==
  /\ yaffs_offs' = st.offs /\ yaffs_part' = st.part
  /\ flash' = st.flash /\ put' = st.put

\* The output page that starts at cell a.
PageAt(m, a) == [main |-> [k \in 0 .. iodiv - 1 |-> m[a + k]], tags |-> m[a + iodiv]]

---------------------------------------------------------------------------
(* yaffs_conv.                                                             *)

\* fnd_vs_erase divides by the size with spare bytes, in whole blocks.
ErasedBlocks ==
  LET bytesize == PartBlocks * PagesPerBlock * PageSize
      b == (((bytesize \div (PageSize + SysInfo)) * PageSize)
              + PagesPerBlock * PageSize - 1) \div (PagesPerBlock * PageSize)
  IN  0 .. b - 1

yaffs_burn ==
  /\ pc = "start" /\ pc' = "conv"
  /\ flash' = [p \in Pages |-> IF BlockOf(p) \in ErasedBlocks \ bad THEN Erased ELSE Old]
  /\ UNCHANGED <<iodiv, img, bad, n, buffer, yaffs_offs, yaffs_part, put>>

\* get_page into cell `sub`.
Loaded == [mem EXCEPT ![sub] = Data(Input(n + 1)), ![sub + 1] = Spare(Input(n + 1))]

GetPage == pc = "conv" /\ n < InLen /\ n' = n + 1

\* A NAND with pages of the same size.
Direct ==
  /\ GetPage /\ iodiv = 1
  /\ mem' = Loaded
  /\ Became(yaffs_put_page(Out, PageAt(Loaded, 0)))
  /\ UNCHANGED <<iodiv, img, bad, pc, bk, sub, bytes>>

\* The number of a group from the number of one of its chunks.
GroupId(id) == ((id - 1) \div iodiv) + 1

Grouped(cell, b) ==
  Spare(Tags(cell[2].obj, GroupId(cell[2].chunkId), b))

\* Mutant: the tags of the group go to their place before those of the
\* header are moved away.
FitBoth_Swapped(m, p, first) ==
  LET m1 == [m EXCEPT ![iodiv] = first] IN [m1 EXCEPT ![p + iodiv] = m1[p + 1]]

\* page_fit with two pages: the tags of the second, which may lie where the
\* tags of the first belong, are moved before.
FitBoth(m, p, first) ==
  LET m1 == [m EXCEPT ![p + iodiv] = m[p + 1]] IN [m1 EXCEPT ![iodiv] = first]

\* A header: the group before it is put first.
HeaderPage ==
  /\ GetPage /\ iodiv > 1 /\ Input(n + 1).chunkId = 0
  /\ LET m == IF sub > 0 THEN FitBoth(Loaded, sub, Grouped(bk, bytes))
              ELSE [Loaded EXCEPT ![iodiv] = Loaded[1]]
     IN  /\ mem' = m
         /\ Became(IF sub > 0
                     THEN yaffs_put_page(yaffs_put_page(Out, PageAt(m, 0)), PageAt(m, sub))
                     ELSE yaffs_put_page(Out, PageAt(m, 0)))
  /\ sub' = 0 /\ bytes' = 0
  /\ UNCHANGED <<iodiv, img, bad, pc, bk>>

BytesAfter == IF sub + 1 = iodiv THEN 0 ELSE bytes + Input(n + 1).byteCount

DataPage ==
  /\ GetPage /\ iodiv > 1 /\ Input(n + 1).chunkId # 0
  /\ bk' = IF sub = 0 THEN Loaded[1] ELSE bk
  /\ bytes' = BytesAfter
  /\ IF sub + 1 = iodiv
       THEN LET m == [Loaded EXCEPT ![iodiv] =
                        Grouped(Loaded[iodiv], bytes + Input(n + 1).byteCount)]
            IN  /\ mem' = m /\ sub' = 0
                /\ Became(yaffs_put_page(Out, PageAt(m, 0)))
       ELSE mem' = Loaded /\ sub' = sub + 1 /\ UNCHANGED out
  /\ UNCHANGED <<iodiv, img, bad, pc>>

OpenGroup == sub > 0

\* The end of the image: an open group is put with the tags of its first
\* page as they were.
EndOfImage ==
  /\ pc = "conv" /\ n = InLen
  /\ pc' = "done"
  /\ IF OpenGroup
       THEN LET m == FitBoth(mem, sub, bk)
            IN  mem' = m /\ Became(yaffs_put_page(Out, PageAt(m, 0)))
       ELSE UNCHANGED <<mem, out>>
  /\ UNCHANGED <<iodiv, img, bad, n, bk, sub, bytes>>

---------------------------------------------------------------------------
Init ==
  /\ iodiv \in Iodivs /\ img \in Images
  /\ bad \in {b \in SUBSET Blocks : Cardinality(b) <= MaxBad}
  /\ pc = "start" /\ n = 0
  /\ mem = [c \in 0 .. 2 * iodiv |-> Nothing] /\ bk = Nothing
  /\ sub = 0 /\ bytes = 0
  /\ yaffs_offs = 0 /\ yaffs_part = PartBlocks * PagesPerBlock
  /\ flash = [p \in Pages |-> Old] /\ put = <<>>

Next == yaffs_burn \/ Direct \/ HeaderPage \/ DataPage \/ EndOfImage

Spec == Init /\ [][Next]_vars

---------------------------------------------------------------------------
(* Properties.                                                             *)

\* Type invariant: the group never reaches a whole output page, and the place
\* in the partition never passes its end.
TypeOK ==
  /\ pc \in {"start", "conv", "done"} /\ n \in 0 .. InLen
  /\ DOMAIN mem = 0 .. 2 * iodiv
  /\ sub \in 0 .. iodiv - 1 /\ bytes \in Nat
  /\ yaffs_part \in Nat /\ yaffs_offs + yaffs_part = PartBlocks * PagesPerBlock

\* What the NAND should hold: for each object its header and its data in
\* groups of iodiv chunks; at 1 every chunk stands for itself.
Groups(i, d, o) == (i[o].chunks + d - 1) \div d
OutPos(i, d, o) == SumTo([j \in 1 .. Len(i) |-> 1 + Groups(i, d, j)], o - 1)
ObjOf(i, d, k) ==
  CHOOSE j \in 1 .. Len(i) : OutPos(i, d, j) < k /\ k <= OutPos(i, d, j + 1)

\* The chunks of group g of object o, with d = iodiv to a group.
GroupLen(i, d, o, g) ==
  (IF g * d > i[o].chunks THEN i[o].chunks ELSE g * d) - (g - 1) * d
GroupData(i, d, o, g) ==
  [k \in 1 .. GroupLen(i, d, o, g) |-> Page(i, InPos(i, o) + 1 + (g - 1) * d + k)]
GroupBytes(i, d, o, g) ==
  SumTo([k \in 1 .. GroupLen(i, d, o, g) |-> GroupData(i, d, o, g)[k].byteCount],
        GroupLen(i, d, o, g))

GoodData(page, i, d, k) ==
  LET o == ObjOf(i, d, k)
      g == k - OutPos(i, d, o) - 1
  IN  IF g = 0 THEN page.main[0] = Data(Page(i, InPos(i, o) + 1))
      ELSE \A c \in 1 .. GroupLen(i, d, o, g) :
             page.main[c - 1] = Data(GroupData(i, d, o, g)[c])

GoodTags(page, i, d, k) ==
  LET o == ObjOf(i, d, k)
      g == k - OutPos(i, d, o) - 1
  IN  page.tags = Spare(Tags(o, g, IF g = 0 THEN 0 ELSE GroupBytes(i, d, o, g)))

\* The group put at the end of an image that ends within it: its tags are
\* left as they were read.
Closing(k) == pc = "done" /\ sub > 0 /\ k = Len(put)

\* However headers and data follow each other, every page put together has
\* the data of its object and chunks, in order, under tags with the number
\* of the group and the sum of its bytes (yaffs_conv.c:33-92); of the group
\* left open at the end only the data is right.
Converted ==
  \A k \in 1 .. Len(put) :
    /\ GoodData(put[k], img, iodiv, k)
    /\ ~Closing(k) => GoodTags(put[k], img, iodiv, k)

\* Nothing of the image is left in the buffer at the end.
AllPut == pc = "done" => Len(put) = OutPos(img, iodiv, Len(img) + 1)

\* The conversion as a whole: types, pages and tags, and none left behind.
ConversionInv == TypeOK /\ Converted /\ AllPut

\* The k-th page of the good blocks.
GoodPages == {p \in Pages : BlockOf(p) \notin bad}
IsNth(p, k) == p \in GoodPages /\ Cardinality({q \in GoodPages : q <= p}) = k

\* The pages put lie one after the other in the good blocks of the
\* partition, from its start; what no good block is left for is dropped, and
\* never makes a later page be written (yaffs.c:24-61).  Behind the blocks
\* that were erased a page is torn.
OnFlash ==
  pc # "start" =>
    \A p \in Pages :
      LET k == CHOOSE j \in 0 .. Cardinality(Pages) :
                 IF p \in GoodPages THEN IsNth(p, j) ELSE j = 0
      IN  flash[p] = IF BlockOf(p) \in bad THEN Old
                     ELSE IF k > Len(put)
                       THEN (IF BlockOf(p) \in ErasedBlocks THEN Erased ELSE Old)
                     ELSE IF BlockOf(p) \in ErasedBlocks THEN put[k] ELSE Torn
=============================================================================
