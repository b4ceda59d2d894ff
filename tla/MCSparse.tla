------------------------------ MODULE MCSparse ------------------------------
(* Images of up to three chunks: raw chunks of less and of more than the     *)
(* copy buffer, fills, skips and checksums, images that are refused, chunks  *)
(* of a wrong size at every place, and one with chunk headers across the     *)
(* ends of three steps.                                                      *)
EXTENDS Sparse, FiniteSetsExt

C(t, n) == [type |-> t, blks |-> n, bogus |-> FALSE]
Wrong(t, n) == [C(t, n) EXCEPT !.bogus = TRUE]
Kinds == {C("raw", 1), C("raw", 9), C("fill", 3), C("skip", 2), C("crc", 0)}

Sizeless == {Wrong("raw", 1), Wrong("fill", 1), Wrong("skip", 1),
             Wrong("crc", 0), Wrong("unknown", 0)}

\* What total_sz says lies behind the header: a checksum without a value, or
\* more than the decoder takes.
Carried(im, j) ==
  LET c == im.chunks[j] IN
  IF ~c.bogus THEN Payload(im, c)
  ELSE IF c.type = "crc" /\ j < Len(im.chunks) THEN 0
  ELSE Payload(im, c) + 5

Image(b, cs) ==
  LET im == [valid |-> TRUE, blk |-> b, chunks |-> cs]
      before(k) == 1 .. k - 1
  IN  [valid |-> TRUE, blk |-> b, chunks |-> cs,
       pos |-> [k \in 1 .. Len(cs) + 1 |->
                 HeaderLen + MapThenSumSet(LAMBDA j : ChunkLen + Carried(im, j), before(k))],
       out |-> [k \in 1 .. Len(cs) + 1 |->
                 MapThenSumSet(LAMBDA j : OutLen(im, cs[j]), before(k))]]

\* Its last header is cut where the third step behind the first buffer ends.
Split ==
  LET skips(n) == [k \in 1 .. n |-> C("skip", 1)]
      group == <<C("crc", 0), C("crc", 0)>> \o skips(2)
  IN  Image(4, skips(25) \o group \o group \o skips(1))

MCImages ==
  {Image(8, <<a, b, c>>) : a, b, c \in Kinds}
    \cup {Image(4, <<a>>) : a \in Kinds}
    \cup {[Image(4, <<C("raw", 1)>>) EXCEPT !.valid = FALSE],
          Image(4, <<C("raw", 2), C("unknown", 0), C("fill", 1)>>),
          Split}
    \cup {Image(4, <<C("raw", 2), w, C("fill", 1)>>) : w \in Sizeless}
    \cup {Image(8, <<C("raw", 1), C("fill", 3), w>>) : w \in Sizeless}
    \cup {Image(4, <<w, v>>) : w, v \in Sizeless}
=============================================================================
