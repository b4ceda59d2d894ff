---------------------------- MODULE NandBurnSlot ----------------------------
(* burn_image_loop and nnd_vs_read, page by page, implement the slot of     *)
(* ImageSlot.                                                               *)
EXTENDS NandBurn

Ended == pc \in {"done", "read", "end"}

\* The range of the image lies on the chip.
InChip(d) == d.offo + d.max <= NBlocks * BlockSize

slotFault ==
  ~(ioerr = 0 /\ Fits(desc) /\ StartsWell(desc) /\ InChip(desc)
    /\ desc.dev # "fnd")

slotBurn ==
  CASE pc = "idle" -> "idle"
    [] pc \in {"setup", "loop"} -> "busy"
    [] Ended -> IF ret = "ok" THEN "ok" ELSE "failed"

slotContent ==
  IF slotBurn = "ok" /\ ~slotFault /\ LaidOut(desc) THEN "image"
  ELSE IF \A p \in Pages : flash[p] = Old THEN "old"
  ELSE "partial"

slotLoad ==
  CASE rd.ret = "none" -> "none"
    [] rd.ret = "error" -> "error"
    [] rd.ret = "ok" ->
         IF rd.data = {<<k, k>> : k \in 0 .. ImagePages(desc) - 1} THEN "image"
         ELSE "other"

Slot == INSTANCE ImageSlot
          WITH content <- slotContent, burn <- slotBurn, load <- slotLoad,
               fault <- slotFault

\* The burner and the reader together keep the promise of ImageSlot: erasing,
\* skipping, failing, power cuts and the second walk over the bad blocks are
\* steps of the slot or invisible (burn.c:38-176, nand_base.c:1637-1789).
ImplementsSlot == Slot!Spec
=============================================================================
