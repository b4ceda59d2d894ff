----------------------------- MODULE ImageSlot -----------------------------
(***************************************************************************)
(* What burning an image promises to the loader that reads it at a later   *)
(* start, without pages, blocks or bad marks: the place of an image holds  *)
(* what was there before, something in between, or the image.  A burn that *)
(* answers "ok" and met no fault has left the image, and a load then       *)
(* returns that image or an error, never anything else; a load changes     *)
(* nothing.                                                                *)
(***************************************************************************)
VARIABLES
  content,  \* of the slot: "old", "partial", "image"
  burn,     \* "idle", "busy", "ok", "failed"
  load,     \* what a load gave: "none", "image", "other", "error"
  fault     \* the promise is off: a device operation failed, or the caller
            \* asked for what the burner does not support

slot == <<content, burn, load, fault>>

Init ==
  /\ content = "old" /\ burn = "idle" /\ load = "none"
  /\ fault \in BOOLEAN

\* The place is made ready, which may already destroy what it held.
Start ==
  /\ burn = "idle" /\ burn' = "busy"
  /\ content' \in {"old", "partial"}
  /\ fault' \in BOOLEAN
  /\ UNCHANGED load

Work ==
  /\ burn = "busy" /\ UNCHANGED burn
  /\ content' \in {content, "partial"}
  /\ fault' \in {fault, TRUE}
  /\ UNCHANGED load

Succeed ==
  /\ burn = "busy" /\ burn' = "ok"
  /\ content' = IF fault THEN content ELSE "image"
  /\ UNCHANGED <<load, fault>>

\* A refusal, or the power is gone.
Fail ==
  /\ burn \in {"idle", "busy"} /\ burn' = "failed"
  /\ UNCHANGED <<content, load, fault>>

Load ==
  /\ burn \in {"ok", "failed"} /\ load = "none"
  /\ load' \in {"image", "error"} \cup (IF content = "image" THEN {} ELSE {"other"})
  /\ UNCHANGED <<content, burn, fault>>

Next == Start \/ Work \/ Succeed \/ Fail \/ Load

Spec == Init /\ [][Next]_slot
=============================================================================
