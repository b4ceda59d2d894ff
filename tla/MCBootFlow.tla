----------------------------- MODULE MCBootFlow -----------------------------
(* Instances of BootFlow: boards that differ in one item from a board that  *)
(* charges, has a battery and boots from NAND, and update cards with one    *)
(* kind of file, or two.                                                    *)
EXTENDS BootFlow

Board == [factory |-> FALSE, enable |-> TRUE, pwron |-> FALSE, pmu |-> "other",
          mmc1boot |-> FALSE, disk |-> TRUE]

MCFileSets == {{}, {"early"}, {"ramdisk"}, {"uimage"}, {"recovery-rd", "ramdisk"},
               {"late"}, {"pcbtest"}}

\* For the run over three starts.
FewFileSets == {{"uimage"}, {"pcbtest"}}
FewConfigs == {[Board EXCEPT !.factory = TRUE], [Board EXCEPT !.enable = FALSE],
               [Board EXCEPT !.pmu = "axp202"]}
\* For the runs over faulty images and cards.
OneConfig == {Board, [Board EXCEPT !.disk = FALSE], [Board EXCEPT !.mmc1boot = TRUE]}
=============================================================================
