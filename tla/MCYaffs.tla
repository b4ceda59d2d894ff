------------------------------ MODULE MCYaffs ------------------------------
(* Images of up to three objects of no data, less than, exactly and more    *)
(* than a page of the NAND.                                                 *)
EXTENDS Yaffs

Objects == {[chunks |-> 0, last |-> 0], [chunks |-> 1, last |-> 1],
            [chunks |-> 2, last |-> 3], [chunks |-> 3, last |-> Full],
            [chunks |-> 4, last |-> Full], [chunks |-> 6, last |-> 2]}
MCImages == {<<a, b>> : a, b \in Objects} \cup {<<a, b, a>> : a, b \in Objects}
=============================================================================
