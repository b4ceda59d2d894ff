---------------------------- MODULE MCPartition ----------------------------
(* Configurations of the partition layout: none, each of the optional        *)
(* partitions named or not, sizes in M and G, sizes that fill the disk and   *)
(* sizes that exceed it.                                                     *)
EXTENDS Partition

M(n) == [n |-> n, unit |-> "M"]
G(n) == [n |-> n, unit |-> "G"]

NoItems == [p \in {name(i) : i \in Fs} |-> Absent]
UserGiven == [NoItems EXCEPT !["userdata"] = M(200)]
LocalFree == [UserGiven EXCEPT !["local"] = M(0)]

MCConfigs ==
  {NoItems, UserGiven, LocalFree,
   [NoItems EXCEPT !["system"] = M(300), !["misc"] = M(40)],
   [UserGiven EXCEPT !["local"] = M(100)],
   [UserGiven EXCEPT !["local"] = M(100), !["add1"] = M(50)],
   [UserGiven EXCEPT !["local"] = M(100), !["add1"] = M(50), !["add2"] = M(30)],
   [LocalFree EXCEPT !["add1"] = M(50)],
   [LocalFree EXCEPT !["add1"] = M(50), !["add2"] = M(30)],
   [LocalFree EXCEPT !["add1"] = M(50), !["add2"] = M(0)],
   [UserGiven EXCEPT !["local"] = G(1)],
   [NoItems EXCEPT !["misc"] = M(5)],
   [NoItems EXCEPT !["system"] = G(2)]}

\* 365 MB and five blocks end inside the first logical table, 520 are too
\* small for some, 580 and 646 leave less than 32 MB for local; an odd number
\* of blocks at the end of the disk.
MCDisks == {365 * Multip + 5, 520 * Multip, 580 * Multip + 7, 646 * Multip,
            700 * Multip, 2000 * Multip + 33}
MCJunk == {0, 77, Word - 100}
=============================================================================
