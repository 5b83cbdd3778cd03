----------------------------- MODULE MCFatFile -----------------------------
(* FatFile for TLC: two files on a volume of clusters of two bytes: `a'    *)
(* lies in three clusters out of order, its last half used; `b' half of    *)
(* one.  Writes bring the blank volume to every content.                   *)
EXTENDS FatFile, TLC

CONSTANTS a, b

MCHead   == (a :> 4) @@ (b :> 3)
MCLength == (a :> 5) @@ (b :> 1)
MCFat    == (4 :> 2) @@ (2 :> 5) @@ (5 :> Eoc) @@ (3 :> Eoc)
MCImage  == {[c \in Cluster |-> [o \in Within |-> 0]]}
MCOffset == {-3, -1, 0, 1, 4}
=============================================================================
