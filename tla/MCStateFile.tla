---------------------------- MODULE MCStateFile ----------------------------
(* Small instances of StateFile for TLC: the empty map takes one block, one *)
(* instance two and two instances three.                                    *)
EXTENDS StateFile

MapSet == {"m0", "m1", "m2"}
Sizes == [m \in MapSet |-> IF m = "m0" THEN 1 ELSE IF m = "m1" THEN 2 ELSE 3]
=============================================================================
