------------------------- MODULE MCConflictManager -------------------------
(* Small instances of ConflictManager for TLC. *)
EXTENDS ConflictManager

CONSTANTS k1, k2, k3

MCKeys == {k1, k2}
MCShards == {0, 1}
SplitShards == [k \in MCKeys |-> IF k = k1 THEN 0 ELSE 1]

ThreeKeys == {k1, k2, k3}
PairedShards == [k \in ThreeKeys |-> IF k = k3 THEN 1 ELSE 0]
=============================================================================
