--------------------------- MODULE MCDedupeStore ---------------------------
(* TLC instances of DedupeStore.                                           *)
EXTENDS DedupeStore, TLC

CONSTANTS k1, k2, k3, k4

ThreeKeys == {k1, k2, k3}
FourKeys == {k1, k2, k3, k4}

KeySymmetry == Permutations(Key)
=============================================================================
