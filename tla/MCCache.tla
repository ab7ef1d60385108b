------------------------------ MODULE MCCache ------------------------------
(* Instances of Cache for model checking. *)
EXTENDS Cache, TLC

CONSTANTS k1, k2, k3, k4, k5, v1

FiveKeys == {k1, k2, k3, k4, k5}
ThreeKeys == {k1, k2, k3}
OneValue == {v1}
(* 1 and 2 are neighbours; 4 wraps round to slot 0. *)
SomeHashes == {1, 2, 4}
Symmetry == Permutations(Keys)
=============================================================================
