---------------------------- MODULE MCHashTable ----------------------------
(* Instances of HashTable for model checking. *)
EXTENDS HashTable, TLC

CONSTANTS k1, k2, k3, k4, v1, v2

FourKeys == {k1, k2, k3, k4}
TwoValues == {v1, v2}

(* Hash 0 is remapped to 1; 3 and 7 collide in the last of 4 slots and not  *)
(* in 8.                                                                    *)
SomeHashes == {0, 3, 7}
Symmetry == Permutations(Keys) \cup Permutations(Values)
=============================================================================
