---------------------------- MODULE MCRefCount ----------------------------
(* Instances of RefCount for model checking. *)
EXTENDS RefCount, TLC

CONSTANTS p1, p2, p3

SomeBlocks == 1 .. Count
SomeLocals == {p1, p2, p3}
Symmetry == Permutations(Locals)
=============================================================================
