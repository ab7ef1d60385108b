------------------------------- MODULE MCSpmc -------------------------------
(* An instance of Spmc for model checking: two consumers, whose tickets can *)
(* be of different rounds of one slot.                                      *)
EXTENDS Spmc

CONSTANTS c1, c2, e1, e2

TwoConsumers == {c1, c2}
TwoElems == {e1, e2}
=============================================================================
