---------------------------- MODULE MCCollections ----------------------------
(* One run for the lists, the vector, and the loops over a hash table.  The *)
(* client chooses one and stays with it; the others remain as they began.   *)
EXTENDS Containers, HashTableEach, TLC

CONSTANTS n1, n2, n3, n4, v1

(* The nodes of the lists, the elements of the vector, the table's keys. *)
SomeNodes == {n1, n2, n3, n4}
Symmetry == Permutations(SomeNodes)

SomeCaps == {0, 2}
SomeReserves == {0, 1, 3}

(* Homes 0, 2 and 3 of 4 slots: runs that go round the end of the table. *)
OneValue == {v1}
SomeHashes == {4, 2, 3}

-----------------------------------------------------------------------------
(* A table nobody uses is one of many that are alike. *)
UnusedTable ==
    /\ canGrow = FALSE
    /\ raw = [k \in Keys |-> CHOOSE h \in RawHashes : TRUE]

AllInit ==
    /\ SllInit /\ LlInit /\ VecInit /\ EachInit
    /\ kind \in {"sll", "ll", "vec", "table"}
    /\ kind # "table" => UnusedTable

AllNext ==
    \/ SeqNext /\ UNCHANGED evars
    \/ kind = "table" /\ EachNext /\ UNCHANGED <<svars, lvars, vvars, kind>>

AllSpec == AllInit /\ [][AllNext]_<<svars, lvars, vvars, evars, kind>>
=============================================================================
