----------------------------- MODULE Containers -----------------------------
(* The two lists and the vector.  The client chooses one of them and stays  *)
(* with it.                                                                 *)
EXTENDS SinglyLinked, DoublyLinked, Vec

VARIABLE kind

SeqInit == SllInit /\ LlInit /\ VecInit /\ kind \in {"sll", "ll", "vec"}

SeqNext ==
    /\ \/ kind = "sll" /\ SllNext /\ UNCHANGED <<lvars, vvars>>
       \/ kind = "ll" /\ LlStep /\ UNCHANGED <<svars, vvars>>
       \/ kind = "vec" /\ VecNext /\ UNCHANGED <<svars, lvars>>
    /\ UNCHANGED kind

SeqSpec == SeqInit /\ [][SeqNext]_<<svars, lvars, vvars, kind>>

(* The types of the three containers' states. *)
TypesOK == SllTypeOK /\ LlTypeOK /\ VecTypeOK

(* The loops of both lists miss nothing (sll.h, ll.h: FOR_EACH). *)
LoopsMissNothing == SllLoopMissesNothing /\ LlLoopMissesNothing
=============================================================================
