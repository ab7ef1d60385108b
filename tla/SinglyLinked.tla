---------------------------- MODULE SinglyLinked ----------------------------
(***************************************************************************)
(* src/include/a3/sll.h: the singly-linked list, also used as a queue.     *)
(* end points at the place of the last link, or lags behind it.            *)
(*                                                                         *)
(* A node outside the list belongs to its owner, who may free it or put it *)
(* elsewhere.  POP and REMOVE may leave end at a node they have taken out, *)
(* and sll.h does not tell its owner to wait until end has moved on: then  *)
(* end leads astray.                                                       *)
(***************************************************************************)
EXTENDS Lists

VARIABLES
    snext,   \* the links: next of every node, head of the list
    send,    \* end: the place it points at
    sitems,  \* history: the elements, as the calls promise them, without the lost
    astray,  \* history: a node that end led through was reused, and end not set since
    sloop    \* a FOR_EACH in progress

svars == <<snext, send, sitems, astray, sloop>>

Places == Nodes \cup {HeadField}

(* Mutant: end is left unset. *)
SllInit_NoEnd ==
    /\ snext = [p \in Places |-> NULL]
    /\ send = NULL
    /\ sitems = <<>>
    /\ astray = FALSE
    /\ sloop = NoLoop

SllInit ==
    /\ snext = [p \in Places |-> NULL]
    /\ send = HeadField
    /\ sitems = <<>>
    /\ astray = FALSE
    /\ sloop = NoLoop

Outside == Nodes \ ToSet(sitems)

-----------------------------------------------------------------------------
(* The operations. *)

SllPush(n) ==
    /\ n \in Outside
    /\ snext' = [snext EXCEPT ![n] = snext[HeadField], ![HeadField] = n]
    /\ send' = IF snext[HeadField] = NULL THEN n ELSE send
    /\ sitems' = <<n>> \o sitems
    /\ astray' = (astray /\ snext[HeadField] # NULL)
    /\ UNCHANGED sloop

(* Removing n, the element that place p points at.  Popping is removing at  *)
(* the head.                                                                *)
Unlink(p, n) ==
    /\ MayLeave(sitems, sloop, n)
    /\ snext[p] = n
    /\ snext' = [snext EXCEPT ![p] = snext[n]]
    /\ send' = IF snext[n] = NULL THEN p ELSE send
    /\ sitems' = TakenOut(sitems, n)
    /\ astray' = (astray /\ snext[n] # NULL)
    /\ sloop' = Left(sloop, n)

SllPop == \E n \in Nodes : Unlink(HeadField, n)

(* Mutant: end stays at the removed element. *)
SllRemove_KeepsEnd(n) ==
    \E p \in {HeadField} \cup ToSet(Chain(snext, HeadField)) :
        /\ MayLeave(sitems, sloop, n)
        /\ snext[p] = n
        /\ snext' = [snext EXCEPT ![p] = snext[n]]
        /\ sitems' = TakenOut(sitems, n)
        /\ astray' = (astray /\ snext[n] # NULL)
        /\ sloop' = Left(sloop, n)
        /\ UNCHANGED send

(* The place that points at n is searched along the list. *)
SllRemove(n) == \E p \in {HeadField} \cup ToSet(Chain(snext, HeadField)) : Unlink(p, n)

(* INSERT_AFTER does not know the list and leaves end alone. *)
SllInsertAfter(e, n) ==
    /\ e \in ToSet(sitems) /\ n \in Outside
    /\ snext' = [snext EXCEPT ![n] = snext[e], ![e] = n]
    /\ sitems' = PutAfter(sitems, e, n)
    /\ UNCHANGED <<send, astray, sloop>>

(* Where FIXUP stops, if it does: the links of nodes put to other uses may *)
(* lead it round for ever.                                                 *)
FixedUp == LastPlace(snext, send)
FixupStops == snext[FixedUp] = NULL

SllFixup ==
    /\ FixupStops
    /\ send' = FixedUp
    /\ UNCHANGED <<snext, sitems, astray, sloop>>

(* FIXUP, then the link of n is cleared, then n is linked where end points. *)
(* If end has gone astray that may be elsewhere than behind the last        *)
(* element: n is then lost, and end stays with it.                          *)
SllEnqueue(n) ==
    /\ n \in Outside
    /\ FixupStops
    /\ snext' = [snext EXCEPT ![n] = NULL, ![FixedUp] = n]
    /\ send' = n
    /\ LET appended == FixedUp = LastPlace(snext, HeadField)
       IN  /\ sitems' = IF appended THEN Append(sitems, n) ELSE sitems
           /\ astray' = ~appended
    /\ UNCHANGED sloop

(* A loop begins, an earlier one having ended or been left. *)
SllForEach ==
    /\ sitems # <<>>
    /\ LET first == snext[HeadField]
       IN  sloop' = [at |-> first, next |-> snext[first], due |-> ToSet(sitems) \ {first}]
    /\ UNCHANGED <<snext, send, sitems, astray>>

(* Mutant: the next element is read after the body has run. *)
SllLoopOn_ReadsLate ==
    /\ sloop.at # NULL
    /\ LET n == snext[sloop.at]
       IN  sloop' = [at |-> n, next |-> IF n = NULL THEN NULL ELSE snext[n], due |-> sloop.due \ {n}]
    /\ UNCHANGED <<snext, send, sitems, astray>>

SllLoopOn ==
    /\ sloop.at # NULL
    /\ LET n == sloop.next
       IN  sloop' = [at |-> n, next |-> IF n = NULL THEN NULL ELSE snext[n], due |-> sloop.due \ {n}]
    /\ UNCHANGED <<snext, send, sitems, astray>>

(* What end leads through. *)
EndPath == {send} \cup ToSet(Chain(snext, send))

(* The owner of a node outside the list uses its link for something else,  *)
(* or frees the node, and its bytes become something else.                 *)
SllReuse(n) ==
    /\ n \in Outside
    /\ \E m \in Outside \cup {NULL} : snext' = [snext EXCEPT ![n] = m]
    /\ astray' = (astray \/ n \in EndPath)
    /\ UNCHANGED <<send, sitems, sloop>>

SllNext ==
    \/ \E n \in Nodes :
          \/ SllPush(n) \/ SllRemove(n) \/ SllEnqueue(n) \/ SllReuse(n)
          \/ \E e \in Nodes : SllInsertAfter(e, n)
    \/ SllPop \/ SllFixup \/ SllForEach \/ SllLoopOn

SllSpec == SllInit /\ [][SllNext]_svars

-----------------------------------------------------------------------------
(* Properties. *)

(* The state of sll.h:26-36 and of the loop is well typed, and a node is in *)
(* the list at most once.                                                   *)
SllTypeOK ==
    /\ snext \in [Places -> Nodes \cup {NULL}]
    /\ send \in Places
    /\ sitems \in Seq(Nodes) /\ IsInjective(sitems)
    /\ astray \in BOOLEAN
    /\ sloop \in Loops

(* Following the links from the head (sll.h:51-62) meets the elements in    *)
(* the order the calls put them in, and then ends: whatever else the owners *)
(* do with the nodes they took out.  And however far end lags behind after  *)
(* INSERT_AFTER, FIXUP (sll.h:119) leads from it to the last link, through  *)
(* elements removed since, while none of those end leads through is reused. *)
SllIsSequence ==
    /\ Chain(snext, HeadField) = sitems
    /\ snext[LastPlace(snext, HeadField)] = NULL
    /\ ~astray => FixedUp = LastPlace(snext, HeadField)

(* "Add an item to the end of the list." (sll.h:127)  After INSERT_AFTER    *)
(* behind the last element and REMOVE of that element, end points into a    *)
(* node that is not in the list: once its owner has put it to other uses,   *)
(* ENQUEUE links its element there, and the list does not have it.          *)
EnqueueAppends ==
    [][\A n \in Nodes : SllEnqueue(n) =>
          Chain(snext', HeadField) = Append(Chain(snext, HeadField), n)]_svars

(* FOR_EACH (sll.h:146) gives every element that stays in the list its      *)
(* turn, though its body removes and inserts: what is due is never behind   *)
(* the element read ahead.                                                  *)
SllLoopMissesNothing ==
    \A n \in sloop.due :
        /\ sloop.next \in ToSet(sitems)
        /\ Position(sitems, sloop.next) <= Position(sitems, n)
=============================================================================
