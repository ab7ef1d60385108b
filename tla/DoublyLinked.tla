---------------------------- MODULE DoublyLinked ----------------------------
(***************************************************************************)
(* src/include/a3/ll.h: the doubly-linked list.  A node's prev points at   *)
(* the place that points at the node.  The list ends in a node of its own, *)
(* End, which is how insertion and removal can do without the list; it     *)
(* begins with its head, which the code lays out as the link of a node     *)
(* whose prev, dummy_, is NULL.                                            *)
(***************************************************************************)
EXTENDS Lists

CONSTANT End

ASSUME EndAssumption == End \notin Nodes \cup {NULL, HeadField}

VARIABLES
    lnext, lprev,  \* the links of the nodes, of the head and of End
    litems,        \* history: the elements, as the calls promise them
    lloop,         \* a FOR_EACH or FOR_EACH_REV in progress
    lback          \* whether it is FOR_EACH_REV

lvars == <<lnext, lprev, litems, lloop, lback>>

Linked == Nodes \cup {HeadField, End}

LlInit ==
    /\ lnext = [p \in Linked |-> NULL]
    /\ lprev = [p \in Linked |-> IF p = End THEN HeadField ELSE NULL]
    /\ litems = <<>>
    /\ lloop = NoLoop
    /\ lback = FALSE

LlOutside == Nodes \ ToSet(litems)

-----------------------------------------------------------------------------
(* Reading. *)

(* A head of NULL, or one that points at the end node. *)
LlIsEmpty == lnext[HeadField] \in {NULL, End}

LlHead == IF LlIsEmpty THEN NULL ELSE lnext[HeadField]
LlEnd == IF LlIsEmpty THEN NULL ELSE lprev[End]

LlIsLast(n) == lnext[lnext[n]] = NULL
LlIsFirst(n) == lprev[lprev[n]] = NULL

LlNextOf(n) == IF lnext[n] # NULL /\ ~LlIsLast(n) THEN lnext[n] ELSE NULL

LlPrevOf(n) == IF LlIsFirst(n) THEN NULL ELSE lprev[n]

-----------------------------------------------------------------------------
(* The operations. *)

LlInsertAfter(e, n) ==
    /\ e \in ToSet(litems) /\ n \in LlOutside
    /\ lnext' = [lnext EXCEPT ![n] = lnext[e], ![e] = n]
    /\ lprev' = [lprev EXCEPT ![n] = e, ![lnext[e]] = n]
    /\ litems' = PutAfter(litems, e, n)
    /\ UNCHANGED <<lloop, lback>>

LlInsertBefore(e, n) ==
    /\ e \in ToSet(litems) /\ n \in LlOutside
    /\ lnext' = [lnext EXCEPT ![n] = e, ![lprev[e]] = n]
    /\ lprev' = [lprev EXCEPT ![n] = lprev[e], ![e] = n]
    /\ litems' = PutBefore(litems, e, n)
    /\ UNCHANGED <<lloop, lback>>

Leaves(n) ==
    /\ litems' = TakenOut(litems, n)
    /\ lloop' = Left(lloop, n)
    /\ UNCHANGED lback

LlRemove(n) ==
    /\ MayLeave(litems, lloop, n)
    /\ lprev' = [lprev EXCEPT ![lnext[n]] = lprev[n]]
    /\ lnext' = [lnext EXCEPT ![lprev[n]] = lnext[n]]
    /\ Leaves(n)

(* The link of n gets next; n becomes the head and what was the head, or    *)
(* the end node, comes after it.                                            *)
LlPush(n) ==
    LET second == IF LlIsEmpty THEN End ELSE LlHead
    IN  /\ n \in LlOutside
        /\ lprev' = [lprev EXCEPT ![second] = n, ![n] = HeadField]
        /\ lnext' = [lnext EXCEPT ![n] = second, ![HeadField] = n]
        /\ litems' = <<n>> \o litems
        /\ UNCHANGED <<lloop, lback>>

LlEnqueue(n) ==
    /\ n \in LlOutside
    /\ lnext' = [lnext EXCEPT ![n] = End, ![lprev[End]] = n]
    /\ lprev' = [lprev EXCEPT ![n] = lprev[End], ![End] = n]
    /\ litems' = Append(litems, n)
    /\ UNCHANGED <<lloop, lback>>

(* Mutant: popping the last element leaves the end node pointing at it. *)
LlPop_KeepsEnd ==
    /\ litems # <<>> /\ MayLeave(litems, lloop, LlHead)
    /\ LET second == LlNextOf(LlHead)
       IN  /\ lnext' = [lnext EXCEPT ![HeadField] = second]
           /\ lprev' = IF second = NULL THEN lprev ELSE [lprev EXCEPT ![second] = HeadField]
    /\ Leaves(LlHead)

(* Popping the last element leaves a head of NULL. *)
LlPop ==
    /\ litems # <<>> /\ MayLeave(litems, lloop, LlHead)
    /\ LET second == LlNextOf(LlHead)
       IN  /\ lnext' = [lnext EXCEPT ![HeadField] = second]
           /\ lprev' = [lprev EXCEPT ![IF second = NULL THEN End ELSE second] = HeadField]
    /\ Leaves(LlHead)

Ahead(back, n) == IF back THEN LlPrevOf(n) ELSE LlNextOf(n)

(* A loop begins, an earlier one having ended or been left. *)
LlForEach(back) ==
    /\ litems # <<>>
    /\ LET first == IF back THEN LlEnd ELSE LlHead
       IN  lloop' = [at |-> first, next |-> Ahead(back, first), due |-> ToSet(litems) \ {first}]
    /\ lback' = back
    /\ UNCHANGED <<lnext, lprev, litems>>

LlLoopOn ==
    /\ lloop.at # NULL
    /\ LET n == lloop.next
       IN  lloop' = [at |-> n, next |-> IF n = NULL THEN NULL ELSE Ahead(lback, n), due |-> lloop.due \ {n}]
    /\ UNCHANGED <<lnext, lprev, litems, lback>>

(* The owner of a node outside the list overwrites its links. *)
LlReuse(n) ==
    /\ n \in LlOutside
    /\ lnext' = [lnext EXCEPT ![n] = n]
    /\ lprev' = [lprev EXCEPT ![n] = n]
    /\ UNCHANGED <<litems, lloop, lback>>

LlStep ==
    \/ \E n \in Nodes :
          \/ LlPush(n) \/ LlRemove(n) \/ LlEnqueue(n) \/ LlReuse(n)
          \/ \E e \in Nodes : LlInsertAfter(e, n) \/ LlInsertBefore(e, n)
    \/ LlPop \/ LlLoopOn
    \/ \E back \in BOOLEAN : LlForEach(back)

LlSpec == LlInit /\ [][LlStep]_lvars

-----------------------------------------------------------------------------
(* Properties. *)

(* The links of ll.h:37-60 and the loop are well typed, and a node is in    *)
(* the list at most once.                                                   *)
LlTypeOK ==
    /\ lnext \in [Linked -> Nodes \cup {End, NULL}]
    /\ lprev \in [Linked -> Nodes \cup {HeadField, NULL}]
    /\ litems \in Seq(Nodes) /\ IsInjective(litems)
    /\ lloop \in Loops /\ lback \in BOOLEAN

(* Each place points at the next element, or the end node, and is pointed   *)
(* back at; only a list that was emptied by POP, or is new, has no link     *)
(* from its head to its end node.                                           *)
LinksAgree ==
    LET path == <<HeadField>> \o litems \o <<End>>
    IN  /\ \A i \in 1 .. Len(path) - 1 :
              /\ lprev[path[i + 1]] = path[i]
              /\ \/ lnext[path[i]] = path[i + 1]
                 \/ litems = <<>> /\ lnext[HeadField] = NULL
        /\ lnext[End] = NULL /\ lprev[HeadField] = NULL

(* HEAD, END, NEXT and PREV (ll.h:80-98) walk the elements in the order the *)
(* calls put them in, both ways, stopping before the end node and the head. *)
ReadsAgree ==
    LET at(i) == IF i \in DOMAIN litems THEN litems[i] ELSE NULL
    IN  /\ LlHead = at(1) /\ LlEnd = at(Len(litems))
        /\ \A i \in DOMAIN litems :
              LlNextOf(litems[i]) = at(i + 1) /\ LlPrevOf(litems[i]) = at(i - 1)

(* After any sequence of calls of ll.h:101-173 the list is the sequence     *)
(* they promise, whether one looks at the links or reads through the        *)
(* macros.                                                                  *)
LlIsSequence == LinksAgree /\ ReadsAgree

(* FOR_EACH and FOR_EACH_REV (ll.h:179-189) give every element that stays   *)
(* in the list its turn, though their body removes and inserts.             *)
LlLoopMissesNothing ==
    \A n \in lloop.due :
        /\ lloop.next \in ToSet(litems)
        /\ LET there == Position(litems, n)
               reached == Position(litems, lloop.next)
           IN  IF lback THEN there <= reached ELSE reached <= there
=============================================================================
