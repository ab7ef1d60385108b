------------------------------- MODULE Lists -------------------------------
(***************************************************************************)
(* What the two intrusive lists of liba3 share.  A list is made of places  *)
(* that hold links: the next field of each node, and HeadField, the head   *)
(* of the list itself.  A pointer to a link is the place it points at.     *)
(***************************************************************************)
EXTENDS Integers, SequencesExt

CONSTANTS
    Nodes,
    NULL,
    HeadField   \* the place of a list's head

ASSUME NodesAssumption ==
    /\ IsFiniteSet(Nodes)
    /\ NULL \notin Nodes /\ HeadField \notin Nodes /\ HeadField # NULL

(* The nodes met from place p on, in order; cut where a circle closes. *)
Chain(next, p) ==
    LET places == {next[q] : q \in DOMAIN next}
        from[left \in 0 .. Cardinality(Nodes)] ==
            [n \in places |-> IF n \notin Nodes \/ left = 0 THEN <<>> ELSE <<n>> \o from[left - 1][next[n]]]
    IN  from[Cardinality(Nodes)][next[p]]

(* The last place met from p on. *)
LastPlace(next, p) ==
    LET c == Chain(next, p) IN IF c = <<>> THEN p ELSE Last(c)

(* Sequences without repetition, as the lists' users see them. *)
Position(s, n) == CHOOSE i \in DOMAIN s : s[i] = n
PutAfter(s, e, n) == InsertAt(s, Position(s, e) + 1, n)
PutBefore(s, e, n) == InsertAt(s, Position(s, e), n)
TakenOut(s, n) == RemoveAt(s, Position(s, n))

(* A loop over a list has read the element after the one its body works on. *)
(* due is history: the elements that were in the list when it began, are    *)
(* still there and have not had their turn.                                 *)
NoLoop == [at |-> NULL, next |-> NULL, due |-> {}]
Loops == [at : Nodes \cup {NULL}, next : Nodes \cup {NULL}, due : SUBSET Nodes]

(* The body of a loop may remove any element but the one read ahead. *)
MayLeave(s, loop, n) == n \in ToSet(s) /\ loop.next # n
Left(loop, n) == [loop EXCEPT !.due = @ \ {n}]
=============================================================================
