------------------------------ MODULE RefCount ------------------------------
(***************************************************************************)
(* src/include/a3/rc.h and rc.hh: objects that count the Rc pointers at    *)
(* them, allocated from a pool as A3_POOL_ALLOCATED makes them.            *)
(*                                                                         *)
(* A pointer is a local variable of the client or the member of an object; *)
(* each object has one member, and its place is named by the object.  One  *)
(* thread runs; dropping the last pointer at an object drops its member,   *)
(* so a call is a stack of things still to do.                             *)
(***************************************************************************)
EXTENDS Pool

CONSTANTS
    Locals,
    Gone,    \* a pointer outside its lifetime
    Width    \* the counts wrap at Width: 2^32 in the code

ASSUME LocalsAssumption ==
    /\ IsFiniteSet(Locals) /\ Locals \cap Blocks = {}
    /\ Gone \notin Blocks \cup {NULL}
ASSUME WidthAssumption == Width \in Nat /\ Width > Cardinality(Locals) + Count

VARIABLES
    count,  \* _ref_count of each object
    ptr,    \* what each pointer points at
    todo,   \* what the call in progress has still to do, innermost first
    life    \* "live", "aborted" by an assertion, "undefined", or "freed read"

vars == <<pvars, count, ptr, todo, life>>

Pointers == Locals \cup Blocks

RcInit ==
    /\ PoolInit
    /\ count = [b \in Blocks |-> 0]
    /\ ptr = [p \in Pointers |-> Gone]
    /\ todo = <<>>
    /\ life = "live"

Idle == life = "live" /\ plife = "live" /\ todo = <<>>

(* Pointers the client can use: its own, and the members of the objects it  *)
(* gets at through them, which are in every set that has the targets of the *)
(* client's pointers and those of its own members.                          *)
Reachable(x) ==
    /\ ptr[x] # Gone
    /\ \/ x \in Locals
       \/ \A R \in SUBSET Blocks :
             (\A y \in Locals \cup R : ptr[y] \in Blocks => ptr[y] \in R) => x \in R

(* x is the client's, or the member of an object that lasts whatever        *)
(* becomes of p: it is in a set of objects at each of which a pointer of    *)
(* the client's points, or a member of the set, other than p.               *)
Kept(f, x, p) ==
    \/ x \in Locals
    \/ \E K \in SUBSET Blocks :
          x \in K /\ \A b \in K : \E y \in (Locals \cup K) \ {p} : f[y] = b

(* What outlives an assignment to p. *)
Held(x, p) == ptr[x] # Gone /\ Kept(ptr, x, p)

Task(op, of, to, held) == [op |-> op, of |-> of, to |-> to, held |-> held]

(* What is to be done when a pointer at b goes. *)
Unref(b) == IF b \in Blocks THEN <<Task("unref", b, NULL, TRUE)>> ELSE <<>>

Ref(c, b) == IF b \in Blocks THEN [c EXCEPT ![b] = (@ + 1) % Width] ELSE c

(* operator new and delete of a class with A3_POOL_ALLOCATED. *)
OpNew(b) == b = IF Exhausted THEN NULL ELSE plink[FreeHead]
OpDelete(b) == FreeBlock(b)

-----------------------------------------------------------------------------
(* The calls. *)

(* create: a new object, adopted by p, whose constructor copies q to its    *)
(* member, or leaves the member null (q is p then).  If the pool has no     *)
(* block p is null.                                                         *)
Create(p, q) ==
    /\ Idle /\ p \in Locals /\ ptr[p] = Gone
    /\ \/ /\ OpNew(NULL)
          /\ ptr' = [ptr EXCEPT ![p] = NULL]
          /\ UNCHANGED <<pvars, count>>
       \/ \E b \in Blocks :
             /\ OpNew(b) /\ AllocBlock(b)
             /\ \/ /\ Reachable(q)
                   /\ ptr' = [ptr EXCEPT ![p] = b, ![b] = ptr[q]]
                   /\ count' = Ref([count EXCEPT ![b] = 1], ptr[q])
                \/ /\ q = p
                   /\ ptr' = [ptr EXCEPT ![p] = b, ![b] = NULL]
                   /\ count' = [count EXCEPT ![b] = 1]
    /\ UNCHANGED <<todo, life>>

(* Mutant: a copy does not count. *)
Copy_Uncounted(p, q) ==
    /\ Idle /\ p \in Locals /\ ptr[p] = Gone /\ Reachable(q)
    /\ ptr' = [ptr EXCEPT ![p] = ptr[q]]
    /\ UNCHANGED <<pvars, count, todo, life>>

(* The copy constructor, and the construction from a plain pointer. *)
Copy(p, q) ==
    /\ Idle /\ p \in Locals /\ ptr[p] = Gone /\ Reachable(q)
    /\ ptr' = [ptr EXCEPT ![p] = ptr[q]]
    /\ count' = Ref(count, ptr[q])
    /\ UNCHANGED <<pvars, todo, life>>

(* Mutant: the source keeps its target. *)
Move_KeepsSource(p, q) ==
    /\ Idle /\ p \in Locals /\ ptr[p] = Gone /\ Reachable(q)
    /\ ptr' = [ptr EXCEPT ![p] = ptr[q]]
    /\ UNCHANGED <<pvars, count, todo, life>>

Move(p, q) ==
    /\ Idle /\ p \in Locals /\ ptr[p] = Gone /\ Reachable(q)
    /\ ptr' = [ptr EXCEPT ![p] = ptr[q], ![q] = NULL]
    /\ UNCHANGED <<pvars, count, todo, life>>

(* The destructor. *)
Drop(p) ==
    /\ Idle /\ p \in Locals /\ ptr[p] # Gone
    /\ ptr' = [ptr EXCEPT ![p] = Gone]
    /\ todo' = Unref(ptr[p])
    /\ UNCHANGED <<pvars, count, life>>

(* The assignments drop the old target first.  A copy to itself returns.    *)
(* Nothing keeps the client from giving a source that the old target owns,  *)
(* as in removing a node from a list of objects: n->next = n->next->next.   *)
Assign(p, q, op) ==
    /\ Idle /\ Reachable(p) /\ Reachable(q)
    /\ op = "copy" => p # q
    /\ todo' = Unref(ptr[p]) \o <<Task(op, p, q, Held(q, p))>>
    /\ UNCHANGED <<pvars, count, ptr, life>>

-----------------------------------------------------------------------------
(* What the calls do step by step. *)

Do(op) == life = "live" /\ todo # <<>> /\ Head(todo).op = op

Abort == life' = "aborted" /\ UNCHANGED <<pvars, count, ptr, todo>>

(* The last reference destroys the object: its member first, then its       *)
(* memory goes back.                                                        *)
DoUnref ==
    /\ Do("unref")
    /\ LET b == Head(todo).of
       IN  IF count[b] = 0 THEN Abort
           ELSE /\ count' = [count EXCEPT ![b] = @ - 1]
                /\ IF count[b] = 1
                   THEN /\ todo' = Unref(ptr[b]) \o <<Task("delete", b, NULL, TRUE)>> \o Tail(todo)
                        /\ ptr' = [ptr EXCEPT ![b] = Gone]
                   ELSE todo' = Tail(todo) /\ UNCHANGED ptr
                /\ UNCHANGED <<pvars, life>>

DoDelete ==
    /\ Do("delete")
    /\ LET b == Head(todo).of
       IN  IF count[b] # 0 THEN Abort
           ELSE /\ OpDelete(b)
                /\ todo' = Tail(todo)
                /\ UNCHANGED <<count, ptr, life>>

(* The source of an assignment went with the object it was in. *)
SourceFreed == Head(todo).to \in Blocks \ pout

DoFreedRead ==
    /\ Do("copy") \/ Do("move")
    /\ SourceFreed
    /\ life' = "freed read"
    /\ UNCHANGED <<pvars, count, ptr, todo>>

DoCopy ==
    /\ Do("copy") /\ ~SourceFreed
    /\ LET t == Head(todo)
       IN  /\ ptr' = [ptr EXCEPT ![t.of] = ptr[t.to]]
           /\ count' = Ref(count, ptr[t.to])
    /\ todo' = Tail(todo)
    /\ UNCHANGED <<pvars, life>>

(* The move assignment does not return the value it promises: what follows  *)
(* is undefined, and one outcome is that the program goes on.               *)
DoMove ==
    /\ Do("move") /\ ~SourceFreed
    /\ LET t == Head(todo) IN ptr' = [ptr EXCEPT ![t.of] = ptr[t.to], ![t.to] = NULL]
    /\ todo' = Tail(todo)
    /\ life' \in {"live", "undefined"}
    /\ UNCHANGED <<pvars, count>>

RcPoolFree == Idle /\ PoolFree /\ UNCHANGED <<count, ptr, todo, life>>

Next ==
    \/ \E p, q \in Pointers :
          \/ Create(p, q) \/ Copy(p, q) \/ Move(p, q)
          \/ Assign(p, q, "copy") \/ Assign(p, q, "move")
    \/ \E p \in Locals : Drop(p)
    \/ DoUnref \/ DoDelete \/ DoCopy \/ DoMove \/ DoFreedRead
    \/ RcPoolFree

Spec == RcInit /\ [][Next]_vars

-----------------------------------------------------------------------------
(* Properties. *)

(* Between calls the count of every object (rc.h:45) is the number of       *)
(* pointers at it; objects nothing points at have been destroyed, and no    *)
(* pointer is left at those.                                                *)
CountIsPointers ==
    Idle => \A b \in Blocks :
        LET at == {p \in Pointers : ptr[p] = b}
        IN  /\ b \in pout <=> at # {}
            /\ count[b] = Cardinality(at)

(* No assertion of rc.h:56 or rc.hh:54 fails: no reference is given back    *)
(* that was not held, and nobody refers to an object while it is destroyed. *)
(* An assignment reads its source after the source was freed only when the  *)
(* old target kept it, and no chain of pointers from elsewhere did          *)
(* (rc.hh:91, 102).                                                         *)
RcSafeWhenHeld ==
    /\ life # "aborted"
    /\ life = "freed read" => ~Head(todo).held
=============================================================================
