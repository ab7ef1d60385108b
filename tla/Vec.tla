-------------------------------- MODULE Vec --------------------------------
(***************************************************************************)
(* src/vec.c and src/include/a3/vec.h: the growing array.  Destroying it   *)
(* frees the buffer but keeps the pointer to it, so that a vector used     *)
(* after A3_VEC_CLEAR is not the same as a fresh one.                      *)
(***************************************************************************)
EXTENDS Integers, SequencesExt

CONSTANTS
    Elems,
    Junk,       \* what a slot of a fresh buffer holds
    InitCaps,   \* the capacities that vectors are made with (the macros: 8)
    Reserves,   \* the room that clients ask for
    MaxLen      \* bound: a client pushes no more elements than this

ASSUME VecAssumption ==
    /\ Junk \notin Elems
    /\ InitCaps \subseteq Nat /\ Reserves \subseteq Nat /\ MaxLen \in Nat

VARIABLES
    vec,      \* the A3Vec; block tells one buffer from the next
    vitems,   \* history: the elements pushed and not popped
    vroom,    \* history: how many pushes the client was promised room for
    vfate     \* whether a call never returned, or freed a buffer twice

vvars == <<vec, vitems, vroom, vfate>>

Blocks == {"none", "a", "b"}
OtherBlock(b) == IF b = "a" THEN "b" ELSE "a"
Fresh(b, cap) ==
    [block |-> b, freed |-> FALSE, len |-> 0, mem |-> [i \in 1 .. cap |-> Junk]]
Cap(v) == IF v.freed THEN 0 ELSE Len(v.mem)

(* Mutant: a capacity of 0 gets a buffer as well. *)
VecFresh_Always(cap) == Fresh("a", cap)

VecFresh(cap) == Fresh(IF cap = 0 THEN "none" ELSE "a", cap)

-----------------------------------------------------------------------------
(* a3_vec_reserve. *)

(* Mutant: an exact fit already counts as full, so that a vector grows      *)
(* although it was promised not to.                                         *)
Fits_Strict(v, k) == v.len + k < Cap(v)

Fits(v, k) == v.len + k <= Cap(v)

(* The capacity is doubled until it is enough.  Doubling 0 never is. *)
Spins(v, k) == ~Fits(v, k) /\ v.block # "none" /\ Cap(v) = 0
Doubled(cap, need) ==
    LET grow[c \in cap .. 2 * need] == IF c >= need THEN c ELSE grow[2 * c]
    IN  grow[cap]

(* Mutant: copies one element too few into the new buffer. *)
Moved_Short(v, cap) ==
    [Fresh(OtherBlock(v.block), cap) EXCEPT
        !.len = v.len,
        !.mem = [i \in DOMAIN @ |-> IF i < v.len THEN v.mem[i] ELSE @[i]]]

Moved(v, cap) ==
    [Fresh(OtherBlock(v.block), cap) EXCEPT
        !.len = v.len,
        !.mem = [i \in DOMAIN @ |-> IF i <= v.len THEN v.mem[i] ELSE @[i]]]

Reserved(v, k) ==
    IF Fits(v, k) THEN v
    ELSE IF v.block = "none" THEN Moved(v, k)
    ELSE Moved(v, Doubled(Cap(v), v.len + k))

-----------------------------------------------------------------------------
(* The calls. *)

VecInit ==
    /\ vec \in {VecFresh(cap) : cap \in InitCaps}
    /\ vitems = <<>>
    /\ vroom = 0
    /\ vfate = "ok"

VecReserve(k) ==
    /\ ~Spins(vec, k)
    /\ vec' = Reserved(vec, k)
    /\ vroom' = IF vroom > k THEN vroom ELSE k
    /\ UNCHANGED <<vitems, vfate>>

VecPush(e) ==
    /\ Len(vitems) < MaxLen
    /\ ~Spins(vec, 1)
    /\ LET v == Reserved(vec, 1)
       IN  vec' = [v EXCEPT !.len = @ + 1, !.mem[v.len + 1] = e]
    /\ vitems' = Append(vitems, e)
    /\ vroom' = IF vroom > 0 THEN vroom - 1 ELSE 0
    /\ UNCHANGED vfate

(* Either call, when the doubling loop does not end. *)
VecSpin ==
    /\ \E k \in Reserves \cup {1} : Spins(vec, k)
    /\ vfate' = "spins"
    /\ UNCHANGED <<vec, vitems, vroom>>

(* A3_VEC_POP asserts that there is an element. *)
VecPop ==
    /\ vec.block # "none" /\ vec.len > 0
    /\ vec' = [vec EXCEPT !.len = @ - 1]
    /\ vitems' = Front(vitems)
    /\ UNCHANGED <<vroom, vfate>>

(* a3_vec_destroy, also called A3_VEC_CLEAR. *)
VecDestroy ==
    /\ IF vec.freed THEN vfate' = "freed twice" ELSE UNCHANGED vfate
    /\ vec' = [vec EXCEPT !.len = 0, !.freed = vec.block # "none", !.mem = <<>>]
    /\ vitems' = <<>>
    /\ vroom' = 0

(* A3_VEC_INIT on a vector that was destroyed. *)
VecReinit ==
    /\ vec.freed
    /\ \E cap \in InitCaps : vec' = VecFresh(cap)
    /\ UNCHANGED <<vitems, vroom, vfate>>

(* Nothing follows a call that never returns. *)
VecStuck == vfate # "ok" /\ UNCHANGED vvars

VecStep ==
    /\ vfate = "ok"
    /\ \/ \E k \in Reserves : VecReserve(k)
       \/ \E e \in Elems : VecPush(e)
       \/ VecSpin \/ VecPop \/ VecDestroy \/ VecReinit

VecNext == VecStep \/ VecStuck

VecSpec == VecInit /\ [][VecNext]_vvars

-----------------------------------------------------------------------------
(* The queries. *)

(* a3_vec_at, counting from 0; Junk stands for NULL. *)
VecAt(i) == IF i >= vec.len THEN Junk ELSE vec.mem[i + 1]

(* What A3_VEC_FOR_EACH meets, from a3_vec_first on. *)
VecMeets == IF vec.block = "none" THEN <<>> ELSE SubSeq(vec.mem, 1, vec.len)

VecTypeOK ==
    /\ vec \in [block : Blocks, freed : BOOLEAN, len : 0 .. MaxLen,
                mem : Seq(Elems \cup {Junk})]
    /\ vec.freed => vec.mem = <<>>
    /\ vitems \in Seq(Elems) /\ vroom \in Nat
    /\ vfate \in {"ok", "spins", "freed twice"}

(* However often the buffer moved, a loop over the vector and a3_vec_at     *)
(* give the elements in the order in which they were pushed (vec.c:74-77).  *)
VecIsSequence ==
    /\ VecMeets = vitems
    /\ \A i \in 0 .. MaxLen :
           VecAt(i) = IF i < Len(vitems) THEN vitems[i + 1] ELSE Junk

(* A push for which room was reserved leaves the buffer where it is: the    *)
(* pointers to elements, and that of a loop, stay good (vec.c:62, vec.h:95).*)
VecRoomHolds ==
    [][Len(vitems') > Len(vitems) /\ vroom > 0 => vec'.block = vec.block]_vvars

(* A call never returns, or frees a buffer a second time, only after        *)
(* a3_vec_destroy or A3_VEC_CLEAR (vec.c:71, vec.c:83).                     *)
VecTroubleOnlyAfterClear == vfate # "ok" => vec.freed
=============================================================================
