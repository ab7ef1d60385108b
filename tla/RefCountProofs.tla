--------------------------- MODULE RefCountProofs ---------------------------
(***************************************************************************)
(* The pool hands out each block once and takes it back, and the count of  *)
(* every object is the number of pointers at it: for any number of blocks  *)
(* and of local variables.                                                 *)
(***************************************************************************)
EXTENDS RefCount, ListProofs

-----------------------------------------------------------------------------
(* Who points at an object.  The target of an assignment in progress is     *)
(* stale: what it held has been given back, or is about to be.              *)

Targets == Blocks \cup {NULL, Gone}

Holders(f, stale, b) == {x \in Pointers \ stale : f[x] = b}

LEMMA BlocksAre ==
    /\ IsFiniteSet(Blocks) /\ Cardinality(Blocks) = Count /\ Count \in Nat
    /\ NULL \notin Blocks /\ FreeHead \notin Blocks /\ Gone \notin Blocks
    /\ NULL # Gone /\ Locals \cap Blocks = {}
<1>1. Count \in Nat /\ Count > 0 /\ Blocks = 1 .. Count
  BY CountAssumption DEF Blocks
<1>2. IsFiniteSet(1 .. Count) /\ Cardinality(1 .. Count) = IF 1 > Count THEN 0 ELSE Count - 1 + 1
  BY <1>1, FS_Interval
<1>3. NULL \notin Blocks /\ FreeHead \notin Blocks
  BY NodesAssumption DEF Blocks, FreeHead
<1> QED BY <1>1, <1>2, <1>3, LocalsAssumption

LEMMA PointersAreFew ==
    /\ IsFiniteSet(Pointers) /\ Cardinality(Pointers) \in Nat
    /\ Width \in Nat /\ Cardinality(Pointers) < Width
<1>1. IsFiniteSet(Locals) /\ IsFiniteSet(Blocks)
  BY BlocksAre, LocalsAssumption
<1>2. /\ IsFiniteSet(Locals \cup Blocks)
      /\ Cardinality(Locals \cup Blocks)
            = Cardinality(Locals) + Cardinality(Blocks) - Cardinality(Locals \cap Blocks)
  BY <1>1, FS_Union
<1>3. Cardinality(Locals \cap Blocks) = 0 /\ Cardinality(Blocks) = Count /\ Count \in Nat
  BY BlocksAre, FS_EmptySet
<1>4. Cardinality(Locals) \in Nat
  BY <1>1, FS_CardinalityType
<1>5. Cardinality(Locals \cup Blocks) = Cardinality(Locals) + Count
  BY <1>2, <1>3, <1>4
<1> QED BY <1>2, <1>3, <1>4, <1>5, WidthAssumption DEF Pointers

LEMMA HoldersType ==
    ASSUME NEW f, NEW stale, NEW b
    PROVE  /\ IsFiniteSet(Holders(f, stale, b)) /\ Cardinality(Holders(f, stale, b)) \in Nat
           /\ Cardinality(Holders(f, stale, b)) <= Cardinality(Pointers)
           /\ Cardinality(Holders(f, stale, b)) = 0 <=> Holders(f, stale, b) = {}
<1>1. Holders(f, stale, b) \in SUBSET Pointers
  BY DEF Holders
<1>2. IsFiniteSet(Holders(f, stale, b)) /\ Cardinality(Holders(f, stale, b)) <= Cardinality(Pointers)
  BY <1>1, PointersAreFew, FS_Subset
<1>3. Cardinality(Holders(f, stale, b)) \in Nat
  BY <1>2, FS_CardinalityType
<1> QED BY <1>2, <1>3, FS_EmptySet

(* One more pointer is left out.                                            *)
LEMMA LeaveOut ==
    ASSUME NEW f, NEW stale, NEW p \in Pointers \ stale, NEW b
    PROVE  Cardinality(Holders(f, stale, b))
              = Cardinality(Holders(f, stale \cup {p}, b)) + IF f[p] = b THEN 1 ELSE 0
<1> DEFINE A == Holders(f, stale, b)
           B == Holders(f, stale \cup {p}, b)
<1>1. IsFiniteSet(B) /\ Cardinality(B) \in Nat
  BY HoldersType
<1>2. CASE f[p] = b
  <2>1. A = B \cup {p} /\ p \notin B
    BY <1>2 DEF Holders
  <2> HIDE DEF A, B
  <2>2. Cardinality(B \cup {p}) = IF p \in B THEN Cardinality(B) ELSE Cardinality(B) + 1
    BY <1>1, FS_AddElement
  <2>3. Cardinality(A) = Cardinality(B) + 1
    BY <2>1, <2>2
  <2> QED BY <1>2, <2>3 DEF A, B
<1>3. CASE f[p] # b
  <2>1. A = B
    BY <1>3 DEF Holders
  <2> HIDE DEF A, B
  <2>2. Cardinality(A) = Cardinality(B) + 0
    BY <1>1, <2>1
  <2> QED BY <1>3, <2>2 DEF A, B
<1> QED BY <1>2, <1>3

LEMMA LeaveOutOne ==
    ASSUME NEW f, NEW p \in Pointers, NEW b
    PROVE  Cardinality(Holders(f, {}, b))
              = Cardinality(Holders(f, {p}, b)) + IF f[p] = b THEN 1 ELSE 0
<1>1. PICK stale : stale = {}
  OBVIOUS
<1>2. p \in Pointers \ stale /\ stale \cup {p} = {p}
  BY <1>1
<1>3. Cardinality(Holders(f, stale, b))
         = Cardinality(Holders(f, stale \cup {p}, b)) + IF f[p] = b THEN 1 ELSE 0
  BY <1>2, LeaveOut
<1> QED BY <1>1, <1>2, <1>3

(* The pointers left out make no difference.                                *)
LEMMA SameOutside ==
    ASSUME NEW f, NEW g, NEW stale, NEW b,
           \A x \in Pointers \ stale : g[x] = f[x]
    PROVE  Holders(g, stale, b) = Holders(f, stale, b)
  BY DEF Holders

(* An object somebody points at.                                            *)
LEMMA PointedAt ==
    ASSUME NEW f, NEW stale, NEW p \in Pointers \ stale
    PROVE  Cardinality(Holders(f, stale, f[p])) > 0
<1>1. p \in Holders(f, stale, f[p])
  BY DEF Holders
<1>2. /\ Cardinality(Holders(f, stale, f[p])) \in Nat
      /\ Cardinality(Holders(f, stale, f[p])) = 0 <=> Holders(f, stale, f[p]) = {}
  BY HoldersType
<1> QED BY <1>1, <1>2

(* The counts c, when f is what the pointers hold, the objects in out are   *)
(* allocated, those in due are owed one dropped reference, those in dying   *)
(* wait for their memory to go back, and stale pointers do not count.       *)
Counted(c, f, out, due, dying, stale) ==
    \A b \in Blocks :
        /\ c[b] = Cardinality(Holders(f, stale, b)) + IF b \in due THEN 1 ELSE 0
        /\ b \notin out => c[b] = 0 /\ f[b] = Gone
        /\ b \in dying <=> b \in out /\ c[b] = 0
        /\ b \in dying => f[b] = Gone

Typed(c, f, out) == c \in [Blocks -> Nat] /\ f \in [Pointers -> Targets] /\ out \subseteq Blocks

(* What a pointer that counts points at is allocated and not dying.         *)
LEMMA TargetIsAlive ==
    ASSUME NEW c, NEW f, NEW out, Typed(c, f, out),
           NEW due, NEW dying, NEW stale, Counted(c, f, out, due, dying, stale),
           NEW p \in Pointers \ stale, f[p] \in Blocks
    PROVE  f[p] \in out /\ c[f[p]] > 0 /\ f[p] \notin dying
<1>1. Cardinality(Holders(f, stale, f[p])) > 0 /\ Cardinality(Holders(f, stale, f[p])) \in Nat
  BY PointedAt, HoldersType
<1>2. PICK b \in Blocks : b = f[p]
  OBVIOUS
<1>3. c[b] = Cardinality(Holders(f, stale, b)) + IF b \in due THEN 1 ELSE 0
  BY DEF Counted
<1>4. c[b] > 0
  BY <1>1, <1>2, <1>3
<1> QED BY <1>2, <1>4 DEF Counted

(* Pointers in their lifetime belong to the client or to an object that is  *)
(* allocated.                                                               *)
LEMMA OwnerIsAlive ==
    ASSUME NEW c, NEW f, NEW out, Typed(c, f, out),
           NEW due, NEW dying, NEW stale, Counted(c, f, out, due, dying, stale),
           NEW p \in Blocks, f[p] # Gone
    PROVE  p \in out /\ p \notin dying
  BY DEF Counted

(* A pointer drops what it holds: v is what it holds from now on, no object.*)
LEMMA Dropped ==
    ASSUME NEW c, NEW f, NEW out, Typed(c, f, out),
           NEW dying, NEW stale, Counted(c, f, out, {}, dying, stale),
           NEW p \in Pointers \ stale, NEW g, g[p] \notin Blocks,
           \A x \in Pointers : x # p => g[x] = f[x],
           p \in Blocks => g[p] = Gone
    PROVE  Counted(c, g, out, {f[p]} \cap Blocks, dying, stale)
<1> SUFFICES ASSUME NEW b \in Blocks
             PROVE  /\ c[b] = Cardinality(Holders(g, stale, b)) + IF b \in {f[p]} \cap Blocks THEN 1 ELSE 0
                    /\ b \notin out => c[b] = 0 /\ g[b] = Gone
                    /\ b \in dying <=> b \in out /\ c[b] = 0
                    /\ b \in dying => g[b] = Gone
  BY DEF Counted
<1>1. /\ c[b] = Cardinality(Holders(f, stale, b)) + IF b \in {} THEN 1 ELSE 0
      /\ b \notin out => c[b] = 0 /\ f[b] = Gone
      /\ b \in dying <=> b \in out /\ c[b] = 0
      /\ b \in dying => f[b] = Gone
  BY DEF Counted
<1>2. Cardinality(Holders(f, stale, b)) \in Nat /\ Cardinality(Holders(f, stale \cup {p}, b)) \in Nat
  BY HoldersType
<1>3. Cardinality(Holders(f, stale, b)) = Cardinality(Holders(f, stale \cup {p}, b)) + IF f[p] = b THEN 1 ELSE 0
  BY LeaveOut
<1>4. Cardinality(Holders(g, stale, b)) = Cardinality(Holders(g, stale \cup {p}, b)) + IF g[p] = b THEN 1 ELSE 0
  BY LeaveOut
<1>5. Holders(g, stale \cup {p}, b) = Holders(f, stale \cup {p}, b)
  BY SameOutside
<1>6. g[p] # b
  OBVIOUS
<1>7. Cardinality(Holders(g, stale, b)) = Cardinality(Holders(f, stale \cup {p}, b))
  BY <1>2, <1>4, <1>5, <1>6
<1>8. c[b] = Cardinality(Holders(g, stale, b)) + IF b \in {f[p]} \cap Blocks THEN 1 ELSE 0
  BY <1>1, <1>2, <1>3, <1>7
<1>9. b \in Pointers /\ (g[b] = f[b] \/ g[b] = Gone)
  BY DEF Pointers
<1> QED BY <1>1, <1>8, <1>9

(* A pointer that holds no object, or no longer counts, gets a target.      *)
LEMMA Taken ==
    ASSUME NEW c, NEW f, NEW out, Typed(c, f, out),
           NEW dying, NEW stale, Counted(c, f, out, {}, dying, stale),
           NEW p \in Pointers, p \in stale \/ f[p] \notin Blocks, stale \subseteq {p},
           p \in Blocks => p \in out /\ p \notin dying,
           NEW g, g[p] \in Blocks => g[p] \in out /\ g[p] \notin dying,
           \A x \in Pointers : x # p => g[x] = f[x],
           NEW d, \A b \in Blocks : d[b] = c[b] + IF g[p] = b THEN 1 ELSE 0
    PROVE  Counted(d, g, out, {}, dying, {})
<1> SUFFICES ASSUME NEW b \in Blocks
             PROVE  /\ d[b] = Cardinality(Holders(g, {}, b)) + IF b \in {} THEN 1 ELSE 0
                    /\ b \notin out => d[b] = 0 /\ g[b] = Gone
                    /\ b \in dying <=> b \in out /\ d[b] = 0
                    /\ b \in dying => g[b] = Gone
  BY DEF Counted
<1>1. /\ c[b] = Cardinality(Holders(f, stale, b)) + IF b \in {} THEN 1 ELSE 0
      /\ b \notin out => c[b] = 0 /\ f[b] = Gone
      /\ b \in dying <=> b \in out /\ c[b] = 0
      /\ b \in dying => f[b] = Gone
  BY DEF Counted
<1>2. Cardinality(Holders(f, {p}, b)) \in Nat /\ Cardinality(Holders(g, {}, b)) \in Nat
  BY HoldersType
<1>3. c[b] = Cardinality(Holders(f, {p}, b))
  <2>1. CASE p \in stale
    <3>1. stale = {p}
      BY <2>1
    <3> QED BY <1>1, <1>2, <3>1
  <2>2. CASE p \notin stale
    <3>1. stale = {} /\ f[p] # b
      BY <2>2
    <3>2. Cardinality(Holders(f, {}, b)) = Cardinality(Holders(f, {p}, b)) + IF f[p] = b THEN 1 ELSE 0
      BY LeaveOutOne
    <3> QED BY <1>1, <1>2, <3>1, <3>2
  <2> QED BY <2>1, <2>2
<1>4. Cardinality(Holders(g, {}, b)) = Cardinality(Holders(g, {p}, b)) + IF g[p] = b THEN 1 ELSE 0
  BY LeaveOutOne
<1>5. Holders(g, {p}, b) = Holders(f, {p}, b)
  BY SameOutside
<1>6. d[b] = c[b] + IF g[p] = b THEN 1 ELSE 0
  OBVIOUS
<1>7. d[b] = Cardinality(Holders(g, {}, b))
  BY <1>2, <1>3, <1>4, <1>5, <1>6
<1>8. c[b] \in Nat /\ b \in Pointers
  BY DEF Typed, Pointers
<1>9. CASE g[p] = b
  <2>1. b \in out /\ b \notin dying /\ d[b] = c[b] + 1
    BY <1>6, <1>9
  <2> QED BY <1>2, <1>7, <1>8, <2>1
<1>10. CASE g[p] # b
  <2>1. d[b] = c[b]
    BY <1>6, <1>8, <1>10
  <2>2. b = p => b \in out /\ b \notin dying
    OBVIOUS
  <2>3. b # p => g[b] = f[b]
    BY <1>8
  <2> QED BY <1>1, <1>2, <1>7, <2>1, <2>2, <2>3
<1> QED BY <1>9, <1>10

(* A dropped reference that was not the last.                               *)
LEMMA Released ==
    ASSUME NEW c, NEW f, NEW out, Typed(c, f, out),
           NEW u \in Blocks, NEW dying, NEW stale, Counted(c, f, out, {u}, dying, stale),
           c[u] # 1,
           NEW d, d[u] = c[u] - 1, \A b \in Blocks : b # u => d[b] = c[b]
    PROVE  Counted(d, f, out, {}, dying, stale)
<1> SUFFICES ASSUME NEW b \in Blocks
             PROVE  /\ d[b] = Cardinality(Holders(f, stale, b)) + IF b \in {} THEN 1 ELSE 0
                    /\ b \notin out => d[b] = 0 /\ f[b] = Gone
                    /\ b \in dying <=> b \in out /\ d[b] = 0
                    /\ b \in dying => f[b] = Gone
  BY DEF Counted
<1>1. /\ c[b] = Cardinality(Holders(f, stale, b)) + IF b \in {u} THEN 1 ELSE 0
      /\ b \notin out => c[b] = 0 /\ f[b] = Gone
      /\ b \in dying <=> b \in out /\ c[b] = 0
      /\ b \in dying => f[b] = Gone
  BY DEF Counted
<1>2. Cardinality(Holders(f, stale, b)) \in Nat
  BY HoldersType
<1>3. CASE b = u
  <2>1. c[b] = Cardinality(Holders(f, stale, b)) + 1 /\ d[b] = c[b] - 1 /\ c[b] # 1
    BY <1>1, <1>3
  <2>2. d[b] = Cardinality(Holders(f, stale, b)) /\ d[b] # 0 /\ c[b] # 0
    BY <1>2, <2>1
  <2> QED BY <1>1, <1>2, <2>2
<1>4. CASE b # u
  <2>1. d[b] = c[b] /\ c[b] = Cardinality(Holders(f, stale, b))
    BY <1>1, <1>2, <1>4
  <2> QED BY <1>1, <1>2, <2>1
<1> QED BY <1>3, <1>4

(* The last reference: nobody else points at the object, which is dying.    *)
LEMMA ReleasedLast ==
    ASSUME NEW c, NEW f, NEW out, Typed(c, f, out),
           NEW u \in Blocks, NEW dying, NEW stale, Counted(c, f, out, {u}, dying, stale),
           c[u] = 1, u \notin stale,
           NEW d, d[u] = c[u] - 1, \A b \in Blocks : b # u => d[b] = c[b],
           NEW g, g[u] = Gone, \A x \in Pointers : x # u => g[x] = f[x]
    PROVE  /\ Counted(d, g, out, {f[u]} \cap Blocks, dying \cup {u}, stale)
           /\ u \notin dying
<1>1. /\ c[u] = Cardinality(Holders(f, stale, u)) + IF u \in {u} THEN 1 ELSE 0
      /\ u \notin out => c[u] = 0
      /\ u \in dying <=> u \in out /\ c[u] = 0
  BY DEF Counted
<1>2. Cardinality(Holders(f, stale, u)) \in Nat
  BY HoldersType
<1>3. u \in out /\ u \notin dying /\ Cardinality(Holders(f, stale, u)) = 0 /\ d[u] = 0
  BY <1>1, <1>2
<1>4. u \in Pointers \ stale /\ Gone \notin Blocks
  BY BlocksAre DEF Pointers
<1>5. f[u] # u
  <2> SUFFICES ASSUME f[u] = u PROVE FALSE
    OBVIOUS
  <2>1. Cardinality(Holders(f, stale, f[u])) > 0
    BY <1>4, PointedAt
  <2> QED BY <1>3, <2>1
<1>6. ASSUME NEW b \in Blocks
      PROVE  /\ d[b] = Cardinality(Holders(g, stale, b)) + IF b \in {f[u]} \cap Blocks THEN 1 ELSE 0
             /\ b \notin out => d[b] = 0 /\ g[b] = Gone
             /\ b \in dying \cup {u} <=> b \in out /\ d[b] = 0
             /\ b \in dying \cup {u} => g[b] = Gone
  <2>1. /\ c[b] = Cardinality(Holders(f, stale, b)) + IF b \in {u} THEN 1 ELSE 0
        /\ b \notin out => c[b] = 0 /\ f[b] = Gone
        /\ b \in dying <=> b \in out /\ c[b] = 0
        /\ b \in dying => f[b] = Gone
    BY DEF Counted
  <2>2. /\ Cardinality(Holders(f, stale, b)) \in Nat
        /\ Cardinality(Holders(f, stale \cup {u}, b)) \in Nat
        /\ Cardinality(Holders(g, stale, b)) \in Nat
    BY HoldersType
  <2>3. Cardinality(Holders(f, stale, b)) = Cardinality(Holders(f, stale \cup {u}, b)) + IF f[u] = b THEN 1 ELSE 0
    BY <1>4, LeaveOut
  <2>4. Cardinality(Holders(g, stale, b)) = Cardinality(Holders(g, stale \cup {u}, b)) + IF g[u] = b THEN 1 ELSE 0
    BY <1>4, LeaveOut
  <2>5. Holders(g, stale \cup {u}, b) = Holders(f, stale \cup {u}, b)
    BY SameOutside
  <2>6. Cardinality(Holders(g, stale, b)) = Cardinality(Holders(f, stale \cup {u}, b))
    BY <1>4, <2>2, <2>4, <2>5
  <2>7. CASE b = u
    <3>1. Cardinality(Holders(g, stale, b)) = 0
      BY <1>3, <1>5, <2>2, <2>3, <2>6, <2>7
    <3> QED BY <1>3, <1>5, <2>7, <3>1
  <2>8. CASE b # u
    <3>1. d[b] = c[b] /\ c[b] = Cardinality(Holders(f, stale, b)) /\ g[b] = f[b]
      BY <2>1, <2>2, <2>8 DEF Pointers
    <3>2. d[b] = Cardinality(Holders(g, stale, b)) + IF b \in {f[u]} \cap Blocks THEN 1 ELSE 0
      BY <2>2, <2>3, <2>6, <3>1
    <3> QED BY <2>1, <2>8, <3>1, <3>2
  <2> QED BY <2>7, <2>8
<1> QED BY <1>3, <1>6 DEF Counted

(* The memory of a dying object goes back.                                  *)
LEMMA Freed ==
    ASSUME NEW c, NEW f, NEW out, Typed(c, f, out),
           NEW dying, NEW stale, Counted(c, f, out, {}, dying, stale),
           NEW u \in dying \cap Blocks
    PROVE  Counted(c, f, out \ {u}, {}, dying \ {u}, stale)
  BY DEF Counted

(* A block is allocated for an object, which p adopts; its member gets a    *)
(* target of its own, or none.                                              *)
LEMMA Adopted ==
    ASSUME NEW c, NEW f, NEW out, Typed(c, f, out),
           Counted(c, f, out, {}, {}, {}),
           NEW u \in Blocks \ out, NEW p \in Locals, f[p] \notin Blocks,
           NEW g, g[p] = u, \A x \in Pointers : x # p /\ x # u => g[x] = f[x],
           g[u] \in Blocks => g[u] \in out,
           NEW d, d[u] = 1,
           \A b \in Blocks : b # u => d[b] = c[b] + IF g[u] = b THEN 1 ELSE 0
    PROVE  Counted(d, g, out \cup {u}, {}, {}, {})
<1> SUFFICES ASSUME NEW b \in Blocks
             PROVE  /\ d[b] = Cardinality(Holders(g, {}, b)) + IF b \in {} THEN 1 ELSE 0
                    /\ b \notin out \cup {u} => d[b] = 0 /\ g[b] = Gone
                    /\ b \in {} <=> b \in out \cup {u} /\ d[b] = 0
                    /\ b \in {} => g[b] = Gone
  BY DEF Counted
<1>1. /\ c[b] = Cardinality(Holders(f, {}, b)) + IF b \in {} THEN 1 ELSE 0
      /\ b \notin out => c[b] = 0 /\ f[b] = Gone
      /\ b \in {} <=> b \in out /\ c[b] = 0
  BY DEF Counted
<1>2. c[u] = 0 /\ f[u] = Gone /\ Gone \notin Blocks
  BY BlocksAre DEF Counted
<1>3. p \in Pointers /\ u \in Pointers /\ b \in Pointers /\ p # u /\ b # p
  BY BlocksAre DEF Pointers
<1>4. /\ Cardinality(Holders(f, {}, b)) \in Nat /\ Cardinality(Holders(g, {}, b)) \in Nat
      /\ Cardinality(Holders(f, {p}, b)) \in Nat /\ Cardinality(Holders(g, {p}, b)) \in Nat
      /\ Cardinality(Holders(f, {p, u}, b)) \in Nat
  BY HoldersType
<1>5. \A h : /\ Cardinality(Holders(h, {}, b)) = Cardinality(Holders(h, {p}, b)) + IF h[p] = b THEN 1 ELSE 0
             /\ Cardinality(Holders(h, {p}, b)) = Cardinality(Holders(h, {p, u}, b)) + IF h[u] = b THEN 1 ELSE 0
  <2> TAKE h
  <2>1. {p} \cup {u} = {p, u} /\ u \in Pointers \ {p}
    BY <1>3
  <2>2. Cardinality(Holders(h, {}, b)) = Cardinality(Holders(h, {p}, b)) + IF h[p] = b THEN 1 ELSE 0
    BY <1>3, LeaveOutOne
  <2>3. Cardinality(Holders(h, {p}, b)) = Cardinality(Holders(h, {p} \cup {u}, b)) + IF h[u] = b THEN 1 ELSE 0
    BY <2>1, LeaveOut
  <2> QED BY <2>1, <2>2, <2>3
<1>6. Holders(g, {p, u}, b) = Holders(f, {p, u}, b)
  BY SameOutside
<1>7. c[b] = Cardinality(Holders(f, {p, u}, b))
  <2>1. f[p] # b /\ f[u] # b
    BY <1>2
  <2>2. /\ Cardinality(Holders(f, {}, b)) = Cardinality(Holders(f, {p}, b)) + IF f[p] = b THEN 1 ELSE 0
        /\ Cardinality(Holders(f, {p}, b)) = Cardinality(Holders(f, {p, u}, b)) + IF f[u] = b THEN 1 ELSE 0
    BY <1>5
  <2>3. Cardinality(Holders(f, {}, b)) = Cardinality(Holders(f, {p, u}, b))
    BY <1>4, <2>1, <2>2
  <2>4. c[b] = Cardinality(Holders(f, {}, b))
    BY <1>1, <1>4
  <2> QED BY <2>3, <2>4
<1>8. Cardinality(Holders(g, {}, b)) = c[b] + (IF u = b THEN 1 ELSE 0) + (IF g[u] = b THEN 1 ELSE 0)
  <2>1. /\ Cardinality(Holders(g, {}, b)) = Cardinality(Holders(g, {p}, b)) + IF u = b THEN 1 ELSE 0
        /\ Cardinality(Holders(g, {p}, b)) = Cardinality(Holders(g, {p, u}, b)) + IF g[u] = b THEN 1 ELSE 0
    BY <1>5
  <2> QED BY <1>4, <1>6, <1>7, <2>1
<1>9. c[b] \in Nat
  BY DEF Typed
<1>10. CASE b = u
  <2>1. g[u] # b /\ c[b] = 0 /\ d[b] = 1
    BY <1>2, <1>10
  <2>2. Cardinality(Holders(g, {}, b)) = 1
    BY <1>8, <1>10, <2>1
  <2> QED BY <1>10, <2>1, <2>2
<1>11. CASE b # u
  <2>1. d[b] = c[b] + IF g[u] = b THEN 1 ELSE 0
    BY <1>11
  <2>2. d[b] = Cardinality(Holders(g, {}, b))
    BY <1>8, <1>9, <1>11, <2>1
  <2>3. g[b] = f[b]
    BY <1>3, <1>11
  <2>4. b \in out => d[b] # 0
    BY <1>1, <1>9, <2>1
  <2>5. b \notin out => g[u] # b /\ d[b] = 0 /\ g[b] = Gone
    BY <1>1, <1>9, <2>1, <2>3
  <2> QED BY <1>4, <1>11, <2>2, <2>4, <2>5
<1> QED BY <1>10, <1>11

-----------------------------------------------------------------------------
(* The stack of what a call has still to do: at most one dropped reference, *)
(* on top, then destructors, each of another object, then the assignment    *)
(* that made them necessary, if there is one.                               *)

Tasks == [op : {"unref", "delete", "copy", "move"}, of : Pointers, to : Pointers \cup {NULL}, held : BOOLEAN]

IsAssign(k) == k.op \in {"copy", "move"}

(* The target of an assignment is a variable, or the member of an object    *)
(* that lasts without it; what Held says of the source.                     *)
Assignable(f, k) ==
    /\ k.to \in Pointers
    /\ Kept(f, k.of, k.of)
    /\ k.held => Kept(f, k.to, k.of)
    /\ k.op = "copy" => k.of # k.to

Stack(t, f) ==
    /\ t \in Seq(Tasks)
    /\ \A i \in 1 .. Len(t) :
          /\ t[i].op = "unref" => i = 1 /\ t[i].of \in Blocks
          /\ t[i].op = "delete" => t[i].of \in Blocks
          /\ IsAssign(t[i]) => i = Len(t) /\ Assignable(f, t[i])
    /\ \A i, j \in 1 .. Len(t) :
          t[i].op = "delete" /\ t[j].op = "delete" /\ t[i].of = t[j].of => i = j

OfThe(t, ops) == {t[i].of : i \in {j \in 1 .. Len(t) : t[j].op \in ops}}
Due(t) == OfThe(t, {"unref"})
Dying(t) == OfThe(t, {"delete"})
Stale(t) == OfThe(t, {"copy", "move"})

OnTop(t, k, r) ==
    /\ t \in Seq(Tasks) /\ r \in Seq(Tasks) /\ Len(t) = Len(r) + 1
    /\ t[1] = k /\ k \in Tasks
    /\ \A i \in 1 .. Len(r) : t[i + 1] = r[i]

LEMMA PushIsOnTop ==
    ASSUME NEW k \in Tasks, NEW r \in Seq(Tasks)
    PROVE  OnTop(<<k>> \o r, k, r)
<1> HIDE DEF Tasks
<1> DEFINE t == <<k>> \o r
<1>1. <<k>> \in Seq(Tasks) /\ Len(<<k>>) = 1 /\ <<k>>[1] = k /\ Len(r) \in Nat
  OBVIOUS
<1>2. /\ t \in Seq(Tasks) /\ Len(t) = Len(<<k>>) + Len(r)
      /\ \A i \in 1 .. Len(<<k>>) + Len(r) :
            t[i] = IF i <= Len(<<k>>) THEN <<k>>[i] ELSE r[i - Len(<<k>>)]
  BY <1>1, ConcatProperties
<1> HIDE DEF t
<1>3. t[1] = k
  BY <1>1, <1>2
<1>4. ASSUME NEW i \in 1 .. Len(r) PROVE t[i + 1] = r[i]
  <2>1. i + 1 \in 1 .. Len(<<k>>) + Len(r) /\ ~(i + 1 <= Len(<<k>>)) /\ i + 1 - Len(<<k>>) = i
    BY <1>1
  <2> QED BY <1>2, <2>1
<1> QED BY <1>1, <1>2, <1>3, <1>4 DEF OnTop, t

LEMMA HeadIsOnTop ==
    ASSUME NEW t \in Seq(Tasks), t # <<>>
    PROVE  OnTop(t, Head(t), Tail(t))
<1> HIDE DEF Tasks
<1>1. /\ Head(t) \in Tasks /\ Tail(t) \in Seq(Tasks) /\ Len(Tail(t)) = Len(t) - 1
      /\ \A i \in 1 .. Len(Tail(t)) : Tail(t)[i] = t[i + 1]
  BY HeadTailProperties
<1>2. Len(t) \in Nat /\ Head(t) = t[1]
  BY LenProperties
<1> QED BY <1>1, <1>2 DEF OnTop

LEMMA OfTheTop ==
    ASSUME NEW t, NEW k, NEW r, OnTop(t, k, r), NEW ops
    PROVE  OfThe(t, ops) = OfThe(r, ops) \cup IF k.op \in ops THEN {k.of} ELSE {}
<1>1. /\ Len(r) \in Nat /\ Len(t) = Len(r) + 1 /\ t[1] = k
      /\ \A i \in 1 .. Len(r) : t[i + 1] = r[i]
  BY DEF OnTop
<1>2. ASSUME NEW x \in OfThe(t, ops)
      PROVE  x \in OfThe(r, ops) \cup IF k.op \in ops THEN {k.of} ELSE {}
  <2>1. PICK i \in 1 .. Len(t) : t[i].op \in ops /\ x = t[i].of
    BY DEF OfThe
  <2>2. CASE i = 1
    BY <1>1, <2>1, <2>2
  <2>3. CASE i # 1
    <3>1. PICK j \in 1 .. Len(r) : i = j + 1
      <4>1. i - 1 \in 1 .. Len(r) /\ i = (i - 1) + 1
        BY <1>1, <2>3
      <4> QED BY <4>1
    <3>2. r[j].op \in ops /\ x = r[j].of
      BY <1>1, <2>1, <3>1
    <3> QED BY <3>2 DEF OfThe
  <2> QED BY <2>2, <2>3
<1>3. ASSUME NEW x \in OfThe(r, ops) PROVE x \in OfThe(t, ops)
  <2>1. PICK j \in 1 .. Len(r) : r[j].op \in ops /\ x = r[j].of
    BY DEF OfThe
  <2>2. j + 1 \in 1 .. Len(t) /\ t[j + 1] = r[j]
    BY <1>1
  <2> QED BY <2>1, <2>2 DEF OfThe
<1>4. k.op \in ops => k.of \in OfThe(t, ops)
  <2>1. 1 \in 1 .. Len(t)
    BY <1>1
  <2> QED BY <1>1, <2>1 DEF OfThe
<1> QED BY <1>2, <1>3, <1>4

(* What may lie on top of a stack.                                          *)
Fits(k, r, f) ==
    /\ Due(r) = {}
    /\ k.op = "unref" => k.of \in Blocks
    /\ k.op = "delete" => k.of \in Blocks /\ k.of \notin Dying(r)
    /\ IsAssign(k) => r = <<>> /\ Assignable(f, k)

LEMMA StackFits ==
    ASSUME NEW t, NEW k, NEW r, OnTop(t, k, r), NEW f, Stack(t, f)
    PROVE  Stack(r, f) /\ Fits(k, r, f)
<1>1. /\ Len(r) \in Nat /\ Len(t) = Len(r) + 1 /\ t[1] = k /\ r \in Seq(Tasks)
      /\ \A i \in 1 .. Len(r) : t[i + 1] = r[i] /\ i + 1 \in 1 .. Len(t) /\ i + 1 # 1
      /\ 1 \in 1 .. Len(t)
  BY DEF OnTop
<1>2. /\ \A i \in 1 .. Len(t) :
            /\ t[i].op = "unref" => i = 1 /\ t[i].of \in Blocks
            /\ t[i].op = "delete" => t[i].of \in Blocks
            /\ IsAssign(t[i]) => i = Len(t) /\ Assignable(f, t[i])
      /\ \A i, j \in 1 .. Len(t) :
            t[i].op = "delete" /\ t[j].op = "delete" /\ t[i].of = t[j].of => i = j
  BY DEF Stack
<1>3. ASSUME NEW i \in 1 .. Len(r)
      PROVE  /\ r[i].op # "unref"
             /\ r[i].op = "delete" => r[i].of \in Blocks
             /\ IsAssign(r[i]) => i = Len(r) /\ Assignable(f, r[i])
  <2>1. PICK m : m = i + 1
    OBVIOUS
  <2>2. t[m] = r[i] /\ m \in 1 .. Len(t) /\ m # 1 /\ (m = Len(t) => i = Len(r))
    BY <1>1, <2>1
  <2> QED BY <1>2, <2>2
<1>4. ASSUME NEW i \in 1 .. Len(r), NEW j \in 1 .. Len(r),
             r[i].op = "delete", r[j].op = "delete", r[i].of = r[j].of
      PROVE  i = j
  <2>1. t[i + 1] = r[i] /\ t[j + 1] = r[j] /\ i + 1 \in 1 .. Len(t) /\ j + 1 \in 1 .. Len(t)
    BY <1>1
  <2>2. i + 1 = j + 1
    BY <1>2, <1>4, <2>1
  <2> QED BY <2>2
<1>5. Stack(r, f)
  BY <1>1, <1>3, <1>4 DEF Stack
<1>6. Due(r) = {}
  BY <1>3 DEF Due, OfThe
<1>7. k.op = "delete" => k.of \in Blocks /\ k.of \notin Dying(r)
  <2> SUFFICES ASSUME k.op = "delete" PROVE k.of \in Blocks /\ k.of \notin Dying(r)
    OBVIOUS
  <2>1. k.of \in Blocks
    BY <1>1, <1>2
  <2>2. ASSUME k.of \in Dying(r) PROVE FALSE
    <3>1. PICK j \in 1 .. Len(r) : r[j].op = "delete" /\ k.of = r[j].of
      BY <2>2 DEF Dying, OfThe
    <3>2. t[j + 1] = r[j] /\ j + 1 \in 1 .. Len(t) /\ j + 1 # 1
      BY <1>1
    <3> QED BY <1>1, <1>2, <3>1, <3>2
  <2> QED BY <2>1, <2>2
<1>8. IsAssign(k) => r = <<>> /\ Assignable(f, k)
  <2>1. IsAssign(k) => 1 = Len(t) /\ Assignable(f, k)
    BY <1>1, <1>2
  <2>2. 1 = Len(t) => r = <<>>
    BY <1>1, EmptySeq
  <2> QED BY <2>1, <2>2
<1>9. k.op = "unref" => k.of \in Blocks
  BY <1>1, <1>2
<1> QED BY <1>5, <1>6, <1>7, <1>8, <1>9 DEF Fits

LEMMA FitsStack ==
    ASSUME NEW t, NEW k, NEW r, OnTop(t, k, r), NEW f, Stack(r, f), Fits(k, r, f)
    PROVE  Stack(t, f)
<1>1. /\ Len(r) \in Nat /\ Len(t) = Len(r) + 1 /\ t[1] = k /\ t \in Seq(Tasks)
      /\ \A i \in 1 .. Len(r) : t[i + 1] = r[i]
  BY DEF OnTop
<1>2. /\ \A i \in 1 .. Len(r) :
            /\ r[i].op = "delete" => r[i].of \in Blocks
            /\ IsAssign(r[i]) => i = Len(r) /\ Assignable(f, r[i])
      /\ \A i, j \in 1 .. Len(r) :
            r[i].op = "delete" /\ r[j].op = "delete" /\ r[i].of = r[j].of => i = j
  BY DEF Stack
<1>3. \A i \in 1 .. Len(r) : r[i].op # "unref"
  BY DEF Fits, Due, OfThe
<1>4. \A i \in 1 .. Len(t) : i = 1 \/ (\E j \in 1 .. Len(r) : i = j + 1 /\ t[i] = r[j])
  <2> TAKE i \in 1 .. Len(t)
  <2>1. i # 1 => i - 1 \in 1 .. Len(r) /\ i = (i - 1) + 1
    BY <1>1
  <2> QED BY <1>1, <2>1
<1>5. ASSUME NEW i \in 1 .. Len(t)
      PROVE  /\ t[i].op = "unref" => i = 1 /\ t[i].of \in Blocks
             /\ t[i].op = "delete" => t[i].of \in Blocks
             /\ IsAssign(t[i]) => i = Len(t) /\ Assignable(f, t[i])
  <2>1. CASE i = 1
    <3>1. r = <<>> => Len(r) = 0
      OBVIOUS
    <3> QED BY <1>1, <2>1, <3>1 DEF Fits
  <2>2. CASE i # 1
    <3>1. PICK j \in 1 .. Len(r) : i = j + 1 /\ t[i] = r[j]
      BY <1>4, <2>2
    <3>2. j = Len(r) => i = Len(t)
      BY <1>1, <3>1
    <3> QED BY <1>2, <1>3, <3>1, <3>2
  <2> QED BY <2>1, <2>2
<1>6. \A j \in 1 .. Len(r) : k.op = "delete" /\ r[j].op = "delete" => r[j].of # k.of
  BY DEF Fits, Dying, OfThe
<1>7. ASSUME NEW i \in 1 .. Len(t), NEW j \in 1 .. Len(t),
             t[i].op = "delete", t[j].op = "delete", t[i].of = t[j].of
      PROVE  i = j
  <2>1. (i = 1 \/ (\E m \in 1 .. Len(r) : i = m + 1 /\ t[i] = r[m]))
        /\ (j = 1 \/ (\E m \in 1 .. Len(r) : j = m + 1 /\ t[j] = r[m]))
    BY <1>4
  <2> QED BY <1>1, <1>2, <1>6, <1>7, <2>1
<1> QED BY <1>1, <1>5, <1>7 DEF Stack

LEMMA EmptyStack ==
    ASSUME NEW f
    PROVE  Stack(<<>>, f) /\ Due(<<>>) = {} /\ Dying(<<>>) = {} /\ Stale(<<>>) = {}
<1>1. <<>> \in Seq(Tasks) /\ Len(<<>>) = 0
  OBVIOUS
<1>2. 1 .. 0 = {}
  OBVIOUS
<1> QED BY <1>1, <1>2 DEF Stack, Due, Dying, Stale, OfThe

(* To the stack a pointer matters only if it is the client's, or belongs to *)
(* an object at which another points than the one assigned to.              *)
LEMMA SameStack ==
    ASSUME NEW t, NEW f, NEW g, Stack(t, f),
           \A x \in Pointers : g[x] = f[x] \/ (x \in Blocks /\ Holders(f, Stale(t), x) = {})
    PROVE  Stack(t, g)
<1>1. ASSUME NEW i \in 1 .. Len(t), IsAssign(t[i]), Assignable(f, t[i])
      PROVE  Assignable(g, t[i])
  <2>1. \A x \in Stale(t) : x = t[i].of
    <3> SUFFICES ASSUME NEW x \in Stale(t) PROVE x = t[i].of
      OBVIOUS
    <3>1. PICK j \in 1 .. Len(t) : t[j].op \in {"copy", "move"} /\ t[j].of = x
      BY DEF Stale, OfThe
    <3>2. i = Len(t) /\ j = Len(t)
      BY <1>1, <3>1 DEF Stack, IsAssign
    <3> QED BY <3>1, <3>2
  <2>2. ASSUME NEW x, Kept(f, x, t[i].of) PROVE Kept(g, x, t[i].of)
    <3>1. CASE x \in Locals
      BY <3>1 DEF Kept
    <3>2. CASE x \notin Locals
      <4>1. PICK K \in SUBSET Blocks :
               x \in K /\ \A b \in K : \E y \in (Locals \cup K) \ {t[i].of} : f[y] = b
        BY <2>2, <3>2 DEF Kept
      <4>2. ASSUME NEW y \in Locals \cup K PROVE g[y] = f[y]
        <5>1. CASE y \in Locals
          BY <5>1, BlocksAre DEF Pointers
        <5>2. CASE y \in K
          <6>1. PICK z \in (Locals \cup K) \ {t[i].of} : f[z] = y
            BY <4>1, <5>2
          <6>2. z \in Holders(f, Stale(t), y)
            BY <2>1, <6>1 DEF Holders, Pointers
          <6> QED BY <5>2, <6>2 DEF Pointers
        <5> QED BY <5>1, <5>2
      <4>3. \A b \in K : \E y \in (Locals \cup K) \ {t[i].of} : g[y] = b
        BY <4>1, <4>2
      <4> QED BY <4>1, <4>3 DEF Kept
    <3> QED BY <3>1, <3>2
  <2> QED BY <1>1, <2>2 DEF Assignable
<1> QED BY <1>1 DEF Stack

(* What lies on top, and what is left without it.                           *)
LEMMA Popped ==
    ASSUME NEW t, NEW f, Stack(t, f), t # <<>>,
           NEW k, k = Head(t), NEW r, r = Tail(t)
    PROVE  /\ k \in Tasks /\ Stack(r, f) /\ Due(r) = {}
           /\ k.op = "unref" =>
                 k.of \in Blocks /\ Due(t) = {k.of} /\ Dying(r) = Dying(t) /\ Stale(r) = Stale(t)
           /\ k.op = "delete" =>
                 /\ k.of \in Blocks /\ k.of \in Dying(t) /\ Dying(r) = Dying(t) \ {k.of}
                 /\ Due(t) = {} /\ Stale(r) = Stale(t)
           /\ IsAssign(k) =>
                 /\ r = <<>> /\ Assignable(f, k) /\ Stale(t) = {k.of}
                 /\ Due(t) = {} /\ Dying(t) = {}
<1>1. OnTop(t, k, r) /\ k \in Tasks
  <2>1. t \in Seq(Tasks)
    BY DEF Stack
  <2>2. OnTop(t, Head(t), Tail(t))
    BY <2>1, HeadIsOnTop
  <2> QED BY <2>2 DEF OnTop
<1>2. Stack(r, f) /\ Fits(k, r, f)
  BY <1>1, StackFits
<1>3. /\ Due(t) = Due(r) \cup IF k.op \in {"unref"} THEN {k.of} ELSE {}
      /\ Dying(t) = Dying(r) \cup IF k.op \in {"delete"} THEN {k.of} ELSE {}
      /\ Stale(t) = Stale(r) \cup IF k.op \in {"copy", "move"} THEN {k.of} ELSE {}
  BY <1>1, OfTheTop DEF Due, Dying, Stale
<1>4. k.op = "unref" =>
         k.of \in Blocks /\ Due(t) = {k.of} /\ Dying(r) = Dying(t) /\ Stale(r) = Stale(t)
  BY <1>2, <1>3 DEF Fits
<1>5. k.op = "delete" =>
         /\ k.of \in Blocks /\ k.of \in Dying(t) /\ Dying(r) = Dying(t) \ {k.of}
         /\ Due(t) = {} /\ Stale(r) = Stale(t)
  BY <1>2, <1>3 DEF Fits
<1>6. ASSUME IsAssign(k)
      PROVE  /\ r = <<>> /\ Assignable(f, k) /\ Stale(t) = {k.of}
             /\ Due(t) = {} /\ Dying(t) = {}
  <2>1. r = <<>> /\ Assignable(f, k) /\ Due(r) = {}
    BY <1>2, <1>6 DEF Fits
  <2>2. Dying(<<>>) = {} /\ Stale(<<>>) = {}
    BY EmptyStack
  <2> QED BY <1>3, <1>6, <2>1, <2>2 DEF IsAssign
<1> QED BY <1>1, <1>2, <1>4, <1>5, <1>6 DEF Fits

LEMMA Pushed ==
    ASSUME NEW r, NEW f, Stack(r, f), NEW k \in Tasks, Fits(k, r, f)
    PROVE  /\ Stack(<<k>> \o r, f)
           /\ Due(<<k>> \o r) = IF k.op = "unref" THEN {k.of} ELSE {}
           /\ Dying(<<k>> \o r) = Dying(r) \cup IF k.op = "delete" THEN {k.of} ELSE {}
           /\ Stale(<<k>> \o r) = Stale(r) \cup IF IsAssign(k) THEN {k.of} ELSE {}
<1> DEFINE t == <<k>> \o r
<1>1. OnTop(t, k, r)
  BY PushIsOnTop DEF Stack
<1> HIDE DEF t
<1>2. Stack(t, f)
  BY <1>1, FitsStack
<1>3. /\ Due(t) = Due(r) \cup IF k.op \in {"unref"} THEN {k.of} ELSE {}
      /\ Dying(t) = Dying(r) \cup IF k.op \in {"delete"} THEN {k.of} ELSE {}
      /\ Stale(t) = Stale(r) \cup IF k.op \in {"copy", "move"} THEN {k.of} ELSE {}
  BY <1>1, OfTheTop DEF Due, Dying, Stale
<1>4. Due(r) = {}
  BY DEF Fits
<1>5. Due(t) = IF k.op = "unref" THEN {k.of} ELSE {}
  BY <1>3, <1>4
<1>6. Dying(t) = Dying(r) \cup IF k.op = "delete" THEN {k.of} ELSE {}
  BY <1>3
<1>7. Stale(t) = Stale(r) \cup IF IsAssign(k) THEN {k.of} ELSE {}
  BY <1>3 DEF IsAssign
<1> QED BY <1>2, <1>5, <1>6, <1>7 DEF t

(* A pointer at v goes.                                                     *)
LEMMA PushedUnref ==
    ASSUME NEW r, NEW f, Stack(r, f), Due(r) = {}, NEW v
    PROVE  /\ Unref(v) \in Seq(Tasks)
           /\ Stack(Unref(v) \o r, f)
           /\ Due(Unref(v) \o r) = {v} \cap Blocks
           /\ Dying(Unref(v) \o r) = Dying(r)
           /\ Stale(Unref(v) \o r) = Stale(r)
<1>1. CASE v \in Blocks
  <2> DEFINE k == Task("unref", v, NULL, TRUE)
  <2>1. k \in Tasks /\ k.op = "unref" /\ k.of = v
    BY <1>1 DEF Pointers, Task, Tasks
  <2> HIDE DEF k
  <2>2. Fits(k, r, f) /\ ~IsAssign(k)
    BY <1>1, <2>1 DEF Fits, IsAssign
  <2>3. /\ Stack(<<k>> \o r, f)
        /\ Due(<<k>> \o r) = IF k.op = "unref" THEN {k.of} ELSE {}
        /\ Dying(<<k>> \o r) = Dying(r) \cup IF k.op = "delete" THEN {k.of} ELSE {}
        /\ Stale(<<k>> \o r) = Stale(r) \cup IF IsAssign(k) THEN {k.of} ELSE {}
    BY <2>1, <2>2, Pushed
  <2>4. Unref(v) = <<k>>
    BY <1>1 DEF Unref, k
  <2>5. <<k>> \in Seq(Tasks)
    <3> HIDE DEF Tasks
    <3> QED BY <2>1
  <2>6. {v} \cap Blocks = {v}
    BY <1>1
  <2> QED BY <2>1, <2>2, <2>3, <2>4, <2>5, <2>6
<1>2. CASE v \notin Blocks
  <2>1. Unref(v) = <<>> /\ {v} \cap Blocks = {} /\ r \in Seq(Tasks)
    BY <1>2 DEF Unref, Stack
  <2>2. <<>> \o r = r /\ <<>> \in Seq(Tasks)
    <3> HIDE DEF Tasks
    <3> QED BY <2>1, ConcatEmptySeq
  <2> QED BY <2>1, <2>2
<1> QED BY <1>1, <1>2

(* The stacks of the calls: of a destructor, of an assignment, and of an    *)
(* object that goes with its last reference.                                *)
LEMMA DropStack ==
    ASSUME NEW v, NEW f
    PROVE  /\ Stack(Unref(v), f) /\ Due(Unref(v)) = {v} \cap Blocks
           /\ Dying(Unref(v)) = {} /\ Stale(Unref(v)) = {}
<1>1. Stack(<<>>, f) /\ Due(<<>>) = {} /\ Dying(<<>>) = {} /\ Stale(<<>>) = {}
  BY EmptyStack
<1>2. /\ Unref(v) \in Seq(Tasks)
      /\ Stack(Unref(v) \o <<>>, f)
      /\ Due(Unref(v) \o <<>>) = {v} \cap Blocks
      /\ Dying(Unref(v) \o <<>>) = Dying(<<>>)
      /\ Stale(Unref(v) \o <<>>) = Stale(<<>>)
  BY <1>1, PushedUnref
<1>3. Unref(v) \o <<>> = Unref(v)
  BY <1>2, ConcatEmptySeq
<1> QED BY <1>1, <1>2, <1>3

LEMMA AssignStack ==
    ASSUME NEW v, NEW f, NEW k \in Tasks, IsAssign(k), Assignable(f, k)
    PROVE  /\ Stack(Unref(v) \o <<k>>, f) /\ Due(Unref(v) \o <<k>>) = {v} \cap Blocks
           /\ Dying(Unref(v) \o <<k>>) = {} /\ Stale(Unref(v) \o <<k>>) = {k.of}
<1>1. Stack(<<>>, f) /\ Due(<<>>) = {} /\ Dying(<<>>) = {} /\ Stale(<<>>) = {}
  BY EmptyStack
<1>2. Fits(k, <<>>, f)
  BY <1>1 DEF Fits, IsAssign
<1>3. /\ Stack(<<k>> \o <<>>, f)
      /\ Due(<<k>> \o <<>>) = IF k.op = "unref" THEN {k.of} ELSE {}
      /\ Dying(<<k>> \o <<>>) = Dying(<<>>) \cup IF k.op = "delete" THEN {k.of} ELSE {}
      /\ Stale(<<k>> \o <<>>) = Stale(<<>>) \cup IF IsAssign(k) THEN {k.of} ELSE {}
  BY <1>1, <1>2, Pushed
<1>4. <<k>> \o <<>> = <<k>>
  <2> HIDE DEF Tasks
  <2>1. <<k>> \in Seq(Tasks)
    OBVIOUS
  <2> QED BY <2>1, ConcatEmptySeq
<1>5. k.op # "unref" /\ k.op # "delete"
  BY DEF IsAssign
<1>6. Stack(<<k>>, f) /\ Due(<<k>>) = {} /\ Dying(<<k>>) = {} /\ Stale(<<k>>) = {k.of}
  BY <1>1, <1>3, <1>4, <1>5
<1>7. /\ Stack(Unref(v) \o <<k>>, f)
      /\ Due(Unref(v) \o <<k>>) = {v} \cap Blocks
      /\ Dying(Unref(v) \o <<k>>) = Dying(<<k>>)
      /\ Stale(Unref(v) \o <<k>>) = Stale(<<k>>)
  BY <1>6, PushedUnref
<1> QED BY <1>6, <1>7

Deletion(v, u, r) == Unref(v) \o <<Task("delete", u, NULL, TRUE)>> \o r

LEMMA LastStack ==
    ASSUME NEW r, NEW f, Stack(r, f), Due(r) = {}, NEW v, NEW u \in Blocks, u \notin Dying(r),
           NEW t, t = Deletion(v, u, r)
    PROVE  /\ Stack(t, f) /\ Due(t) = {v} \cap Blocks
           /\ Dying(t) = Dying(r) \cup {u} /\ Stale(t) = Stale(r)
<1> DEFINE k == Task("delete", u, NULL, TRUE)
<1>1. k \in Tasks /\ k.op = "delete" /\ k.of = u
  BY DEF Pointers, Task, Tasks
<1>2. t = Unref(v) \o <<k>> \o r
  BY DEF Deletion
<1> HIDE DEF k
<1>3. Fits(k, r, f) /\ ~IsAssign(k)
  BY <1>1 DEF Fits, IsAssign
<1>4. /\ Stack(<<k>> \o r, f)
      /\ Due(<<k>> \o r) = IF k.op = "unref" THEN {k.of} ELSE {}
      /\ Dying(<<k>> \o r) = Dying(r) \cup IF k.op = "delete" THEN {k.of} ELSE {}
      /\ Stale(<<k>> \o r) = Stale(r) \cup IF IsAssign(k) THEN {k.of} ELSE {}
  BY <1>1, <1>3, Pushed
<1>5. /\ Stack(<<k>> \o r, f) /\ Due(<<k>> \o r) = {}
      /\ Dying(<<k>> \o r) = Dying(r) \cup {u} /\ Stale(<<k>> \o r) = Stale(r)
  BY <1>1, <1>3, <1>4
<1>6. /\ Unref(v) \in Seq(Tasks)
      /\ Stack(Unref(v) \o (<<k>> \o r), f)
      /\ Due(Unref(v) \o (<<k>> \o r)) = {v} \cap Blocks
      /\ Dying(Unref(v) \o (<<k>> \o r)) = Dying(<<k>> \o r)
      /\ Stale(Unref(v) \o (<<k>> \o r)) = Stale(<<k>> \o r)
  BY <1>5, PushedUnref
<1>7. t = Unref(v) \o (<<k>> \o r)
  <2> HIDE DEF Tasks
  <2>1. <<k>> \in Seq(Tasks) /\ r \in Seq(Tasks) /\ Unref(v) \in Seq(Tasks)
    BY <1>1, <1>6 DEF Stack
  <2>2. (Unref(v) \o <<k>>) \o r = Unref(v) \o (<<k>> \o r)
    BY <2>1, ConcatAssociative
  <2> QED BY <1>2, <2>2
<1> QED BY <1>5, <1>6, <1>7

-----------------------------------------------------------------------------
(* The pool. *)

FreeListSpelled == \E f : Spells(plink, FreeHead, f) /\ ToSet(f) = Blocks \ pout

Contents == {"zero", "init", "used", "given up"}

PoolInv ==
    /\ plink \in [Blocks \cup {FreeHead} -> Blocks \cup {NULL}]
    /\ pmem \in [Blocks -> Contents]
    /\ pconf \in [zero : BOOLEAN, callback : BOOLEAN]
    /\ pout \subseteq Blocks
    /\ plife \in {"live", "gone"} /\ (plife = "gone" => pout = {})
    /\ FreeListSpelled
    /\ NoOldData
    /\ GivenUpTogether

LEMMA FreeListSpelledNext ==
    (FreeListSpelled <=> \E f : Spells(plink, FreeHead, f) /\ ToSet(f) = Blocks \ pout)'
<1>1. FreeListSpelled <=> \E f : Spells(plink, FreeHead, f) /\ ToSet(f) = Blocks \ pout
  BY DEF FreeListSpelled
<1> QED BY <1>1, PTL

LEMMA ElementsCounted ==
    ASSUME NEW s, Elements(s)
    PROVE  Cardinality(ToSet(s)) = Len(s)
<1>1. /\ Len(s) \in Nat /\ DOMAIN s = 1 .. Len(s)
      /\ \A i, j \in 1 .. Len(s) : s[i] = s[j] => i = j
      /\ ToSet(s) = {s[i] : i \in 1 .. Len(s)}
  BY ElementsAre
<1>2. s \in [1 .. Len(s) -> ToSet(s)]
  <2>1. s \in [1 .. Len(s) -> Nodes] /\ \A i \in 1 .. Len(s) : s[i] \in ToSet(s)
    BY <1>1, LenProperties DEF Elements
  <2> QED BY <2>1
<1>3. s \in Bijection(1 .. Len(s), ToSet(s))
  BY <1>1, <1>2 DEF Bijection, Injection, Surjection, IsInjective
<1>4. ExistsBijection(1 .. Len(s), ToSet(s))
  BY <1>3 DEF ExistsBijection
<1> QED BY <1>1, <1>4, FS_CountingElements

LEMMA PoolStarts == PoolInit => PoolInv
<1> SUFFICES ASSUME PoolInit PROVE PoolInv
  OBVIOUS
<1>1. Count \in Nat /\ Count > 0 /\ Blocks = 1 .. Count /\ Nodes = Blocks
  BY CountAssumption DEF Blocks
<1>2. FreeHead \notin Blocks /\ NULL \notin Blocks
  BY BlocksAre
<1>3. plink = [p \in Blocks \cup {FreeHead} |->
                   IF p = FreeHead THEN 1 ELSE IF p = Count THEN NULL ELSE p + 1]
  BY DEF PoolInit
<1>4. \A p \in Blocks : p # FreeHead /\ (p # Count => p + 1 \in Blocks)
  BY <1>1, <1>2
<1>5. plink \in [Blocks \cup {FreeHead} -> Blocks \cup {NULL}]
  <2>1. 1 \in Blocks
    BY <1>1
  <2> QED BY <1>3, <1>4, <2>1
<1>6. PICK f : f = [i \in 1 .. Count |-> i]
  OBVIOUS
<1>7. f \in Seq(Nodes) /\ Len(f) = Count /\ (\A i \in 1 .. Count : f[i] = i)
  BY <1>1, <1>6
<1>8. Elements(f) /\ ToSet(f) = Blocks
  <2>1. IsInjective(f)
    BY <1>1, <1>6 DEF IsInjective
  <2>2. Elements(f)
    BY <1>7, <2>1 DEF Elements
  <2>3. ToSet(f) = {f[i] : i \in 1 .. Count}
    BY <1>7, <2>2, ElementsAre
  <2> QED BY <1>1, <1>7, <2>2, <2>3
<1>9. \A i \in 0 .. Len(f) : Reached(FreeHead, f, i) = IF i = 0 THEN FreeHead ELSE i
  <2> TAKE i \in 0 .. Len(f)
  <2>1. i # 0 => i \in 1 .. Count
    BY <1>1, <1>7
  <2> QED BY <1>7, <2>1 DEF Reached
<1>10. ASSUME NEW i \in 0 .. Len(f) - 1 PROVE plink[Reached(FreeHead, f, i)] = f[i + 1]
  <2>1. i \in 0 .. Len(f) /\ i + 1 \in 1 .. Count /\ i # Count /\ f[i + 1] = i + 1
    BY <1>1, <1>7
  <2>2. CASE i = 0
    BY <1>3, <1>9, <2>1, <2>2
  <2>3. CASE i # 0
    <3>1. i \in Blocks /\ i # FreeHead
      BY <1>1, <1>2, <1>7, <2>3
    <3> QED BY <1>3, <1>9, <2>1, <2>3, <3>1
  <2> QED BY <2>2, <2>3
<1>11. plink[Reached(FreeHead, f, Len(f))] \notin Nodes
  <2>1. Count \in 0 .. Len(f) /\ Count # 0 /\ Count \in Blocks /\ Count # FreeHead
    BY <1>1, <1>2, <1>7
  <2>2. Reached(FreeHead, f, Count) = Count /\ plink[Count] = NULL
    BY <1>3, <1>9, <2>1
  <2> QED BY <1>1, <1>2, <1>7, <2>2
<1>12. Spells(plink, FreeHead, f)
  BY <1>8, <1>10, <1>11 DEF Spells
<1>13. pout = {} /\ FreeListSpelled
  BY <1>8, <1>12 DEF FreeListSpelled, PoolInit
<1>14. /\ pmem \in [Blocks -> Contents]
       /\ \A b \in Blocks : pmem[b] # "used" /\ pmem[b] # "given up"
  BY DEF PoolInit, Contents
<1> QED BY <1>5, <1>13, <1>14 DEF PoolInv, PoolInit, NoOldData, GivenUpTogether

LEMMA PoolIsSound == PoolInv => FreeListIsSound
<1> SUFFICES ASSUME PoolInv PROVE FreeListIsSound
  OBVIOUS
<1>1. PICK f : Spells(plink, FreeHead, f) /\ ToSet(f) = Blocks \ pout
  BY DEF PoolInv, FreeListSpelled
<1>2. Nodes = Blocks /\ DOMAIN plink = Blocks \cup {FreeHead}
  BY DEF PoolInv, Blocks
<1>3. Nodes \subseteq DOMAIN plink /\ FreeHead \in DOMAIN plink
  BY <1>2
<1>4. Free = f
  BY <1>1, <1>3, ChainIs DEF Free
<1>5. LastPlace(plink, FreeHead) = Reached(FreeHead, f, Len(f))
  BY <1>1, <1>3, LastPlaceIs
<1>6. Elements(f) /\ Len(f) \in Nat /\ plink[Reached(FreeHead, f, Len(f))] \notin Nodes
  BY <1>1, ElementsAre DEF Spells
<1>7. Reached(FreeHead, f, Len(f)) \in Nodes \cup {FreeHead}
  BY <1>6, ReachedIs
<1>8. plink[Reached(FreeHead, f, Len(f))] = NULL
  BY <1>2, <1>6, <1>7 DEF PoolInv
<1>9. Cardinality(ToSet(f)) = Len(f)
  BY <1>6, ElementsCounted
<1> QED BY <1>1, <1>4, <1>5, <1>8, <1>9 DEF FreeListIsSound, FreeListIsTheRest, PoolInv

LEMMA AllocKeepsPool ==
    ASSUME PoolInv, plife = "live", NEW b \in Blocks, AllocBlock(b)
    PROVE  /\ PoolInv' /\ b \in Blocks \ pout /\ pout' = pout \cup {b}
<1>1. PICK f : Spells(plink, FreeHead, f) /\ ToSet(f) = Blocks \ pout
  BY DEF PoolInv, FreeListSpelled
<1>2. Nodes = Blocks /\ FreeHead \notin Nodes /\ NULL \notin Blocks
  BY BlocksAre DEF Blocks
<1>3. /\ b = plink[FreeHead] /\ pout' = pout \cup {b} /\ pconf' = pconf
      /\ plink' = [plink EXCEPT ![b] = NULL, ![FreeHead] = plink[b]]
      /\ pmem' = [pmem EXCEPT ![b] = "used"] /\ plife' = plife
  BY DEF AllocBlock
<1>4. plink \in [Blocks \cup {FreeHead} -> Blocks \cup {NULL}]
  BY DEF PoolInv
<1>5. PICK next2 : next2 = plink'
  OBVIOUS
<1>6. /\ next2 \in [Blocks \cup {FreeHead} -> Blocks \cup {NULL}]
      /\ next2[FreeHead] = plink[b]
      /\ \A q \in Nodes \cup {FreeHead} : q # FreeHead /\ q # b => next2[q] = plink[q]
  <2> HIDE DEF Blocks
  <2> QED BY <1>2, <1>3, <1>4, <1>5
<1>7. Elements(f) /\ Len(f) \in Nat /\ f \in Seq(Nodes)
  BY <1>1, ElementsAre DEF Spells, Elements
<1>8. Len(f) # 0
  <2>1. Reached(FreeHead, f, 0) = FreeHead
    BY <1>7, ReachedIs
  <2> QED BY <1>1, <1>2, <1>3, <2>1 DEF Spells
<1>9. 1 \in 1 .. Len(f) /\ f[1] = b /\ Reached(FreeHead, f, 0) = FreeHead
  <2>1. 0 \in 0 .. Len(f) - 1 /\ 0 + 1 = 1 /\ Reached(FreeHead, f, 0) = FreeHead
    BY <1>7, <1>8, ReachedIs
  <2>2. plink[Reached(FreeHead, f, 0)] = f[0 + 1]
    BY <1>1, <2>1 DEF Spells
  <2> QED BY <1>3, <1>7, <1>8, <2>1, <2>2
<1>10. PICK t : t = RemoveAt(f, 1)
  OBVIOUS
<1>11. Shrunk(f, 1, t)
  BY <1>7, <1>9, <1>10, RemoveAtShrinks
<1>12. ToSet(t) = ToSet(f) \ {b} /\ Elements(t)
  BY <1>7, <1>9, <1>11, ShrunkElements
<1>13. Spells(next2, FreeHead, t)
  <2>1. /\ 1 - 1 = 0 /\ next2[Reached(FreeHead, f, 1 - 1)] = plink[f[1]]
        /\ \A q \in Nodes \cup {FreeHead} :
              q # Reached(FreeHead, f, 1 - 1) /\ q # f[1] => next2[q] = plink[q]
    BY <1>6, <1>9
  <2> QED BY <1>1, <1>2, <1>9, <1>11, <2>1, RemovedSpells
<1>14. b \in ToSet(f)
  BY <1>7, <1>9, ElementsAre
<1>15. ToSet(t) = Blocks \ pout'
  BY <1>1, <1>3, <1>12
<1>16. FreeListSpelled'
  <2>1. \E g : Spells(plink', FreeHead, g) /\ ToSet(g) = Blocks \ pout'
    BY <1>5, <1>13, <1>15
  <2> QED BY <2>1, FreeListSpelledNext
<1>17. pmem' \in [Blocks -> Contents] /\ pout' \subseteq Blocks /\ NoOldData' /\ GivenUpTogether'
  BY <1>3 DEF PoolInv, NoOldData, GivenUpTogether, Contents
<1> QED BY <1>1, <1>3, <1>5, <1>6, <1>14, <1>16, <1>17 DEF PoolInv

LEMMA FreeKeepsPool ==
    ASSUME PoolInv, NEW b \in pout, FreeBlock(b)
    PROVE  PoolInv' /\ pout' = pout \ {b}
<1>1. PICK f : Spells(plink, FreeHead, f) /\ ToSet(f) = Blocks \ pout
  BY DEF PoolInv, FreeListSpelled
<1>2. Nodes = Blocks /\ FreeHead \notin Nodes /\ NULL \notin Blocks /\ b \in Blocks /\ b # FreeHead
  BY BlocksAre DEF Blocks, PoolInv
<1>3. /\ plink' = [plink EXCEPT ![b] = plink[FreeHead], ![FreeHead] = b]
      /\ pmem' = [pmem EXCEPT ![b] = IF pconf.zero THEN "zero" ELSE @]
      /\ pout' = pout \ {b} /\ pconf' = pconf /\ plife' = plife /\ plife # "gone"
  BY DEF FreeBlock, PoolInv
<1>4. plink \in [Blocks \cup {FreeHead} -> Blocks \cup {NULL}]
  BY DEF PoolInv
<1>5. PICK next2 : next2 = plink'
  OBVIOUS
<1>6. /\ next2 \in [Blocks \cup {FreeHead} -> Blocks \cup {NULL}]
      /\ next2[FreeHead] = b /\ next2[b] = plink[FreeHead]
      /\ \A q \in Nodes \cup {FreeHead} : q # b /\ q # FreeHead => next2[q] = plink[q]
  <2> HIDE DEF Blocks
  <2> QED BY <1>2, <1>3, <1>4, <1>5
<1>7. Elements(f) /\ Len(f) \in Nat /\ f \in Seq(Nodes)
  BY <1>1, ElementsAre DEF Spells, Elements
<1>8. b \in Nodes \ ToSet(f) /\ 1 \in 1 .. Len(f) + 1
  BY <1>1, <1>2, <1>7
<1>9. PICK t : t = <<b>> \o f
  OBVIOUS
<1>10. Grown(f, 1, b, t)
  BY <1>7, <1>8, <1>9, ConsGrows
<1>11. ToSet(t) = ToSet(f) \cup {b}
  BY <1>7, <1>8, <1>10, GrownElements
<1>12. Spells(next2, FreeHead, t)
  <2>1. 1 - 1 = 0 /\ Reached(FreeHead, f, 1 - 1) = FreeHead
    BY <1>7, ReachedIs
  <2>2. /\ next2[Reached(FreeHead, f, 1 - 1)] = b
        /\ next2[b] = plink[Reached(FreeHead, f, 1 - 1)]
        /\ \A q \in Nodes \cup {FreeHead} :
              q # b /\ q # Reached(FreeHead, f, 1 - 1) => next2[q] = plink[q]
    BY <1>6, <2>1
  <2> QED BY <1>1, <1>2, <1>8, <1>10, <2>2, InsertedSpells
<1>13. ToSet(t) = Blocks \ pout'
  BY <1>1, <1>2, <1>3, <1>11
<1>14. FreeListSpelled'
  <2>1. \E g : Spells(plink', FreeHead, g) /\ ToSet(g) = Blocks \ pout'
    BY <1>5, <1>12, <1>13
  <2> QED BY <2>1, FreeListSpelledNext
<1>15. pmem' \in [Blocks -> Contents] /\ pout' \subseteq Blocks /\ NoOldData' /\ GivenUpTogether'
  BY <1>2, <1>3 DEF PoolInv, NoOldData, GivenUpTogether, Contents
<1> QED BY <1>3, <1>5, <1>6, <1>14, <1>15 DEF PoolInv

LEMMA PoolStays ==
    ASSUME PoolInv, UNCHANGED pvars
    PROVE  PoolInv'
<1>1. FreeListSpelled'
  <2>1. \E f : Spells(plink', FreeHead, f) /\ ToSet(f) = Blocks \ pout'
    BY DEF PoolInv, FreeListSpelled, pvars
  <2> QED BY <2>1, FreeListSpelledNext
<1> QED BY <1>1 DEF PoolInv, NoOldData, GivenUpTogether, pvars

LEMMA PoolGoes ==
    ASSUME PoolInv, PoolFree
    PROVE  PoolInv'
<1>1. PICK callback \in BOOLEAN :
         pmem' = [b \in Blocks |-> IF callback /\ b \in ToSet(Free) THEN "given up" ELSE pmem[b]]
  BY DEF PoolFree
<1>2. plife = "live" /\ pout = {} /\ plife' = "gone" /\ UNCHANGED <<plink, pconf, pout>>
  BY DEF PoolFree
<1>3. FreeListSpelled'
  <2>1. \E f : Spells(plink', FreeHead, f) /\ ToSet(f) = Blocks \ pout'
    BY <1>2 DEF PoolInv, FreeListSpelled
  <2> QED BY <2>1, FreeListSpelledNext
<1>4. ToSet(Free) = Blocks
  BY <1>2, PoolIsSound DEF FreeListIsSound, FreeListIsTheRest
<1>5. \A b \in Blocks : pmem[b] # "given up" /\ pmem'[b] = IF callback THEN "given up" ELSE pmem[b]
  BY <1>1, <1>2, <1>4 DEF PoolInv, GivenUpTogether
<1>6. pmem' \in [Blocks -> Contents]
  BY <1>1 DEF PoolInv, Contents
<1>7. NoOldData' /\ GivenUpTogether'
  BY <1>2, <1>5 DEF PoolInv, NoOldData, GivenUpTogether
<1> QED BY <1>2, <1>3, <1>6, <1>7 DEF PoolInv

-----------------------------------------------------------------------------
(* The invariant.  Within a call a count differs from the number of         *)
(* pointers by the one reference about to be given back, and by the target  *)
(* of the assignment in progress, which counts for nothing; what is         *)
(* allocated and has no references waits on the stack for its memory to go  *)
(* back.                                                                    *)

RcTypes ==
    /\ Typed(count, ptr, pout)
    /\ life \in {"live", "undefined", "freed read"}

RcInv ==
    /\ PoolInv
    /\ RcTypes
    /\ Stack(todo, ptr)
    /\ Counted(count, ptr, pout, Due(todo), Dying(todo), Stale(todo))
    /\ RcSafeWhenHeld

LEMMA RcStarts == RcInit => RcInv
<1> SUFFICES ASSUME RcInit PROVE RcInv
  OBVIOUS
<1>1. PoolInv /\ pout = {}
  BY PoolStarts DEF RcInit, PoolInit
<1>2. /\ count = [b \in Blocks |-> 0] /\ ptr = [p \in Pointers |-> Gone]
      /\ todo = <<>> /\ life = "live"
  BY DEF RcInit
<1>3. RcTypes
  <2>1. Gone \in Targets
    BY DEF Targets
  <2> QED BY <1>1, <1>2, <2>1 DEF RcTypes, Typed
<1>4. Stack(todo, ptr) /\ Due(todo) = {} /\ Dying(todo) = {} /\ Stale(todo) = {}
  BY <1>2, EmptyStack
<1>5. Counted(count, ptr, pout, {}, {}, {})
  <2> SUFFICES ASSUME NEW b \in Blocks
               PROVE  /\ count[b] = Cardinality(Holders(ptr, {}, b)) + IF b \in {} THEN 1 ELSE 0
                      /\ b \notin pout => count[b] = 0 /\ ptr[b] = Gone
                      /\ b \in {} <=> b \in pout /\ count[b] = 0
                      /\ b \in {} => ptr[b] = Gone
    BY DEF Counted
  <2>1. Holders(ptr, {}, b) = {}
    BY <1>2, BlocksAre DEF Holders
  <2>2. Cardinality({}) = 0
    BY FS_EmptySet
  <2>3. b \in Pointers /\ b \notin pout
    BY <1>1 DEF Pointers
  <2>4. count[b] = 0 /\ ptr[b] = Gone
    BY <1>2, <2>3
  <2> QED BY <2>1, <2>2, <2>3, <2>4
<1> QED BY <1>1, <1>2, <1>3, <1>4, <1>5 DEF RcInv, RcSafeWhenHeld

(* Between calls nothing is owed.                                           *)
LEMMA AtRest ==
    ASSUME RcInv, todo = <<>>
    PROVE  Counted(count, ptr, pout, {}, {}, {})
<1>1. Due(<<>>) = {} /\ Dying(<<>>) = {} /\ Stale(<<>>) = {}
  BY EmptyStack
<1> QED BY <1>1 DEF RcInv

LEMMA CountsAreSound == RcInv => CountIsPointers
<1> SUFFICES ASSUME RcInv, Idle, NEW b \in Blocks
             PROVE  LET at == {p \in Pointers : ptr[p] = b}
                    IN  /\ b \in pout <=> at # {}
                        /\ count[b] = Cardinality(at)
  BY DEF CountIsPointers
<1>1. Counted(count, ptr, pout, {}, {}, {})
  BY AtRest DEF Idle
<1>2. Holders(ptr, {}, b) = {p \in Pointers : ptr[p] = b}
  BY DEF Holders
<1>3. /\ count[b] = Cardinality(Holders(ptr, {}, b)) + IF b \in {} THEN 1 ELSE 0
      /\ b \notin pout => count[b] = 0
      /\ b \in {} <=> b \in pout /\ count[b] = 0
  BY <1>1 DEF Counted
<1>4. /\ Cardinality(Holders(ptr, {}, b)) \in Nat
      /\ Cardinality(Holders(ptr, {}, b)) = 0 <=> Holders(ptr, {}, b) = {}
  BY HoldersType
<1> QED BY <1>2, <1>3, <1>4

(* A reference taken for a new pointer does not wrap the count: there are   *)
(* not as many pointers.                                                    *)
LEMMA RefCounts ==
    ASSUME NEW c \in [Blocks -> Nat], NEW v,
           v \in Blocks => c[v] + 1 <= Cardinality(Pointers)
    PROVE  /\ Ref(c, v) \in [Blocks -> Nat]
           /\ \A b \in Blocks : Ref(c, v)[b] = c[b] + IF v = b THEN 1 ELSE 0
<1>1. CASE v \in Blocks
  <2>1. c[v] \in Nat /\ (c[v] + 1) % Width = c[v] + 1
    BY <1>1, PointersAreFew
  <2>2. Ref(c, v) = [c EXCEPT ![v] = c[v] + 1]
    BY <1>1, <2>1 DEF Ref
  <2> QED BY <1>1, <2>1, <2>2
<1>2. CASE v \notin Blocks
  <2>1. Ref(c, v) = c
    BY <1>2 DEF Ref
  <2> QED BY <1>2, <2>1
<1> QED BY <1>1, <1>2

(* There is a pointer that does not count yet.                              *)
LEMMA RoomToCount ==
    ASSUME NEW c, NEW f, NEW out, Typed(c, f, out),
           NEW dying, NEW stale, Counted(c, f, out, {}, dying, stale),
           NEW p \in Pointers, p \in stale \/ f[p] \notin Blocks, NEW b \in Blocks
    PROVE  c[b] + 1 <= Cardinality(Pointers)
<1>1. c[b] = Cardinality(Holders(f, stale, b)) + IF b \in {} THEN 1 ELSE 0
  BY DEF Counted
<1>2. p \notin Holders(f, stale, b) /\ IsFiniteSet(Holders(f, stale, b))
      /\ Cardinality(Holders(f, stale, b)) \in Nat
  <2>1. p \notin Holders(f, stale, b)
    BY DEF Holders
  <2> QED BY <2>1, HoldersType
<1>3. Cardinality(Holders(f, stale, b) \cup {p}) = Cardinality(Holders(f, stale, b)) + 1
  BY <1>2, FS_AddElement
<1>4. Holders(f, stale, b) \cup {p} \in SUBSET Pointers
  BY DEF Holders
<1>5. Cardinality(Holders(f, stale, b) \cup {p}) <= Cardinality(Pointers)
  BY <1>4, PointersAreFew, FS_Subset
<1> QED BY <1>1, <1>2, <1>3, <1>5

(* A state is described by what the lemmas above speak of.                  *)
LEMMA Described ==
    ASSUME NEW c, c = count', NEW f, f = ptr', NEW out, out = pout', NEW t, t = todo',
           PoolInv', Typed(c, f, out), Stack(t, f),
           Counted(c, f, out, Due(t), Dying(t), Stale(t)),
           life' \in {"live", "undefined"}
    PROVE  RcInv'
<1>1. RcTypes'
  BY DEF RcTypes
<1>2. RcSafeWhenHeld'
  BY DEF RcSafeWhenHeld
<1> QED BY <1>1, <1>2 DEF RcInv

LEMMA CreateKeeps ==
    ASSUME RcInv, NEW p \in Pointers, NEW q \in Pointers, Create(p, q)
    PROVE  RcInv'
<1>1. /\ PoolInv /\ Typed(count, ptr, pout) /\ todo = <<>> /\ life = "live"
      /\ Counted(count, ptr, pout, {}, {}, {})
  BY AtRest DEF RcInv, RcTypes, Create, Idle
<1>2. p \in Locals /\ ptr[p] = Gone /\ todo' = <<>> /\ life' = "live"
  BY <1>1 DEF Create
<1>3. PICK c, f, out : c = count' /\ f = ptr' /\ out = pout'
  OBVIOUS
<1>4. /\ count \in [Blocks -> Nat] /\ ptr \in [Pointers -> Targets] /\ pout \subseteq Blocks
      /\ NULL \notin Blocks /\ Gone \notin Blocks /\ NULL \in Targets /\ Blocks \subseteq Targets
      /\ Locals \cap Blocks = {} /\ Blocks \subseteq Pointers /\ p \notin Blocks
  BY <1>1, <1>2, BlocksAre DEF Typed, Targets, Pointers
<1>5. CASE OpNew(NULL) /\ ptr' = [ptr EXCEPT ![p] = NULL] /\ UNCHANGED <<pvars, count>>
  <2>1. /\ c = count /\ out = pout /\ f[p] = NULL /\ (\A x \in Pointers : x # p => f[x] = ptr[x])
        /\ PoolInv' /\ Typed(c, f, out)
    <3>1. PoolInv' /\ c = count /\ out = pout
      BY <1>1, <1>3, <1>5, PoolStays DEF pvars
    <3> HIDE DEF Blocks, Pointers, Targets
    <3> QED BY <1>3, <1>4, <1>5, <3>1 DEF Typed
  <2>2. Counted(c, f, out, {}, {}, {})
    <3>1. \A b \in Blocks : c[b] = count[b] + IF f[p] = b THEN 1 ELSE 0
      BY <1>4, <2>1
    <3> QED BY <1>1, <1>2, <1>4, <2>1, <3>1, Taken
  <2> QED BY <1>2, <1>3, <2>1, <2>2, EmptyStack, Described
<1>6. ASSUME NEW u \in Blocks, AllocBlock(u), NEW v, v \in Targets, v \in Blocks => \E x \in Pointers : ptr[x] = v,
             ptr' = [ptr EXCEPT ![p] = u, ![u] = v],
             count' = Ref([count EXCEPT ![u] = 1], v)
      PROVE  RcInv'
  <2>1. PoolInv' /\ u \in Blocks \ pout /\ out = pout \cup {u}
    BY <1>1, <1>3, <1>6, AllocKeepsPool DEF Create, Idle
  <2>2. v \in Blocks => v \in pout /\ v # u /\ count[v] + 1 <= Cardinality(Pointers)
    <3> SUFFICES ASSUME v \in Blocks
                 PROVE  v \in pout /\ v # u /\ count[v] + 1 <= Cardinality(Pointers)
      OBVIOUS
    <3>1. PICK x \in Pointers \ {} : ptr[x] = v
      BY <1>6
    <3>2. v \in pout
      BY <1>1, <3>1, TargetIsAlive
    <3>3. count[v] + 1 <= Cardinality(Pointers)
      BY <1>1, <1>2, <1>4, RoomToCount
    <3> QED BY <2>1, <3>2, <3>3
  <2>3. PICK m : m = [count EXCEPT ![u] = 1]
    OBVIOUS
  <2>4. m \in [Blocks -> Nat] /\ m[u] = 1 /\ \A b \in Blocks : b # u => m[b] = count[b]
    BY <1>4, <2>3
  <2>5. /\ Ref(m, v) \in [Blocks -> Nat]
        /\ \A b \in Blocks : Ref(m, v)[b] = m[b] + IF v = b THEN 1 ELSE 0
    BY <2>2, <2>4, RefCounts
  <2>6. c = Ref(m, v)
    BY <1>3, <1>6, <2>3
  <2>7. /\ f \in [Pointers -> Targets] /\ f[p] = u /\ f[u] = v
        /\ \A x \in Pointers : x # p /\ x # u => f[x] = ptr[x]
    <3> HIDE DEF Blocks, Pointers, Targets
    <3> QED BY <1>3, <1>4, <1>6
  <2>8. c[u] = 1 /\ \A b \in Blocks : b # u => c[b] = count[b] + IF f[u] = b THEN 1 ELSE 0
    <3>1. v # u
      BY <2>2
    <3>2. m[u] + 0 = 1
      BY <2>4
    <3> QED BY <2>4, <2>5, <2>6, <2>7, <3>1, <3>2
  <2>9. Counted(c, f, pout \cup {u}, {}, {}, {})
    BY <1>1, <1>2, <1>4, <2>1, <2>2, <2>7, <2>8, Adopted
  <2>10. Typed(c, f, out)
    BY <1>4, <2>1, <2>5, <2>6, <2>7 DEF Typed
  <2> QED BY <1>2, <1>3, <2>1, <2>9, <2>10, EmptyStack, Described
<1>7. ASSUME NEW u \in Blocks, AllocBlock(u), Reachable(q),
             ptr' = [ptr EXCEPT ![p] = u, ![u] = ptr[q]],
             count' = Ref([count EXCEPT ![u] = 1], ptr[q])
      PROVE  RcInv'
  <2>1. ptr[q] \in Targets
    BY <1>4
  <2> QED BY <1>6, <1>7, <2>1
<1>8. ASSUME NEW u \in Blocks, AllocBlock(u),
             ptr' = [ptr EXCEPT ![p] = u, ![u] = NULL],
             count' = [count EXCEPT ![u] = 1]
      PROVE  RcInv'
  <2>1. Ref([count EXCEPT ![u] = 1], NULL) = [count EXCEPT ![u] = 1]
    BY <1>4 DEF Ref
  <2> QED BY <1>4, <1>6, <1>8, <2>1
<1> QED BY <1>5, <1>7, <1>8 DEF Create

(* The state between calls, and what a pointer at hand says.                *)
LEMMA BetweenCalls ==
    ASSUME RcInv, Idle
    PROVE  /\ PoolInv /\ Typed(count, ptr, pout) /\ todo = <<>> /\ life = "live"
           /\ Counted(count, ptr, pout, {}, {}, {})
           /\ count \in [Blocks -> Nat] /\ ptr \in [Pointers -> Targets] /\ pout \subseteq Blocks
           /\ NULL \notin Blocks /\ Gone \notin Blocks
           /\ NULL \in Targets /\ Gone \in Targets /\ Blocks \subseteq Targets
           /\ Locals \cap Blocks = {} /\ Blocks \subseteq Pointers /\ Locals \subseteq Pointers
<1>1. todo = <<>> /\ life = "live"
  BY DEF Idle
<1> QED BY <1>1, AtRest, BlocksAre DEF RcInv, RcTypes, Typed, Targets, Pointers

LEMMA CopyKeeps ==
    ASSUME RcInv, NEW p \in Pointers, NEW q \in Pointers, Copy(p, q)
    PROVE  RcInv'
<1>1. /\ Idle /\ p \in Locals /\ ptr[p] = Gone /\ life' = "live" /\ todo' = <<>>
      /\ ptr' = [ptr EXCEPT ![p] = ptr[q]] /\ count' = Ref(count, ptr[q])
      /\ PoolInv' /\ pout' = pout
  BY BetweenCalls, PoolStays DEF Copy, pvars, Idle
<1>2. PICK c, f, v : c = count' /\ f = ptr' /\ v = ptr[q]
  OBVIOUS
<1>3. v \in Blocks => v \in pout /\ count[v] + 1 <= Cardinality(Pointers)
  BY <1>1, <1>2, BetweenCalls, TargetIsAlive, RoomToCount
<1>4. c \in [Blocks -> Nat] /\ \A b \in Blocks : c[b] = count[b] + IF v = b THEN 1 ELSE 0
  BY <1>1, <1>2, <1>3, BetweenCalls, RefCounts
<1>5. /\ f \in [Pointers -> Targets] /\ f[p] = v
      /\ \A x \in Pointers : x # p => f[x] = ptr[x]
  BY <1>1, <1>2, BetweenCalls
<1>6. Counted(c, f, pout, {}, {}, {})
  <2>1. /\ Typed(count, ptr, pout) /\ Counted(count, ptr, pout, {}, {}, {})
        /\ p \notin Blocks /\ ptr[p] \notin Blocks
    BY <1>1, BetweenCalls
  <2>2. \A b \in Blocks : c[b] = count[b] + IF f[p] = b THEN 1 ELSE 0
    BY <1>4, <1>5
  <2> QED BY <1>3, <1>5, <2>1, <2>2, Taken
<1>7. Typed(c, f, pout)
  BY <1>1, <1>4, <1>5, BetweenCalls DEF Typed
<1> QED BY <1>1, <1>2, <1>6, <1>7, EmptyStack, Described

(* A move leaves the number of pointers at each object as it was: the       *)
(* source drops its target to no effect, since the other takes it.          *)
LEMMA MovedCounts ==
    ASSUME NEW c, NEW f, NEW out, Typed(c, f, out),
           NEW dying, NEW stale, Counted(c, f, out, {}, dying, stale),
           NEW p \in Pointers, NEW q \in Pointers, p # q, stale \subseteq {p},
           p \in stale \/ f[p] \notin Blocks,
           p \in Blocks => p \in out /\ p \notin dying,
           q \in Blocks => q \in out /\ q \notin dying,
           NEW g, g[p] = f[q], g[q] = NULL,
           \A x \in Pointers : x # p /\ x # q => g[x] = f[x]
    PROVE  Counted(c, g, out, {}, dying, {})
<1> SUFFICES ASSUME NEW b \in Blocks
             PROVE  /\ c[b] = Cardinality(Holders(g, {}, b)) + IF b \in {} THEN 1 ELSE 0
                    /\ b \notin out => c[b] = 0 /\ g[b] = Gone
                    /\ b \in dying <=> b \in out /\ c[b] = 0
                    /\ b \in dying => g[b] = Gone
  BY DEF Counted
<1>1. /\ c[b] = Cardinality(Holders(f, stale, b)) + IF b \in {} THEN 1 ELSE 0
      /\ b \notin out => c[b] = 0 /\ f[b] = Gone
      /\ b \in dying <=> b \in out /\ c[b] = 0
      /\ b \in dying => f[b] = Gone
  BY DEF Counted
<1>2. /\ Cardinality(Holders(f, {p}, b)) \in Nat /\ Cardinality(Holders(g, {}, b)) \in Nat
      /\ Cardinality(Holders(g, {p}, b)) \in Nat /\ Cardinality(Holders(g, {p, q}, b)) \in Nat
      /\ Cardinality(Holders(f, stale, b)) \in Nat /\ NULL # b
  BY HoldersType, BlocksAre
<1>3. {p} \cup {q} = {p, q} /\ q \in Pointers \ {p}
  OBVIOUS
<1>4. c[b] = Cardinality(Holders(f, {p}, b))
  <2>1. CASE p \in stale
    <3>1. stale = {p}
      BY <2>1
    <3> QED BY <1>1, <1>2, <3>1
  <2>2. CASE p \notin stale
    <3>1. stale = {} /\ f[p] # b
      BY <2>2
    <3>2. Cardinality(Holders(f, {}, b)) = Cardinality(Holders(f, {p}, b)) + IF f[p] = b THEN 1 ELSE 0
      BY LeaveOutOne
    <3> QED BY <1>1, <1>2, <1>3, <3>1, <3>2
  <2> QED BY <2>1, <2>2
<1>5. Cardinality(Holders(f, {p}, b)) = Cardinality(Holders(f, {p} \cup {q}, b)) + IF f[q] = b THEN 1 ELSE 0
  BY <1>3, LeaveOut
<1>6. Cardinality(Holders(g, {}, b)) = Cardinality(Holders(g, {p}, b)) + IF g[p] = b THEN 1 ELSE 0
  BY LeaveOutOne
<1>7. Cardinality(Holders(g, {p}, b)) = Cardinality(Holders(g, {p} \cup {q}, b)) + IF g[q] = b THEN 1 ELSE 0
  BY <1>3, LeaveOut
<1>8. Holders(g, {p, q}, b) = Holders(f, {p, q}, b)
  BY SameOutside
<1>9. c[b] = Cardinality(Holders(g, {}, b))
  <2>1. Cardinality(Holders(g, {p}, b)) = Cardinality(Holders(f, {p, q}, b))
    BY <1>2, <1>3, <1>7, <1>8
  <2>2. Cardinality(Holders(g, {}, b)) = Cardinality(Holders(f, {p, q}, b)) + IF f[q] = b THEN 1 ELSE 0
    BY <1>2, <1>3, <1>6, <2>1
  <2> QED BY <1>3, <1>4, <1>5, <2>2
<1>10. b = p \/ b = q => b \in out /\ b \notin dying
  OBVIOUS
<1>11. b # p /\ b # q => g[b] = f[b]
  BY DEF Pointers
<1> QED BY <1>1, <1>2, <1>9, <1>10, <1>11

LEMMA MoveKeeps ==
    ASSUME RcInv, NEW p \in Pointers, NEW q \in Pointers, Move(p, q)
    PROVE  RcInv'
<1>1. /\ Idle /\ p \in Locals /\ ptr[p] = Gone /\ ptr[q] # Gone /\ life' = "live" /\ todo' = <<>>
      /\ ptr' = [ptr EXCEPT ![p] = ptr[q], ![q] = NULL]
      /\ PoolInv' /\ pout' = pout /\ count' = count
  BY BetweenCalls, PoolStays DEF Move, Reachable, pvars, Idle
<1>2. PICK f : f = ptr'
  OBVIOUS
<1>3. p # q /\ p \notin Blocks /\ ptr[p] \notin Blocks
  BY <1>1, BetweenCalls
<1>4. q \in Blocks => q \in pout
  BY <1>1, BetweenCalls, OwnerIsAlive
<1>5. /\ f \in [Pointers -> Targets] /\ f[p] = ptr[q] /\ f[q] = NULL
      /\ \A x \in Pointers : x # p /\ x # q => f[x] = ptr[x]
  BY <1>1, <1>2, <1>3, BetweenCalls
<1>6. Counted(count, f, pout, {}, {}, {})
  BY <1>1, <1>3, <1>4, <1>5, BetweenCalls, MovedCounts
<1>7. Typed(count, f, pout)
  BY <1>1, <1>5, BetweenCalls DEF Typed
<1> QED BY <1>1, <1>2, <1>6, <1>7, EmptyStack, Described

LEMMA DropKeeps ==
    ASSUME RcInv, NEW p \in Locals, Drop(p)
    PROVE  RcInv'
<1>1. /\ Idle /\ life' = "live" /\ todo' = Unref(ptr[p])
      /\ ptr' = [ptr EXCEPT ![p] = Gone]
      /\ PoolInv' /\ pout' = pout /\ count' = count
  BY BetweenCalls, PoolStays DEF Drop, pvars, Idle
<1>2. PICK f, v : f = ptr' /\ v = ptr[p]
  OBVIOUS
<1>3. /\ f \in [Pointers -> Targets] /\ f[p] = Gone
      /\ \A x \in Pointers : x # p => f[x] = ptr[x]
  BY <1>1, <1>2, BetweenCalls
<1>4. Counted(count, f, pout, {v} \cap Blocks, {}, {})
  <2>1. p \in Pointers \ {} /\ f[p] \notin Blocks
    BY <1>1, <1>3, BetweenCalls
  <2> QED BY <1>1, <1>2, <1>3, <2>1, BetweenCalls, Dropped
<1>5. /\ Stack(Unref(v), f) /\ Due(Unref(v)) = {v} \cap Blocks
      /\ Dying(Unref(v)) = {} /\ Stale(Unref(v)) = {}
  BY DropStack
<1>6. Typed(count, f, pout)
  BY <1>1, <1>3, BetweenCalls DEF Typed
<1> QED BY <1>1, <1>2, <1>4, <1>5, <1>6, Described

(* The first way to an object does not lead through its own member: what    *)
(* the client gets at lasts whatever becomes of the member.                 *)
LEMMA ReachableIsKept ==
    ASSUME NEW x \in Pointers, Reachable(x)
    PROVE  Kept(ptr, x, x)
<1> SUFFICES ASSUME x \notin Locals PROVE Kept(ptr, x, x)
  BY DEF Kept
<1>1. \A R \in SUBSET Blocks :
         (\A y \in Locals \cup R : ptr[y] \in Blocks => ptr[y] \in R) => x \in R
  BY DEF Reachable
<1> DEFINE Supported(K) == \A b \in K : \E y \in (Locals \cup K) \ {x} : ptr[y] = b
           W == {b \in Blocks : \E K \in SUBSET Blocks : b \in K /\ Supported(K)}
<1>2. x \in W
  <2> SUFFICES ASSUME x \notin W PROVE FALSE
    OBVIOUS
  <2>1. Supported(W)
    <3> SUFFICES ASSUME NEW b \in W PROVE \E y \in (Locals \cup W) \ {x} : ptr[y] = b
      OBVIOUS
    <3>1. PICK K \in SUBSET Blocks : b \in K /\ Supported(K)
      OBVIOUS
    <3>2. PICK y \in (Locals \cup K) \ {x} : ptr[y] = b
      BY <3>1
    <3>3. K \subseteq W
      BY <3>1
    <3> QED BY <3>2, <3>3
  <2>2. ASSUME NEW y \in Locals \cup W, ptr[y] \in Blocks PROVE ptr[y] \in W
    <3>1. PICK K : K = W \cup {ptr[y]}
      OBVIOUS
    <3>2. K \in SUBSET Blocks /\ ptr[y] \in K
      BY <2>2, <3>1
    <3>3. Supported(K)
      <4> SUFFICES ASSUME NEW b \in K PROVE \E z \in (Locals \cup K) \ {x} : ptr[z] = b
        OBVIOUS
      <4>1. CASE b \in W
        <5>1. PICK z \in (Locals \cup W) \ {x} : ptr[z] = b
          BY <2>1, <4>1
        <5> QED BY <3>1, <5>1
      <4>2. CASE b = ptr[y]
        <5> HIDE DEF W
        <5> QED BY <2>2, <3>1, <4>2
      <4> QED BY <3>1, <4>1, <4>2
    <3> HIDE DEF Supported
    <3> QED BY <2>2, <3>2, <3>3
  <2>3. W \in SUBSET Blocks
    OBVIOUS
  <2> HIDE DEF W
  <2> QED BY <1>1, <2>2, <2>3
<1>3. PICK K \in SUBSET Blocks : x \in K /\ Supported(K)
  BY <1>2
<1> QED BY <1>3 DEF Kept

LEMMA AssignKeeps ==
    ASSUME RcInv, NEW p \in Pointers, NEW q \in Pointers, NEW op \in {"copy", "move"}, Assign(p, q, op)
    PROVE  RcInv'
<1>1. /\ Idle /\ Reachable(p) /\ (op = "copy" => p # q) /\ life' = "live"
      /\ todo' = Unref(ptr[p]) \o <<Task(op, p, q, Held(q, p))>>
      /\ PoolInv' /\ pout' = pout /\ count' = count /\ ptr' = ptr
  BY BetweenCalls, PoolStays DEF Assign, pvars, Idle
<1>2. PICK k, v : k = Task(op, p, q, Held(q, p)) /\ v = ptr[p]
  OBVIOUS
<1>3. /\ k \in Tasks /\ IsAssign(k) /\ k.of = p /\ k.to = q /\ k.op = op
      /\ k.held => Held(q, p)
  <2>1. Held(q, p) \in BOOLEAN
    BY DEF Held, Kept
  <2> QED BY <1>2, <2>1 DEF Task, Tasks, IsAssign
<1>4. Assignable(ptr, k)
  BY <1>1, <1>3, ReachableIsKept DEF Assignable, Held
<1>5. /\ Stack(Unref(v) \o <<k>>, ptr) /\ Due(Unref(v) \o <<k>>) = {v} \cap Blocks
      /\ Dying(Unref(v) \o <<k>>) = {} /\ Stale(Unref(v) \o <<k>>) = {p}
  BY <1>3, <1>4, AssignStack
<1>6. Counted(count, ptr, pout, {v} \cap Blocks, {}, {p})
  <2> SUFFICES ASSUME NEW b \in Blocks
               PROVE  /\ count[b] = Cardinality(Holders(ptr, {p}, b)) + IF b \in {v} \cap Blocks THEN 1 ELSE 0
                      /\ b \notin pout => count[b] = 0 /\ ptr[b] = Gone
                      /\ b \in {} <=> b \in pout /\ count[b] = 0
                      /\ b \in {} => ptr[b] = Gone
    BY DEF Counted
  <2>1. /\ count[b] = Cardinality(Holders(ptr, {}, b)) + IF b \in {} THEN 1 ELSE 0
        /\ b \notin pout => count[b] = 0 /\ ptr[b] = Gone
        /\ b \in {} <=> b \in pout /\ count[b] = 0
    BY <1>1, BetweenCalls DEF Counted
  <2>2. Cardinality(Holders(ptr, {}, b)) \in Nat /\ Cardinality(Holders(ptr, {p}, b)) \in Nat
    BY HoldersType
  <2>3. Cardinality(Holders(ptr, {}, b)) = Cardinality(Holders(ptr, {p}, b)) + IF ptr[p] = b THEN 1 ELSE 0
    BY LeaveOutOne
  <2>5. count[b] = Cardinality(Holders(ptr, {p}, b)) + IF b \in {v} \cap Blocks THEN 1 ELSE 0
    BY <1>2, <2>1, <2>2, <2>3
  <2> QED BY <2>1, <2>5
<1> QED BY <1>1, <1>2, <1>5, <1>6, BetweenCalls, Described

(* A call in progress, and the task on top of its stack.                    *)
LEMMA InCall ==
    ASSUME RcInv, life = "live", todo # <<>>,
           NEW k, k = Head(todo), NEW r, r = Tail(todo), NEW dying, dying = Dying(todo), NEW stale, stale = Stale(todo)
    PROVE  /\ Typed(count, ptr, pout)
           /\ Counted(count, ptr, pout, Due(todo), dying, stale)
           /\ k \in Tasks /\ Stack(r, ptr) /\ Due(r) = {} /\ Stack(todo, ptr)
           /\ k.op = "unref" =>
                 k.of \in Blocks /\ Due(todo) = {k.of} /\ Dying(r) = dying /\ Stale(r) = stale
           /\ k.op = "delete" =>
                 /\ k.of \in Blocks /\ k.of \in dying /\ Dying(r) = dying \ {k.of}
                 /\ Due(todo) = {} /\ Stale(r) = stale
           /\ IsAssign(k) =>
                 /\ r = <<>> /\ Assignable(ptr, k) /\ stale = {k.of}
                 /\ Due(todo) = {} /\ dying = {}
<1>1. Stack(todo, ptr) /\ RcTypes /\ Counted(count, ptr, pout, Due(todo), Dying(todo), Stale(todo))
  BY DEF RcInv
<1>2. /\ k \in Tasks /\ Stack(r, ptr) /\ Due(r) = {}
      /\ k.op = "unref" =>
            k.of \in Blocks /\ Due(todo) = {k.of} /\ Dying(r) = Dying(todo) /\ Stale(r) = Stale(todo)
      /\ k.op = "delete" =>
            /\ k.of \in Blocks /\ k.of \in Dying(todo) /\ Dying(r) = Dying(todo) \ {k.of}
            /\ Due(todo) = {} /\ Stale(r) = Stale(todo)
      /\ IsAssign(k) =>
            /\ r = <<>> /\ Assignable(ptr, k) /\ Stale(todo) = {k.of}
            /\ Due(todo) = {} /\ Dying(todo) = {}
  BY <1>1, Popped
<1> QED BY <1>1, <1>2 DEF RcTypes

(* The target of an assignment is alive until the assignment is done: it is *)
(* a variable of the client, or a variable points at the object it is in.   *)
LEMMA StaleIsAlive ==
    ASSUME NEW c, NEW f, NEW out, Typed(c, f, out),
           NEW due, NEW dying, NEW stale, Counted(c, f, out, due, dying, stale),
           NEW t, Stack(t, f), stale = Stale(t), NEW u \in Blocks \cap stale
    PROVE  u \in out /\ u \notin dying /\ Cardinality(Holders(f, stale, u)) > 0
<1>1. PICK i \in 1 .. Len(t) : t[i].op \in {"copy", "move"} /\ t[i].of = u
  BY DEF Stale, OfThe
<1>2. i = Len(t) /\ Assignable(f, t[i])
  BY <1>1 DEF Stack, IsAssign
<1>3. u \notin Locals
  BY BlocksAre
<1>4. PICK s \in Pointers \ {u} : f[s] = u
  <2>1. Kept(f, u, u)
    BY <1>1, <1>2 DEF Assignable
  <2> QED BY <1>3, <2>1 DEF Kept, Pointers
<1>5. \A x \in stale : x = u
  <2> SUFFICES ASSUME NEW x \in stale PROVE x = u
    OBVIOUS
  <2>1. PICK j \in 1 .. Len(t) : t[j].op \in {"copy", "move"} /\ t[j].of = x
    BY DEF Stale, OfThe
  <2>2. j = Len(t)
    BY <2>1 DEF Stack, IsAssign
  <2> QED BY <1>1, <1>2, <2>1, <2>2
<1>6. s \in Pointers \ stale /\ f[s] \in Blocks
  BY <1>3, <1>4, <1>5 DEF Pointers
<1>7. f[s] \in out /\ f[s] \notin dying
  BY <1>6, TargetIsAlive
<1>8. Cardinality(Holders(f, stale, f[s])) > 0
  BY <1>6, PointedAt
<1> QED BY <1>4, <1>7, <1>8

LEMMA UnrefKeeps ==
    ASSUME RcInv, DoUnref
    PROVE  RcInv'
<1>1. PICK k, r, dying, stale : k = Head(todo) /\ r = Tail(todo) /\ dying = Dying(todo) /\ stale = Stale(todo)
  OBVIOUS
<1>2. PICK u : u = k.of
  OBVIOUS
<1>3. life = "live" /\ todo # <<>> /\ k.op = "unref"
  BY <1>1 DEF DoUnref, Do
<1>4. /\ Typed(count, ptr, pout) /\ Counted(count, ptr, pout, {u}, dying, stale)
      /\ Stack(r, ptr) /\ Due(r) = {} /\ Stack(todo, ptr)
      /\ u \in Blocks /\ Dying(r) = dying /\ Stale(r) = stale
  BY <1>1, <1>2, <1>3, InCall
<1>5. /\ count \in [Blocks -> Nat] /\ ptr \in [Pointers -> Targets] /\ count[u] \in Nat
      /\ Gone \in Targets /\ Blocks \subseteq Pointers /\ Locals \cap Blocks = {} /\ Locals \subseteq Pointers
  BY <1>4, BlocksAre DEF Typed, Targets, Pointers
<1>6. count[u] = Cardinality(Holders(ptr, stale, u)) + 1 /\ Cardinality(Holders(ptr, stale, u)) \in Nat
  <2>1. count[u] = Cardinality(Holders(ptr, stale, u)) + IF u \in {u} THEN 1 ELSE 0
    BY <1>4 DEF Counted
  <2> QED BY <2>1, HoldersType
<1>7. count[u] # 0
  BY <1>6
<1>8. /\ count' = [count EXCEPT ![u] = @ - 1] /\ UNCHANGED <<pvars, life>>
      /\ IF count[u] = 1
         THEN /\ todo' = Unref(ptr[u]) \o <<Task("delete", u, NULL, TRUE)>> \o r
              /\ ptr' = [ptr EXCEPT ![u] = Gone]
         ELSE todo' = r /\ UNCHANGED ptr
  BY <1>1, <1>2, <1>7 DEF DoUnref
<1>9. PoolInv' /\ pout' = pout /\ life' = "live"
  BY <1>3, <1>8, PoolStays DEF RcInv, pvars
<1>10. PICK d : d = count'
  OBVIOUS
<1>11. /\ d \in [Blocks -> Nat] /\ d[u] = count[u] - 1
       /\ \A b \in Blocks : b # u => d[b] = count[b]
  <2>1. count[u] - 1 \in Nat
    BY <1>6
  <2> HIDE DEF Blocks
  <2> QED BY <1>4, <1>5, <1>8, <1>10, <2>1
<1>12. CASE count[u] # 1
  <2>1. todo' = r /\ ptr' = ptr
    BY <1>8, <1>12
  <2>2. Counted(d, ptr, pout, {}, dying, stale)
    BY <1>4, <1>11, <1>12, Released
  <2>3. Typed(d, ptr, pout)
    BY <1>4, <1>11 DEF Typed
  <2>4. Counted(d, ptr, pout, Due(r), Dying(r), Stale(r))
    BY <1>4, <2>2
  <2> QED BY <1>4, <1>9, <1>10, <2>1, <2>3, <2>4, Described
<1>13. CASE count[u] = 1
  <2>1. u \notin stale
    <3> SUFFICES ASSUME u \in stale PROVE FALSE
      OBVIOUS
    <3>1. Cardinality(Holders(ptr, stale, u)) > 0
      BY <1>1, <1>4, StaleIsAlive
    <3> QED BY <1>6, <1>13, <3>1
  <2>2. PICK f, v, t : f = ptr' /\ v = ptr[u] /\ t = todo'
    OBVIOUS
  <2>3. /\ f \in [Pointers -> Targets] /\ f[u] = Gone
        /\ \A x \in Pointers : x # u => f[x] = ptr[x]
    <3>1. ptr' = [ptr EXCEPT ![u] = Gone]
      BY <1>8, <1>13
    <3> HIDE DEF Blocks, Pointers, Targets
    <3> QED BY <1>4, <1>5, <2>2, <3>1
  <2>4. Counted(d, f, pout, {v} \cap Blocks, dying \cup {u}, stale) /\ u \notin dying
    BY <1>4, <1>11, <1>13, <2>1, <2>2, <2>3, ReleasedLast
  <2>5. Stack(r, f)
    <3>1. Holders(ptr, Stale(r), u) = {}
      BY <1>4, <1>6, <1>13, HoldersType
    <3>2. \A x \in Pointers : f[x] = ptr[x] \/ (x \in Blocks /\ Holders(ptr, Stale(r), x) = {})
      BY <1>4, <2>3, <3>1
    <3> QED BY <1>4, <3>2, SameStack
  <2>6. /\ Stack(t, f) /\ Due(t) = {v} \cap Blocks
        /\ Dying(t) = dying \cup {u} /\ Stale(t) = stale
    <3>1. t = Deletion(v, u, r)
      BY <1>8, <1>13, <2>2 DEF Deletion
    <3>2. u \notin Dying(r) /\ u \in Blocks /\ Due(r) = {}
      BY <1>4, <2>4
    <3>3. /\ Stack(t, f) /\ Due(t) = {v} \cap Blocks
          /\ Dying(t) = Dying(r) \cup {u} /\ Stale(t) = Stale(r)
      BY <2>5, <3>1, <3>2, LastStack
    <3> QED BY <1>4, <3>3
  <2>7. Typed(d, f, pout)
    BY <1>4, <1>11, <2>3 DEF Typed
  <2>8. Counted(d, f, pout, Due(t), Dying(t), Stale(t))
    BY <2>4, <2>6
  <2> QED BY <1>9, <1>10, <2>2, <2>6, <2>7, <2>8, Described
<1> QED BY <1>12, <1>13

LEMMA DeleteKeeps ==
    ASSUME RcInv, DoDelete
    PROVE  RcInv'
<1>1. PICK k, r, dying, stale : k = Head(todo) /\ r = Tail(todo) /\ dying = Dying(todo) /\ stale = Stale(todo)
  OBVIOUS
<1>2. PICK u : u = k.of
  OBVIOUS
<1>3. life = "live" /\ todo # <<>> /\ k.op = "delete"
  BY <1>1 DEF DoDelete, Do
<1>4. /\ Typed(count, ptr, pout) /\ Counted(count, ptr, pout, {}, dying, stale)
      /\ Stack(r, ptr) /\ Due(r) = {}
      /\ u \in Blocks /\ u \in dying /\ Dying(r) = dying \ {u} /\ Stale(r) = stale
  BY <1>1, <1>2, <1>3, InCall
<1>5. count[u] = 0 /\ u \in pout
  BY <1>4 DEF Counted
<1>6. FreeBlock(u) /\ todo' = r /\ count' = count /\ ptr' = ptr /\ life' = life
  BY <1>1, <1>2, <1>5 DEF DoDelete, OpDelete
<1>7. PoolInv' /\ pout' = pout \ {u}
  BY <1>5, <1>6, FreeKeepsPool DEF RcInv
<1>8. Counted(count, ptr, pout \ {u}, {}, dying \ {u}, stale)
  BY <1>4, Freed
<1>9. Counted(count, ptr, pout \ {u}, Due(r), Dying(r), Stale(r))
  BY <1>4, <1>8
<1>10. Typed(count, ptr, pout \ {u})
  BY <1>4 DEF Typed
<1> QED BY <1>3, <1>4, <1>6, <1>7, <1>9, <1>10, Described

(* What the two assignments do once the old target is gone.                 *)
LEMMA AtAssignment ==
    ASSUME RcInv, Do("copy") \/ Do("move"), NEW k, k = Head(todo), ~SourceFreed
    PROVE  /\ Typed(count, ptr, pout) /\ Counted(count, ptr, pout, {}, {}, {k.of})
           /\ k \in Tasks /\ IsAssign(k) /\ Tail(todo) = <<>> /\ Assignable(ptr, k)
           /\ k.of \in Pointers /\ k.to \in Pointers
           /\ k.of \in Blocks => k.of \in pout
           /\ k.to \in Blocks => k.to \in pout
           /\ life = "live"
<1>1. PICK r, dying, stale : r = Tail(todo) /\ dying = Dying(todo) /\ stale = Stale(todo)
  OBVIOUS
<1>2. life = "live" /\ todo # <<>> /\ IsAssign(k)
  BY DEF Do, IsAssign
<1>3. /\ Typed(count, ptr, pout) /\ Counted(count, ptr, pout, Due(todo), dying, stale)
      /\ k \in Tasks /\ Stack(todo, ptr)
      /\ r = <<>> /\ Assignable(ptr, k) /\ stale = {k.of}
      /\ Due(todo) = {} /\ dying = {}
  BY <1>1, <1>2, InCall
<1>4. Counted(count, ptr, pout, {}, {}, {k.of})
  BY <1>3
<1>5. k.of \in Pointers /\ k.to \in Pointers
  BY <1>3 DEF Tasks, Assignable
<1>6. k.of \in Blocks => k.of \in pout
  <2> SUFFICES ASSUME k.of \in Blocks PROVE k.of \in pout
    OBVIOUS
  <2>1. PICK u \in Blocks \cap stale : u = k.of
    BY <1>3
  <2>2. Typed(count, ptr, pout) /\ Counted(count, ptr, pout, {}, {}, stale)
        /\ Stack(todo, ptr) /\ stale = Stale(todo)
    BY <1>1, <1>3
  <2>3. u \in pout
    BY <2>1, <2>2, StaleIsAlive
  <2> QED BY <2>1, <2>3
<1>7. k.to \in Blocks => k.to \in pout
  BY DEF SourceFreed
<1> QED BY <1>1, <1>2, <1>3, <1>4, <1>5, <1>6, <1>7

LEMMA DoCopyKeeps ==
    ASSUME RcInv, DoCopy
    PROVE  RcInv'
<1>1. PICK k, p, q, v : k = Head(todo) /\ p = k.of /\ q = k.to /\ v = ptr[q]
  OBVIOUS
<1>2. /\ Typed(count, ptr, pout) /\ Counted(count, ptr, pout, {}, {}, {p})
      /\ Tail(todo) = <<>> /\ Assignable(ptr, k)
      /\ p \in Pointers /\ q \in Pointers /\ (p \in Blocks => p \in pout)
      /\ life = "live"
  BY <1>1, AtAssignment DEF DoCopy
<1>3. p # q
  <2>1. k.op = "copy"
    BY <1>1 DEF DoCopy, Do
  <2> QED BY <1>1, <1>2, <2>1 DEF Assignable
<1>4. /\ ptr' = [ptr EXCEPT ![p] = v] /\ count' = Ref(count, v)
      /\ todo' = <<>> /\ life' = "live" /\ PoolInv' /\ pout' = pout
  <2>1. UNCHANGED pvars
    BY DEF DoCopy
  <2> QED BY <1>1, <1>2, <2>1, PoolStays DEF DoCopy, pvars, RcInv
<1>5. PICK c, f : c = count' /\ f = ptr'
  OBVIOUS
<1>6. v \in Blocks => v \in pout /\ count[v] + 1 <= Cardinality(Pointers)
  <2>1. q \in Pointers \ {p} /\ p \in {p}
    BY <1>2, <1>3
  <2> QED BY <1>1, <1>2, <2>1, TargetIsAlive, RoomToCount
<1>7. /\ count \in [Blocks -> Nat] /\ ptr \in [Pointers -> Targets] /\ v \in Targets
  BY <1>1, <1>2 DEF Typed
<1>8. c \in [Blocks -> Nat] /\ \A b \in Blocks : c[b] = count[b] + IF v = b THEN 1 ELSE 0
  BY <1>4, <1>5, <1>6, <1>7, RefCounts
<1>9. /\ f \in [Pointers -> Targets] /\ f[p] = v
      /\ \A x \in Pointers : x # p => f[x] = ptr[x]
  BY <1>2, <1>4, <1>5, <1>7
<1>10. Counted(c, f, pout, {}, {}, {})
  <2>1. \A b \in Blocks : c[b] = count[b] + IF f[p] = b THEN 1 ELSE 0
    BY <1>8, <1>9
  <2>2. p \in {p} /\ {p} \subseteq {p}
    OBVIOUS
  <2> QED BY <1>2, <1>6, <1>9, <2>1, <2>2, Taken
<1>11. Typed(c, f, pout)
  BY <1>2, <1>8, <1>9 DEF Typed
<1> QED BY <1>4, <1>5, <1>10, <1>11, EmptyStack, Described

LEMMA DoMoveKeeps ==
    ASSUME RcInv, DoMove
    PROVE  RcInv'
<1>1. PICK k, p, q : k = Head(todo) /\ p = k.of /\ q = k.to
  OBVIOUS
<1>2. /\ Typed(count, ptr, pout) /\ Counted(count, ptr, pout, {}, {}, {p})
      /\ Tail(todo) = <<>>
      /\ p \in Pointers /\ q \in Pointers /\ (p \in Blocks => p \in pout) /\ (q \in Blocks => q \in pout)
      /\ life = "live"
  BY <1>1, AtAssignment DEF DoMove
<1>3. /\ ptr' = [ptr EXCEPT ![p] = ptr[q], ![q] = NULL] /\ count' = count
      /\ todo' = <<>> /\ life' \in {"live", "undefined"} /\ PoolInv' /\ pout' = pout
  <2>1. UNCHANGED pvars /\ UNCHANGED count
    BY DEF DoMove
  <2> QED BY <1>1, <1>2, <2>1, PoolStays DEF DoMove, pvars, RcInv
<1>4. PICK f : f = ptr'
  OBVIOUS
<1>5. /\ count \in [Blocks -> Nat] /\ ptr \in [Pointers -> Targets] /\ ptr[q] \in Targets
      /\ NULL \in Targets /\ NULL \notin Blocks
  BY <1>2, BlocksAre DEF Typed, Targets
<1>6. /\ f \in [Pointers -> Targets] /\ f[q] = NULL /\ (p # q => f[p] = ptr[q])
      /\ \A x \in Pointers : x # p /\ x # q => f[x] = ptr[x]
  BY <1>2, <1>3, <1>4, <1>5
<1>7. Counted(count, f, pout, {}, {}, {})
  <2>1. p \in {p} /\ {p} \subseteq {p}
    OBVIOUS
  <2>2. CASE p = q
    <3>1. f[p] \notin Blocks /\ \A x \in Pointers : x # p => f[x] = ptr[x]
      BY <1>5, <1>6, <2>2
    <3>2. \A b \in Blocks : count[b] = count[b] + IF f[p] = b THEN 1 ELSE 0
      BY <1>5, <3>1
    <3> QED BY <1>2, <2>1, <3>1, <3>2, Taken
  <2>3. CASE p # q
    BY <1>2, <1>6, <2>1, <2>3, MovedCounts
  <2> QED BY <2>2, <2>3
<1>8. Typed(count, f, pout)
  BY <1>2, <1>6 DEF Typed
<1> QED BY <1>3, <1>4, <1>7, <1>8, EmptyStack, Described

(* A source that something else holds was not freed: the count of its       *)
(* object is not 0.                                                         *)
LEMMA FreedReadKeeps ==
    ASSUME RcInv, DoFreedRead
    PROVE  RcInv'
<1>1. PICK k, dying, stale : k = Head(todo) /\ dying = Dying(todo) /\ stale = Stale(todo)
  OBVIOUS
<1>2. life = "live" /\ todo # <<>> /\ IsAssign(k)
  BY <1>1 DEF DoFreedRead, Do, IsAssign
<1>3. PICK r : r = Tail(todo)
  OBVIOUS
<1>4. /\ Typed(count, ptr, pout) /\ Counted(count, ptr, pout, Due(todo), dying, stale)
      /\ k \in Tasks /\ Assignable(ptr, k) /\ stale = {k.of}
  BY <1>1, <1>2, <1>3, InCall
<1>5. k.to \in Blocks \ pout /\ life' = "freed read" /\ UNCHANGED <<pvars, count, ptr, todo>>
  BY <1>1 DEF DoFreedRead, SourceFreed
<1>6. ASSUME k.held PROVE FALSE
  <2>1. PICK s \in Pointers \ {k.of} : ptr[s] = k.to
    <3>1. Kept(ptr, k.to, k.of) /\ k.to \notin Locals
      BY <1>4, <1>5, <1>6, BlocksAre DEF Assignable
    <3> QED BY <3>1 DEF Kept, Pointers
  <2>2. s \in Pointers \ stale /\ ptr[s] \in Blocks
    BY <1>4, <1>5, <2>1
  <2>3. ptr[s] \in pout
    BY <1>4, <2>2, TargetIsAlive
  <2> QED BY <1>5, <2>1, <2>3
<1>7. RcSafeWhenHeld'
  BY <1>1, <1>5, <1>6 DEF RcSafeWhenHeld
<1>8. PoolInv'
  BY <1>5, PoolStays DEF RcInv, pvars
<1>9. RcTypes' /\ Stack(todo, ptr)' /\ Counted(count, ptr, pout, Due(todo), Dying(todo), Stale(todo))'
  BY <1>5 DEF RcInv, RcTypes, Typed, pvars
<1> QED BY <1>7, <1>8, <1>9 DEF RcInv

LEMMA RcStays == RcInv /\ [Next]_vars => RcInv'
<1> SUFFICES ASSUME RcInv, [Next]_vars PROVE RcInv'
  OBVIOUS
<1>1. ASSUME PoolInv', pout' = pout, UNCHANGED <<count, ptr, todo, life>> PROVE RcInv'
  <2>2. RcTypes' /\ RcSafeWhenHeld' /\ Stack(todo, ptr)'
        /\ Counted(count, ptr, pout, Due(todo), Dying(todo), Stale(todo))'
    BY <1>1 DEF RcInv, RcTypes, Typed, RcSafeWhenHeld
  <2> QED BY <1>1, <2>2 DEF RcInv
<1>2. CASE UNCHANGED vars
  BY <1>1, <1>2, PoolStays DEF vars, pvars, RcInv
<1>3. CASE RcPoolFree
  BY <1>1, <1>3, PoolGoes DEF RcPoolFree, PoolFree, RcInv
<1>4. CASE \E p, q \in Pointers :
              \/ Create(p, q) \/ Copy(p, q) \/ Move(p, q)
              \/ Assign(p, q, "copy") \/ Assign(p, q, "move")
  BY <1>4, CreateKeeps, CopyKeeps, MoveKeeps, AssignKeeps
<1>5. CASE \E p \in Locals : Drop(p)
  BY <1>5, DropKeeps
<1>6. CASE DoUnref
  BY <1>6, UnrefKeeps
<1>7. CASE DoDelete
  BY <1>7, DeleteKeeps
<1>8. CASE DoCopy
  BY <1>8, DoCopyKeeps
<1>9. CASE DoMove
  BY <1>9, DoMoveKeeps
<1>10. CASE DoFreedRead
  BY <1>10, FreedReadKeeps
<1> QED BY <1>2, <1>3, <1>4, <1>5, <1>6, <1>7, <1>8, <1>9, <1>10 DEF Next

(* In every state, within the calls of rc.h and rc.hh and between them, the *)
(* counts are the pointers and what is on the stack.                        *)
THEOREM RcInvariant == Spec => []RcInv
BY RcStarts, RcStays, PTL DEF Spec

(* alloc_block and free_block (pool.c:66-89) lose no block and hand out     *)
(* none twice, for any number of blocks, no block that is to be zeroed      *)
(* keeps old data, and free (pool.c:94) gives the callback every block.     *)
THEOREM PoolLosesNothing == Spec => []FreeListIsSound
BY RcInvariant, PoolIsSound, PTL DEF RcInv

(* Between calls every count (rc.h:45) is the number of pointers at its     *)
(* object, and an object exists as long as there is one.                    *)
THEOREM CountsArePointers == Spec => []CountIsPointers
BY RcInvariant, CountsAreSound, PTL

(* No assertion of rc.h:56 or rc.hh:54 fails; and an assignment reads its   *)
(* source freed only if, as it began, no chain of pointers from elsewhere   *)
(* than its target kept the source (rc.hh:91, 102).                         *)
THEOREM HeldIsSafe == Spec => []RcSafeWhenHeld
<1>1. RcInv => RcSafeWhenHeld
  BY DEF RcInv
<1> QED BY <1>1, RcInvariant, PTL
=============================================================================
