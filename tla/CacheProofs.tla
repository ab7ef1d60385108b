----------------------------- MODULE CacheProofs -----------------------------
(***************************************************************************)
(* Proofs of the properties of Cache.  What the table does is taken from   *)
(* HashTableProofs: its invariant is kept by every step of the cache.  The *)
(* argument here is about the marks, which stay on their slots while       *)
(* entries move between them, and, for a caller that inserts only keys     *)
(* that are absent, about why the second insertion cannot fail.            *)
(***************************************************************************)
EXTENDS Cache, HashTableProofs

(* The table of a cache has one size and no duplicate callback, and an      *)
(* insertion runs inside INSERT alone.                                      *)
Calls ==
    /\ canGrow = FALSE /\ hasCb = FALSE /\ cap = InitCap /\ todo = <<>>
    /\ cpc \in {"idle", "first", "evict", "again", "second", "clear", "panic", "gone"}
    /\ pc = "insert" => cpc \in {"first", "second"}
    /\ pc = "gone" <=> cpc = "gone"
    /\ cpc \in {"first", "evict", "again", "second"} => arg \in Entry
    /\ at \in 0 .. cap /\ hand \in 0 .. cap - 1
    /\ cpc = "gone" => accessed = {}

(* Once the insertion has succeeded its key is in the table.                *)
ArgIsThere ==
    cpc \in {"first", "second"} /\ (pc = "idle" => res = TRUE) =>
        InTable(arg.key) \/ (pc = "insert" /\ carry.key = arg.key)

MInv == HInv /\ Calls /\ ArgIsThere /\ MarksLeaveAChoice

-----------------------------------------------------------------------------
(* The steps of INSERT_AT with one entry in hand. *)

CarryIsIn == InTable(carry.key)

LEMMA AloneInHand ==
    HInv /\ pc = "insert" /\ todo = <<>> =>
        /\ RInv
        /\ \A k : (\E x \in Contents : x.key = k) <=> InTable(k) \/ k = carry.key
        /\ PendingOf = IF CarryIsIn THEN {carry.key} ELSE {}
<1> SUFFICES ASSUME HInv, pc = "insert", todo = <<>>
             PROVE  /\ RInv
                    /\ \A k : (\E x \in Contents : x.key = k) <=> InTable(k) \/ k = carry.key
                    /\ PendingOf = IF CarryIsIn THEN {carry.key} ELSE {}
  OBVIOUS
<1>1. TypeOK /\ Len(todo) = 0
  BY DEF HInv
<1>2. CarryOnce /\ TodoOnce
  BY <1>1 DEF CarryOnce, TodoOnce
<1>3. RInv
  BY <1>1, <1>2, InHandOnceIs DEF RInv, GoneIsEmpty
<1>4. Settled = Held(entries, cap) /\ Final = carry
  BY <1>1, WaitingIs DEF Settled
<1>5. Present <=> CarryIsIn
  BY <1>4, InTableHeld DEF Present, CarryIsIn
<1>6. ASSUME NEW k PROVE (\E x \in Contents : x.key = k) <=> InTable(k) \/ k = carry.key
  <2>1. CASE CarryIsIn
    <3>1. Contents = Held(entries, cap)
      BY <1>4, <1>5, <2>1 DEF Contents
    <3> QED BY <2>1, <3>1, InTableHeld DEF CarryIsIn
  <2>2. CASE ~CarryIsIn
    <3>1. Contents = Held(entries, cap) \cup {carry}
      BY <1>4, <1>5, <2>2 DEF Contents
    <3> QED BY <3>1, InTableHeld
  <2> QED BY <2>1, <2>2
<1>7. PendingOf = IF CarryIsIn THEN {carry.key} ELSE {}
  BY <1>4, <1>5 DEF PendingOf
<1> QED BY <1>3, <1>6, <1>7
LEMMA AloneInHandNext ==
    (HInv /\ pc = "insert" /\ todo = <<>> =>
        /\ RInv
        /\ \A k : (\E x \in Contents : x.key = k) <=> InTable(k) \/ k = carry.key
        /\ PendingOf = IF CarryIsIn THEN {carry.key} ELSE {})'
  BY AloneInHand, PTL

LEMMA InsertStepDoes ==
    ASSUME HInv, HInv', todo = <<>>, hasCb = FALSE, InsertStep
    PROVE  /\ pc = "insert" /\ todo' = <<>>
           /\ UNCHANGED <<raw, cap, size, canGrow, hasCb>>
           /\ Stored \subseteq Stored'
           /\ \/ /\ pc' = "insert" /\ Stored' = Stored
                 /\ \A k : InTable(k)' \/ k = carry'.key <=> InTable(k) \/ k = carry.key
                 /\ CarryIsIn' <=> CarryIsIn
              \/ /\ pc' = "idle" /\ res' = TRUE
                 /\ Cardinality(Stored') = Cardinality(Stored) + 1
                 /\ \A k : InTable(k)' <=> InTable(k) \/ k = carry.key
              \/ /\ pc' = "idle" /\ res' = FALSE
                 /\ entries' = entries /\ Stored' = Stored
                 /\ CarryIsIn
<1>1. pc = "insert" /\ UNCHANGED <<raw, cap, size, canGrow, hasCb>>
  BY DEF InsertStep, Place, Duplicate, Displace, PassOver, table
<1>2. /\ RInv /\ TypeOK /\ TypeOK'
      /\ \A k : (\E x \in Contents : x.key = k) <=> InTable(k) \/ k = carry.key
      /\ PendingOf = IF CarryIsIn THEN {carry.key} ELSE {}
  BY <1>1, AloneInHand DEF HInv
<1>3. ASSUME pc' = "insert", todo' = <<>>, Contents' = Contents, PendingOf' = PendingOf
      PROVE  /\ \A k : InTable(k)' \/ k = carry'.key <=> InTable(k) \/ k = carry.key
             /\ CarryIsIn' <=> CarryIsIn
  <2>1. /\ \A k : (\E x \in Contents' : x.key = k) <=> InTable(k)' \/ k = carry'.key
        /\ PendingOf' = IF CarryIsIn' THEN {carry'.key} ELSE {}
    BY <1>3, AloneInHandNext
  <2>2. CarryIsIn' <=> CarryIsIn
    BY <1>2, <1>3, <2>1
  <2> QED BY <1>2, <1>3, <2>1, <2>2
<1>4. cap \in Nat /\ entries \in Table(cap) /\ i \in 0 .. cap - 1 /\ carry \in Entry
      /\ Stored = Taken(entries, cap) /\ Stored' = Taken(entries', cap)
  <2>1. Stored' = Taken(entries', cap')
    BY DEF Stored, Taken, Occupied, Slots
  <2> QED BY <1>1, <1>2, <2>1, InsertingFacts, StoredIsTaken
<1>5. CASE Place
  <2>1. /\ pc' = "idle" /\ todo' = <<>> /\ res' = TRUE
        /\ entries[i] = Vacant /\ entries' = [entries EXCEPT ![i] = carry]
    BY <1>5 DEF Place, Here, Returns, Rest
  <2>2. Contents' = Contents
    BY <1>2, <1>5, PlaceMaps
  <2>3. Contents' = Held(entries', cap')
    BY <1>2, <2>1, AtRestViewNext
  <2>4. \A k : InTable(k)' <=> InTable(k) \/ k = carry.key
    BY <1>2, <2>2, <2>3, InTableHeldNext
  <2>5. Taken(entries', cap) = Taken(entries, cap) \cup {i} /\ i \notin Taken(entries, cap)
    BY <1>4, <2>1, EntryFields DEF Taken, Table
  <2>6. IsFiniteSet(Taken(entries, cap)) /\ Cardinality(Taken(entries, cap)) \in Nat
    BY <1>4, TakenType
  <2>7. Cardinality(Stored') = Cardinality(Stored) + 1
    BY <1>4, <2>5, <2>6, FS_AddElement
  <2> QED BY <1>1, <1>4, <2>1, <2>4, <2>5, <2>7
<1>6. CASE Duplicate
  <2>1. /\ pc' = "idle" /\ todo' = <<>> /\ res' = FALSE /\ entries' = entries
        /\ entries[i] # Vacant /\ entries[i].key = carry.key
    BY <1>6 DEF Duplicate, Here, Returns, Rest
  <2>2. CarryIsIn
    BY <1>4, <2>1 DEF CarryIsIn, InTable, Occupied, Slots
  <2> QED BY <1>1, <1>4, <2>1, <2>2
<1>7. CASE Displace
  <2>1. /\ pc' = "insert" /\ todo' = <<>>
        /\ entries[i] # Vacant /\ entries' = [entries EXCEPT ![i] = carry]
    BY <1>1, <1>7 DEF Displace, Here
  <2>2. Contents' = Contents /\ PendingOf' = PendingOf
    BY <1>2, <1>7, DisplaceMaps
  <2>3. Taken(entries', cap) = Taken(entries, cap)
    BY <1>4, <2>1, EntryFields DEF Taken, Table
  <2> QED BY <1>1, <1>3, <1>4, <2>1, <2>2, <2>3
<1>8. CASE PassOver
  <2>1. pc' = "insert" /\ todo' = <<>> /\ entries' = entries
    BY <1>1, <1>8 DEF PassOver, table
  <2>2. Contents' = Contents /\ PendingOf' = PendingOf
    BY <1>2, <1>8, PassOverMaps
  <2> QED BY <1>1, <1>3, <1>4, <2>1, <2>2
<1> QED BY <1>5, <1>6, <1>7, <1>8 DEF InsertStep

-----------------------------------------------------------------------------
(* What the other steps do with the table. *)

LEMMA DeleteIndexDoes ==
    ASSUME HInv, pc = "idle", NEW s \in Slots, Occupied(s), DeleteIndex(s),
           UNCHANGED <<raw, cap, canGrow, hasCb, loop>>
    PROVE  /\ HInv' /\ Cardinality(Stored') = Cardinality(Stored) - 1
           /\ \A k : InTable(k)' <=> InTable(k) /\ k # entries[s].key
           /\ MapOf' = [MapOf EXCEPT ![entries[s].key] = NoValue]
<1>1. HInv' /\ Cardinality(Stored') = Cardinality(Stored) - 1
  BY DeleteIndexKeeps
<1> DEFINE n == ShiftLength(s)
<1>2. /\ cap \in Capacity /\ cap \in Nat /\ entries \in Table(cap) /\ Single(entries, cap)
      /\ Homes \in [Keys -> 0 .. cap - 1] /\ s \in 0 .. cap - 1 /\ entries[s] # Vacant
  BY ViewDistances, ViewOrder, HomesType DEF HInv, TypeOK, Capacity, Slots, Occupied
<1>3. /\ n \in 1 .. cap /\ ShiftsOver(entries, cap, Homes, s, n)
      /\ Without(s) = Shifted(entries, cap, s, n) /\ entries' = Without(s) /\ cap' = cap
  BY ShiftLengthIs DEF HInv, DeleteIndex
<1> HIDE DEF n
<1>4. /\ Held(Shifted(entries, cap, s, n), cap) = Held(entries, cap) \ {entries[s]}
      /\ entries[s] \in Held(entries, cap)
  BY <1>2, <1>3, HeldShifted
<1>5. OneEach(Held(entries, cap))
  BY <1>2, HeldType
<1>6. Held(entries', cap') = Held(entries, cap) \ {entries[s]}
  BY <1>3, <1>4
<1>7. ASSUME NEW k PROVE InTable(k)' <=> InTable(k) /\ k # entries[s].key
  <2>1. InTable(k)' <=> \E x \in Held(entries, cap) \ {entries[s]} : x.key = k
    BY <1>6, InTableHeldNext
  <2>2. InTable(k) <=> \E x \in Held(entries, cap) : x.key = k
    BY InTableHeld
  <2> QED BY <1>4, <1>5, <2>1, <2>2 DEF OneEach
<1>8. MapOf' = [MapOf EXCEPT ![entries[s].key] = NoValue]
  <2>1. TypeOK /\ TypeOK' /\ pc' = "idle"
    BY <1>1 DEF HInv, loop
  <2>2. Contents = Held(entries, cap) /\ Contents' = Contents \ {entries[s]}
    BY <1>6, <2>1, AtRestView, AtRestViewNext
  <2>3. PICK k : k = entries[s].key
    OBVIOUS
  <2>4. \A q : Reads(Contents \ {entries[s]}, q) = IF q = k THEN NoValue ELSE Reads(Contents, q)
    BY <1>4, <1>5, <2>2, <2>3, ReadsWithout
  <2>5. MapOf = [q \in Keys |-> Reads(Contents, q)] /\ MapOf' = [q \in Keys |-> Reads(Contents', q)]
    BY DEF MapOf
  <2> QED BY <2>2, <2>3, <2>4, <2>5
<1> QED BY <1>1, <1>7, <1>8

LEMMA FoundIsIn ==
    ASSUME HInv, NEW k \in Keys
    PROVE  /\ Found(k) <=> InTable(k)
           /\ InTable(k) => FindIndex(k) \in Stored /\ entries[FindIndex(k)].key = k
<1>1. TypeOK /\ Ordered /\ KeysOnce
  BY DEF HInv
<1>2. Found(k) => FindIndex(k) \in Stored /\ entries[FindIndex(k)].key = k /\ InTable(k)
  BY <1>1, FoundIsHere DEF InTable, Stored
<1>3. InTable(k) => Found(k)
  BY <1>1, HereIsFound DEF InTable
<1>4. Found(k) \in BOOLEAN /\ InTable(k) \in BOOLEAN
  BY DEF Found, InTable
<1> QED BY <1>2, <1>3, <1>4

(* An insertion into a table of fixed size starts at once. *)
LEMMA InsertStarts ==
    ASSUME HInv, Calls, NEW k \in Keys, NEW v \in Values, Insert(k, v)
    PROVE  /\ HInv' /\ pc = "idle" /\ pc' = "insert" /\ carry' = [key |-> k, value |-> v]
           /\ UNCHANGED <<raw, cap, canGrow, hasCb, entries, todo>> /\ size' = size + 1
           /\ Stored' = Stored /\ \A y : InTable(y)' <=> InTable(y)
<1>1. HInv'
  BY InsertKeeps
<1>2. /\ pc = "idle" /\ pc' = "insert" /\ carry' = [key |-> k, value |-> v]
      /\ UNCHANGED <<raw, cap, canGrow, hasCb, entries, todo>> /\ size' = size + 1
  BY DEF Insert, Calls, StartAt
<1>3. Stored' = Stored /\ \A y : InTable(y)' <=> InTable(y)
  BY <1>2 DEF Stored, InTable, Slots, Occupied
<1> QED BY <1>1, <1>2, <1>3

-----------------------------------------------------------------------------
(* The blocks of marks. *)

(* A block has another slot than s. *)
LEMMA BlockHasTwo ==
    ASSUME cap = InitCap, NEW s \in Slots
    PROVE  s \in BlockOf(s) /\ \E t \in BlockOf(s) : t # s
<1>1. /\ InitCap \in Nat /\ Block \in Nat /\ Block >= 2 /\ InitCap % Block = 0
      /\ s \in Nat /\ s < InitCap
  BY CapAssumption, BlockAssumption DEF Slots
<1> DEFINE q == s \div Block
           r == s % Block
           m == InitCap \div Block
<1>2. /\ q \in Nat /\ r \in 0 .. Block - 1 /\ s = Block * q + r
      /\ m \in Nat /\ InitCap = Block * m
  BY <1>1
<1> HIDE DEF q, r, m
<1>3. Block * q + Block <= InitCap
  <2>1. q < m
    <3>1. CASE q >= m
      <4>1. Block * q >= Block * m
        BY <1>1, <1>2, <3>1
      <4> QED BY <1>1, <1>2, <4>1
    <3> QED BY <1>2, <3>1
  <2>2. q + 1 <= m
    BY <1>2, <2>1
  <2>3. Block * (q + 1) <= Block * m
    BY <1>1, <1>2, <2>2
  <2>4. Block * (q + 1) = Block * q + Block
    BY <1>1, <1>2
  <2> QED BY <1>2, <2>3, <2>4
<1>4. ASSUME NEW b \in 0 .. Block - 1 PROVE Block * q + b \in Slots /\ (Block * q + b) \div Block = q
  BY <1>1, <1>2, <1>3, <1>4 DEF Slots
<1>5. 0 \in 0 .. Block - 1 /\ 1 \in 0 .. Block - 1
  BY <1>1
<1>6. Block * q + 0 # Block * q + 1
  BY <1>1, <1>2
<1>7. s \div Block = q
  BY DEF q
<1> QED BY <1>4, <1>5, <1>6, <1>7 DEF BlockOf

LEMMA AccessLeavesAChoice ==
    ASSUME cap = InitCap, cap' = cap, accessed \subseteq Stored, NEW s \in Stored,
           \A t \in Slots : ~(BlockOf(t) \subseteq accessed),
           Access(s), Stored \subseteq Stored'
    PROVE  /\ accessed' \subseteq Stored' /\ s \in accessed'
           /\ \A t \in Slots' : ~(BlockOf(t)' \subseteq accessed')
<1>1. Slots' = Slots /\ s \in Slots /\ \A t : BlockOf(t)' = BlockOf(t)
  BY DEF Slots, Stored, BlockOf
<1>2. CASE BlockOf(s) \subseteq accessed \cup {s}
  <2>1. accessed' = (accessed \ BlockOf(s)) \cup {s}
    BY <1>2 DEF Access
  <2>2. ASSUME NEW t \in Slots, BlockOf(t) \subseteq accessed' PROVE FALSE
    <3>1. CASE BlockOf(t) = BlockOf(s)
      BY <1>1, <2>1, <2>2, <3>1, BlockHasTwo
    <3>2. CASE BlockOf(t) # BlockOf(s)
      <4>1. s \notin BlockOf(t)
        BY <3>2 DEF BlockOf
      <4> QED BY <2>1, <2>2, <4>1
    <3> QED BY <3>1, <3>2
  <2> QED BY <1>1, <2>1, <2>2
<1>3. CASE ~(BlockOf(s) \subseteq accessed \cup {s})
  <2>1. accessed' = accessed \cup {s}
    BY <1>3 DEF Access
  <2>2. ASSUME NEW t \in Slots, BlockOf(t) \subseteq accessed' PROVE FALSE
    <3>1. CASE s \in BlockOf(t)
      <4>1. BlockOf(t) = BlockOf(s)
        BY <3>1 DEF BlockOf
      <4> QED BY <1>3, <2>1, <2>2, <4>1
    <3>2. CASE s \notin BlockOf(t)
      BY <2>1, <2>2, <3>2
    <3> QED BY <3>1, <3>2
  <2> QED BY <1>1, <2>1, <2>2
<1> QED BY <1>2, <1>3

LEMMA MarksStay ==
    ASSUME MarksLeaveAChoice, cpc # "clear", cap' = cap, accessed' = accessed,
           Stored \subseteq Stored'
    PROVE  MarksLeaveAChoice'
  BY DEF MarksLeaveAChoice, Slots, BlockOf

LEMMA NoMarks ==
    ASSUME accessed' = {}
    PROVE  MarksLeaveAChoice'
  BY DEF MarksLeaveAChoice, BlockOf

LEMMA NothingMoves ==
    ASSUME HInv, UNCHANGED vars
    PROVE  /\ HInv' /\ Stored' = Stored /\ Slots' = Slots
           /\ \A k : InTable(k)' <=> InTable(k)
<1>1. HInv'
  BY NextKeeps
<1> QED BY <1>1 DEF vars, Stored, InTable, Occupied, Slots

(* The hand finds a slot: a nearest one, for distances are numbers.         *)
LEMMA VictimIs ==
    ASSUME Victims # {}, MInv
    PROVE  Victim \in Victims /\ Victim \in Slots /\ Occupied(Victim) /\ Victim \notin accessed
<1> DEFINE far == {FromHand(s) : s \in Victims}
<1>1. cap \in Nat \ {0} /\ Victims \subseteq 0 .. cap - 1 /\ hand \in 0 .. cap - 1
  BY DEF MInv, HInv, TypeOK, Calls, Victims, Slots
<1>2. \A s \in Victims : FromHand(s) \in Nat
  BY <1>1 DEF FromHand
<1>3. far \subseteq Nat /\ far # {}
  BY <1>2
<1>4. PICK m \in far : \A n \in far : m <= n
  BY <1>3, LeastNumber
<1>5. \E s \in Victims : \A t \in Victims : FromHand(s) <= FromHand(t)
  BY <1>4
<1>6. Victim \in Victims
  BY <1>5 DEF Victim
<1> QED BY <1>6 DEF Victims, Occupied

(* A call of INSERT that ends in success. *)
LEMMA InsertedMarks ==
    ASSUME MInv, cpc \in {"first", "second"}, pc = "idle", res = TRUE, Inserted
    PROVE  MInv' /\ FindIndex(arg.key) \in accessed' /\ InTable(arg.key)
<1>1. HInv' /\ Stored' = Stored
  BY NothingMoves DEF MInv, Inserted
<1>2. arg.key \in Keys /\ InTable(arg.key)
  BY EntryFields DEF MInv, Calls, ArgIsThere
<1>3. FindIndex(arg.key) \in Stored
  BY <1>2, FoundIsIn DEF MInv
<1>4. MarksLeaveAChoice' /\ FindIndex(arg.key) \in accessed'
  <2>1. cap = InitCap /\ cap' = cap /\ accessed \subseteq Stored /\ Stored \subseteq Stored'
        /\ \A t \in Slots : ~(BlockOf(t) \subseteq accessed)
    BY <1>1 DEF MInv, Calls, MarksLeaveAChoice, Inserted, vars
  <2>2. Access(FindIndex(arg.key))
    BY DEF Inserted
  <2>3. /\ accessed' \subseteq Stored' /\ FindIndex(arg.key) \in accessed'
        /\ \A t \in Slots' : ~(BlockOf(t)' \subseteq accessed')
    BY <1>3, <2>1, <2>2, AccessLeavesAChoice
  <2> QED BY <2>3 DEF MarksLeaveAChoice
<1>5. Calls' /\ ArgIsThere'
  BY DEF MInv, Calls, ArgIsThere, Inserted, vars
<1> QED BY <1>1, <1>2, <1>4, <1>5 DEF MInv

LEMMA MarksKept == MInv /\ [CacheNext]_cvars => MInv'
<1> SUFFICES ASSUME MInv, [CacheNext]_cvars PROVE MInv'
  OBVIOUS
<1>1. HInv /\ Calls /\ ArgIsThere /\ MarksLeaveAChoice
  BY DEF MInv
<1>2. ASSUME TableStep PROVE MInv'
  <2>1. InsertStep /\ UNCHANGED cache
    BY <1>2 DEF TableStep
  <2>2. HInv'
    BY <1>1, <2>1, NextKeeps DEF Next
  <2>3. /\ pc = "insert" /\ todo' = <<>>
        /\ UNCHANGED <<raw, cap, size, canGrow, hasCb>>
        /\ Stored \subseteq Stored' /\ pc' \in {"insert", "idle"}
    BY <1>1, <2>1, <2>2, InsertStepDoes DEF Calls
  <2>4. Calls'
    BY <1>1, <2>1, <2>3 DEF Calls, cache
  <2>5. MarksLeaveAChoice'
    <3>1. cpc # "clear"
      BY <1>1, <2>3 DEF Calls
    <3> QED BY <1>1, <2>1, <2>3, <3>1, MarksStay DEF cache
  <2>6. ArgIsThere'
    <3>1. cpc \in {"first", "second"} /\ arg' = arg /\ cpc' = cpc
      BY <1>1, <2>1, <2>3 DEF Calls, cache
    <3>2. PICK k : k = arg.key
      OBVIOUS
    <3>3. InTable(k) \/ carry.key = k
      BY <1>1, <2>3, <3>1, <3>2 DEF ArgIsThere
    <3>4. (pc' = "idle" /\ res' # TRUE) \/ InTable(k)' \/ (pc' = "insert" /\ carry'.key = k)
      BY <1>1, <2>1, <2>2, <3>3, InsertStepDoes DEF Calls
    <3> QED BY <3>1, <3>2, <3>4 DEF ArgIsThere, InTable
  <2> QED BY <2>2, <2>4, <2>5, <2>6 DEF MInv
<1>3. ASSUME AfterFirst PROVE MInv'
  <2>1. CASE res = TRUE /\ Inserted
    BY <1>3, <2>1, InsertedMarks DEF AfterFirst
  <2>2. CASE cpc' = "evict" /\ UNCHANGED <<vars, accessed, hand, arg, at, owed, latest>>
    <3>1. HInv' /\ Stored' = Stored
      BY <1>1, <2>2, NothingMoves
    <3>2. MarksLeaveAChoice'
      BY <1>1, <1>3, <2>2, <3>1, MarksStay DEF AfterFirst, vars
    <3>3. Calls' /\ ArgIsThere'
      BY <1>1, <1>3, <2>2 DEF AfterFirst, Calls, ArgIsThere, vars
    <3> QED BY <3>1, <3>2, <3>3 DEF MInv
  <2> QED BY <1>3, <2>1, <2>2 DEF AfterFirst
<1>4. ASSUME AfterSecond PROVE MInv'
  <2>1. CASE res = TRUE /\ Inserted
    BY <1>4, <2>1, InsertedMarks DEF AfterSecond
  <2>2. CASE cpc' = "panic" /\ UNCHANGED <<vars, accessed, hand, arg, at, owed, latest>>
    <3>1. HInv' /\ Stored' = Stored
      BY <1>1, <2>2, NothingMoves
    <3>2. MarksLeaveAChoice'
      BY <1>1, <1>4, <2>2, <3>1, MarksStay DEF AfterSecond, vars
    <3>3. Calls' /\ ArgIsThere'
      BY <1>1, <1>4, <2>2 DEF AfterSecond, Calls, ArgIsThere, vars
    <3> QED BY <3>1, <3>2, <3>3 DEF MInv
  <2> QED BY <1>4, <2>1, <2>2 DEF AfterSecond
<1>5. ASSUME Evict PROVE MInv'
  <2>1. Victim \in Slots /\ Occupied(Victim)
    BY <1>5, VictimIs DEF Evict
  <2>2. pc = "idle" /\ cpc = "evict" /\ cpc' = "again" /\ accessed' = {}
    BY <1>1, <1>5 DEF Evict, Calls, HInv, TypeOK
  <2>3. HInv'
    BY <1>1, <1>5, <2>1, <2>2, DeleteIndexDoes DEF Evict
  <2>4. Calls' /\ ArgIsThere'
    BY <1>1, <1>5, <2>1, <2>2 DEF Evict, Calls, ArgIsThere, loop, Slots
  <2> QED BY <2>2, <2>3, <2>4, NoMarks DEF MInv
<1>6. ASSUME NothingToEvict PROVE MInv'
  <2>1. HInv' /\ Stored' = Stored
    BY <1>1, <1>6, NothingMoves DEF NothingToEvict
  <2>2. MarksLeaveAChoice'
    BY <1>1, <1>6, <2>1, MarksStay DEF NothingToEvict, vars
  <2>3. Calls' /\ ArgIsThere'
    BY <1>1, <1>6 DEF NothingToEvict, Calls, ArgIsThere, vars
  <2> QED BY <2>1, <2>2, <2>3 DEF MInv
<1>7. ASSUME InsertAgain PROVE MInv'
  <2>1. arg \in Entry /\ arg.key \in Keys /\ arg.value \in Values
    BY <1>1, <1>7 DEF InsertAgain, Calls, Entry
  <2>2. CASE Insert(arg.key, arg.value) /\ cpc' = "second"
    <3>1. /\ HInv' /\ pc' = "insert" /\ carry' = [key |-> arg.key, value |-> arg.value]
          /\ UNCHANGED <<raw, cap, canGrow, hasCb, entries, todo>>
          /\ Stored' = Stored
      BY <1>1, <2>1, <2>2, InsertStarts
    <3>2. MarksLeaveAChoice'
      BY <1>1, <1>7, <3>1, MarksStay DEF InsertAgain
    <3>3. Calls'
      BY <1>1, <1>7, <2>1, <2>2, <3>1 DEF InsertAgain, Calls
    <3>4. ArgIsThere'
      BY <1>7, <3>1 DEF InsertAgain, ArgIsThere
    <3> QED BY <3>1, <3>2, <3>3, <3>4 DEF MInv
  <2>3. CASE InsertRefused(arg.key, arg.value) /\ cpc' = "panic"
    <3>1. HInv'
      BY <1>1, <2>1, <2>3, NextKeeps DEF Next
    <3>2. UNCHANGED <<cap, entries>> /\ UNCHANGED <<table, loop>>
      BY <2>3 DEF InsertRefused, table
    <3>3. Stored' = Stored
      BY <3>2 DEF Stored, Slots, Occupied
    <3>4. MarksLeaveAChoice'
      BY <1>1, <1>7, <3>2, <3>3, MarksStay DEF InsertAgain
    <3>5. Calls' /\ ArgIsThere'
      BY <1>1, <1>7, <2>3, <3>2 DEF InsertAgain, Calls, ArgIsThere, table, loop
    <3> QED BY <3>1, <3>4, <3>5 DEF MInv
  <2> QED BY <1>7, <2>2, <2>3 DEF InsertAgain
<1>8. ASSUME ClearSlot PROVE MInv'
  <2>1. pc = "idle" /\ cpc = "clear" /\ cpc' = "clear" /\ at \in Slots /\ cap \in Nat
    BY <1>1, <1>8 DEF ClearSlot, Calls, HInv, TypeOK, Slots
  <2>2. HInv'
    <3>1. CASE entries[at] # Vacant /\ DeleteIndex(at)
      BY <1>1, <1>8, <2>1, <3>1, DeleteIndexDoes DEF ClearSlot, Occupied
    <3>2. CASE UNCHANGED <<entries, size>>
      <4>1. UNCHANGED vars
        BY <1>8, <3>2 DEF ClearSlot, loop, vars
      <4> QED BY <1>1, <4>1, NothingMoves
    <3> QED BY <1>8, <3>1, <3>2 DEF ClearSlot
  <2>3. Calls' /\ ArgIsThere' /\ MarksLeaveAChoice'
    BY <1>1, <1>8, <2>1 DEF ClearSlot, Calls, ArgIsThere, MarksLeaveAChoice, loop, Slots
  <2> QED BY <2>2, <2>3 DEF MInv
<1>9. ASSUME Cleared PROVE MInv'
  <2>1. HInv'
    BY <1>1, <1>9, NothingMoves DEF Cleared
  <2>2. Calls' /\ ArgIsThere'
    BY <1>1, <1>9 DEF Cleared, Calls, ArgIsThere, vars, HInv, TypeOK
  <2> QED BY <1>9, <2>1, <2>2, NoMarks DEF MInv, Cleared
<1>10. ASSUME NEW k \in Keys, CacheFind(k) PROVE MInv'
  <2>1. HInv'
    BY <1>1, <1>10, NextKeeps DEF CacheFind, Next
  <2>2. UNCHANGED <<table, loop>> /\ cpc = "idle" /\ UNCHANGED <<hand, cpc, arg, at, owed>>
    BY <1>10 DEF CacheFind, Find
  <2>3. Stored' = Stored /\ cap' = cap
    BY <2>2 DEF Stored, Slots, Occupied, table
  <2>4. MarksLeaveAChoice'
    <3>1. CASE Found(k) /\ Access(FindIndex(k))
      <4>1. FindIndex(k) \in Stored /\ cap = InitCap /\ accessed \subseteq Stored
            /\ \A t \in Slots : ~(BlockOf(t) \subseteq accessed)
        BY <1>1, <2>2, <3>1, FoundIsIn DEF Calls, MarksLeaveAChoice
      <4>2. /\ accessed' \subseteq Stored'
            /\ \A t \in Slots' : ~(BlockOf(t)' \subseteq accessed')
        BY <2>3, <3>1, <4>1, AccessLeavesAChoice
      <4> QED BY <4>2 DEF MarksLeaveAChoice
    <3>2. CASE accessed' = accessed
      BY <1>1, <2>2, <2>3, <3>2, MarksStay
    <3> QED BY <1>10, <3>1, <3>2 DEF CacheFind
  <2>5. Calls' /\ ArgIsThere'
    BY <1>1, <2>2 DEF Calls, ArgIsThere, table, loop
  <2> QED BY <2>1, <2>4, <2>5 DEF MInv
<1>11. ASSUME NEW k \in Keys, NEW v \in Values, CacheInsert(k, v) PROVE MInv'
  <2>1. /\ cpc = "idle" /\ arg' = [key |-> k, value |-> v] /\ arg' \in Entry
        /\ UNCHANGED <<accessed, hand, at, owed, latest>>
    BY <1>11 DEF CacheInsert, Entry
  <2>2. CASE Insert(k, v) /\ cpc' = "first"
    <3>1. /\ HInv' /\ pc' = "insert" /\ carry' = [key |-> k, value |-> v]
          /\ UNCHANGED <<raw, cap, canGrow, hasCb, entries, todo>>
          /\ Stored' = Stored
      BY <1>1, <2>2, InsertStarts
    <3>2. MarksLeaveAChoice'
      BY <1>1, <2>1, <3>1, MarksStay
    <3>3. Calls' /\ ArgIsThere'
      BY <1>1, <2>1, <2>2, <3>1 DEF Calls, ArgIsThere
    <3> QED BY <3>1, <3>2, <3>3 DEF MInv
  <2>3. CASE InsertRefused(k, v) /\ cpc' = "evict"
    <3>1. HInv'
      BY <1>1, <2>3, NextKeeps DEF Next
    <3>2. UNCHANGED <<cap, entries>> /\ UNCHANGED <<table, loop>>
      BY <2>3 DEF InsertRefused, table
    <3>3. Stored' = Stored
      BY <3>2 DEF Stored, Slots, Occupied
    <3>4. MarksLeaveAChoice'
      BY <1>1, <2>1, <3>2, <3>3, MarksStay
    <3>5. Calls' /\ ArgIsThere'
      BY <1>1, <2>1, <2>3, <3>2 DEF Calls, ArgIsThere, table, loop, InsertRefused
    <3> QED BY <3>1, <3>4, <3>5 DEF MInv
  <2> QED BY <1>11, <2>2, <2>3 DEF CacheInsert
<1>12. ASSUME Clear PROVE MInv'
  <2>1. HInv'
    BY <1>1, <1>12, NothingMoves DEF Clear
  <2>2. Calls' /\ ArgIsThere' /\ MarksLeaveAChoice'
    BY <1>1, <1>12 DEF Clear, Calls, ArgIsThere, MarksLeaveAChoice, vars
  <2> QED BY <2>1, <2>2 DEF MInv
<1>13. ASSUME CacheDestroy PROVE MInv'
  <2>1. HInv'
    BY <1>1, <1>13, DestroyKeeps DEF CacheDestroy
  <2>2. Calls' /\ ArgIsThere'
    BY <1>1, <1>13 DEF CacheDestroy, Destroy, Calls, ArgIsThere
  <2> QED BY <1>13, <2>1, <2>2, NoMarks DEF MInv, CacheDestroy
<1>14. ASSUME CacheNew PROVE MInv'
  <2>1. HInv'
    BY <1>1, <1>14, NewKeeps DEF CacheNew
  <2>2. 0 \in 0 .. InitCap - 1
    BY CapAssumption
  <2>3. Calls' /\ ArgIsThere' /\ accessed' = {}
    BY <1>1, <1>14, <2>2 DEF CacheNew, New, Calls, ArgIsThere
  <2> QED BY <2>1, <2>3, NoMarks DEF MInv
<1>15. ASSUME UNCHANGED cvars PROVE MInv'
  <2>1. HInv' /\ Stored' = Stored
    BY <1>1, <1>15, NothingMoves DEF cvars
  <2>2. Calls' /\ ArgIsThere' /\ MarksLeaveAChoice'
    BY <1>1, <1>15, <2>1 DEF cvars, vars, cache, Calls, ArgIsThere, MarksLeaveAChoice,
                             InTable, BlockOf, Slots, Occupied
  <2> QED BY <2>1, <2>2 DEF MInv
<1> QED
  BY <1>2, <1>3, <1>4, <1>5, <1>6, <1>7, <1>8, <1>9, <1>10, <1>11, <1>12, <1>13, <1>14, <1>15
     DEF CacheNext, CallStep

LEMMA MarksFromTheStart == CacheInit => MInv
<1> SUFFICES ASSUME CacheInit PROVE MInv
  OBVIOUS
<1>1. HInv
  BY InitHolds DEF CacheInit
<1>2. /\ cap = InitCap /\ canGrow = FALSE /\ hasCb = FALSE /\ todo = <<>> /\ pc = "idle"
      /\ cpc = "idle" /\ accessed = {} /\ hand = 0 /\ at = 0
  BY DEF CacheInit, Init
<1>3. Calls /\ ArgIsThere
  <2>1. 0 \in 0 .. InitCap - 1 /\ 0 \in 0 .. InitCap
    BY CapAssumption
  <2> QED BY <1>2, <2>1 DEF Calls, ArgIsThere
<1>4. MarksLeaveAChoice
  BY <1>2 DEF MarksLeaveAChoice, BlockOf
<1> QED BY <1>1, <1>3, <1>4 DEF MInv

(* Whatever the caller inserts, marks are on stored entries and no block of *)
(* marks is full: ACCESS clears a block before it would be, and a mark that *)
(* displacements and evictions leave behind is never on an empty slot.      *)
THEOREM CacheHasAChoice == CacheSpec => []MarksLeaveAChoice
<1>1. MInv => MarksLeaveAChoice
  BY DEF MInv
<1> QED
  BY <1>1, MarksFromTheStart, MarksKept, PTL DEF CacheSpec

-----------------------------------------------------------------------------
(* How many steps a call has left at most: an INSERT has two insertions of  *)
(* no more than cap rounds, with an eviction in between; a CLEAR has a slot *)
(* for each iteration.                                                      *)
StepsLeft ==
    CASE cpc = "first" -> cap + 4 + RoundsLeft
      [] cpc = "evict" -> cap + 3
      [] cpc = "again" -> cap + 2
      [] cpc = "second" -> 1 + RoundsLeft
      [] cpc = "clear" -> 1 + cap - at
      [] OTHER -> 0

LEMMA StepsAre ==
    MInv => StepsLeft \in Nat /\ cap \in Nat /\ RoundsLeft \in Nat /\ RoundsLeft <= cap
<1> SUFFICES ASSUME MInv
             PROVE  StepsLeft \in Nat /\ cap \in Nat /\ RoundsLeft \in Nat /\ RoundsLeft <= cap
  OBVIOUS
<1>1. HInv /\ cap \in Nat /\ todo = <<>> /\ at \in 0 .. cap
  BY DEF MInv, Calls, HInv, TypeOK
<1>2. RoundsLeft \in Nat
  BY <1>1, RoundsAre
<1>3. RoundsLeft <= cap
  <2>1. CASE pc = "insert"
    <3>1. Len(todo) = 0
      BY <1>1
    <3>2. RoundsLeft <= (Len(todo) + 1) * cap
      BY <1>1, <2>1, RoundsAre
    <3> QED BY <1>1, <3>1, <3>2
  <2>2. CASE pc # "insert"
    BY <1>1, <2>2 DEF RoundsLeft
  <2> QED BY <2>1, <2>2
<1> QED BY <1>1, <1>2, <1>3 DEF StepsLeft
LEMMA StepsAreNext ==
    (MInv => StepsLeft \in Nat /\ cap \in Nat /\ RoundsLeft \in Nat /\ RoundsLeft <= cap)'
  BY StepsAre, PTL

LEMMA CallIsNearer ==
    ASSUME MInv, MInv', CallStep
    PROVE  StepsLeft \in Nat /\ StepsLeft' \in Nat /\ StepsLeft' < StepsLeft
<1>1. PICK c, d, r, q : c = cap /\ d = cap' /\ r = RoundsLeft /\ q = RoundsLeft'
  OBVIOUS
<1>2. /\ StepsLeft \in Nat /\ StepsLeft' \in Nat /\ c \in Nat /\ r \in Nat /\ r <= c
      /\ d = c /\ q \in Nat /\ q <= c
  <2>1. cap' = cap
    BY DEF MInv, Calls
  <2> QED BY <1>1, <2>1, StepsAre, StepsAreNext
<1>3. CASE TableStep
  <2>1. InsertStep /\ cpc' = cpc /\ pc = "insert"
    BY <1>3 DEF TableStep, cache, InsertStep, PassOver, Displace, Place, Duplicate
  <2>2. q < r
    BY <1>1, <2>1, StepIsNearer DEF MInv
  <2>3. CASE cpc = "first"
    BY <1>1, <1>2, <2>1, <2>2, <2>3 DEF StepsLeft
  <2>4. CASE cpc = "second"
    BY <1>1, <1>2, <2>1, <2>2, <2>4 DEF StepsLeft
  <2> QED BY <1>2, <2>1, <2>3, <2>4 DEF MInv, Calls
<1>4. CASE AfterFirst
  <2>1. cpc = "first" /\ cpc' \in {"idle", "evict"}
    BY <1>4 DEF AfterFirst, Inserted
  <2>2. StepsLeft = c + 4 + r
    BY <1>1, <2>1 DEF StepsLeft
  <2>3. StepsLeft' \in {0, c + 3}
    BY <1>1, <1>2, <2>1 DEF StepsLeft
  <2> QED BY <1>2, <2>2, <2>3
<1>5. CASE Evict \/ NothingToEvict
  <2>1. cpc = "evict" /\ cpc' \in {"again", "panic"}
    BY <1>5 DEF Evict, NothingToEvict
  <2>2. StepsLeft = c + 3 /\ StepsLeft' \in {0, c + 2}
    BY <1>1, <1>2, <2>1 DEF StepsLeft
  <2> QED BY <1>2, <2>2
<1>6. CASE InsertAgain
  <2>1. cpc = "again" /\ cpc' \in {"second", "panic"}
    BY <1>6 DEF InsertAgain
  <2>2. StepsLeft = c + 2 /\ StepsLeft' \in {0, 1 + q}
    BY <1>1, <1>2, <2>1 DEF StepsLeft
  <2> QED BY <1>2, <2>2
<1>7. CASE AfterSecond
  <2>1. cpc = "second" /\ cpc' \in {"idle", "panic"}
    BY <1>7 DEF AfterSecond, Inserted
  <2>2. StepsLeft = 1 + r /\ StepsLeft' = 0
    BY <1>1, <1>2, <2>1 DEF StepsLeft
  <2> QED BY <1>2, <2>2
<1>8. CASE ClearSlot
  <2>1. cpc = "clear" /\ cpc' = "clear" /\ at < cap /\ at' = at + 1 /\ at \in 0 .. cap
    BY <1>8 DEF ClearSlot, MInv, Calls
  <2>2. StepsLeft = 1 + c - at /\ StepsLeft' = 1 + c - (at + 1)
    BY <1>1, <1>2, <2>1 DEF StepsLeft
  <2> QED BY <1>1, <1>2, <2>1, <2>2
<1>9. CASE Cleared
  <2>1. cpc = "clear" /\ cpc' = "idle" /\ at = cap
    BY <1>9 DEF Cleared
  <2>2. StepsLeft = 1 /\ StepsLeft' = 0
    BY <1>1, <1>2, <2>1 DEF StepsLeft
  <2> QED BY <1>2, <2>2
<1> QED BY <1>3, <1>4, <1>5, <1>6, <1>7, <1>8, <1>9 DEF CallStep

(* Whatever the caller inserts, each step of FIND, INSERT, EVICT or CLEAR   *)
(* (cache.h:129-188) brings the call nearer to its end, or to its panic: no *)
(* call goes on for ever, though INSERT_AT's loop has no bound of its own.  *)
THEOREM CacheCallsShorten ==
    CacheSpec => [][CallStep => /\ StepsLeft \in Nat /\ StepsLeft' \in Nat
                                /\ StepsLeft' < StepsLeft]_cvars
<1>1. MInv /\ [CacheNext]_cvars => MInv'
  BY MarksKept
<1>2. MInv /\ MInv' => [CallStep => /\ StepsLeft \in Nat /\ StepsLeft' \in Nat
                                    /\ StepsLeft' < StepsLeft]_cvars
  BY CallIsNearer
<1> QED BY <1>1, <1>2, MarksFromTheStart, PTL DEF CacheSpec

-----------------------------------------------------------------------------
(* From here on the caller inserts only keys that are absent. *)

ArgIsIn == InTable(arg.key)
InCache == {entries[s].key : s \in Stored}

(* A key that was absent is found absent all along. *)
ArgIsNew ==
    /\ pc = "insert" => ~CarryIsIn
    /\ cpc \in {"evict", "again"} => ~ArgIsIn
    /\ cpc \in {"first", "second"} /\ pc = "idle" => res = TRUE

(* The counter counts what is stored and in hand, so that an insertion is   *)
(* refused by a full table alone.                                           *)
SizeIsExact ==
    /\ cpc # "gone" => size = Cardinality(Stored) + (IF pc = "insert" THEN 1 ELSE 0)
    /\ cpc = "evict" => size >= cap
    /\ cpc = "again" => size < cap

(* The entry used last has its mark while nothing moves. *)
LatestIsMarked ==
    /\ cpc \in {"idle", "evict"} /\ latest # Nobody =>
          \E s \in accessed : s \in Slots /\ Occupied(s) /\ entries[s].key = latest
    /\ cpc = "gone" => latest = Nobody

(* What the callback is owed is in the cache, or in hand. *)
Owes ==
    cpc # "gone" =>
        IF pc = "insert" THEN InCache \cup {carry.key} = owed \cup {arg.key}
        ELSE IF cpc \in {"first", "second"} THEN InCache = owed \cup {arg.key}
        ELSE InCache = owed

CInv == MInv /\ NeverPanics /\ ArgIsNew /\ SizeIsExact /\ LatestIsMarked /\ Owes

LEMMA InCacheIs == \A k : k \in InCache <=> InTable(k)
  BY DEF InCache, InTable, Stored
LEMMA InCacheIsNext == (\A k : k \in InCache <=> InTable(k))'
  BY InCacheIs, PTL

LEMMA FullTable ==
    ASSUME HInv, Cardinality(Stored) >= cap
    PROVE  Stored = Slots
<1>1. cap \in Nat /\ Stored \in SUBSET Slots /\ Stored = Taken(entries, cap)
  BY StoredIsTaken DEF HInv, TypeOK, Stored
<1>2. IsFiniteSet(Slots) /\ Cardinality(Slots) = cap
  <2>1. 0 \in Int /\ cap - 1 \in Int
    BY <1>1
  <2>2. IsFiniteSet(0 .. cap - 1)
        /\ Cardinality(0 .. cap - 1) = IF 0 > cap - 1 THEN 0 ELSE cap - 1 - 0 + 1
    BY <2>1, FS_Interval
  <2> QED BY <1>1, <2>2 DEF Slots
<1>3. Cardinality(Stored) <= cap /\ Cardinality(Stored) \in Nat
  BY <1>1, TakenType
<1>4. Cardinality(Stored) = Cardinality(Slots)
  BY <1>1, <1>2, <1>3
<1> QED BY <1>1, <1>2, <1>4, FS_Subset

(* The eviction of a full cache finds an entry without a mark. *)
LEMMA FullHasAVictim ==
    ASSUME CInv, cpc = "evict"
    PROVE  Victims # {}
<1>1. HInv /\ Calls /\ accessed \subseteq Stored
      /\ \A s \in Slots : ~(BlockOf(s) \subseteq accessed)
  BY DEF CInv, MInv, MarksLeaveAChoice
<1>2. pc # "insert" /\ size >= cap /\ size = Cardinality(Stored) /\ cap \in Nat \ {0}
      /\ Cardinality(Stored) \in Nat
  <2>1. cap \in Nat \ {0} /\ Cardinality(Stored) \in Nat
    BY <1>1, TakenType, StoredIsTaken DEF HInv, TypeOK
  <2>2. pc # "insert" /\ size >= cap /\ size = Cardinality(Stored) + 0
    BY <1>1 DEF CInv, Calls, SizeIsExact
  <2> QED BY <2>1, <2>2
<1>3. Stored = Slots
  BY <1>1, <1>2, FullTable
<1>4. 0 \in Slots
  BY <1>2 DEF Slots
<1>5. PICK s \in BlockOf(0) : s \notin accessed
  BY <1>1, <1>4
<1> QED BY <1>3, <1>5 DEF BlockOf, Victims, Stored, Occupied

(* The insertion starts with a key that is absent. *)
LEMMA NewInHand ==
    ASSUME CInv, MInv', NEW k \in Keys, NEW v \in Values, Insert(k, v), ~InTable(k),
           cpc \in {"idle", "again"}, cpc' \in {"first", "second"},
           arg'.key = k, owed' = owed
    PROVE  CInv'
<1>1. HInv /\ Calls
  BY DEF CInv, MInv
<1>2. /\ pc = "idle" /\ pc' = "insert" /\ carry' = [key |-> k, value |-> v]
      /\ size' = size + 1 /\ Stored' = Stored /\ \A y : InTable(y)' <=> InTable(y)
  BY <1>1, InsertStarts
<1>3. ArgIsNew'
  <2>1. ~InTable(k)' /\ carry'.key = k
    BY <1>2
  <2>2. ~CarryIsIn'
    BY <2>1 DEF CarryIsIn, InTable
  <2> QED BY <1>2, <2>2 DEF ArgIsNew
<1>4. SizeIsExact'
  <2>1. Cardinality(Stored) \in Nat
    BY <1>1, StoredIsTaken, TakenType DEF HInv, TypeOK
  <2>2. size = Cardinality(Stored) + 0
    BY <1>2 DEF CInv, SizeIsExact
  <2>3. size' = Cardinality(Stored') + 1
    BY <1>2, <2>1, <2>2
  <2> QED BY <1>2, <2>3 DEF SizeIsExact
<1>5. InCache' = InCache
  BY <1>2, InCacheIs, InCacheIsNext
<1>6. InCache = owed
  BY <1>2 DEF CInv, Owes
<1>7. Owes'
  BY <1>2, <1>5, <1>6 DEF Owes
<1> QED BY <1>3, <1>4, <1>7 DEF CInv, NeverPanics, LatestIsMarked

LEMMA InsertedKeeps ==
    ASSUME CInv, MInv', cpc \in {"first", "second"}, pc = "idle", res = TRUE, Inserted
    PROVE  CInv'
<1>1. MInv /\ HInv /\ Calls
  BY DEF CInv, MInv
<1>2. /\ UNCHANGED vars /\ Stored' = Stored /\ Slots' = Slots
      /\ \A k : InTable(k)' <=> InTable(k)
  BY <1>1, NothingMoves DEF Inserted
<1>3. cpc' = "idle" /\ pc' = "idle" /\ latest' = arg.key /\ owed' = owed \cup {arg.key}
  BY <1>2 DEF Inserted, vars
<1>4. InCache' = InCache /\ InCache = owed \cup {arg.key}
  BY <1>2, InCacheIs, InCacheIsNext DEF CInv, Owes
<1>5. LatestIsMarked'
  <2>1. /\ FindIndex(arg.key) \in accessed' /\ FindIndex(arg.key) \in Stored
        /\ entries[FindIndex(arg.key)].key = arg.key
    <3>1. arg.key \in Keys
      BY <1>1, EntryFields DEF Calls
    <3> QED BY <1>1, <3>1, InsertedMarks, FoundIsIn
  <2> QED BY <1>2, <1>3, <2>1 DEF LatestIsMarked, Stored, Occupied, vars
<1>6. SizeIsExact'
  BY <1>2, <1>3 DEF CInv, SizeIsExact, vars
<1> QED BY <1>3, <1>4, <1>5, <1>6 DEF CInv, NeverPanics, ArgIsNew, Owes

LEMMA CInvKept == ~Reinserts /\ CInv /\ [CacheNext]_cvars => CInv'
<1> SUFFICES ASSUME ~Reinserts, CInv, [CacheNext]_cvars PROVE CInv'
  OBVIOUS
<1>1. /\ MInv /\ HInv /\ Calls /\ NeverPanics /\ ArgIsNew /\ SizeIsExact
      /\ LatestIsMarked /\ Owes /\ MInv'
  BY MarksKept DEF CInv, MInv
<1>2. Cardinality(Stored) \in Nat /\ Cardinality(Stored) <= cap /\ cap \in Nat
  BY <1>1, StoredIsTaken, TakenType DEF HInv, TypeOK
<1>3. ASSUME TableStep PROVE CInv'
  <2>1. InsertStep /\ UNCHANGED cache /\ HInv'
    BY <1>1, <1>3 DEF TableStep, MInv
  <2>2. pc = "insert" /\ cpc \in {"first", "second"} /\ UNCHANGED <<cap, size>>
    BY <1>1, <2>1, InsertStepDoes DEF Calls
  <2>3. /\ cpc' = cpc /\ arg' = arg /\ owed' = owed /\ ~CarryIsIn
        /\ InCache \cup {carry.key} = owed \cup {arg.key}
        /\ size = Cardinality(Stored) + 1
    BY <1>1, <2>1, <2>2 DEF cache, ArgIsNew, Owes, SizeIsExact
  <2>4. CASE /\ pc' = "insert" /\ Stored' = Stored
             /\ \A k : InTable(k)' \/ k = carry'.key <=> InTable(k) \/ k = carry.key
             /\ CarryIsIn' <=> CarryIsIn
    <3>1. InCache' \cup {carry'.key} = InCache \cup {carry.key}
      BY <2>4, InCacheIs, InCacheIsNext
    <3>2. ArgIsNew' /\ SizeIsExact' /\ Owes'
      BY <2>2, <2>3, <2>4, <3>1 DEF ArgIsNew, SizeIsExact, Owes
    <3> QED BY <1>1, <2>2, <2>3, <3>2 DEF CInv, NeverPanics, LatestIsMarked
  <2>5. CASE /\ pc' = "idle" /\ res' = TRUE
             /\ Cardinality(Stored') = Cardinality(Stored) + 1
             /\ \A k : InTable(k)' <=> InTable(k) \/ k = carry.key
    <3>1. InCache' = InCache \cup {carry.key}
      BY <2>5, InCacheIs, InCacheIsNext
    <3>2. size' = Cardinality(Stored') + 0
      BY <1>2, <2>2, <2>3, <2>5
    <3>3. ArgIsNew' /\ SizeIsExact' /\ Owes'
      BY <2>2, <2>3, <2>5, <3>1, <3>2 DEF ArgIsNew, SizeIsExact, Owes
    <3> QED BY <1>1, <2>2, <2>3, <3>3 DEF CInv, NeverPanics, LatestIsMarked
  <2> QED BY <1>1, <2>1, <2>3, <2>4, <2>5, InsertStepDoes DEF Calls
<1>4. ASSUME AfterFirst PROVE CInv'
  <2>1. cpc = "first" /\ pc = "idle" /\ res = TRUE /\ Inserted
    BY <1>1, <1>4 DEF AfterFirst, ArgIsNew
  <2> QED BY <1>1, <2>1, InsertedKeeps
<1>5. ASSUME AfterSecond PROVE CInv'
  <2>1. cpc = "second" /\ pc = "idle" /\ res = TRUE /\ Inserted
    BY <1>1, <1>5 DEF AfterSecond, ArgIsNew
  <2> QED BY <1>1, <2>1, InsertedKeeps
<1>6. ASSUME Evict PROVE CInv'
  <2>1. Victim \in Slots /\ Occupied(Victim)
    BY <1>1, <1>6, VictimIs DEF Evict
  <2>2. /\ pc = "idle" /\ pc' = "idle" /\ cpc = "evict" /\ cpc' = "again"
        /\ arg' = arg /\ cap' = cap /\ size' = size - 1
        /\ owed' = owed \ {entries[Victim].key}
    BY <1>1, <1>6 DEF Evict, Calls, HInv, TypeOK, loop, DeleteIndex
  <2>3. /\ Cardinality(Stored') = Cardinality(Stored) - 1
        /\ \A k : InTable(k)' <=> InTable(k) /\ k # entries[Victim].key
    BY <1>1, <1>6, <2>1, <2>2, DeleteIndexDoes DEF Evict
  <2>4. size = Cardinality(Stored) + 0 /\ InCache = owed /\ ~ArgIsIn
    BY <1>1, <2>2 DEF SizeIsExact, Owes, ArgIsNew
  <2>5. InCache' = InCache \ {entries[Victim].key}
    BY <2>3, InCacheIs, InCacheIsNext
  <2>6. ~ArgIsIn'
    <3>1. PICK k : k = arg.key
      OBVIOUS
    <3>2. ~InTable(k)'
      BY <2>3, <2>4, <3>1 DEF ArgIsIn
    <3> QED BY <2>2, <3>1, <3>2 DEF ArgIsIn, InTable
  <2>7. size' = Cardinality(Stored') + 0 /\ size' < cap'
    BY <1>2, <2>2, <2>3, <2>4
  <2> QED BY <1>1, <2>2, <2>4, <2>5, <2>6, <2>7
             DEF CInv, NeverPanics, ArgIsNew, SizeIsExact, LatestIsMarked, Owes
<1>7. ASSUME NothingToEvict PROVE CInv'
  BY <1>7, FullHasAVictim DEF NothingToEvict
<1>8. ASSUME InsertAgain PROVE CInv'
  <2>1. /\ cpc = "again" /\ arg.key \in Keys /\ arg.value \in Values
        /\ ~InTable(arg.key) /\ size < cap /\ arg' = arg /\ owed' = owed
    BY <1>1, <1>8, EntryFields DEF InsertAgain, Calls, Entry, ArgIsNew, ArgIsIn, SizeIsExact
  <2>2. Insert(arg.key, arg.value) /\ cpc' = "second"
    <3>1. ~(size >= cap)
      BY <1>1, <1>2, <2>1 DEF HInv, TypeOK
    <3> QED BY <1>8, <3>1 DEF InsertAgain, InsertRefused
  <2> QED BY <1>1, <2>1, <2>2, NewInHand
<1>9. ASSUME ClearSlot PROVE CInv'
  <2>1. /\ pc = "idle" /\ pc' = "idle" /\ cpc = "clear" /\ cpc' = "clear"
        /\ at \in Slots /\ InCache = owed /\ size = Cardinality(Stored) + 0
    BY <1>1, <1>2, <1>9 DEF ClearSlot, Calls, HInv, TypeOK, Slots, loop, Owes, SizeIsExact
  <2>2. owed' = InCache' /\ size' = Cardinality(Stored') + 0
    <3>1. CASE entries[at] # Vacant /\ owed' = owed \ {entries[at].key} /\ DeleteIndex(at)
      <4>1. /\ Cardinality(Stored') = Cardinality(Stored) - 1
            /\ \A k : InTable(k)' <=> InTable(k) /\ k # entries[at].key
        BY <1>1, <1>9, <2>1, <3>1, DeleteIndexDoes DEF ClearSlot, Occupied
      <4>2. InCache' = InCache \ {entries[at].key}
        BY <4>1, InCacheIs, InCacheIsNext
      <4>3. size' = size - 1
        BY <3>1 DEF DeleteIndex
      <4> QED BY <1>2, <2>1, <3>1, <4>1, <4>2, <4>3
    <3>2. CASE UNCHANGED <<entries, size, owed>>
      BY <1>9, <2>1, <3>2 DEF ClearSlot, InCache, Stored, Slots, Occupied
    <3> QED BY <1>9, <3>1, <3>2 DEF ClearSlot
  <2> QED BY <1>1, <2>1, <2>2
             DEF CInv, NeverPanics, ArgIsNew, SizeIsExact, LatestIsMarked, Owes
<1>10. ASSUME UNCHANGED vars
       PROVE  InCache' = InCache /\ Stored' = Stored /\ Slots' = Slots /\ CarryIsIn' = CarryIsIn
  BY <1>10 DEF vars, InCache, Stored, Slots, Occupied, CarryIsIn, InTable
<1>11. ASSUME Cleared PROVE CInv'
  <2>1. UNCHANGED vars /\ pc' = pc /\ pc # "insert" /\ cpc = "clear" /\ cpc' = "idle"
        /\ latest' = Nobody /\ owed' = owed /\ size' = size
    BY <1>1, <1>11 DEF Cleared, Calls, vars
  <2> QED BY <1>1, <1>10, <2>1 DEF CInv, NeverPanics, ArgIsNew, SizeIsExact, LatestIsMarked, Owes
<1>12. ASSUME Clear PROVE CInv'
  <2>1. UNCHANGED vars /\ pc' = pc /\ pc # "insert" /\ cpc = "idle" /\ cpc' = "clear"
        /\ owed' = owed /\ size' = size
    BY <1>1, <1>12 DEF Clear, Calls, vars
  <2> QED BY <1>1, <1>10, <2>1 DEF CInv, NeverPanics, ArgIsNew, SizeIsExact, LatestIsMarked, Owes
<1>13. ASSUME NEW k \in Keys, CacheFind(k) PROVE CInv'
  <2>1. /\ UNCHANGED <<cap, size, entries, pc>> /\ pc = "idle" /\ cpc = "idle" /\ cpc' = "idle"
        /\ owed' = owed
    BY <1>13 DEF CacheFind, Find, table, loop
  <2>2. InCache' = InCache /\ Stored' = Stored /\ Slots' = Slots
    BY <2>1 DEF InCache, Stored, Slots, Occupied
  <2>3. LatestIsMarked'
    <3>1. CASE Found(k) /\ Access(FindIndex(k)) /\ latest' = k
      <4>1. FindIndex(k) \in Stored /\ entries[FindIndex(k)].key = k /\ FindIndex(k) \in accessed'
        BY <1>1, <3>1, FoundIsIn DEF Access
      <4> QED BY <2>1, <2>2, <3>1, <4>1 DEF LatestIsMarked, Stored, Occupied
    <3>2. CASE UNCHANGED <<accessed, latest>>
      BY <1>1, <2>1, <2>2, <3>2 DEF LatestIsMarked, Occupied
    <3> QED BY <1>13, <3>1, <3>2 DEF CacheFind
  <2> QED BY <1>1, <2>1, <2>2, <2>3 DEF CInv, NeverPanics, ArgIsNew, SizeIsExact, Owes
<1>14. ASSUME NEW k \in Keys, NEW v \in Values, CacheInsert(k, v) PROVE CInv'
  <2>1. /\ cpc = "idle" /\ ~InTable(k) /\ arg' = [key |-> k, value |-> v]
        /\ UNCHANGED <<accessed, hand, at, owed, latest>>
    BY <1>1, <1>14, FoundIsIn DEF CacheInsert
  <2>2. CASE Insert(k, v) /\ cpc' = "first"
    BY <1>1, <2>1, <2>2, NewInHand
  <2>3. CASE InsertRefused(k, v) /\ cpc' = "evict"
    <3>1. UNCHANGED <<cap, size, entries, pc>> /\ pc = "idle" /\ size >= cap
      BY <2>3 DEF InsertRefused, table, loop
    <3>2. InCache' = InCache /\ Stored' = Stored /\ Slots' = Slots
      BY <3>1 DEF InCache, Stored, Slots, Occupied
    <3>3. ArgIsNew'
      <4>1. ~ArgIsIn'
        BY <2>1, <3>1 DEF ArgIsIn, InTable, Slots, Occupied
      <4> QED BY <2>3, <3>1, <4>1 DEF ArgIsNew
    <3>4. LatestIsMarked'
      BY <1>1, <2>1, <2>3, <3>1, <3>2 DEF LatestIsMarked, Occupied
    <3> QED BY <1>1, <2>1, <2>3, <3>1, <3>2, <3>3, <3>4
               DEF CInv, NeverPanics, SizeIsExact, Owes
  <2> QED BY <1>14, <2>2, <2>3 DEF CacheInsert
<1>15. ASSUME CacheDestroy PROVE CInv'
  BY <1>1, <1>15 DEF CacheDestroy, Destroy, CInv, NeverPanics, ArgIsNew, SizeIsExact,
                     LatestIsMarked, Owes
<1>16. ASSUME CacheNew PROVE CInv'
  <2>1. /\ cpc = "gone" /\ cpc' = "idle" /\ pc' = "idle" /\ owed' = {} /\ latest' = Nobody
        /\ size' = 0 /\ entries' = Vacated(cap') /\ cap' \in Nat
    BY <1>1, <1>16, CapAssumption DEF CacheNew, New, Calls, LatestIsMarked
  <2>2. Stored' = {} /\ InCache' = {}
    BY <2>1 DEF Stored, InCache, Occupied, Slots, Vacated
  <2>3. size' = Cardinality(Stored') + 0
    BY <2>1, <2>2, FS_EmptySet
  <2> QED BY <1>1, <2>1, <2>2, <2>3
             DEF CInv, NeverPanics, ArgIsNew, SizeIsExact, LatestIsMarked, Owes
<1>17. ASSUME UNCHANGED cvars PROVE CInv'
  <2>1. UNCHANGED vars /\ UNCHANGED cache /\ UNCHANGED <<pc, size, cap, carry, entries, res>>
    BY <1>17 DEF cvars, vars
  <2>2. ArgIsIn' = ArgIsIn
    BY <2>1 DEF ArgIsIn, InTable, Slots, Occupied, cache
  <2> QED BY <1>1, <1>10, <2>1, <2>2
             DEF CInv, NeverPanics, ArgIsNew, SizeIsExact, LatestIsMarked, Owes, cache, Occupied
<1> QED
  BY <1>3, <1>4, <1>5, <1>6, <1>7, <1>8, <1>9, <1>11, <1>12, <1>13, <1>14, <1>15, <1>16, <1>17
     DEF CacheNext, CallStep

LEMMA CInvFromTheStart == CacheInit => CInv
<1> SUFFICES ASSUME CacheInit PROVE CInv
  OBVIOUS
<1>1. MInv
  BY MarksFromTheStart
<1>2. /\ pc = "idle" /\ cpc = "idle" /\ owed = {} /\ latest = Nobody /\ size = 0
      /\ \A s \in Slots : ~Occupied(s)
  BY DEF CacheInit, Init, Occupied
<1>3. Stored = {} /\ InCache = {}
  BY <1>2 DEF Stored, InCache
<1>4. size = Cardinality(Stored) + 0
  BY <1>2, <1>3, FS_EmptySet
<1> QED BY <1>1, <1>2, <1>3, <1>4
           DEF CInv, NeverPanics, ArgIsNew, SizeIsExact, LatestIsMarked, Owes

(* The invariant holds in every state, for a caller that inserts only keys  *)
(* that are absent (as cache.h:163 needs, see MCCacheReinsert.cfg).         *)
THEOREM CacheInvariant ==
    ASSUME ~Reinserts
    PROVE  CacheSpec => []CInv
<1>1. CInv /\ [CacheNext]_cvars => CInv'
  BY CInvKept
<1> QED
  BY <1>1, CInvFromTheStart, PTL DEF CacheSpec

(* EVICT finds an entry to evict and the insertion after it succeeds.       *)
THEOREM CacheNeverPanics ==
    ASSUME ~Reinserts
    PROVE  CacheSpec => []NeverPanics
<1>1. CInv => NeverPanics
  BY DEF CInv
<1> QED
  BY <1>1, CacheInvariant, PTL

(* The callback is given what leaves, once.                                 *)
THEOREM CacheCallbackGetsWhatLeaves ==
    ASSUME ~Reinserts
    PROVE  CacheSpec => []CallbackGetsWhatLeaves
<1>1. CInv => CallbackGetsWhatLeaves
  BY DEF CInv, MInv, Calls, ArgIsNew, Owes, CallbackGetsWhatLeaves, InCache
<1> QED
  BY <1>1, CacheInvariant, PTL

LEMMA VictimIsOld ==
    ASSUME CInv, Evict
    PROVE  /\ Victim \in Slots /\ Occupied(Victim) /\ entries[Victim].key \in Keys
           /\ entries[Victim].key # latest
<1>1. Victim \in Slots /\ Occupied(Victim) /\ Victim \notin accessed /\ cpc = "evict"
  BY VictimIs DEF Evict, CInv
<1>2. entries[Victim].key \in Keys
  <2>1. entries[Victim] \in Entry
    BY <1>1 DEF CInv, MInv, HInv, TypeOK, Occupied
  <2> QED BY <2>1, EntryFields
<1>3. entries[Victim].key # latest
  <2> SUFFICES ASSUME entries[Victim].key = latest PROVE FALSE
    OBVIOUS
  <2>1. latest # Nobody
    BY <1>2, NobodyAssumption
  <2>2. PICK s \in accessed : s \in Slots /\ Occupied(s) /\ entries[s].key = latest
    BY <1>1, <2>1 DEF CInv, LatestIsMarked
  <2>3. s = Victim
    BY <1>1, <2>2 DEF CInv, MInv, HInv, KeysOnce
  <2> QED BY <1>1, <2>2, <2>3
<1> QED BY <1>1, <1>2, <1>3

(* EVICT never takes the entry that FIND or INSERT returned last.           *)
THEOREM CacheSparesLatest ==
    ASSUME ~Reinserts
    PROVE  CacheSpec => [][Evict => entries[Victim].key # latest]_cvars
<1>1. CInv => (Evict => entries[Victim].key # latest)
  BY VictimIsOld
<1>2. CInv => [Evict => entries[Victim].key # latest]_cvars
  BY <1>1
<1> QED
  BY <1>2, CacheInvariant, PTL

-----------------------------------------------------------------------------
(* The refinement of BoundedMap.  The entry being inserted is in the table  *)
(* or in hand from the first of its steps on, but the caller's map has it   *)
(* only when INSERT returns.                                                *)

ArgHeld == cpc \in {"first", "second"} => MapOf[arg.key] = arg.value
ShownInv == CInv /\ GoneIsEmpty /\ ArgHeld

LEMMA ShownIsAMap == ShownInv => RInv
<1> SUFFICES ASSUME ShownInv PROVE RInv
  OBVIOUS
<1>1. HInv /\ TypeOK /\ todo = <<>> /\ GoneIsEmpty
  BY DEF ShownInv, CInv, MInv, HInv, Calls
<1>2. CASE pc = "insert"
  BY <1>1, <1>2, AloneInHand
<1>3. CASE pc # "insert"
  BY <1>1, <1>3, AtRestView DEF RInv
<1> QED BY <1>2, <1>3

LEMMA ShownIsAMapNext == (ShownInv => RInv)'
  BY ShownIsAMap, PTL

(* The map that is shown, by that of the table.                             *)
LEMMA CacheMapIs ==
    RInv => /\ cpc \in {"first", "second"} => CacheMap = [MapOf EXCEPT ![arg.key] = NoValue]
            /\ cpc \notin {"first", "second"} => CacheMap = MapOf
<1> SUFFICES ASSUME RInv
             PROVE  /\ cpc \in {"first", "second"} => CacheMap = [MapOf EXCEPT ![arg.key] = NoValue]
                    /\ cpc \notin {"first", "second"} => CacheMap = MapOf
  OBVIOUS
<1>1. MapOf = [k \in Keys |-> ValueOf(k)]
  BY Seen DEF MapSeen
<1> QED BY <1>1 DEF CacheMap
LEMMA CacheMapIsNext ==
    (RInv => /\ cpc \in {"first", "second"} => CacheMap = [MapOf EXCEPT ![arg.key] = NoValue]
             /\ cpc \notin {"first", "second"} => CacheMap = MapOf)'
  BY CacheMapIs, PTL

LEMMA MapOfIs == MapOf = [k \in Keys |-> MapOf[k]] /\ MapOf' = [k \in Keys |-> MapOf'[k]]
  BY DEF MapOf

(* As many keys as slots are taken, for no key is stored twice.             *)
LEMMA KeysHeld ==
    ASSUME RInv, pc # "insert"
    PROVE  /\ \A k \in Keys : MapOf[k] # NoValue <=> k \in InCache
           /\ InCache \subseteq Keys /\ IsFiniteSet(InCache)
           /\ Cardinality(InCache) = Cardinality(Stored)
<1>1. HInv /\ TypeOK /\ KeysOnce
  BY DEF RInv, HInv
<1>2. \A k \in Keys : MapOf[k] # NoValue <=> k \in InCache
  BY <1>1, FoundIsHeld, FoundIsIn, InCacheIs
<1>3. \A s \in Stored : s \in Slots /\ Occupied(s) /\ entries[s].key \in Keys
  BY <1>1, EntryFields DEF TypeOK, Stored, Occupied
<1>4. IsFiniteSet(Stored)
  BY <1>1, StoredIsTaken, TakenType DEF TypeOK
<1> DEFINE f == [s \in Stored |-> entries[s].key]
<1>5. f \in Bijection(Stored, InCache)
  <2>1. f \in [Stored -> InCache]
    BY DEF InCache
  <2>2. \A s, t \in Stored : f[s] = f[t] => s = t
    BY <1>1, <1>3 DEF KeysOnce
  <2>3. \A k \in InCache : \E s \in Stored : f[s] = k
    BY DEF InCache
  <2> HIDE DEF f
  <2> QED BY <2>1, <2>2, <2>3 DEF Bijection, Injection, Surjection, IsInjective
<1>6. IsFiniteSet(InCache) /\ Cardinality(InCache) = Cardinality(Stored)
  BY <1>4, <1>5, FS_Bijection DEF ExistsBijection
<1> QED BY <1>2, <1>3, <1>6 DEF InCache

LEMMA SameCount == \A S : Bounded!Cardinality(S) = Cardinality(S)
  BY DEF Bounded!Cardinality, Cardinality

(* The shown map and the counts of its keys.                                *)
LEMMA ShownAtRest ==
    ASSUME ShownInv, pc # "insert", cpc \notin {"first", "second"}
    PROVE  /\ CacheMap = MapOf /\ Bounded!Held = InCache
           /\ Cardinality(Bounded!Held) = Cardinality(Stored)
<1>1. RInv
  BY ShownIsAMap
<1>2. CacheMap = MapOf
  BY <1>1, CacheMapIs
<1>3. Bounded!Held = InCache
  BY <1>1, <1>2, KeysHeld DEF Bounded!Held
<1> QED BY <1>1, <1>2, <1>3, KeysHeld

(* INSERT returns: its entry is shown from now on, and fits.                *)
LEMMA InsertedShows ==
    ASSUME ShownInv, CInv', cpc \in {"first", "second"}, pc = "idle", res = TRUE, Inserted
    PROVE  ShownInv' /\ Bounded!InsertReturns
<1>1. /\ RInv /\ HInv /\ Calls /\ arg \in Entry /\ arg.key \in Keys /\ arg.value \in Values
      /\ MapOf[arg.key] = arg.value
  <2>1. RInv /\ HInv /\ Calls /\ arg \in Entry /\ MapOf[arg.key] = arg.value
    BY ShownIsAMap DEF ShownInv, CInv, MInv, Calls, ArgHeld
  <2> QED BY <2>1 DEF Entry
<1>2. /\ UNCHANGED vars /\ cpc' = "idle" /\ pc' = "idle" /\ res' = TRUE /\ arg' = Vacant
      /\ latest' = arg.key /\ owed' = owed \cup {arg.key}
  BY DEF Inserted, vars
<1>3. MapOf' = MapOf
  BY <1>1, <1>2, SameMaps DEF vars
<1>4. ShownInv'
  BY <1>2 DEF ShownInv, GoneIsEmpty, ArgHeld
<1>5. CacheMap = [MapOf EXCEPT ![arg.key] = NoValue] /\ CacheMap' = MapOf
  <2>1. RInv'
    BY <1>4, ShownIsAMapNext
  <2> QED BY <1>1, <1>2, <1>3, <2>1, CacheMapIs, CacheMapIsNext
<1>6. CacheMap' = [CacheMap EXCEPT ![arg.key] = arg.value]
  BY <1>1, <1>5, MapOfIs
<1>7. Bounded!Held = InCache \ {arg.key} /\ arg.key \in InCache
  <2>1. \A k \in Keys : CacheMap[k] = IF k = arg.key THEN NoValue ELSE MapOf[k]
    BY <1>5, MapOfIs
  <2>2. \A k \in Keys : MapOf[k] # NoValue <=> k \in InCache
    BY <1>1, KeysHeld
  <2>3. InCache \subseteq Keys
    BY <1>1, KeysHeld
  <2>4. MapOf[arg.key] # NoValue
    BY <1>1, NoValueAssumption
  <2> QED BY <1>1, <2>1, <2>2, <2>3, <2>4 DEF Bounded!Held
<1>8. Cardinality(Bounded!Held) < InitCap
  <2>1. IsFiniteSet(InCache) /\ Cardinality(InCache) = Cardinality(Stored)
    BY <1>1, KeysHeld
  <2>2. Cardinality(Bounded!Held) = Cardinality(InCache) - 1
    BY <1>7, <2>1, FS_RemoveElement
  <2>3. Cardinality(Stored) \in Nat /\ Cardinality(Stored) <= cap /\ cap \in Nat /\ cap = InitCap
    BY <1>1, StoredIsTaken, TakenType DEF HInv, TypeOK, Calls
  <2> QED BY <2>1, <2>2, <2>3
<1>9. CacheCall \in {"insert", "evicted"} /\ CacheCall' = "idle" /\ CacheRes' = TRUE
  BY <1>2 DEF CacheCall, CacheRes
<1> QED BY <1>2, <1>4, <1>6, <1>8, <1>9, SameCount DEF Bounded!InsertReturns

LEMMA EvictShows ==
    ASSUME ShownInv, CInv', Evict
    PROVE  ShownInv' /\ Bounded!Evict(entries[Victim].key)
<1>1. PICK k : k = entries[Victim].key
  OBVIOUS
<1>2. /\ CInv /\ HInv /\ Calls /\ pc = "idle" /\ pc' = "idle" /\ cpc = "evict" /\ cpc' = "again"
      /\ UNCHANGED <<raw, cap, canGrow, hasCb, loop, arg, latest>>
      /\ owed' = owed \ {k} /\ DeleteIndex(Victim)
  BY <1>1 DEF ShownInv, CInv, MInv, Evict, Calls, HInv, TypeOK, loop
<1>3. Victim \in Slots /\ Occupied(Victim) /\ k \in Keys /\ k # latest
  BY <1>1, <1>2, VictimIsOld
<1>4. MapOf' = [MapOf EXCEPT ![k] = NoValue]
  BY <1>1, <1>2, <1>3, DeleteIndexDoes
<1>5. ShownInv'
  BY <1>2 DEF ShownInv, GoneIsEmpty, ArgHeld
<1>6. /\ CacheMap = MapOf /\ Bounded!Held = InCache
      /\ Cardinality(Bounded!Held) = Cardinality(Stored)
  BY <1>2, ShownAtRest
<1>7. CacheMap' = MapOf'
  BY <1>2, <1>5, ShownIsAMapNext, CacheMapIsNext
<1>8. k \in Bounded!Held
  BY <1>1, <1>3, <1>6 DEF InCache, Stored
<1>9. Cardinality(Bounded!Held) = InitCap
  <2>1. Cardinality(Stored) \in Nat /\ Cardinality(Stored) <= cap /\ cap \in Nat /\ cap = InitCap
    BY <1>2, StoredIsTaken, TakenType DEF HInv, TypeOK, Calls
  <2>2. size = Cardinality(Stored) + 0 /\ size >= cap
    BY <1>2 DEF CInv, SizeIsExact
  <2> QED BY <1>6, <2>1, <2>2
<1>10. /\ CacheCall = "insert" /\ CacheCall' = "evicted"
       /\ CacheRes = NoValue /\ CacheRes' = NoValue
  BY <1>2 DEF CacheCall, CacheRes
<1> QED BY <1>1, <1>2, <1>3, <1>4, <1>5, <1>6, <1>7, <1>8, <1>9, <1>10, SameCount DEF Bounded!Evict

LEMMA InsertShows ==
    ASSUME ShownInv, CInv', NEW k \in Keys, NEW v \in Values,
           ~Reinserts, CacheInsert(k, v)
    PROVE  ShownInv' /\ Bounded!InsertBegins(k, v)
<1>1. /\ RInv /\ HInv /\ HInv' /\ pc = "idle" /\ cpc = "idle" /\ ~Found(k)
      /\ arg' = [key |-> k, value |-> v] /\ arg'.key = k /\ arg'.value = v
      /\ UNCHANGED <<owed, latest>>
  BY ShownIsAMap DEF ShownInv, CInv, MInv, CacheInsert, Insert, InsertRefused
<1>2. MapOf[k] = NoValue
  BY <1>1, FoundIsHeld
<1>3. /\ CacheMap = MapOf /\ Bounded!Held = InCache
  BY <1>1, ShownAtRest
<1>4. k \notin Bounded!Held
  BY <1>1, <1>2, <1>3, KeysHeld
<1>5. CASE Insert(k, v) /\ cpc' = "first"
  <2>1. MapOf' = [MapOf EXCEPT ![k] = v]
    BY <1>1, <1>2, <1>5, InsertMaps
  <2>2. ShownInv'
    <3>1. MapOf'[k] = v
      BY <2>1, MapOfIs
    <3> QED BY <1>1, <1>5, <3>1, InsertStarts DEF ShownInv, CInv, MInv, GoneIsEmpty, ArgHeld
  <2>3. CacheMap' = [MapOf' EXCEPT ![k] = NoValue]
    BY <1>1, <1>5, <2>2, ShownIsAMapNext, CacheMapIsNext
  <2>4. CacheMap' = CacheMap
    BY <1>2, <1>3, <2>1, <2>3, MapOfIs
  <2>5. CacheCall = "idle" /\ CacheCall' = "insert" /\ CacheRes' = NoValue
    BY <1>1, <1>5 DEF CacheCall, CacheRes
  <2> QED BY <1>1, <1>4, <2>2, <2>4, <2>5 DEF Bounded!InsertBegins
<1>6. CASE InsertRefused(k, v) /\ cpc' = "evict"
  <2>1. UNCHANGED <<cap, entries, pc, todo, carry>>
    BY <1>6 DEF InsertRefused, table, loop
  <2>2. MapOf' = MapOf
    BY <1>1, <2>1, SameMaps
  <2>3. ShownInv'
    BY <1>1, <1>6, <2>1 DEF ShownInv, GoneIsEmpty, ArgHeld
  <2>4. CacheMap' = CacheMap
    BY <1>3, <1>6, <2>2, <2>3, ShownIsAMapNext, CacheMapIsNext
  <2>5. CacheCall = "idle" /\ CacheCall' = "insert" /\ CacheRes' = NoValue
    BY <1>1, <1>6 DEF CacheCall, CacheRes
  <2> QED BY <1>1, <1>4, <2>3, <2>4, <2>5 DEF Bounded!InsertBegins
<1> QED BY <1>5, <1>6 DEF CacheInsert

Unseen == UNCHANGED <<CacheMap, CacheCall, arg, CacheRes, owed, latest>>

(* The steps inside INSERT_AT are not seen.                                 *)
LEMMA TableStepShows ==
    ASSUME ShownInv, CInv', TableStep
    PROVE  ShownInv' /\ Unseen
<1>1. /\ RInv /\ HInv /\ HInv' /\ todo = <<>> /\ hasCb = FALSE /\ ~(pc = "insert" /\ CarryIsIn)
      /\ InsertStep /\ UNCHANGED cache
  BY ShownIsAMap DEF ShownInv, CInv, MInv, Calls, ArgIsNew, TableStep
<1>2. pc = "insert" /\ cpc \in {"first", "second"} /\ cpc' = cpc /\ arg' = arg
      /\ owed' = owed /\ latest' = latest
  BY <1>1, InsertStepDoes DEF ShownInv, CInv, MInv, Calls, cache
<1>3. ~Duplicate
  <2> SUFFICES ASSUME Duplicate PROVE FALSE
    OBVIOUS
  <2>1. i \in Slots /\ Occupied(i) /\ entries[i].key = carry.key
    BY <1>1 DEF Duplicate, Here, Occupied, HInv, TypeOK
  <2> QED BY <1>1, <1>2, <2>1 DEF CarryIsIn, InTable
<1>4. Contents' = Contents
  BY <1>1, <1>3, PlaceMaps, DisplaceMaps, PassOverMaps DEF InsertStep
<1>5. MapOf' = MapOf
  BY <1>4 DEF MapOf
<1>6. ShownInv'
  <2>1. pc' # "gone"
    BY <1>2 DEF CInv, MInv, Calls
  <2> QED BY <1>2, <1>5, <2>1 DEF ShownInv, GoneIsEmpty, ArgHeld
<1>7. CacheMap' = CacheMap
  BY <1>1, <1>2, <1>5, <1>6, CacheMapIs, CacheMapIsNext, ShownIsAMapNext
<1> QED BY <1>2, <1>6, <1>7 DEF Unseen, CacheCall, CacheRes

(* Nor is the second insertion.                                             *)
LEMMA AgainShows ==
    ASSUME ShownInv, CInv', InsertAgain
    PROVE  ShownInv' /\ Unseen
<1>1. /\ RInv /\ HInv /\ HInv' /\ Calls /\ cpc = "again" /\ arg \in Entry
      /\ arg.key \in Keys /\ arg.value \in Values /\ ~InTable(arg.key)
      /\ arg' = arg /\ owed' = owed /\ latest' = latest
  <2>1. /\ RInv /\ HInv /\ HInv' /\ Calls /\ cpc = "again" /\ arg \in Entry /\ ~InTable(arg.key)
        /\ arg' = arg /\ owed' = owed /\ latest' = latest
    BY ShownIsAMap DEF ShownInv, CInv, MInv, InsertAgain, Calls, ArgIsNew, ArgIsIn
  <2> QED BY <2>1 DEF Entry
<1>2. Insert(arg.key, arg.value) /\ cpc' = "second" /\ pc # "insert"
  BY <1>1 DEF InsertAgain, CInv, NeverPanics, Calls
<1>3. PICK k \in Keys, v \in Values : k = arg.key /\ v = arg.value
  BY <1>1
<1>4. MapOf[k] = NoValue
  BY <1>1, <1>2, <1>3, KeysHeld, InCacheIs
<1>5. MapOf' = [MapOf EXCEPT ![k] = v] /\ pc' = "insert"
  <2>1. Insert(k, v)
    BY <1>2, <1>3
  <2> QED BY <1>1, <1>4, <2>1, InsertMaps
<1>6. ShownInv'
  <2>1. MapOf'[k] = v
    BY <1>5, MapOfIs
  <2> QED BY <1>1, <1>3, <1>5, <2>1 DEF ShownInv, GoneIsEmpty, ArgHeld
<1>7. CacheMap = MapOf /\ CacheMap' = [MapOf' EXCEPT ![k] = NoValue]
  BY <1>1, <1>2, <1>3, <1>6, CacheMapIs, CacheMapIsNext, ShownIsAMapNext
<1>8. CacheMap' = CacheMap
  BY <1>4, <1>5, <1>7, MapOfIs
<1> QED BY <1>1, <1>2, <1>6, <1>8 DEF Unseen, CacheCall, CacheRes

(* FIND answers what the map has.                                           *)
LEMMA FindShows ==
    ASSUME ShownInv, CInv', NEW k \in Keys, CacheFind(k)
    PROVE  ShownInv' /\ Bounded!Find(k)
<1>1. /\ RInv /\ pc = "idle" /\ cpc = "idle" /\ cpc' = "idle"
      /\ UNCHANGED <<cap, entries, pc, todo, carry, arg, owed>>
      /\ latest' = IF Found(k) THEN k ELSE latest
      /\ res' = IF Found(k) THEN entries[FindIndex(k)].value ELSE NoValue
  BY ShownIsAMap DEF CacheFind, Find, table, loop
<1>2. CacheMap = MapOf /\ Bounded!Held = InCache
  BY <1>1, ShownAtRest
<1>3. res' = MapOf[k] /\ (Found(k) <=> k \in Bounded!Held)
  <2>1. MapOf[k] # NoValue <=> k \in InCache
    BY <1>1, KeysHeld
  <2> QED BY <1>1, <1>2, <2>1, FoundIsHeld DEF Found
<1>4. MapOf' = MapOf
  BY <1>1, SameMaps
<1>5. ShownInv'
  BY <1>1 DEF ShownInv, GoneIsEmpty, ArgHeld
<1>6. CacheMap' = CacheMap
  BY <1>1, <1>2, <1>4, <1>5, CacheMapIsNext, ShownIsAMapNext
<1>7. CacheCall = "idle" /\ CacheCall' = "idle" /\ CacheRes' = res'
  BY <1>1 DEF CacheCall, CacheRes
<1> QED BY <1>1, <1>2, <1>3, <1>5, <1>6, <1>7 DEF Bounded!Find

(* CLEAR drops what it deletes.                                             *)
LEMMA ClearSlotShows ==
    ASSUME ShownInv, CInv', ClearSlot
    PROVE  ShownInv' /\ (Unseen \/ \E k \in Keys : Bounded!Drop(k))
<1>1. /\ RInv /\ HInv /\ pc = "idle" /\ pc' = "idle" /\ cpc = "clear" /\ cpc' = "clear"
      /\ at \in Slots /\ UNCHANGED <<raw, cap, canGrow, hasCb, loop, res, arg, latest>>
  <2>1. HInv /\ Calls /\ TypeOK
    BY DEF ShownInv, CInv, MInv, HInv
  <2>2. at \in Slots
    BY <2>1 DEF ClearSlot, Calls, Slots, TypeOK
  <2> QED BY <2>1, <2>2, ShownIsAMap DEF ClearSlot, Calls, TypeOK, loop
<1>2. ShownInv'
  BY <1>1 DEF ShownInv, GoneIsEmpty, ArgHeld
<1>3. CacheMap = MapOf /\ CacheMap' = MapOf' /\ Bounded!Held = InCache
  BY <1>1, <1>2, ShownAtRest, ShownIsAMapNext, CacheMapIsNext
<1>4. CacheCall = "clear" /\ CacheCall' = "clear" /\ CacheRes' = CacheRes
  BY <1>1 DEF CacheCall, CacheRes
<1>5. CASE /\ entries[at] # Vacant
           /\ owed' = owed \ {entries[at].key}
           /\ DeleteIndex(at)
  <2>1. PICK k : k = entries[at].key
    OBVIOUS
  <2>2. Occupied(at) /\ k \in InCache /\ k \in Keys
    BY <1>1, <1>5, <2>1, KeysHeld DEF Occupied, InCache, Stored
  <2>3. MapOf' = [MapOf EXCEPT ![k] = NoValue]
    BY <1>1, <1>5, <2>1, <2>2, DeleteIndexDoes
  <2>4. Bounded!Drop(k)
    BY <1>1, <1>3, <1>4, <1>5, <2>1, <2>2, <2>3 DEF Bounded!Drop
  <2> QED BY <1>2, <2>2, <2>4
<1>6. CASE entries[at] = Vacant /\ UNCHANGED <<entries, size, owed>>
  <2>1. UNCHANGED <<cap, entries, pc, todo, carry>>
    BY <1>1, <1>6 DEF loop
  <2>2. MapOf' = MapOf
    BY <1>1, <2>1, SameMaps
  <2> QED BY <1>1, <1>2, <1>3, <1>4, <1>6, <2>2 DEF Unseen
<1> QED BY <1>5, <1>6 DEF ClearSlot

(* The calls that leave the table alone.                                    *)
LEMMA ClearShows ==
    ASSUME ShownInv, CInv', Clear \/ Cleared
    PROVE  ShownInv' /\ (Bounded!ClearBegins \/ Bounded!ClearReturns)
<1>1. /\ RInv /\ UNCHANGED <<vars, arg, owed>> /\ pc # "insert" /\ pc' = pc /\ cpc \in {"idle", "clear"}
      /\ \/ cpc = "idle" /\ cpc' = "clear" /\ latest' = latest
         \/ cpc = "clear" /\ cpc' = "idle" /\ latest' = Nobody
  BY ShownIsAMap DEF ShownInv, CInv, MInv, Calls, Clear, Cleared, vars
<1>2. UNCHANGED <<cap, entries, pc, todo, carry, res>>
  BY <1>1 DEF vars
<1>3. MapOf' = MapOf
  BY <1>1, <1>2, SameMaps
<1>4. ShownInv'
  <2>1. pc # "gone" /\ cpc' \notin {"first", "second"}
    BY <1>1 DEF ShownInv, CInv, MInv, Calls
  <2> QED BY <1>1, <2>1 DEF ShownInv, GoneIsEmpty, ArgHeld
<1>5. CacheMap' = CacheMap
  BY <1>1, <1>3, <1>4, CacheMapIs, CacheMapIsNext, ShownIsAMapNext
<1>6. CacheCall = cpc /\ CacheCall' = cpc' /\ CacheRes' = CacheRes
  BY <1>1, <1>2 DEF CacheCall, CacheRes
<1> QED BY <1>1, <1>4, <1>5, <1>6 DEF Bounded!ClearBegins, Bounded!ClearReturns

LEMMA DestroyShows ==
    ASSUME ShownInv, CInv', CacheDestroy
    PROVE  ShownInv' /\ Bounded!Destroy
<1>1. /\ HInv' /\ pc' = "gone" /\ cpc = "idle" /\ cpc' = "gone" /\ cap' \in Nat
      /\ entries' = Vacated(cap') /\ res' = NoValue
      /\ arg' = arg /\ owed' = owed /\ latest' = Nobody
  BY DEF ShownInv, CInv, MInv, CacheDestroy, Destroy, HInv, TypeOK
<1>2. MapOf' = [q \in Keys |-> NoValue] /\ \A s \in Slots' : ~Occupied(s)'
  BY <1>1, EmptyMaps
<1>3. ShownInv'
  BY <1>1, <1>2 DEF ShownInv, GoneIsEmpty, ArgHeld
<1>4. CacheMap' = [q \in Keys |-> NoValue]
  BY <1>1, <1>2, <1>3, CacheMapIsNext, ShownIsAMapNext
<1>5. CacheCall = "idle" /\ CacheCall' = "gone" /\ CacheRes' = NoValue
  BY <1>1 DEF CacheCall, CacheRes
<1> QED BY <1>1, <1>3, <1>4, <1>5 DEF Bounded!Destroy

LEMMA NewShows ==
    ASSUME ShownInv, CInv', CacheNew
    PROVE  ShownInv' /\ Bounded!New
<1>1. /\ RInv /\ HInv' /\ pc = "gone" /\ pc' = "idle" /\ cpc = "gone" /\ cpc' = "idle"
      /\ cap' \in Nat /\ entries' = Vacated(cap') /\ res' = res
      /\ arg' = arg /\ owed' = {} /\ latest' = latest
  BY ShownIsAMap, CapAssumption DEF ShownInv, CInv, MInv, Calls, CacheNew, New
<1>2. \A s \in Slots : ~Occupied(s)
  BY <1>1 DEF ShownInv, GoneIsEmpty
<1>3. MapOf' = MapOf
  BY <1>1, <1>2, EmptyMaps, VacantMaps
<1>4. ShownInv'
  BY <1>1 DEF ShownInv, GoneIsEmpty, ArgHeld
<1>5. CacheMap' = CacheMap
  BY <1>1, <1>3, <1>4, CacheMapIs, CacheMapIsNext, ShownIsAMapNext
<1>6. CacheCall = "gone" /\ CacheCall' = "idle" /\ CacheRes' = CacheRes
  BY <1>1 DEF CacheCall, CacheRes
<1> QED BY <1>1, <1>4, <1>5, <1>6 DEF Bounded!New

(* Every step is one of the bounded map or is not seen.                     *)
LEMMA EveryStepShows ==
    ASSUME ~Reinserts, ShownInv, [CacheNext]_cvars
    PROVE  ShownInv' /\ [Bounded!Next]_(Bounded!bvars)
<1> DEFINE Goal == ShownInv' /\ [Bounded!Next]_(Bounded!bvars)
<1>1. CInv' /\ CInv
  BY CInvKept DEF ShownInv
<1>2. ASSUME ShownInv', Unseen PROVE Goal
  BY <1>2 DEF Unseen, Bounded!bvars
<1>3. ASSUME TableStep \/ InsertAgain PROVE Goal
  BY <1>1, <1>2, <1>3, TableStepShows, AgainShows
<1>4. ASSUME AfterFirst \/ AfterSecond PROVE Goal
  <2>1. cpc \in {"first", "second"} /\ pc = "idle" /\ res = TRUE /\ Inserted
    BY <1>1, <1>4 DEF AfterFirst, AfterSecond, CInv, ArgIsNew
  <2> QED BY <1>1, <2>1, InsertedShows DEF Bounded!Next
<1>5. ASSUME Evict PROVE Goal
  <2>1. entries[Victim].key \in Keys
    BY <1>1, <1>5, VictimIsOld
  <2> QED BY <1>1, <1>5, <2>1, EvictShows DEF Bounded!Next
<1>6. ASSUME NothingToEvict PROVE Goal
  BY <1>1, <1>6 DEF NothingToEvict, CInv, NeverPanics
<1>7. ASSUME ClearSlot PROVE Goal
  BY <1>1, <1>2, <1>7, ClearSlotShows DEF Bounded!Next
<1>8. ASSUME Clear \/ Cleared PROVE Goal
  BY <1>1, <1>8, ClearShows DEF Bounded!Next
<1>9. ASSUME NEW k \in Keys, CacheFind(k) PROVE Goal
  BY <1>1, <1>9, FindShows DEF Bounded!Next
<1>10. ASSUME NEW k \in Keys, NEW v \in Values, CacheInsert(k, v) PROVE Goal
  BY <1>1, <1>10, InsertShows DEF Bounded!Next
<1>11. ASSUME CacheDestroy \/ CacheNew PROVE Goal
  BY <1>1, <1>11, DestroyShows, NewShows DEF Bounded!Next
<1>12. ASSUME UNCHANGED cvars PROVE Goal
  <2>1. /\ UNCHANGED <<cap, entries, pc, todo, carry, res>>
        /\ UNCHANGED <<cpc, arg, owed, latest>>
    BY <1>12 DEF cvars, vars, cache
  <2>2. RInv /\ MapOf' = MapOf
    BY <2>1, SameMaps, ShownIsAMap
  <2>3. ShownInv'
    BY <1>1, <2>1, <2>2 DEF ShownInv, GoneIsEmpty, ArgHeld, Slots, Occupied
  <2>4. CacheMap' = CacheMap
    BY <2>1, <2>2, <2>3, CacheMapIs, CacheMapIsNext, ShownIsAMapNext
  <2> QED BY <1>2, <2>1, <2>3, <2>4 DEF Unseen, CacheCall, CacheRes
<1> HIDE DEF Goal
<1>13. Goal
  BY <1>3, <1>4, <1>5, <1>6, <1>7, <1>8, <1>9, <1>10, <1>11, <1>12 DEF CacheNext, CallStep
<1> QED BY <1>13 DEF Goal

LEMMA ShownFromTheStart == CacheInit => ShownInv /\ Bounded!Init
<1> SUFFICES ASSUME CacheInit PROVE ShownInv /\ Bounded!Init
  OBVIOUS
<1>1. /\ CInv /\ pc = "idle" /\ cpc = "idle" /\ res = NoValue
      /\ arg = Vacant /\ owed = {} /\ latest = Nobody /\ \A s \in Slots : ~Occupied(s)
  BY CInvFromTheStart DEF CacheInit, Init, Occupied
<1>2. ShownInv
  BY <1>1 DEF ShownInv, GoneIsEmpty, ArgHeld
<1>3. CacheMap = [k \in Keys |-> NoValue]
  BY <1>1, <1>2, ShownIsAMap, VacantMaps, CacheMapIs
<1>4. CacheCall = "idle" /\ CacheRes = NoValue
  BY <1>1 DEF CacheCall, CacheRes
<1> QED BY <1>1, <1>2, <1>3, <1>4 DEF Bounded!Init

(* The refinement: for a caller that inserts only keys that are absent, the *)
(* cache is a map of as many keys as it has slots (cache.h:129-171).  FIND  *)
(* answers with the value inserted, an INSERT takes out one entry at most,  *)
(* only when there is no room, and never the one used last, and the         *)
(* callback is given exactly what leaves.                                   *)
THEOREM CacheIsABoundedMap ==
    ASSUME ~Reinserts
    PROVE  CacheSpec => ImplementsBoundedMap
<1>1. CacheInit => ShownInv /\ Bounded!Init
  BY ShownFromTheStart
<1>2. ShownInv /\ [CacheNext]_cvars => ShownInv' /\ [Bounded!Next]_(Bounded!bvars)
  BY EveryStepShows
<1> QED
  BY <1>1, <1>2, PTL DEF CacheSpec, ImplementsBoundedMap, Bounded!Spec
=============================================================================
