----------------------------- MODULE HashTable -----------------------------
(***************************************************************************)
(* src/include/a3/ht.h: the Robin Hood hash table with linear probing and  *)
(* back-shift deletion.  The table has one owner, so a call is atomic to   *)
(* the outside; insertion is still modelled iteration by iteration of the  *)
(* loop of INSERT_AT, because a resize runs it once per entry and because  *)
(* that it ends is one of the questions.  The searches and the back-shift  *)
(* are written as what their loops compute.                                *)
(*                                                                         *)
(* An entry is its key and value: the hash stored with it is Hash(key),    *)
(* and hash 0 marks an empty slot, which is Vacant here.                   *)
(***************************************************************************)
EXTENDS Integers, Sequences, FiniteSets

CONSTANTS
    Keys, Values,
    RawHashes,   \* the values the hash function H takes
    Vacant,      \* an entry whose hash is 0
    NoValue,     \* no result: the NULL of FIND, or no call yet
    InitCap,     \* A3_HT_INITIAL_CAP (31)
    LoadFactor,  \* A3_HT_LOAD_FACTOR (90)
    MaxCap       \* bound: the table is not made to grow beyond it

ASSUME HashesAssumption == RawHashes \subseteq Nat
ASSUME CapAssumption == InitCap \in Nat \ {0, 1}
ASSUME LoadAssumption == LoadFactor \in 1 .. 100
ASSUME MaxCapAssumption == MaxCap \in Nat
ASSUME VacantAssumption == Vacant \notin [key : Keys, value : Values]
ASSUME NoValueAssumption == NoValue \notin Values /\ \A S \in SUBSET Keys : NoValue # S

VARIABLES
    raw,       \* the hash function, fixed by the random hash_key of INIT
    cap, size, canGrow, entries,
    hasCb,     \* duplicate_cb is set
    pc,        \* "idle", "insert" inside INSERT_AT, or "gone" once destroyed
    todo,      \* what the running RESIZE or INSERT has still to insert after carry
    carry,     \* INSERT_AT: key and value in hand
    i, probe,  \* INSERT_AT: the slot and probe_count
    res        \* what the last call returned; NoValue while one runs

table == <<raw, cap, size, canGrow, entries, hasCb>>
loop == <<pc, todo, carry, i, probe>>
vars == <<raw, cap, size, canGrow, entries, hasCb, pc, todo, carry, i, probe, res>>

Entry == [key : Keys, value : Values]
Slots == 0 .. cap - 1

Hash(k) == IF raw[k] = 0 THEN 1 ELSE raw[k]

(* Mutant: the home slot counts as one probe. *)
ProbeCount_OffByOne(s, k) == (s + cap - (Hash(k) % cap) + 1) % cap

(* How far slot s is from where k hashes to. *)
ProbeCount(s, k) == (s + cap - (Hash(k) % cap)) % cap

Init ==
    /\ raw \in [Keys -> RawHashes]
    /\ cap = InitCap
    /\ size = 0
    /\ canGrow \in BOOLEAN
    /\ entries = [s \in Slots |-> Vacant]
    /\ hasCb = FALSE
    /\ pc = "idle"
    /\ todo = <<>>
    /\ carry = Vacant
    /\ i = 0
    /\ probe = 0
    /\ res = NoValue

-----------------------------------------------------------------------------
(* INSERT_AT *)

(* The loop starts over with entry e, in a table of n slots. *)
StartAt(e, n) ==
    /\ pc' = "insert"
    /\ carry' = e
    /\ i' = Hash(e.key) % n
    /\ probe' = 0

Rest ==
    /\ pc' = "idle"
    /\ carry' = Vacant
    /\ i' = 0
    /\ probe' = 0

(* One entry is dealt with: the next one of a resize follows, or the call   *)
(* returns what INSERT_AT returned.                                         *)
Returns(result) ==
    \/ /\ todo # <<>>
       /\ StartAt(Head(todo), cap)
       /\ todo' = Tail(todo)
       /\ UNCHANGED res
    \/ /\ todo = <<>>
       /\ Rest
       /\ res' = result
       /\ UNCHANGED todo

Here == entries[i]

Place ==
    /\ pc = "insert"
    /\ Here = Vacant
    /\ entries' = [entries EXCEPT ![i] = carry]
    /\ Returns(TRUE)
    /\ UNCHANGED <<raw, cap, size, canGrow, hasCb>>

Duplicate ==
    /\ pc = "insert"
    /\ Here # Vacant
    /\ Here.key = carry.key
    /\ \/ ~hasCb /\ Returns(FALSE) /\ UNCHANGED entries
       \/ /\ hasCb
          /\ \E v \in Values : entries' = [entries EXCEPT ![i].value = v]
          /\ \E b \in BOOLEAN : Returns(b)
    /\ UNCHANGED <<raw, cap, size, canGrow, hasCb>>

(* Mutant: the step to the next slot is not counted. *)
Displace_StaleProbe ==
    /\ pc = "insert"
    /\ Here # Vacant
    /\ Here.key # carry.key
    /\ ProbeCount(i, Here.key) < probe
    /\ entries' = [entries EXCEPT ![i] = carry]
    /\ carry' = Here
    /\ probe' = ProbeCount(i, Here.key)
    /\ i' = (i + 1) % cap
    /\ UNCHANGED <<raw, cap, size, canGrow, hasCb, pc, todo, res>>

(* Mutant: the values do not change places with the keys. *)
Displace_KeepsValue ==
    /\ pc = "insert"
    /\ Here # Vacant
    /\ Here.key # carry.key
    /\ ProbeCount(i, Here.key) < probe
    /\ entries' = [entries EXCEPT ![i] = carry]
    /\ carry' = [key |-> Here.key, value |-> carry.value]
    /\ probe' = ProbeCount(i, Here.key) + 1
    /\ i' = (i + 1) % cap
    /\ UNCHANGED <<raw, cap, size, canGrow, hasCb, pc, todo, res>>

(* Passing over an entry that is nearer to its home than the one in hand:   *)
(* they change places.                                                      *)
Displace ==
    /\ pc = "insert"
    /\ Here # Vacant
    /\ Here.key # carry.key
    /\ ProbeCount(i, Here.key) < probe
    /\ entries' = [entries EXCEPT ![i] = carry]
    /\ carry' = Here
    /\ probe' = ProbeCount(i, Here.key) + 1
    /\ i' = (i + 1) % cap
    /\ UNCHANGED <<raw, cap, size, canGrow, hasCb, pc, todo, res>>

(* Mutant: the slot index does not wrap. *)
PassOver_NoWrap ==
    /\ pc = "insert"
    /\ Here # Vacant
    /\ Here.key # carry.key
    /\ ProbeCount(i, Here.key) >= probe
    /\ probe' = probe + 1
    /\ i' = i + 1
    /\ UNCHANGED <<table, pc, todo, carry, res>>

PassOver ==
    /\ pc = "insert"
    /\ Here # Vacant
    /\ Here.key # carry.key
    /\ ProbeCount(i, Here.key) >= probe
    /\ probe' = probe + 1
    /\ i' = (i + 1) % cap
    /\ UNCHANGED <<table, pc, todo, carry, res>>

InsertStep == Place \/ Duplicate \/ Displace \/ PassOver

-----------------------------------------------------------------------------
(* INSERT and RESIZE *)

(* The entries in the order of their slots, as RESIZE reinserts them. *)
Listed ==
    LET Occupied == {s \in Slots : entries[s] # Vacant}
        Nth(n) == CHOOSE s \in Occupied : Cardinality({t \in Occupied : t < s}) = n - 1
    IN  [n \in 1 .. Cardinality(Occupied) |-> entries[Nth(n)]]

Vacated(n) == [s \in 0 .. n - 1 |-> Vacant]

(* RESIZE inside an INSERT: the old entries and then e go into 2 * cap      *)
(* empty slots.                                                             *)
GrowThenInsert(e) ==
    LET all == Append(Listed, e)
    IN  /\ cap' = 2 * cap
        /\ entries' = Vacated(2 * cap)
        /\ StartAt(Head(all), 2 * cap)
        /\ todo' = Tail(all)

(* RESIZE has one other use, before anything is inserted (the cache's INIT).*)
Resize(n) ==
    /\ pc = "idle"
    /\ \A s \in Slots : entries[s] = Vacant
    /\ n > cap
    /\ cap' = n
    /\ entries' = Vacated(n)
    /\ UNCHANGED <<raw, size, canGrow, hasCb, loop, res>>

(* Mutant: the load factor is on the wrong side. *)
Loaded_Swapped == size * LoadFactor >= cap * 100

Loaded == size * 100 >= cap * LoadFactor

Insert(k, v) ==
    LET e == [key |-> k, value |-> v]
    IN  /\ pc = "idle"
        /\ \/ /\ Loaded /\ canGrow
              /\ 2 * cap <= MaxCap
              /\ GrowThenInsert(e)
           \/ /\ ~Loaded \/ (~canGrow /\ size < cap)
              /\ StartAt(e, cap)
              /\ UNCHANGED <<cap, entries, todo>>
        /\ size' = size + 1
        /\ res' = NoValue
        /\ UNCHANGED <<raw, canGrow, hasCb>>

(* Mutant: a table that may not grow refuses as soon as it is loaded. *)
InsertRefused_Loaded(k, v) ==
    /\ pc = "idle"
    /\ Loaded /\ ~canGrow
    /\ res' = FALSE
    /\ UNCHANGED <<table, loop>>

InsertRefused(k, v) ==
    /\ pc = "idle"
    /\ Loaded /\ ~canGrow /\ size >= cap
    /\ res' = FALSE
    /\ UNCHANGED <<table, loop>>

-----------------------------------------------------------------------------
(* FIND_INDEX: the probe at which the search for k stops. *)

SlotOf(k, p) == ((Hash(k) % cap) + p) % cap

Hopeless(k, p) ==
    LET e == entries[SlotOf(k, p)]
    IN  e = Vacant \/ ProbeCount(SlotOf(k, p), e.key) < p

Stops(k, p) == Hopeless(k, p) \/ entries[SlotOf(k, p)].key = k

(* No probe count reaches cap, so the search stops within cap probes. *)
LastProbe(k) ==
    CHOOSE p \in 0 .. cap : Stops(k, p) /\ \A q \in 0 .. p - 1 : ~Stops(k, q)

Found(k) == ~Hopeless(k, LastProbe(k))
FindIndex(k) == SlotOf(k, LastProbe(k))

Find(k) ==
    /\ pc = "idle"
    /\ res' = IF Found(k) THEN entries[FindIndex(k)].value ELSE NoValue
    /\ UNCHANGED <<table, loop>>

-----------------------------------------------------------------------------
(* DELETE_INDEX *)

(* The back-shift from slot s stops before the n-th slot after s: that is   *)
(* empty or at home.  A round later that slot is s itself, which by then    *)
(* holds the entry that followed it.                                        *)
ShiftStops(s, n) ==
    LET t == (s + n) % cap
        next == IF n = cap THEN entries[(s + 1) % cap] ELSE entries[t]
    IN  next = Vacant \/ ProbeCount(t, next.key) = 0

ShiftLength(s) ==
    CHOOSE n \in 1 .. cap : ShiftStops(s, n) /\ \A m \in 1 .. n - 1 : ~ShiftStops(s, m)

(* Mutant: the slot is emptied and nothing moves. *)
Without_NoShift(s) == [entries EXCEPT ![s] = Vacant]

(* The entries after s move back by one, up to that slot. *)
Without(s) ==
    LET n == ShiftLength(s)
        Distance(t) == (t + cap - s) % cap
    IN  [t \in Slots |->
            IF Distance(t) < n - 1 THEN entries[(t + 1) % cap]
            ELSE IF Distance(t) = n - 1 THEN Vacant
            ELSE entries[t]]

DeleteIndex(s) ==
    /\ entries' = Without(s)
    /\ size' = size - 1

(* Mutant: a deletion that finds nothing is counted. *)
Delete_CountsMisses(k) ==
    /\ pc = "idle"
    /\ entries' = IF Found(k) THEN Without(FindIndex(k)) ELSE entries
    /\ size' = IF size > 0 THEN size - 1 ELSE 0
    /\ res' = Found(k)
    /\ UNCHANGED <<raw, cap, canGrow, hasCb, loop>>

Delete(k) ==
    /\ pc = "idle"
    /\ \/ Found(k) /\ DeleteIndex(FindIndex(k))
       \/ ~Found(k) /\ UNCHANGED <<entries, size>>
    /\ res' = Found(k)
    /\ UNCHANGED <<raw, cap, canGrow, hasCb, loop>>

SetDuplicateCb ==
    /\ pc = "idle"
    /\ hasCb' = TRUE
    /\ UNCHANGED <<raw, cap, size, canGrow, entries, loop, res>>

-----------------------------------------------------------------------------
(* DESTROY; the entries' memory is given back. *)
Destroy ==
    /\ pc = "idle"
    /\ pc' = "gone"
    /\ entries' = Vacated(cap)
    /\ res' = NoValue
    /\ UNCHANGED <<raw, cap, size, canGrow, hasCb, todo, carry, i, probe>>

(* NEW, or INIT of a table that was destroyed. *)
New ==
    /\ pc = "gone"
    /\ raw' \in [Keys -> RawHashes]
    /\ cap' = InitCap
    /\ size' = 0
    /\ canGrow' \in BOOLEAN
    /\ entries' = Vacated(InitCap)
    /\ hasCb' = FALSE
    /\ pc' = "idle"
    /\ UNCHANGED <<todo, carry, i, probe, res>>

-----------------------------------------------------------------------------
Next ==
    \/ InsertStep
    \/ \E k \in Keys, v \in Values : Insert(k, v) \/ InsertRefused(k, v)
    \/ \E k \in Keys : Find(k) \/ Delete(k)
    \/ \E n \in InitCap .. MaxCap : Resize(n)
    \/ SetDuplicateCb \/ Destroy \/ New

Spec == Init /\ [][Next]_vars

-----------------------------------------------------------------------------
(* Properties. *)

TypeOK ==
    /\ raw \in [Keys -> RawHashes]
    /\ cap \in Nat \ {0, 1}
    /\ size \in Nat
    /\ canGrow \in BOOLEAN
    /\ hasCb \in BOOLEAN
    /\ entries \in [Slots -> Entry \cup {Vacant}]
    /\ pc \in {"idle", "insert", "gone"}
    /\ todo \in Seq(Entry)
    /\ pc = "insert" => carry \in Entry
    /\ i \in Slots
    /\ probe \in Nat

Occupied(s) == entries[s] # Vacant
PC(s) == ProbeCount(s, entries[s].key)
Before(s) == (s + cap - 1) % cap

(* The Robin Hood order: an entry away from its home has a neighbour before *)
(* it that is at most one step nearer to its own home.  It holds while an   *)
(* entry is in hand, too.                                                   *)
RobinHood ==
    \A s \in Slots : Occupied(s) /\ PC(s) > 0 =>
        Occupied(Before(s)) /\ PC(Before(s)) + 1 >= PC(s)

(* What is stored is found, at the slot where it is, despite the early exit *)
(* of the search; and no key is stored twice.                               *)
StoredIsFound ==
    pc = "idle" => \A s \in Slots : Occupied(s) =>
        Found(entries[s].key) /\ FindIndex(entries[s].key) = s

(* The loops that have no bound end (ht.h:227, 388): INSERT_AT finds a free *)
(* slot or its key, for the table is never full of other keys when an entry *)
(* is in hand; and the back-shift of a deletion stops within one round.     *)
LoopsEnd ==
    /\ pc = "insert" =>
          \/ \E s \in Slots : ~Occupied(s)
          \/ \E s \in Slots : entries[s].key = carry.key
    /\ \A s \in Slots : Occupied(s) => \E n \in 1 .. cap : ShiftStops(s, n)

(* The counter never understates what is stored: a table that is not        *)
(* loaded by its counter has a free slot.                                   *)
Stored == {s \in Slots : Occupied(s)}
SizeCovers ==
    Cardinality(Stored) + (IF pc = "insert" THEN 1 + Len(todo) ELSE 0) <= size

-----------------------------------------------------------------------------
(* The inductive invariant behind the safety properties. *)

(* How many slots after t slot s comes, going round. *)
Gap(s, t) == (s + cap - t) % cap

(* The Robin Hood order, all the way back to the home of each entry. *)
Ordered ==
    \A s, t \in Slots : Occupied(s) /\ Gap(s, t) <= PC(s) =>
        Occupied(t) /\ PC(t) + Gap(s, t) >= PC(s)

KeysOnce ==
    \A s, t \in Slots :
        Occupied(s) /\ Occupied(t) /\ entries[s].key = entries[t].key => s = t

(* Not every entry is away from its home. *)
SomeHome == \E s \in Slots : Occupied(s) => PC(s) = 0

(* The entry in hand would be in order, and its key new, at the slot that   *)
(* INSERT_AT has come to.                                                   *)
CarryOrdered ==
    pc = "insert" =>
        /\ probe = ProbeCount(i, carry.key)
        /\ \A t \in Slots \ {i} : Gap(i, t) <= probe =>
              Occupied(t) /\ PC(t) + Gap(i, t) >= probe /\ entries[t].key # carry.key

(* What is in hand fits, and between insertions nothing is in hand. *)
Room == pc = "insert" => Cardinality(Stored) + 1 + Len(todo) <= cap
AtRest == pc # "insert" => i = 0 /\ todo = <<>>

HInv ==
    /\ TypeOK
    /\ Ordered /\ KeysOnce /\ SomeHome
    /\ CarryOrdered /\ Room /\ AtRest
    /\ SizeCovers

-----------------------------------------------------------------------------
(* What a caller sees is a map; a running insertion has an entry in hand    *)
(* and, when it resizes, entries to come.                                   *)
InHand == IF pc = "insert" THEN <<carry>> \o todo ELSE <<>>

InTable(k) == \E s \in Slots : Occupied(s) /\ entries[s].key = k

ValueOf(k) ==
    IF InTable(k)
    THEN (CHOOSE e \in {entries[s] : s \in Stored} : e.key = k).value
    ELSE IF \E n \in DOMAIN InHand : InHand[n].key = k
    THEN InHand[CHOOSE n \in DOMAIN InHand :
                    InHand[n].key = k /\ \A m \in 1 .. n - 1 : InHand[m].key # k].value
    ELSE NoValue

(* The key that is in the table or in hand twice is the one being inserted  *)
(* as a duplicate.                                                          *)
Twice(k) ==
    \/ InTable(k) /\ \E n \in DOMAIN InHand : InHand[n].key = k
    \/ \E m, n \in DOMAIN InHand : m # n /\ InHand[m].key = k /\ InHand[n].key = k

Dict == INSTANCE Dictionary WITH
            map <- [k \in Keys |-> ValueOf(k)],
            pending <- IF pc = "insert" THEN {k \in Keys : Twice(k)} ELSE NoValue,
            callback <- hasCb,
            fixed <- ~canGrow,
            spent <- size,
            places <- cap,
            open <- pc # "gone"

(* Whatever the hash function and however the entries wander, the table is  *)
(* a map: an entry is neither lost nor changed by the displacement, the     *)
(* back-shift and the growth of others; INSERT answers whether its key was  *)
(* absent, or what the duplicate callback answered; and it refuses only in  *)
(* a fixed table whose counter has come to its capacity.                    *)
ImplementsDictionary == Dict!Spec

(* What ht.h:141 says: "Duplicates will be replaced".  When INSERT_AT comes *)
(* upon its key and there is no callback, the key's value is then the one   *)
(* that was inserted.                                                       *)
DuplicatesReplaced ==
    [][\A e \in Entry :
          Duplicate /\ ~hasCb /\ carry = e => (ValueOf(e.key))' = e.value]_vars
=============================================================================
