------------------------------- MODULE Cache -------------------------------
(***************************************************************************)
(* src/include/a3/cache.h: a pseudo-LRU cache in a hash table of fixed     *)
(* size.  FIND and INSERT mark the slot of the entry they return; EVICT    *)
(* goes round the slots and removes the first entry without a mark.        *)
(*                                                                         *)
(* The table is that of HashTable with growth forbidden.  INIT resizes the *)
(* empty table to the cache's capacity, so InitCap is the capacity here.   *)
(***************************************************************************)
EXTENDS HashTable

CONSTANTS
    Block,      \* A3_CACHE_ENTRIES_PER_BLOCK (64)
    Reinserts,  \* whether the caller inserts keys that are in the cache
    Nobody      \* no key

ASSUME BlockAssumption == Block \in Nat \ {0, 1} /\ InitCap % Block = 0
ASSUME ReinsertsAssumption == Reinserts \in BOOLEAN
ASSUME NobodyAssumption == Nobody \notin Keys

VARIABLES
    accessed,  \* the slots whose bit is set
    hand,      \* eviction_index
    cpc,       \* where the running call is
    arg,       \* INSERT: its key and value
    at,        \* CLEAR: its loop counter
    owed,      \* history: keys inserted and not yet given to the callback
    latest     \* history: the key last found or inserted

cache == <<accessed, hand, cpc, arg, at, owed, latest>>
cvars == <<vars, cache>>

CacheInit ==
    /\ Init
    /\ canGrow = FALSE
    /\ accessed = {}
    /\ hand = 0
    /\ cpc = "idle"
    /\ arg = Vacant
    /\ at = 0
    /\ owed = {}
    /\ latest = Nobody

-----------------------------------------------------------------------------
BlockOf(s) == {t \in Slots : t \div Block = s \div Block}

(* Mutant: a block may become full. *)
Access_NoReset(s) == accessed' = accessed \cup {s}

(* ACCESS: a block that would be all ones is cleared first. *)
Access(s) ==
    accessed' = IF BlockOf(s) \subseteq accessed \cup {s}
                THEN (accessed \ BlockOf(s)) \cup {s}
                ELSE accessed \cup {s}

(* Mutant: a search does not count as a use. *)
CacheFind_NoMark(k) ==
    /\ cpc = "idle"
    /\ Find(k)
    /\ latest' = IF Found(k) THEN k ELSE latest
    /\ UNCHANGED <<accessed, hand, cpc, arg, at, owed>>

CacheFind(k) ==
    /\ cpc = "idle"
    /\ Find(k)
    /\ \/ Found(k) /\ Access(FindIndex(k)) /\ latest' = k
       \/ ~Found(k) /\ UNCHANGED <<accessed, latest>>
    /\ UNCHANGED <<hand, cpc, arg, at, owed>>

(* INSERT: a first HT_INSERT ... *)
CacheInsert(k, v) ==
    /\ cpc = "idle"
    /\ Reinserts \/ ~Found(k)
    /\ arg' = [key |-> k, value |-> v]
    /\ \/ Insert(k, v) /\ cpc' = "first"
       \/ InsertRefused(k, v) /\ cpc' = "evict"
    /\ UNCHANGED <<accessed, hand, at, owed, latest>>

(* ... whose success ends with a FIND of the new entry ... *)
Inserted ==
    /\ Access(FindIndex(arg.key))
    /\ latest' = arg.key
    /\ owed' = owed \cup {arg.key}
    /\ cpc' = "idle"
    /\ arg' = Vacant
    /\ UNCHANGED <<vars, hand, at>>

AfterFirst ==
    /\ cpc = "first"
    /\ pc = "idle"
    /\ \/ res = TRUE /\ Inserted
       \/ /\ res = FALSE
          /\ cpc' = "evict"
          /\ UNCHANGED <<vars, accessed, hand, arg, at, owed, latest>>

(* ... and whose failure makes room: the hand goes round from where it is   *)
(* to an entry without a mark.                                              *)
Victims == {s \in Slots : s \notin accessed /\ entries[s] # Vacant}
FromHand(s) == (s + cap - hand) % cap
Victim == CHOOSE s \in Victims : \A t \in Victims : FromHand(s) <= FromHand(t)

(* Mutant: the marks stay where they were. *)
Evict_KeepsMarks ==
    /\ cpc = "evict"
    /\ Victims # {}
    /\ hand' = Victim
    /\ owed' = owed \ {entries[Victim].key}
    /\ DeleteIndex(Victim)
    /\ UNCHANGED accessed
    /\ cpc' = "again"
    /\ UNCHANGED <<raw, cap, canGrow, hasCb, loop, res, arg, at, latest>>

(* Mutant: the callback runs after the deletion. *)
Evict_CallbackLate ==
    /\ cpc = "evict"
    /\ Victims # {}
    /\ hand' = Victim
    /\ DeleteIndex(Victim)
    /\ owed' = owed \ {e.key : e \in {entries'[Victim]} \ {Vacant}}
    /\ accessed' = {}
    /\ cpc' = "again"
    /\ UNCHANGED <<raw, cap, canGrow, hasCb, loop, res, arg, at, latest>>

Evict ==
    /\ cpc = "evict"
    /\ Victims # {}
    /\ hand' = Victim
    /\ owed' = owed \ {entries[Victim].key}
    /\ DeleteIndex(Victim)
    /\ accessed' = {}
    /\ cpc' = "again"
    /\ UNCHANGED <<raw, cap, canGrow, hasCb, loop, res, arg, at, latest>>

NothingToEvict ==
    /\ cpc = "evict"
    /\ Victims = {}
    /\ cpc' = "panic"
    /\ UNCHANGED <<vars, accessed, hand, arg, at, owed, latest>>

(* The second HT_INSERT must succeed. *)
InsertAgain ==
    /\ cpc = "again"
    /\ \/ Insert(arg.key, arg.value) /\ cpc' = "second"
       \/ InsertRefused(arg.key, arg.value) /\ cpc' = "panic"
    /\ UNCHANGED <<accessed, hand, arg, at, owed, latest>>

AfterSecond ==
    /\ cpc = "second"
    /\ pc = "idle"
    /\ \/ res = TRUE /\ Inserted
       \/ /\ res = FALSE
          /\ cpc' = "panic"
          /\ UNCHANGED <<vars, accessed, hand, arg, at, owed, latest>>

(* CLEAR: one iteration deletes the entry at slot at, and the loop goes on  *)
(* with the next slot.                                                      *)
Clear ==
    /\ cpc = "idle"
    /\ cpc' = "clear"
    /\ UNCHANGED <<vars, accessed, hand, arg, at, owed, latest>>

ClearSlot ==
    /\ cpc = "clear"
    /\ at < cap
    /\ at' = at + 1
    /\ \/ /\ entries[at] # Vacant
          /\ owed' = owed \ {entries[at].key}
          /\ DeleteIndex(at)
       \/ /\ entries[at] = Vacant
          /\ UNCHANGED <<entries, size, owed>>
    /\ UNCHANGED <<raw, cap, canGrow, hasCb, loop, res, accessed, hand, cpc, arg, latest>>

Cleared ==
    /\ cpc = "clear"
    /\ at = cap
    /\ at' = 0
    /\ accessed' = {}
    /\ latest' = Nobody
    /\ cpc' = "idle"
    /\ UNCHANGED <<vars, hand, arg, owed>>

(* DESTROY runs no callback: what is owed then is lost. *)
CacheDestroy ==
    /\ cpc = "idle"
    /\ Destroy
    /\ cpc' = "gone"
    /\ accessed' = {}
    /\ latest' = Nobody
    /\ UNCHANGED <<hand, arg, at, owed>>

(* NEW, or INIT, after that. *)
CacheNew ==
    /\ New /\ ~canGrow'
    /\ hand' = 0
    /\ cpc' = "idle"
    /\ owed' = {}
    /\ UNCHANGED <<accessed, arg, at, latest>>

TableStep == InsertStep /\ UNCHANGED cache

CallStep ==
    \/ TableStep
    \/ AfterFirst \/ Evict \/ NothingToEvict \/ InsertAgain \/ AfterSecond
    \/ ClearSlot \/ Cleared

CacheNext ==
    \/ CallStep
    \/ \E k \in Keys : CacheFind(k)
    \/ \E k \in Keys, v \in Values : CacheInsert(k, v)
    \/ Clear \/ CacheDestroy \/ CacheNew

CacheSpec == CacheInit /\ [][CacheNext]_cvars
CacheFairSpec == CacheSpec /\ WF_cvars(CallStep)

-----------------------------------------------------------------------------
(* Properties. *)

(* An eviction finds an entry to evict ("This shouldn't be possible",       *)
(* cache.h:151) and the insertion after it succeeds (cache.h:169).          *)
NeverPanics == cpc # "panic"

(* No block of marks is ever full, and no mark is on an empty slot: the     *)
(* eviction of a full cache has a choice in every block.                    *)
MarksLeaveAChoice ==
    cpc # "clear" =>
        /\ accessed \subseteq Stored
        /\ \A s \in Slots : ~(BlockOf(s) \subseteq accessed)

(* Each entry that was inserted is in the cache or was given to the         *)
(* callback, which owns it from then on (cache.cc's callback frees the key),*)
(* never both and never twice.                                              *)
CallbackGetsWhatLeaves ==
    pc = "idle" /\ cpc # "panic" =>
        LET inCache == {entries[s].key : s \in Stored}
        IN  IF cpc \in {"first", "second"} /\ res = TRUE
            THEN inCache = owed \cup {arg.key}
            ELSE inCache = owed

-----------------------------------------------------------------------------
(* What a caller sees is a map of InitCap keys.  The key being inserted is  *)
(* not in it before INSERT returns.                                         *)
CacheMap ==
    [k \in Keys |-> IF cpc \in {"first", "second"} /\ k = arg.key THEN NoValue ELSE ValueOf(k)]
CacheCall ==
    CASE cpc \in {"first", "evict"} -> "insert"
      [] cpc \in {"again", "second"} -> "evicted"
      [] OTHER -> cpc
CacheRes == IF cpc \in {"first", "evict", "again", "second"} THEN NoValue ELSE res

Bounded == INSTANCE BoundedMap WITH
               Capacity <- InitCap, map <- CacheMap, call <- CacheCall, res <- CacheRes

(* FIND answers with the value that was inserted; an INSERT evicts at most  *)
(* one entry, only when the cache is full, and not the one used last; what  *)
(* leaves is what the callback is given, neither more nor less.             *)
ImplementsBoundedMap == Bounded!Spec

(* Every call returns, whatever the caller inserts, unless the code panics. *)
InCall == cpc \notin {"idle", "panic", "gone"}
CallsReturn == InCall ~> ~InCall
=============================================================================
