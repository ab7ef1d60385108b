----------------------------- MODULE BoundedMap -----------------------------
(***************************************************************************)
(* What the cache promises: a map of at most Capacity keys that gives one  *)
(* up only to make room for another, tells the owner which, and never the  *)
(* one used last.  An insertion is a call, which may evict, and a return.  *)
(***************************************************************************)
EXTENDS Naturals, FiniteSets

CONSTANTS Keys, Values, NoValue, Nobody, Capacity,
    Vacant    \* no key and no value

VARIABLES
    map,      \* map[k]: k's value, or NoValue
    call,     \* "idle", "insert", "evicted" (inside INSERT), "clear" or "gone"
    arg,      \* INSERT: its key and value
    res,      \* what FIND found; TRUE after an INSERT
    owed,     \* the keys the callback has still to be given
    latest    \* the key last found or inserted

bvars == <<map, call, arg, res, owed, latest>>

Held == {k \in Keys : map[k] # NoValue}

Init ==
    /\ map = [k \in Keys |-> NoValue]
    /\ call = "idle"
    /\ arg = Vacant
    /\ res = NoValue
    /\ owed = {}
    /\ latest = Nobody

Find(k) ==
    /\ call = "idle"
    /\ res' = map[k]
    /\ latest' = IF k \in Held THEN k ELSE latest
    /\ UNCHANGED <<map, call, arg, owed>>

InsertBegins(k, v) ==
    /\ call = "idle"
    /\ k \notin Held
    /\ call' = "insert"
    /\ arg' = [key |-> k, value |-> v]
    /\ res' = NoValue
    /\ UNCHANGED <<map, owed, latest>>

(* Once in an insertion, when there is no room: k goes, to the callback. *)
Evict(k) ==
    /\ call = "insert"
    /\ Cardinality(Held) = Capacity
    /\ k \in Held /\ k # latest
    /\ map' = [map EXCEPT ![k] = NoValue]
    /\ owed' = owed \ {k}
    /\ call' = "evicted"
    /\ UNCHANGED <<arg, res, latest>>

InsertReturns ==
    /\ call \in {"insert", "evicted"}
    /\ Cardinality(Held) < Capacity
    /\ map' = [map EXCEPT ![arg.key] = arg.value]
    /\ owed' = owed \cup {arg.key}
    /\ latest' = arg.key
    /\ res' = TRUE
    /\ call' = "idle"
    /\ arg' = Vacant

ClearBegins ==
    /\ call = "idle"
    /\ call' = "clear"
    /\ UNCHANGED <<map, arg, res, owed, latest>>

(* CLEAR drops some of the keys, not always all. *)
Drop(k) ==
    /\ call = "clear"
    /\ k \in Held
    /\ map' = [map EXCEPT ![k] = NoValue]
    /\ owed' = owed \ {k}
    /\ UNCHANGED <<call, arg, res, latest>>

ClearReturns ==
    /\ call = "clear"
    /\ call' = "idle"
    /\ latest' = Nobody
    /\ UNCHANGED <<map, arg, res, owed>>

(* The callback is given nothing: what is owed is lost. *)
Destroy ==
    /\ call = "idle"
    /\ call' = "gone"
    /\ map' = [k \in Keys |-> NoValue]
    /\ res' = NoValue
    /\ latest' = Nobody
    /\ UNCHANGED <<arg, owed>>

New ==
    /\ call = "gone"
    /\ call' = "idle"
    /\ owed' = {}
    /\ UNCHANGED <<map, arg, res, latest>>

Next ==
    \/ \E k \in Keys : \/ \E v \in Values : InsertBegins(k, v)
                       \/ Find(k) \/ Evict(k) \/ Drop(k)
    \/ InsertReturns \/ ClearBegins \/ ClearReturns \/ Destroy \/ New

Spec == Init /\ [][Next]_bvars
=============================================================================
