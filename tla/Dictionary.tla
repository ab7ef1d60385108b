----------------------------- MODULE Dictionary -----------------------------
(***************************************************************************)
(* What the hash table promises: a partial map from keys to values.  An    *)
(* insertion is a call and a return.  A key that is present keeps its value*)
(* and the call answers FALSE (test/ht.cc:136, duplicate_reject), unless a *)
(* duplicate callback is set, which decides both.  A table that may grow   *)
(* never refuses; a fixed one refuses when as many insertions as it has    *)
(* places have been let in, less the deletions that found their key, and   *)
(* only then.                                                              *)
(***************************************************************************)
EXTENDS Integers

CONSTANTS Keys, Values, NoValue

VARIABLES
    map,       \* map[k]: k's value, or NoValue
    pending,   \* NoValue between calls; else the set of keys the running
               \* insertion found present: none or one
    res,       \* what the last call returned; NoValue while one runs
    callback,  \* whether a duplicate callback is set
    fixed,     \* whether the table may not grow
    spent,     \* insertions let in, of new and of present keys alike, less
               \* deletions
    places,    \* how many places there are
    open       \* FALSE from DESTROY to the next INIT

dvars == <<map, pending, res, callback, fixed, spent, places, open>>

Nothing == [k \in Keys |-> NoValue]

Init ==
    /\ map = Nothing
    /\ pending = NoValue
    /\ res = NoValue
    /\ callback = FALSE
    /\ fixed \in BOOLEAN
    /\ spent = 0
    /\ places \in Nat
    /\ open = TRUE

Idle == open /\ pending = NoValue

(* An insertion is let in; one that may grow the table may do so. *)
LetIn ==
    /\ Idle
    /\ fixed => spent < places /\ places' = places
    /\ places' >= places
    /\ spent' = spent + 1
    /\ res' = NoValue
    /\ UNCHANGED <<callback, fixed, open>>

InsertNew(k, v) ==
    /\ LetIn
    /\ map[k] = NoValue
    /\ map' = [map EXCEPT ![k] = v]
    /\ pending' = {}

InsertPresent(k) ==
    /\ LetIn
    /\ map[k] # NoValue
    /\ pending' = {k}
    /\ UNCHANGED map

InsertReturns ==
    /\ open /\ pending # NoValue
    /\ pending # {} => ~callback
    /\ pending' = NoValue
    /\ res' = (pending = {})
    /\ UNCHANGED <<map, callback, fixed, spent, places, open>>

(* The duplicate callback sets the value and the result. *)
CallbackReturns ==
    /\ open /\ pending # NoValue
    /\ callback
    /\ pending' = NoValue
    /\ \E k \in pending, v \in Values, b \in BOOLEAN :
          /\ map' = [map EXCEPT ![k] = v]
          /\ res' = b
    /\ UNCHANGED <<callback, fixed, spent, places, open>>

InsertRefused ==
    /\ Idle
    /\ fixed /\ spent >= places
    /\ res' = FALSE
    /\ UNCHANGED <<map, pending, callback, fixed, spent, places, open>>

Delete(k) ==
    /\ Idle
    /\ map' = [map EXCEPT ![k] = NoValue]
    /\ res' = (map[k] # NoValue)
    /\ spent' = IF map[k] # NoValue THEN spent - 1 ELSE spent
    /\ UNCHANGED <<pending, callback, fixed, places, open>>

Find(k) ==
    /\ Idle
    /\ res' = map[k]
    /\ UNCHANGED <<map, pending, callback, fixed, spent, places, open>>

SetDuplicateCb ==
    /\ Idle
    /\ callback' = TRUE
    /\ UNCHANGED <<map, pending, res, fixed, spent, places, open>>

(* The owner makes an empty table larger. *)
Resize ==
    /\ Idle
    /\ map = Nothing
    /\ places' > places
    /\ UNCHANGED <<map, pending, res, callback, fixed, spent, open>>

(* The map is given up with all its entries, and a new one may follow. *)
Destroy ==
    /\ Idle
    /\ map' = Nothing
    /\ res' = NoValue
    /\ open' = FALSE
    /\ UNCHANGED <<pending, callback, fixed, spent, places>>

New ==
    /\ ~open
    /\ open' = TRUE
    /\ callback' = FALSE
    /\ fixed' \in BOOLEAN
    /\ spent' = 0
    /\ places' \in Nat
    /\ UNCHANGED <<map, pending, res>>

Next ==
    \/ \E k \in Keys : \/ \E v \in Values : InsertNew(k, v)
                       \/ InsertPresent(k)
                       \/ Delete(k)
                       \/ Find(k)
    \/ InsertReturns \/ CallbackReturns \/ InsertRefused
    \/ SetDuplicateCb \/ Resize \/ Destroy \/ New

Spec == Init /\ [][Next]_dvars
=============================================================================
