--------------------------- MODULE HashTableEach ---------------------------
(***************************************************************************)
(* A3_HT_FOR_EACH over a hash table (src/include/a3/ht.h), by a client     *)
(* whose body inserts and deletes.  The loop knows only the index of its   *)
(* entry; deletions and insertions move other entries past it.             *)
(*                                                                         *)
(* The body's other calls move nothing, and the table does not grow while  *)
(* a loop runs over it (MaxCap < 2 * InitCap): growing frees the entries   *)
(* that the loop has pointers to and gives every one of them another       *)
(* place.                                                                  *)
(***************************************************************************)
EXTENDS HashTable

CONSTANT MaxChanges   \* bound: on the calls of a loop's body that change the table

ASSUME MaxChangesAssumption == MaxChanges \in Nat

VARIABLE each   \* the loop: at, the slot it is at, -1 before it begins and cap
                \* once it is over; and history: the entries that were there
                \* when it began and have (had) or have not (due) had their
                \* turn, and how often the table changed

evars == <<vars, each>>

EachInit == Init /\ each = [at |-> -1, due |-> {}, had |-> {}, changes |-> 0]

Running == each.at \in Slots

(* The first entry from slot n on; cap where the code has -1. *)
NextEntry(n) ==
    LET ahead == {s \in n .. cap - 1 : entries[s] # Vacant}
    IN  IF ahead = {} THEN cap ELSE CHOOSE s \in ahead : \A t \in ahead : s <= t

(* The loop is at slot s, with the entries in due still to come. *)
At(s, due, had, changes) ==
    LET here == IF s = cap THEN {} ELSE {entries[s].key}
    IN  each' = [at |-> s, due |-> due \ here, had |-> had \cup here, changes |-> changes]

EachBegin ==
    /\ pc = "idle" /\ ~Running
    /\ At(NextEntry(0), {k \in Keys : InTable(k)}, {}, 0)
    /\ UNCHANGED vars

(* Mutant: the loop goes on two slots later. *)
EachOn_Skips ==
    /\ pc = "idle" /\ Running
    /\ At(NextEntry(each.at + 2), each.due, each.had, each.changes)
    /\ UNCHANGED vars

EachOn ==
    /\ pc = "idle" /\ Running
    /\ At(NextEntry(each.at + 1), each.due, each.had, each.changes)
    /\ UNCHANGED vars

(* A call that changes the table, of the loop's body or between loops; key  *)
(* k, if there was one, is not the entry that it was.                       *)
Changes(k) ==
    IF Running
    THEN /\ each.changes < MaxChanges
         /\ each' = [each EXCEPT !.due = @ \ {k}, !.had = @ \ {k}, !.changes = @ + 1]
    ELSE UNCHANGED each

EachNext ==
    \/ EachBegin \/ EachOn
    \/ InsertStep /\ UNCHANGED each
    \/ \E k \in Keys :
          \/ Found(k) /\ Delete(k) /\ Changes(k)
          \/ ~Found(k) /\ (\E v \in Values : Insert(k, v)) /\ Changes(k)

EachSpec == EachInit /\ [][EachNext]_evars

-----------------------------------------------------------------------------
(* The keys at the slots up to the loop's, and those ahead of it. *)
Passed == {entries[s].key : s \in {t \in Stored : t <= each.at}}
ToCome == {entries[s].key : s \in {t \in Stored : t > each.at}}

(* A loop whose body changes nothing gives every entry its turn, once.  A   *)
(* deletion moves the entries after it back and an insertion moves some on, *)
(* but only one of them past the loop's place and one past the end of the   *)
(* table: each change costs at most one entry its turn and gives at most    *)
(* one another (ht.h:427, 236-254, 386-395).                                *)
EachMissesOnePerChange ==
    pc = "idle" /\ each.at >= 0 =>
        /\ Cardinality(each.due \cap Passed) <= each.changes
        /\ Cardinality(each.had \cap ToCome) <= each.changes
=============================================================================
