-------------------------- MODULE HashTableProofs --------------------------
(***************************************************************************)
(* Proofs of the safety of HashTable, for every hash function, capacity,   *)
(* load factor and sequence of calls.  The argument is in HInv: on the way *)
(* back from an entry to its home every slot is taken, by an entry that is *)
(* no nearer to its own home than the way done allows.  The lemmas about   *)
(* that order are about any table e of c slots whose keys have their homes *)
(* in h, so that they can be used of the table before and after a step.    *)
(* The last part is about the loops of HashTableEach.                      *)
(***************************************************************************)
EXTENDS HashTableEach, SequenceTheorems, FiniteSetTheorems, FunctionTheorems,
        WellFoundedInduction, TLAPS

-----------------------------------------------------------------------------
(* Arithmetic modulo a capacity. *)

LEMMA ModSmall ==
    ASSUME NEW c \in Nat \ {0}, NEW x \in 0 .. c - 1
    PROVE  x % c = x
<1>1. x = c * (x \div c) + (x % c) /\ x \div c \in Int /\ x % c \in 0 .. c - 1
  OBVIOUS
<1> DEFINE q == x \div c
           r == x % c
<1>2. q = 0
  <2>1. q \in Int /\ r \in 0 .. c - 1 /\ x = c * q + r
    BY <1>1
  <2> HIDE DEF q, r
  <2>2. ~(q >= 1)
    <3>1. SUFFICES ASSUME q >= 1 PROVE FALSE
      OBVIOUS
    <3>2. c * (q - 1) >= 0
      BY <2>1, <3>1
    <3>3. c * q = c * (q - 1) + c
      BY <2>1
    <3> QED BY <2>1, <3>2, <3>3
  <2>3. ~(q <= -1)
    <3>1. SUFFICES ASSUME q <= -1 PROVE FALSE
      OBVIOUS
    <3>2. c * (q + 1) <= 0
      BY <2>1, <3>1
    <3>3. c * q = c * (q + 1) - c
      BY <2>1
    <3> QED BY <2>1, <3>2, <3>3
  <2> QED BY <2>1, <2>2, <2>3
<1>3. c * q = 0
  BY <1>2
<1> QED
  BY <1>1, <1>3

LEMMA ModOnce ==
    ASSUME NEW c \in Nat \ {0}, NEW x \in c .. 2 * c - 1
    PROVE  x % c = x - c
<1> DEFINE q == x \div c
           r == x % c
<1>1. x = c * q + r /\ q \in Int /\ r \in 0 .. c - 1
  OBVIOUS
<1> HIDE DEF q
<1>2. q = 1
  <2> HIDE DEF r
  <2>2. ~(q >= 2)
    <3>1. SUFFICES ASSUME q >= 2 PROVE FALSE
      OBVIOUS
    <3>2. c * (q - 2) >= 0
      BY <1>1, <3>1
    <3>3. c * q = c * (q - 2) + 2 * c
      BY <1>1
    <3> QED BY <1>1, <3>2, <3>3
  <2>3. ~(q <= 0)
    <3>1. SUFFICES ASSUME q <= 0 PROVE FALSE
      OBVIOUS
    <3>2. c * q <= 0
      BY <1>1, <3>1
    <3> QED BY <1>1, <3>2
  <2> QED BY <1>1, <2>2, <2>3
<1>3. c * q = c
  BY <1>2
<1>4. r = x - c
  BY <1>1, <1>3
<1> QED
  BY <1>4

(* How many slots after t slot s comes among c slots, and the slot after s. *)
Ahead(s, t, c) == IF t <= s THEN s - t ELSE s - t + c
After(s, c) == IF s = c - 1 THEN 0 ELSE s + 1

LEMMA ModGap ==
    ASSUME NEW c \in Nat \ {0}, NEW s \in 0 .. c - 1, NEW t \in 0 .. c - 1
    PROVE  (s + c - t) % c = Ahead(s, t, c)
<1>1. CASE t <= s
  <2>1. s + c - t \in c .. 2 * c - 1
    BY <1>1
  <2> QED BY <2>1, <1>1, ModOnce DEF Ahead
<1>2. CASE t > s
  <2>1. s + c - t \in 0 .. c - 1
    BY <1>2
  <2> QED BY <2>1, <1>2, ModSmall DEF Ahead
<1> QED BY <1>1, <1>2

LEMMA ModAfter ==
    ASSUME NEW c \in Nat \ {0}, NEW s \in 0 .. c - 1
    PROVE  (s + 1) % c = After(s, c)
<1>1. CASE s = c - 1
  BY <1>1, ModOnce, s + 1 \in c .. 2 * c - 1 DEF After
<1>2. CASE s # c - 1
  BY <1>2, ModSmall, s + 1 \in 0 .. c - 1 DEF After
<1> QED BY <1>1, <1>2

(* The slot p slots after s. *)
Later(s, p, c) == IF s + p < c THEN s + p ELSE s + p - c

LEMMA ModLater ==
    ASSUME NEW c \in Nat \ {0}, NEW s \in 0 .. c - 1, NEW p \in 0 .. c
    PROVE  (s + p) % c = Later(s, p, c)
<1>1. CASE s + p >= c
  <2>1. s + p \in c .. 2 * c - 1
    BY <1>1
  <2>2. (s + p) % c = s + p - c
    BY <2>1, ModOnce
  <2> QED BY <2>2, <1>1 DEF Later
<1>2. CASE s + p < c
  BY <1>2, ModSmall, s + p \in 0 .. c - 1 DEF Later
<1> QED BY <1>1, <1>2

-----------------------------------------------------------------------------
(* The order of a table. *)

Table(c) == [0 .. c - 1 -> Entry \cup {Vacant}]
Capacity == Nat \ {0, 1}

(* How far from its home the entry of slot s is. *)
Away(e, c, h, s) == Ahead(s, h[e[s].key], c)

InOrder(e, c, h) ==
    \A s, t \in 0 .. c - 1 :
        e[s] # Vacant /\ Ahead(s, t, c) <= Away(e, c, h, s) =>
            e[t] # Vacant /\ Away(e, c, h, t) + Ahead(s, t, c) >= Away(e, c, h, s)

Single(e, c) ==
    \A s, t \in 0 .. c - 1 :
        e[s] # Vacant /\ e[t] # Vacant /\ e[s].key = e[t].key => s = t

HasHome(e, c, h) == \E s \in 0 .. c - 1 : e[s] # Vacant => Away(e, c, h, s) = 0

(* Key k would be in order, and is new, at slot n. *)
Fits(e, c, h, n, k) ==
    \A t \in (0 .. c - 1) \ {n} : Ahead(n, t, c) <= Ahead(n, h[k], c) =>
        /\ e[t] # Vacant
        /\ Away(e, c, h, t) + Ahead(n, t, c) >= Ahead(n, h[k], c)
        /\ e[t].key # k

LEMMA AheadType ==
    ASSUME NEW c \in Nat, NEW s \in 0 .. c - 1, NEW t \in 0 .. c - 1
    PROVE  /\ Ahead(s, t, c) \in 0 .. c - 1 /\ Ahead(s, t, c) \in Int
           /\ Ahead(s, t, c) = 0 <=> s = t
  BY DEF Ahead

LEMMA AfterType ==
    ASSUME NEW c \in Nat, NEW s \in 0 .. c - 1
    PROVE  After(s, c) \in 0 .. c - 1
  BY DEF After

LEMMA EntryKey ==
    ASSUME NEW c \in Nat, NEW e \in Table(c), NEW s \in 0 .. c - 1, e[s] # Vacant
    PROVE  e[s] \in Entry /\ e[s].key \in Keys
  BY DEF Table, Entry

LEMMA AwayType ==
    ASSUME NEW c \in Nat, NEW h \in [Keys -> 0 .. c - 1], NEW e \in Table(c),
           NEW s \in 0 .. c - 1, e[s] # Vacant
    PROVE  h[e[s].key] \in 0 .. c - 1 /\ Away(e, c, h, s) \in 0 .. c - 1
  BY EntryKey, AheadType DEF Away

(* A key that is new on the way to its home is new: an entry with it beyond *)
(* would have had to pass slot n, which is vacant or nearer to its home.    *)
LEMMA FitsIsNew ==
    ASSUME NEW c \in Capacity, NEW h \in [Keys -> 0 .. c - 1], NEW e \in Table(c),
           InOrder(e, c, h), NEW n \in 0 .. c - 1, NEW k \in Keys, Fits(e, c, h, n, k),
           \/ e[n] = Vacant
           \/ e[n].key # k /\ Away(e, c, h, n) < Ahead(n, h[k], c)
    PROVE  \A s \in 0 .. c - 1 : e[s] # Vacant => e[s].key # k
<1> SUFFICES ASSUME NEW s \in 0 .. c - 1, e[s] # Vacant, e[s].key = k, s # n
             PROVE  FALSE
  OBVIOUS
<1>1. c \in Nat /\ h[k] \in 0 .. c - 1
  BY DEF Capacity
<1>2. Ahead(n, s, c) > Ahead(n, h[k], c)
  <2>1. Ahead(n, s, c) \in Int /\ Ahead(n, h[k], c) \in Int
    BY <1>1 DEF Ahead
  <2>2. ~(Ahead(n, s, c) <= Ahead(n, h[k], c))
    BY DEF Fits
  <2> QED BY <2>1, <2>2
<1>3. Ahead(s, h[k], c) = Ahead(s, n, c) + Ahead(n, h[k], c)
  BY <1>1, <1>2 DEF Ahead
<1>4. Away(e, c, h, s) = Ahead(s, h[k], c)
  BY DEF Away
<1>5. Ahead(s, n, c) <= Away(e, c, h, s)
  BY <1>1, <1>3, <1>4, AheadType
<1>6. e[n] # Vacant /\ Away(e, c, h, n) + Ahead(s, n, c) >= Away(e, c, h, s)
  BY <1>5 DEF InOrder
<1>7. Away(e, c, h, n) < Ahead(n, h[k], c)
  BY <1>6
<1>8. Away(e, c, h, n) \in Int /\ Ahead(s, n, c) \in Int /\ Ahead(n, h[k], c) \in Int
  <2>1. Away(e, c, h, n) \in Int
    BY <1>1, <1>6, AwayType
  <2> QED BY <2>1, <1>1 DEF Ahead
<1> QED
  BY <1>3, <1>4, <1>6, <1>7, <1>8

LEMMA EntryFields ==
    ASSUME NEW x \in Entry PROVE x.key \in Keys /\ x # Vacant
  BY VacantAssumption DEF Entry

LEMMA StoreIn ==
    ASSUME NEW c \in Nat, NEW e \in Table(c), NEW n \in 0 .. c - 1, NEW x \in Entry
    PROVE  /\ [e EXCEPT ![n] = x] \in Table(c)
           /\ [e EXCEPT ![n] = x][n] = x
           /\ \A t \in (0 .. c - 1) \ {n} : [e EXCEPT ![n] = x][t] = e[t]
  BY DEF Table

(* An entry that fits at a slot which is vacant or has an entry nearer to   *)
(* its home keeps the order and is the only one of its key.                 *)
LEMMA StoreKeepsOrder ==
    ASSUME NEW c \in Capacity, NEW h \in [Keys -> 0 .. c - 1], NEW e \in Table(c),
           InOrder(e, c, h), NEW n \in 0 .. c - 1, NEW x \in Entry,
           Fits(e, c, h, n, x.key),
           e[n] = Vacant \/ Away(e, c, h, n) < Ahead(n, h[x.key], c)
    PROVE  InOrder([e EXCEPT ![n] = x], c, h)
<1> DEFINE f == [e EXCEPT ![n] = x]
<1>1. c \in Nat /\ x.key \in Keys /\ x # Vacant /\ h[x.key] \in 0 .. c - 1
  BY EntryFields DEF Capacity
<1>2. /\ f[n] = x /\ Away(f, c, h, n) = Ahead(n, h[x.key], c)
      /\ \A t \in (0 .. c - 1) \ {n} : f[t] = e[t] /\ Away(f, c, h, t) = Away(e, c, h, t)
  <2>1. /\ f[n] = x
        /\ \A t \in (0 .. c - 1) \ {n} : f[t] = e[t]
    BY <1>1 DEF Table
  <2> HIDE DEF f
  <2> QED BY <2>1 DEF Away
<1> HIDE DEF f
<1>3. SUFFICES ASSUME NEW s \in 0 .. c - 1, NEW t \in 0 .. c - 1,
                      f[s] # Vacant, Ahead(s, t, c) <= Away(f, c, h, s)
               PROVE  f[t] # Vacant /\ Away(f, c, h, t) + Ahead(s, t, c) >= Away(f, c, h, s)
  BY DEF InOrder, f
<1>4. CASE s = n /\ t = n
  <2>1. Ahead(n, n, c) = 0 /\ Away(f, c, h, n) \in Int
    BY <1>1, <1>2 DEF Ahead
  <2> QED BY <2>1, <1>1, <1>2, <1>4
<1>5. CASE s = n /\ t # n
  BY <1>2, <1>3, <1>5 DEF Fits
<1>6. CASE s # n
  <2>1. f[s] = e[s] /\ Away(f, c, h, s) = Away(e, c, h, s)
    BY <1>2, <1>6
  <2>2. e[t] # Vacant /\ Away(e, c, h, t) + Ahead(s, t, c) >= Away(e, c, h, s)
    BY <1>3, <2>1 DEF InOrder
  <2>3. CASE t # n
    BY <1>2, <2>1, <2>2, <2>3
  <2>4. CASE t = n
    <3>1. Away(e, c, h, n) < Away(f, c, h, n)
      BY <2>2, <2>4, <1>2
    <3>2. Away(e, c, h, n) \in Int /\ Away(f, c, h, n) \in Int
          /\ Ahead(s, n, c) \in Int /\ Away(e, c, h, s) \in Int
      <4>1. Away(e, c, h, n) \in Int /\ Away(e, c, h, s) \in Int
        BY <1>1, <1>3, <2>1, <2>2, <2>4, AwayType
      <4>2. Away(f, c, h, n) \in Int /\ Ahead(s, n, c) \in Int
        BY <1>1, <1>2 DEF Ahead
      <4> QED BY <4>1, <4>2
    <3> QED BY <1>1, <1>2, <2>1, <2>2, <2>4, <3>1, <3>2
  <2> QED BY <2>3, <2>4
<1> QED BY <1>4, <1>5, <1>6

LEMMA StoreKeepsSingle ==
    ASSUME NEW c \in Capacity, NEW h \in [Keys -> 0 .. c - 1], NEW e \in Table(c),
           Single(e, c), NEW n \in 0 .. c - 1, NEW x \in Entry,
           \A s \in 0 .. c - 1 : e[s] # Vacant => e[s].key # x.key
    PROVE  Single([e EXCEPT ![n] = x], c)
  BY StoreIn DEF Single, Capacity

(* One slot on, a key that fitted where an entry is that is as far from its *)
(* home or farther still fits.                                              *)
LEMMA FitsOneOn ==
    ASSUME NEW c \in Capacity, NEW h \in [Keys -> 0 .. c - 1], NEW e \in Table(c),
           NEW n \in 0 .. c - 1, NEW k \in Keys, Fits(e, c, h, n, k),
           e[n] # Vacant, e[n].key # k, Away(e, c, h, n) >= Ahead(n, h[k], c),
           \E v \in 0 .. c - 1 : e[v] = Vacant
    PROVE  /\ Fits(e, c, h, After(n, c), k)
           /\ Ahead(After(n, c), h[k], c) = Ahead(n, h[k], c) + 1
<1> DEFINE m == After(n, c)
<1>1. c \in Nat /\ h[k] \in 0 .. c - 1 /\ m \in 0 .. c - 1
  BY AfterType DEF Capacity
<1>2. PICK v \in 0 .. c - 1 : e[v] = Vacant
  OBVIOUS
<1>3. Ahead(n, v, c) > Ahead(n, h[k], c)
  <2>1. Ahead(n, v, c) \in Int /\ Ahead(n, h[k], c) \in Int
    BY <1>1 DEF Ahead
  <2>2. v # n /\ ~(Ahead(n, v, c) <= Ahead(n, h[k], c))
    BY <1>2 DEF Fits
  <2> QED BY <2>1, <2>2
<1>4. Ahead(m, h[k], c) = Ahead(n, h[k], c) + 1
  BY <1>1, <1>3 DEF Ahead, After
<1>5. ASSUME NEW t \in (0 .. c - 1) \ {m}, Ahead(m, t, c) <= Ahead(m, h[k], c)
      PROVE  /\ e[t] # Vacant
             /\ Away(e, c, h, t) + Ahead(m, t, c) >= Ahead(m, h[k], c)
             /\ e[t].key # k
  <2>1. Ahead(m, t, c) = Ahead(n, t, c) + 1
    BY <1>1, <1>5 DEF Ahead, After
  <2>2. Ahead(n, t, c) \in Int /\ Ahead(n, h[k], c) \in Int
    BY <1>1, AheadType
  <2>3. CASE t = n
    <3>1. Ahead(n, n, c) = 0
      BY <1>1 DEF Ahead
    <3>2. Away(e, c, h, n) \in Int
      BY <1>1, AwayType
    <3> QED BY <1>4, <2>1, <2>2, <2>3, <3>1, <3>2
  <2>4. CASE t # n
    <3>1. /\ e[t] # Vacant /\ e[t].key # k
          /\ Away(e, c, h, t) + Ahead(n, t, c) >= Ahead(n, h[k], c)
      BY <1>4, <1>5, <2>1, <2>2, <2>4 DEF Fits
    <3>2. Away(e, c, h, t) \in Int
      BY <1>1, <3>1, AwayType
    <3> QED BY <1>4, <2>1, <2>2, <3>1, <3>2
  <2> QED BY <2>3, <2>4
<1> QED BY <1>4, <1>5 DEF Fits

(* The entry that is displaced fits one slot on. *)
LEMMA DisplacedFits ==
    ASSUME NEW c \in Capacity, NEW h \in [Keys -> 0 .. c - 1], NEW e \in Table(c),
           InOrder(e, c, h), Single(e, c), NEW n \in 0 .. c - 1, NEW x \in Entry,
           e[n] # Vacant, e[n].key # x.key, Away(e, c, h, n) < Ahead(n, h[x.key], c)
    PROVE  /\ Fits([e EXCEPT ![n] = x], c, h, After(n, c), e[n].key)
           /\ Ahead(After(n, c), h[e[n].key], c) = Away(e, c, h, n) + 1
<1> DEFINE m == After(n, c)
           f == [e EXCEPT ![n] = x]
           k == e[n].key
<1>1. c \in Nat /\ k \in Keys /\ h[k] \in 0 .. c - 1 /\ m \in 0 .. c - 1
      /\ x.key \in Keys /\ x # Vacant /\ h[x.key] \in 0 .. c - 1
  BY AfterType, EntryKey, EntryFields DEF Capacity
<1>2. /\ f[n] = x /\ Away(f, c, h, n) = Ahead(n, h[x.key], c)
      /\ \A t \in (0 .. c - 1) \ {n} : f[t] = e[t] /\ Away(f, c, h, t) = Away(e, c, h, t)
  <2>1. /\ f[n] = x
        /\ \A t \in (0 .. c - 1) \ {n} : f[t] = e[t]
    BY <1>1 DEF Table
  <2> HIDE DEF f
  <2> QED BY <2>1 DEF Away
<1>3. Away(e, c, h, n) = Ahead(n, h[k], c)
  BY DEF Away
<1> HIDE DEF f, k
<1>4. Ahead(n, h[x.key], c) \in 0 .. c - 1 /\ Ahead(n, h[k], c) \in Int
  BY <1>1 DEF Ahead
<1>5. Ahead(n, h[k], c) < c - 1
  BY <1>1, <1>3, <1>4
<1>6. Ahead(m, h[k], c) = Ahead(n, h[k], c) + 1
  BY <1>1, <1>5 DEF Ahead, After
<1>7. ASSUME NEW t \in (0 .. c - 1) \ {m}, Ahead(m, t, c) <= Ahead(m, h[k], c)
      PROVE  /\ f[t] # Vacant
             /\ Away(f, c, h, t) + Ahead(m, t, c) >= Ahead(m, h[k], c)
             /\ f[t].key # k
  <2>1. Ahead(m, t, c) = Ahead(n, t, c) + 1
    BY <1>1, <1>7 DEF Ahead, After
  <2>2. Ahead(n, t, c) \in Int
    BY <1>1, AheadType
  <2>3. CASE t = n
    <3>1. Ahead(n, n, c) = 0
      BY <1>1, AheadType
    <3>2. f[n] # Vacant /\ f[n].key # k
      BY <1>1, <1>2 DEF k
    <3> QED BY <1>2, <1>3, <1>4, <1>6, <2>1, <2>2, <2>3, <3>1, <3>2
  <2>4. CASE t # n
    <3>1. Ahead(n, t, c) <= Away(e, c, h, n)
      BY <1>3, <1>4, <1>6, <1>7, <2>1, <2>2
    <3>2. e[t] # Vacant /\ Away(e, c, h, t) + Ahead(n, t, c) >= Away(e, c, h, n)
      BY <3>1 DEF InOrder
    <3>3. e[t].key # k
      BY <3>2, <2>4 DEF Single, k
    <3>4. Away(e, c, h, t) \in Int
      BY <1>1, <3>2, AwayType
    <3> QED BY <1>2, <1>3, <1>4, <1>6, <2>1, <2>2, <2>4, <3>2, <3>3, <3>4
  <2> QED BY <2>3, <2>4
<1> QED BY <1>3, <1>6, <1>7 DEF Fits, f, k

-----------------------------------------------------------------------------
(* The back-shift of a deletion. *)

(* The entries after slot s move back by one, up to n - 1 slots after it. *)
Shifted(e, c, s, n) ==
    [t \in 0 .. c - 1 |->
        IF Ahead(t, s, c) < n - 1 THEN e[After(t, c)]
        ELSE IF Ahead(t, s, c) = n - 1 THEN Vacant
        ELSE e[t]]

(* The shift goes over entries that are away from their homes, and stops    *)
(* before an empty slot or an entry at home; a round later, which takes an  *)
(* entry whose home is the slot before it, in s.                            *)
ShiftsOver(e, c, h, s, n) ==
    /\ \A t \in 0 .. c - 1 :
          Ahead(t, s, c) >= 1 /\ Ahead(t, s, c) < n => e[t] # Vacant /\ Away(e, c, h, t) > 0
    /\ \A t \in 0 .. c - 1 :
          Ahead(t, s, c) = n => e[t] = Vacant \/ Away(e, c, h, t) = 0
    /\ n = c => Away(e, c, h, After(s, c)) = 1

LEMMA ShiftedType ==
    ASSUME NEW c \in Capacity, NEW e \in Table(c), NEW s \in 0 .. c - 1, NEW n \in 1 .. c
    PROVE  Shifted(e, c, s, n) \in Table(c)
<1>1. \A t \in 0 .. c - 1 : After(t, c) \in 0 .. c - 1
  BY AfterType DEF Capacity
<1> QED BY <1>1 DEF Shifted, Table

(* Where the entry of slot t was before the shift. *)
LEMMA ShiftedFrom ==
    ASSUME NEW c \in Capacity, NEW h \in [Keys -> 0 .. c - 1], NEW e \in Table(c),
           NEW s \in 0 .. c - 1, NEW n \in 1 .. c, ShiftsOver(e, c, h, s, n),
           NEW t \in 0 .. c - 1, Shifted(e, c, s, n)[t] # Vacant
    PROVE  \/ /\ Ahead(t, s, c) < n - 1
              /\ After(t, c) \in 0 .. c - 1 /\ After(t, c) # s
              /\ Ahead(After(t, c), s, c) = Ahead(t, s, c) + 1
              /\ e[After(t, c)] # Vacant
              /\ Shifted(e, c, s, n)[t] = e[After(t, c)]
              /\ Away(e, c, h, After(t, c)) > 0
              /\ Away(Shifted(e, c, s, n), c, h, t) = Away(e, c, h, After(t, c)) - 1
           \/ /\ Ahead(t, s, c) > n - 1
              /\ t # s /\ e[t] # Vacant
              /\ Shifted(e, c, s, n)[t] = e[t]
              /\ Away(Shifted(e, c, s, n), c, h, t) = Away(e, c, h, t)
<1> DEFINE f == Shifted(e, c, s, n)
           u == After(t, c)
<1>1. c \in Nat /\ u \in 0 .. c - 1 /\ Ahead(t, s, c) \in 0 .. c - 1
  BY AfterType, AheadType DEF Capacity
<1>2. f[t] = IF Ahead(t, s, c) < n - 1 THEN e[u]
             ELSE IF Ahead(t, s, c) = n - 1 THEN Vacant ELSE e[t]
  BY DEF Shifted
<1> HIDE DEF f
<1>3. f[t] # Vacant
  BY DEF f
<1>4. CASE Ahead(t, s, c) < n - 1
  <2>1. u # s /\ Ahead(u, s, c) = Ahead(t, s, c) + 1
    BY <1>1, <1>4 DEF Ahead, After
  <2>2. e[u] # Vacant /\ Away(e, c, h, u) > 0
    BY <1>1, <1>4, <2>1 DEF ShiftsOver
  <2>3. f[t] = e[u]
    BY <1>2, <1>4
  <2>4. h[e[u].key] \in 0 .. c - 1
    BY <1>1, <2>2, AwayType
  <2>5. Away(f, c, h, t) = Away(e, c, h, u) - 1
    BY <1>1, <2>2, <2>3, <2>4 DEF Away, Ahead, After
  <2> QED BY <1>1, <1>4, <2>1, <2>2, <2>3, <2>5 DEF f
<1>5. CASE Ahead(t, s, c) = n - 1
  BY <1>2, <1>3, <1>5
<1>6. CASE Ahead(t, s, c) > n - 1
  <2>1. f[t] = e[t] /\ e[t] # Vacant
    BY <1>1, <1>2, <1>3, <1>6
  <2>2. t # s
    BY <1>6 DEF Ahead
  <2>3. Away(f, c, h, t) = Away(e, c, h, t)
    BY <2>1 DEF Away
  <2> QED BY <1>6, <2>1, <2>2, <2>3 DEF f
<1> QED BY <1>1, <1>4, <1>5, <1>6

(* The other way round: where an entry that is not deleted goes. *)
LEMMA ShiftedTo ==
    ASSUME NEW c \in Capacity, NEW e \in Table(c),
           NEW s \in 0 .. c - 1, NEW n \in 1 .. c, NEW t \in 0 .. c - 1, t # s
    PROVE  \E u \in 0 .. c - 1 : Shifted(e, c, s, n)[u] = e[t]
<1>1. c \in Nat /\ Ahead(t, s, c) \in 1 .. c - 1
  BY DEF Capacity, Ahead
<1>2. CASE Ahead(t, s, c) > n - 1
  BY <1>1, <1>2 DEF Shifted
<1>3. CASE Ahead(t, s, c) <= n - 1
  <2> DEFINE u == IF t = 0 THEN c - 1 ELSE t - 1
  <2>1. u \in 0 .. c - 1 /\ After(u, c) = t /\ Ahead(u, s, c) = Ahead(t, s, c) - 1
    BY <1>1 DEF After, Ahead
  <2> HIDE DEF u
  <2>2. Ahead(u, s, c) < n - 1
    BY <1>1, <1>3, <2>1
  <2> QED BY <2>1, <2>2 DEF Shifted
<1> QED BY <1>1, <1>2, <1>3

LEMMA ShiftKeepsOrder ==
    ASSUME NEW c \in Capacity, NEW h \in [Keys -> 0 .. c - 1], NEW e \in Table(c),
           InOrder(e, c, h), NEW s \in 0 .. c - 1, NEW n \in 1 .. c,
           ShiftsOver(e, c, h, s, n)
    PROVE  InOrder(Shifted(e, c, s, n), c, h)
<1> DEFINE f == Shifted(e, c, s, n)
<1>1. c \in Nat /\ c >= 2 /\ After(s, c) \in 0 .. c - 1 /\ f \in Table(c)
  BY AfterType, ShiftedType DEF Capacity
<1> SUFFICES ASSUME NEW a \in 0 .. c - 1, NEW b \in 0 .. c - 1,
                    f[a] # Vacant, Ahead(a, b, c) <= Away(f, c, h, a)
             PROVE  f[b] # Vacant /\ Away(f, c, h, b) + Ahead(a, b, c) >= Away(f, c, h, a)
  BY DEF InOrder
<1> DEFINE a1 == After(a, c)
           b1 == After(b, c)
           stop == Later(s, n, c)
<1>2. /\ Ahead(a, s, c) \in 0 .. c - 1 /\ Ahead(b, s, c) \in 0 .. c - 1
      /\ a1 \in 0 .. c - 1 /\ b1 \in 0 .. c - 1
      /\ Ahead(a, b, c) \in 0 .. c - 1
  BY <1>1, AheadType, AfterType
<1>3. n < c => /\ stop \in 0 .. c - 1 /\ Ahead(stop, s, c) = n
               /\ e[stop] = Vacant \/ Away(e, c, h, stop) = 0
  <2>1. n < c => stop \in 0 .. c - 1 /\ Ahead(stop, s, c) = n
    BY <1>1 DEF Later, Ahead
  <2> QED BY <2>1 DEF ShiftsOver
<1>4. f[b] = IF Ahead(b, s, c) < n - 1 THEN e[b1]
             ELSE IF Ahead(b, s, c) = n - 1 THEN Vacant ELSE e[b]
  BY DEF Shifted
<1>5. ASSUME NEW t \in 0 .. c - 1, f[t] # Vacant
      PROVE  \/ /\ Ahead(t, s, c) < n - 1
                /\ e[After(t, c)] # Vacant
                /\ Away(e, c, h, After(t, c)) > 0
                /\ Away(f, c, h, t) = Away(e, c, h, After(t, c)) - 1
                /\ Away(e, c, h, After(t, c)) \in 0 .. c - 1
             \/ /\ Ahead(t, s, c) > n - 1
                /\ e[t] # Vacant
                /\ Away(f, c, h, t) = Away(e, c, h, t)
                /\ Away(e, c, h, t) \in 0 .. c - 1
  <2>1. After(t, c) \in 0 .. c - 1
    BY <1>1, AfterType
  <2> QED BY <1>1, <1>5, <2>1, ShiftedFrom, AwayType
<1>6. ASSUME NEW t \in 0 .. c - 1, NEW u \in 0 .. c - 1, e[t] # Vacant,
             Ahead(t, u, c) <= Away(e, c, h, t)
      PROVE  /\ e[u] # Vacant
             /\ Away(e, c, h, u) + Ahead(t, u, c) >= Away(e, c, h, t)
             /\ Away(e, c, h, u) \in 0 .. c - 1
  <2>1. e[u] # Vacant /\ Away(e, c, h, u) + Ahead(t, u, c) >= Away(e, c, h, t)
    BY <1>6 DEF InOrder
  <2> QED BY <1>1, <2>1, AwayType
<1> HIDE DEF f, a1, b1, stop
<1>7. CASE /\ Ahead(a, s, c) < n - 1 /\ e[a1] # Vacant
           /\ Away(f, c, h, a) = Away(e, c, h, a1) - 1
           /\ Away(e, c, h, a1) \in 0 .. c - 1
  <2>1. Ahead(a1, s, c) = Ahead(a, s, c) + 1
    BY <1>1, <1>2, <1>7 DEF Ahead, After, a1
  <2>2. CASE Ahead(b, s, c) < n - 1
    <3>1. Ahead(a1, b1, c) = Ahead(a, b, c) /\ Ahead(b1, s, c) = Ahead(b, s, c) + 1
      BY <1>1, <1>2, <1>7, <2>2 DEF Ahead, After, a1, b1
    <3>2. /\ e[b1] # Vacant
          /\ Away(e, c, h, b1) + Ahead(a, b, c) >= Away(e, c, h, a1)
      BY <1>2, <1>6, <1>7, <3>1
    <3>3. f[b] # Vacant
      BY <1>4, <2>2, <3>2
    <3>4. Away(f, c, h, b) = Away(e, c, h, b1) - 1 /\ Away(e, c, h, b1) \in 0 .. c - 1
      BY <1>2, <1>5, <2>2, <3>3 DEF b1
    <3> QED BY <1>2, <1>7, <3>2, <3>3, <3>4
  <2>3. CASE Ahead(b, s, c) >= n - 1
    <3>1. Ahead(a1, b, c) = Ahead(a, b, c) + 1 \/ a1 = b
      BY <1>1, <1>2 DEF Ahead, After, a1
    <3>2. a1 # b
      <4>1. SUFFICES ASSUME a1 = b PROVE FALSE
        OBVIOUS
      <4>2. Ahead(a, b, c) = c - 1
        BY <1>1, <1>2, <4>1 DEF Ahead, After, a1
      <4> QED BY <1>1, <1>7, <4>2
    <3>3. /\ e[b] # Vacant
          /\ Away(e, c, h, b) + Ahead(a, b, c) + 1 >= Away(e, c, h, a1)
          /\ Away(e, c, h, b) \in 0 .. c - 1
      <4>1. Ahead(a1, b, c) <= Away(e, c, h, a1)
        BY <1>2, <1>7, <3>1, <3>2
      <4> QED BY <1>2, <1>6, <1>7, <3>1, <3>2, <4>1
    <3>4. CASE Ahead(b, s, c) > n - 1
      <4>1. f[b] # Vacant
        BY <1>2, <1>4, <3>3, <3>4
      <4>2. Away(f, c, h, b) = Away(e, c, h, b)
        BY <1>2, <1>5, <3>4, <4>1
      <4> QED BY <1>2, <1>7, <3>3, <4>1, <4>2
    <3>5. CASE Ahead(b, s, c) = n - 1 /\ n < c
      <4>1. Ahead(a1, stop, c) = Ahead(a, b, c)
        BY <1>1, <1>2, <1>3, <1>7, <2>1, <3>1, <3>2, <3>5 DEF Ahead
      <4>2. /\ e[stop] # Vacant
            /\ Away(e, c, h, stop) + Ahead(a1, stop, c) >= Away(e, c, h, a1)
        BY <1>2, <1>3, <1>6, <1>7, <3>5, <4>1
      <4> QED BY <1>2, <1>3, <1>7, <3>5, <4>1, <4>2
    <3>6. CASE Ahead(b, s, c) = n - 1 /\ n = c
      <4>1. Ahead(a1, After(s, c), c) + 1 = Ahead(a, b, c)
        BY <1>1, <1>2, <1>7, <2>1, <3>6 DEF Ahead, After, a1
      <4>2. Away(e, c, h, After(s, c)) = 1
        BY <3>6 DEF ShiftsOver
      <4>3. Ahead(a1, After(s, c), c) \in 0 .. c - 1
        BY <1>1, <1>2, AheadType
      <4>4. 1 + Ahead(a1, After(s, c), c) >= Away(e, c, h, a1)
        BY <1>1, <1>2, <1>6, <1>7, <4>1, <4>2, <4>3
      <4> QED BY <1>2, <1>7, <4>1, <4>3, <4>4
    <3> QED BY <1>1, <1>2, <2>3, <3>4, <3>5, <3>6
  <2> QED BY <1>2, <2>2, <2>3
<1>8. CASE /\ Ahead(a, s, c) > n - 1 /\ e[a] # Vacant
           /\ Away(f, c, h, a) = Away(e, c, h, a)
           /\ Away(e, c, h, a) \in 0 .. c - 1
  <2>1. n < c /\ Ahead(a, stop, c) = Ahead(a, s, c) - n
    BY <1>1, <1>2, <1>3, <1>8 DEF Ahead
  <2>2. CASE Ahead(b, s, c) > n - 1 /\ Ahead(b, s, c) <= Ahead(a, s, c)
    <3>1. e[b] # Vacant /\ Away(e, c, h, b) + Ahead(a, b, c) >= Away(e, c, h, a)
      BY <1>6, <1>8
    <3>2. f[b] # Vacant
      BY <1>2, <1>4, <2>2, <3>1
    <3>3. Away(f, c, h, b) = Away(e, c, h, b)
      BY <1>2, <1>5, <2>2, <3>2
    <3> QED BY <1>2, <1>8, <3>1, <3>2, <3>3
  <2>3. CASE Ahead(b, s, c) <= n - 1 \/ Ahead(b, s, c) > Ahead(a, s, c)
    <3>1. Ahead(a, stop, c) < Ahead(a, b, c)
      BY <1>1, <1>2, <1>3, <1>8, <2>1, <2>3 DEF Ahead
    <3>2. e[stop] # Vacant /\ Away(e, c, h, stop) + Ahead(a, stop, c) >= Away(e, c, h, a)
      BY <1>2, <1>3, <1>6, <1>8, <2>1, <3>1
    <3> QED BY <1>2, <1>3, <1>8, <2>1, <3>1, <3>2
  <2> QED BY <1>2, <2>2, <2>3
<1> QED BY <1>5, <1>7, <1>8 DEF a1

LEMMA ShiftKeepsSingle ==
    ASSUME NEW c \in Capacity, NEW h \in [Keys -> 0 .. c - 1], NEW e \in Table(c),
           Single(e, c), NEW s \in 0 .. c - 1, NEW n \in 1 .. c,
           ShiftsOver(e, c, h, s, n)
    PROVE  Single(Shifted(e, c, s, n), c)
<1> DEFINE f == Shifted(e, c, s, n)
<1> SUFFICES ASSUME NEW a \in 0 .. c - 1, NEW b \in 0 .. c - 1,
                    f[a] # Vacant, f[b] # Vacant, f[a].key = f[b].key
             PROVE  a = b
  BY DEF Single
<1>1. c \in Nat
  BY DEF Capacity
<1>2. ASSUME NEW t \in 0 .. c - 1, f[t] # Vacant
      PROVE  \/ /\ Ahead(t, s, c) < n - 1
                /\ After(t, c) \in 0 .. c - 1 /\ e[After(t, c)] # Vacant
                /\ Ahead(After(t, c), s, c) = Ahead(t, s, c) + 1
                /\ f[t] = e[After(t, c)]
             \/ /\ Ahead(t, s, c) > n - 1
                /\ e[t] # Vacant /\ f[t] = e[t]
  BY <1>2, ShiftedFrom
<1> HIDE DEF f
<1>3. Ahead(a, s, c) \in Int /\ Ahead(b, s, c) \in Int
  BY <1>1, AheadType
<1>4. CASE Ahead(a, s, c) < n - 1 /\ Ahead(b, s, c) < n - 1
  <2>1. After(a, c) = After(b, c) /\ After(a, c) \in 0 .. c - 1
    BY <1>2, <1>3, <1>4 DEF Single
  <2> QED BY <1>1, <2>1 DEF After
<1>5. CASE Ahead(a, s, c) > n - 1 /\ Ahead(b, s, c) > n - 1
  BY <1>2, <1>3, <1>5 DEF Single
<1>6. CASE Ahead(a, s, c) < n - 1 /\ Ahead(b, s, c) > n - 1
  <2>1. After(a, c) = b
    BY <1>2, <1>3, <1>6 DEF Single
  <2> QED BY <1>2, <1>3, <1>6, <2>1
<1>7. CASE Ahead(a, s, c) > n - 1 /\ Ahead(b, s, c) < n - 1
  <2>1. After(b, c) = a
    BY <1>2, <1>3, <1>7 DEF Single
  <2> QED BY <1>2, <1>3, <1>7, <2>1
<1> QED BY <1>2, <1>3, <1>4, <1>5, <1>6, <1>7

(* The last slot of the shift is left empty, and no slot has the key that   *)
(* was deleted.                                                             *)
LEMMA ShiftLeaves ==
    ASSUME NEW c \in Capacity, NEW h \in [Keys -> 0 .. c - 1], NEW e \in Table(c),
           Single(e, c), NEW s \in 0 .. c - 1, e[s] # Vacant, NEW n \in 1 .. c,
           ShiftsOver(e, c, h, s, n)
    PROVE  /\ \E t \in 0 .. c - 1 : Shifted(e, c, s, n)[t] = Vacant
           /\ \A t \in 0 .. c - 1 : Shifted(e, c, s, n)[t] # Vacant =>
                  Shifted(e, c, s, n)[t].key # e[s].key
<1>1. c \in Nat
  BY DEF Capacity
<1>2. Later(s, n - 1, c) \in 0 .. c - 1 /\ Ahead(Later(s, n - 1, c), s, c) = n - 1
  BY <1>1 DEF Later, Ahead
<1>3. Shifted(e, c, s, n)[Later(s, n - 1, c)] = Vacant
  BY <1>2 DEF Shifted
<1>4. ASSUME NEW t \in 0 .. c - 1, Shifted(e, c, s, n)[t] # Vacant
      PROVE  Shifted(e, c, s, n)[t].key # e[s].key
  <2>1. PICK u \in 0 .. c - 1 : u # s /\ e[u] # Vacant /\ Shifted(e, c, s, n)[t] = e[u]
    BY <1>4, ShiftedFrom
  <2> QED BY <2>1 DEF Single
<1> QED BY <1>2, <1>3, <1>4

(* A set of natural numbers has a least one. *)
LEMMA LeastNumber ==
    ASSUME NEW S, S \subseteq Nat, S # {}
    PROVE  \E x \in S : \A y \in S : x <= y
<1>1. PICK x \in S : \A y \in S : ~(<<y, x>> \in OpToRel(<, Nat))
  BY NatLessThanWellFounded, WFMin
<1>2. \A y \in S : ~(y < x)
  BY <1>1 DEF OpToRel
<1> QED BY <1>2

-----------------------------------------------------------------------------
(* The table of a state. *)

Homes == [k \in Keys |-> Hash(k) % cap]

LEMMA HomesType == TypeOK => Homes \in [Keys -> 0 .. cap - 1]
<1> SUFFICES ASSUME TypeOK, NEW k \in Keys PROVE Hash(k) % cap \in 0 .. cap - 1
  BY DEF Homes
<1>1. Hash(k) \in Nat /\ cap \in Nat \ {0}
  BY HashesAssumption DEF TypeOK, Hash
<1> QED BY <1>1

LEMMA ViewDistances ==
    TypeOK =>
        /\ cap \in Capacity /\ entries \in Table(cap)
        /\ \A s \in Slots, k \in Keys : ProbeCount(s, k) = Ahead(s, Homes[k], cap)
        /\ \A s, t \in Slots : Gap(s, t) = Ahead(s, t, cap)
        /\ \A s \in Slots : Occupied(s) => PC(s) = Away(entries, cap, Homes, s)
<1> SUFFICES ASSUME TypeOK
             PROVE  /\ cap \in Capacity /\ entries \in Table(cap)
                    /\ \A s \in Slots, k \in Keys : ProbeCount(s, k) = Ahead(s, Homes[k], cap)
                    /\ \A s, t \in Slots : Gap(s, t) = Ahead(s, t, cap)
                    /\ \A s \in Slots : Occupied(s) => PC(s) = Away(entries, cap, Homes, s)
  OBVIOUS
<1>1. cap \in Capacity /\ cap \in Nat \ {0} /\ entries \in Table(cap)
  BY DEF TypeOK, Capacity, Table, Slots
<1>2. ASSUME NEW s \in Slots, NEW t \in Slots
      PROVE  (s + cap - t) % cap = Ahead(s, t, cap)
  BY <1>1, ModGap DEF Slots
<1>3. ASSUME NEW s \in Slots, NEW k \in Keys
      PROVE  ProbeCount(s, k) = Ahead(s, Homes[k], cap)
  <2>1. Homes[k] = Hash(k) % cap /\ Homes[k] \in Slots
    BY HomesType DEF Homes, Slots
  <2> QED BY <1>2, <2>1 DEF ProbeCount
<1>4. ASSUME NEW s \in Slots, Occupied(s)
      PROVE  PC(s) = Away(entries, cap, Homes, s)
  <2>1. entries[s].key \in Keys
    BY <1>1, <1>4, EntryKey DEF Slots, Occupied
  <2> QED BY <1>3, <2>1 DEF PC, Away
<1> QED BY <1>1, <1>2, <1>3, <1>4 DEF Gap

LEMMA ViewOrder ==
    TypeOK =>
        /\ Ordered <=> InOrder(entries, cap, Homes)
        /\ KeysOnce <=> Single(entries, cap)
        /\ SomeHome <=> HasHome(entries, cap, Homes)
<1> SUFFICES ASSUME TypeOK
             PROVE  /\ Ordered <=> InOrder(entries, cap, Homes)
                    /\ KeysOnce <=> Single(entries, cap)
                    /\ SomeHome <=> HasHome(entries, cap, Homes)
  OBVIOUS
<1>1. /\ \A s, t \in Slots : Gap(s, t) = Ahead(s, t, cap)
      /\ \A s \in Slots : Occupied(s) => PC(s) = Away(entries, cap, Homes, s)
  BY ViewDistances
<1>2. KeysOnce <=> Single(entries, cap)
  BY DEF KeysOnce, Single, Occupied, Slots
<1>3. SomeHome <=> HasHome(entries, cap, Homes)
  BY <1>1 DEF SomeHome, HasHome, Occupied, Slots
<1>4. ASSUME Ordered PROVE InOrder(entries, cap, Homes)
  <2> SUFFICES ASSUME NEW s \in Slots, NEW t \in Slots, entries[s] # Vacant,
                      Ahead(s, t, cap) <= Away(entries, cap, Homes, s)
               PROVE  /\ entries[t] # Vacant
                      /\ Away(entries, cap, Homes, t) + Ahead(s, t, cap)
                            >= Away(entries, cap, Homes, s)
    BY DEF InOrder, Slots
  <2>1. Occupied(s) /\ Gap(s, t) <= PC(s)
    BY <1>1 DEF Occupied
  <2>2. Occupied(t) /\ PC(t) + Gap(s, t) >= PC(s)
    BY <1>4, <2>1 DEF Ordered
  <2> QED BY <1>1, <2>1, <2>2 DEF Occupied
<1>5. ASSUME InOrder(entries, cap, Homes) PROVE Ordered
  <2> SUFFICES ASSUME NEW s \in Slots, NEW t \in Slots, Occupied(s), Gap(s, t) <= PC(s)
               PROVE  Occupied(t) /\ PC(t) + Gap(s, t) >= PC(s)
    BY DEF Ordered
  <2>1. entries[s] # Vacant /\ Ahead(s, t, cap) <= Away(entries, cap, Homes, s)
    BY <1>1 DEF Occupied
  <2>2. /\ entries[t] # Vacant
        /\ Away(entries, cap, Homes, t) + Ahead(s, t, cap) >= Away(entries, cap, Homes, s)
    BY <1>5, <2>1 DEF InOrder, Slots
  <2>3. Occupied(t)
    BY <2>2 DEF Occupied
  <2> QED BY <1>1, <2>2, <2>3
<1> QED BY <1>2, <1>3, <1>4, <1>5

LEMMA ViewCarry ==
    TypeOK =>
        (CarryOrdered <=>
            (pc = "insert" => /\ probe = Ahead(i, Homes[carry.key], cap)
                              /\ Fits(entries, cap, Homes, i, carry.key)))
<1> SUFFICES ASSUME TypeOK, pc = "insert"
             PROVE  (/\ probe = ProbeCount(i, carry.key)
                     /\ \A t \in Slots \ {i} : Gap(i, t) <= probe =>
                           /\ Occupied(t) /\ PC(t) + Gap(i, t) >= probe
                           /\ entries[t].key # carry.key)
                    <=> (/\ probe = Ahead(i, Homes[carry.key], cap)
                         /\ Fits(entries, cap, Homes, i, carry.key))
  BY DEF CarryOrdered
<1>1. /\ \A s, t \in Slots : Gap(s, t) = Ahead(s, t, cap)
      /\ \A s \in Slots : Occupied(s) => PC(s) = Away(entries, cap, Homes, s)
      /\ ProbeCount(i, carry.key) = Ahead(i, Homes[carry.key], cap)
      /\ i \in Slots
  <2>1. i \in Slots /\ carry.key \in Keys
    BY EntryFields DEF TypeOK
  <2> QED BY <2>1, ViewDistances
<1>2. SUFFICES ASSUME probe = Ahead(i, Homes[carry.key], cap)
               PROVE (\A t \in Slots \ {i} : Gap(i, t) <= probe =>
                           /\ Occupied(t) /\ PC(t) + Gap(i, t) >= probe
                           /\ entries[t].key # carry.key)
                     <=> Fits(entries, cap, Homes, i, carry.key)
  BY <1>1
<1>3. ASSUME NEW t \in Slots \ {i}
      PROVE  (Gap(i, t) <= probe =>
                 /\ Occupied(t) /\ PC(t) + Gap(i, t) >= probe
                 /\ entries[t].key # carry.key)
             <=> (Ahead(i, t, cap) <= Ahead(i, Homes[carry.key], cap) =>
                     /\ entries[t] # Vacant
                     /\ Away(entries, cap, Homes, t) + Ahead(i, t, cap)
                           >= Ahead(i, Homes[carry.key], cap)
                     /\ entries[t].key # carry.key)
  <2>1. Gap(i, t) = Ahead(i, t, cap)
    BY <1>1
  <2>2. CASE Occupied(t)
    BY <1>1, <1>2, <2>1, <2>2 DEF Occupied
  <2>3. CASE ~Occupied(t)
    BY <1>2, <2>1, <2>3 DEF Occupied
  <2> QED BY <2>2, <2>3
<1> QED BY <1>3 DEF Fits, Slots

(* The same after a step. *)
LEMMA HomesTypeNext == (TypeOK => Homes \in [Keys -> 0 .. cap - 1])'
  BY HomesType, PTL
LEMMA ViewDistancesNext ==
    (TypeOK =>
        /\ cap \in Capacity /\ entries \in Table(cap)
        /\ \A s \in Slots, k \in Keys : ProbeCount(s, k) = Ahead(s, Homes[k], cap)
        /\ \A s, t \in Slots : Gap(s, t) = Ahead(s, t, cap)
        /\ \A s \in Slots : Occupied(s) => PC(s) = Away(entries, cap, Homes, s))'
  BY ViewDistances, PTL
LEMMA ViewOrderNext ==
    (TypeOK =>
        /\ Ordered <=> InOrder(entries, cap, Homes)
        /\ KeysOnce <=> Single(entries, cap)
        /\ SomeHome <=> HasHome(entries, cap, Homes))'
  BY ViewOrder, PTL
LEMMA ViewCarryNext ==
    (TypeOK =>
        (CarryOrdered <=>
            (pc = "insert" => /\ probe = Ahead(i, Homes[carry.key], cap)
                              /\ Fits(entries, cap, Homes, i, carry.key))))'
  BY ViewCarry, PTL

-----------------------------------------------------------------------------
(* How much is in a table. *)

Taken(e, c) == {s \in 0 .. c - 1 : e[s] # Vacant}

LEMMA TakenType ==
    ASSUME NEW c \in Nat, NEW e
    PROVE  /\ IsFiniteSet(Taken(e, c))
           /\ Cardinality(Taken(e, c)) \in Nat
           /\ Cardinality(Taken(e, c)) <= c
           /\ Cardinality(Taken(e, c)) < c => \E s \in 0 .. c - 1 : e[s] = Vacant
<1>1. IsFiniteSet(0 .. c - 1) /\ Cardinality(0 .. c - 1) = c
  <2>1. 0 \in Int /\ c - 1 \in Int
    OBVIOUS
  <2>2. /\ IsFiniteSet(0 .. c - 1)
        /\ Cardinality(0 .. c - 1) = IF 0 > c - 1 THEN 0 ELSE c - 1 - 0 + 1
    BY <2>1, FS_Interval
  <2> QED BY <2>2
<1>2. Taken(e, c) \in SUBSET (0 .. c - 1)
  BY DEF Taken
<1>3. IsFiniteSet(Taken(e, c)) /\ Cardinality(Taken(e, c)) <= c
  BY <1>1, <1>2, FS_Subset
<1>4. Cardinality(Taken(e, c)) \in Nat
  BY <1>3, FS_CardinalityType
<1>5. ASSUME Cardinality(Taken(e, c)) < c
      PROVE  \E s \in 0 .. c - 1 : e[s] = Vacant
  <2>1. Taken(e, c) # 0 .. c - 1
    BY <1>1, <1>4, <1>5
  <2> QED BY <2>1 DEF Taken
<1> QED BY <1>3, <1>4, <1>5

LEMMA TakenStore ==
    ASSUME NEW c \in Nat, NEW e \in Table(c), NEW n \in 0 .. c - 1, NEW x \in Entry
    PROVE  /\ Cardinality(Taken([e EXCEPT ![n] = x], c)) <= Cardinality(Taken(e, c)) + 1
           /\ e[n] # Vacant => Taken([e EXCEPT ![n] = x], c) = Taken(e, c)
<1> DEFINE f == [e EXCEPT ![n] = x]
<1>1. x # Vacant
  BY EntryFields
<1>2. Taken(f, c) = Taken(e, c) \cup {n}
  BY <1>1 DEF Taken, Table
<1> HIDE DEF f
<1>3. /\ IsFiniteSet(Taken(e, c)) /\ Cardinality(Taken(e, c)) \in Nat
      /\ Cardinality(Taken(e, c) \cup {n}) =
            IF n \in Taken(e, c) THEN Cardinality(Taken(e, c)) ELSE Cardinality(Taken(e, c)) + 1
  BY TakenType, FS_AddElement
<1>4. e[n] # Vacant => Taken(e, c) \cup {n} = Taken(e, c)
  BY DEF Taken
<1>5. Cardinality(Taken(f, c)) <= Cardinality(Taken(e, c)) + 1
  BY <1>2, <1>3
<1>6. e[n] # Vacant => Taken(f, c) = Taken(e, c)
  BY <1>2, <1>4
<1> QED BY <1>5, <1>6 DEF f

LEMMA TakenVacated ==
    ASSUME NEW c \in Nat
    PROVE  Taken(Vacated(c), c) = {} /\ Cardinality(Taken(Vacated(c), c)) = 0
<1>1. Taken(Vacated(c), c) = {}
  BY DEF Taken, Vacated
<1> QED BY <1>1, FS_EmptySet

(* A deletion takes away one entry.                                         *)
LEMMA TakenShifted ==
    ASSUME NEW c \in Capacity, NEW h \in [Keys -> 0 .. c - 1], NEW e \in Table(c),
           NEW s \in 0 .. c - 1, e[s] # Vacant, NEW n \in 1 .. c,
           ShiftsOver(e, c, h, s, n)
    PROVE  /\ Cardinality(Taken(Shifted(e, c, s, n), c)) = Cardinality(Taken(e, c)) - 1
           /\ Cardinality(Taken(e, c)) >= 1
<1> DEFINE f == Shifted(e, c, s, n)
           z == Later(s, n - 1, c)
<1>1. c \in Nat /\ z \in 0 .. c - 1 /\ Ahead(z, s, c) = n - 1
  BY DEF Capacity, Later, Ahead
<1>2. ASSUME NEW t \in 0 .. c - 1
      PROVE  /\ Ahead(t, s, c) \in 0 .. c - 1 /\ (Ahead(t, s, c) = n - 1 <=> t = z)
             /\ Ahead(t, s, c) = 0 <=> t = s
             /\ Ahead(t, s, c) < n - 1 => /\ After(t, c) \in 0 .. c - 1
                                         /\ Ahead(After(t, c), s, c) = Ahead(t, s, c) + 1
  BY <1>1 DEF Ahead, After, Later
<1> HIDE DEF z
<1>3. ASSUME NEW t \in 0 .. c - 1, Ahead(t, s, c) < n PROVE e[t] # Vacant
  <2>1. Ahead(t, s, c) = 0 \/ Ahead(t, s, c) >= 1
    BY <1>1, <1>2
  <2> QED BY <1>2, <1>3, <2>1 DEF ShiftsOver
<1>4. ASSUME NEW t \in 0 .. c - 1 PROVE f[t] # Vacant <=> e[t] # Vacant /\ t # z
  <2>1. Ahead(t, s, c) \in Int /\ n \in Int
    BY <1>1, <1>2
  <2>2. CASE Ahead(t, s, c) < n - 1
    <3>1. f[t] = e[After(t, c)]
      BY <2>2 DEF Shifted
    <3>2. e[After(t, c)] # Vacant /\ e[t] # Vacant /\ t # z
      BY <1>2, <1>3, <2>1, <2>2
    <3> QED BY <3>1, <3>2
  <2>3. CASE Ahead(t, s, c) = n - 1
    BY <1>2, <2>1, <2>3 DEF Shifted
  <2>4. CASE Ahead(t, s, c) > n - 1
    BY <1>2, <2>1, <2>4 DEF Shifted
  <2> QED BY <2>1, <2>2, <2>3, <2>4
<1> HIDE DEF f
<1>5. Taken(f, c) = Taken(e, c) \ {z}
  BY <1>4 DEF Taken
<1>6. z \in Taken(e, c)
  <2>1. n - 1 < n
    OBVIOUS
  <2> QED BY <1>1, <1>3, <2>1 DEF Taken
<1>7. /\ IsFiniteSet(Taken(e, c)) /\ Cardinality(Taken(e, c)) \in Nat
      /\ IsFiniteSet(Taken(f, c)) /\ Cardinality(Taken(f, c)) \in Nat
  BY <1>1, TakenType
<1>8. Cardinality(Taken(f, c)) = Cardinality(Taken(e, c)) - 1
  BY <1>5, <1>6, <1>7, FS_RemoveElement
<1> QED BY <1>7, <1>8 DEF f

-----------------------------------------------------------------------------
(* INSERT_AT. *)

Sound(e, c, h) == InOrder(e, c, h) /\ Single(e, c) /\ HasHome(e, c, h)

LEMMA StoredIsTaken == Stored = Taken(entries, cap)
  BY DEF Stored, Taken, Occupied, Slots

LEMMA StartFits ==
    ASSUME NEW c \in Capacity, NEW h \in [Keys -> 0 .. c - 1], NEW e, NEW k \in Keys
    PROVE  Ahead(h[k], h[k], c) = 0 /\ Fits(e, c, h, h[k], k)
<1>1. c \in Nat /\ h[k] \in 0 .. c - 1
  BY DEF Capacity
<1>2. Ahead(h[k], h[k], c) = 0
  BY <1>1 DEF Ahead
<1>3. ASSUME NEW t \in (0 .. c - 1) \ {h[k]} PROVE ~(Ahead(h[k], t, c) <= 0)
  BY <1>1, <1>3 DEF Ahead
<1> QED BY <1>2, <1>3 DEF Fits

(* An insertion that starts over is in order. *)
LEMMA StartsInOrder ==
    ASSUME TypeOK', raw' = raw, NEW x \in Entry, StartAt(x, cap')
    PROVE  CarryOrdered'
<1>1. x.key \in Keys /\ carry' = x /\ probe' = 0 /\ i' = Hash(x.key) % cap'
  BY EntryFields DEF StartAt
<1>2. Homes'[x.key] = i'
  BY <1>1 DEF Homes, Hash
<1>3. Homes' \in [Keys -> 0 .. cap' - 1] /\ cap' \in Capacity
  BY HomesTypeNext, ViewDistancesNext
<1>4. Ahead(i', Homes'[x.key], cap') = 0 /\ Fits(entries', cap', Homes', i', x.key)
  BY <1>1, <1>2, <1>3, StartFits
<1> QED BY <1>1, <1>4, ViewCarryNext

LEMMA ReturnsKeeps ==
    ASSUME HInv, pc = "insert", NEW r, Returns(r),
           raw' = raw, cap' = cap, size' = size, canGrow' = canGrow, hasCb' = hasCb,
           entries' \in Table(cap), Sound(entries', cap, Homes),
           Cardinality(Taken(entries', cap)) <= Cardinality(Taken(entries, cap)) + 1
    PROVE  HInv'
<1>1. /\ TypeOK /\ todo \in Seq(Entry) /\ cap \in Capacity /\ cap \in Nat /\ size \in Nat
      /\ Len(todo) \in Nat
      /\ Cardinality(Taken(entries, cap)) + 1 + Len(todo) <= cap
      /\ Cardinality(Taken(entries, cap)) + 1 + Len(todo) <= size
  <2>1. TypeOK /\ todo \in Seq(Entry) /\ cap \in Capacity /\ cap \in Nat /\ size \in Nat
    BY DEF HInv, TypeOK, Capacity
  <2>2. Len(todo) \in Nat
    BY <2>1, LenProperties
  <2>3. Cardinality(Stored) + 1 + Len(todo) <= cap
    BY DEF HInv, Room
  <2>4. Cardinality(Stored) + (1 + Len(todo)) <= size
    BY DEF HInv, SizeCovers
  <2>5. Cardinality(Stored) = Cardinality(Taken(entries, cap))
        /\ Cardinality(Taken(entries, cap)) \in Nat
    BY <2>1, StoredIsTaken, TakenType
  <2> QED BY <2>1, <2>2, <2>3, <2>4, <2>5
<1>2. /\ Cardinality(Taken(entries, cap)) \in Nat /\ Cardinality(Taken(entries', cap)) \in Nat
  BY <1>1, TakenType
<1>3. Homes' = Homes /\ Slots' = Slots /\ Stored' = Taken(entries', cap)
  BY DEF Homes, Hash, Slots, Stored, Taken, Occupied
<1>4. entries' \in [Slots -> Entry \cup {Vacant}]
  BY DEF Table, Slots
<1>5. CASE todo # <<>> /\ StartAt(Head(todo), cap) /\ todo' = Tail(todo)
  <2>1. Head(todo) \in Entry /\ todo' \in Seq(Entry) /\ Len(todo') = Len(todo) - 1
    BY <1>1, <1>5, HeadTailProperties
  <2>2. TypeOK'
    <3>1. i' \in Slots
      <4>1. Head(todo).key \in Keys /\ i' = Hash(Head(todo).key) % cap
        BY <1>5, <2>1, EntryFields DEF StartAt
      <4>2. Homes[Head(todo).key] \in 0 .. cap - 1
        BY <1>1, <4>1, HomesType
      <4> QED BY <4>1, <4>2 DEF Homes, Slots
    <3> QED BY <1>1, <1>3, <1>4, <1>5, <2>1, <3>1 DEF TypeOK, StartAt
  <2>3. CarryOrdered'
    BY <1>5, <2>1, <2>2, StartsInOrder
  <2>4. Ordered' /\ KeysOnce' /\ SomeHome'
    BY <1>3, <2>2, ViewOrderNext DEF Sound
  <2>5. Room' /\ AtRest' /\ SizeCovers'
    BY <1>1, <1>2, <1>3, <1>5, <2>1 DEF Room, AtRest, SizeCovers, StartAt
  <2> QED BY <2>2, <2>3, <2>4, <2>5 DEF HInv
<1>6. CASE todo = <<>> /\ Rest /\ todo' = todo
  <2>1. TypeOK'
    BY <1>1, <1>3, <1>4, <1>6 DEF TypeOK, Rest, Slots
  <2>2. Ordered' /\ KeysOnce' /\ SomeHome'
    BY <1>3, <2>1, ViewOrderNext DEF Sound
  <2>3. CarryOrdered' /\ Room' /\ AtRest' /\ SizeCovers'
    BY <1>1, <1>2, <1>3, <1>6 DEF CarryOrdered, Room, AtRest, SizeCovers, Rest
  <2> QED BY <2>1, <2>2, <2>3 DEF HInv
<1> QED BY <1>5, <1>6 DEF Returns

LEMMA PlaceKeeps == HInv /\ Place => HInv'
<1> SUFFICES ASSUME HInv, Place PROVE HInv'
  OBVIOUS
<1> DEFINE f == entries'
<1>1. /\ TypeOK /\ cap \in Capacity /\ cap \in Nat /\ entries \in Table(cap)
      /\ Homes \in [Keys -> 0 .. cap - 1]
      /\ pc = "insert" /\ carry \in Entry /\ carry.key \in Keys /\ i \in 0 .. cap - 1
      /\ entries[i] = Vacant /\ entries' = [entries EXCEPT ![i] = carry]
  BY ViewDistances, HomesType, EntryFields DEF HInv, TypeOK, Place, Slots, Capacity, Here
<1>2. /\ InOrder(entries, cap, Homes) /\ Single(entries, cap)
      /\ Fits(entries, cap, Homes, i, carry.key)
  BY <1>1, ViewOrder, ViewCarry DEF HInv
<1>3. InOrder(f, cap, Homes)
  BY <1>1, <1>2, StoreKeepsOrder
<1>4. Single(f, cap)
  <2>1. \A s \in 0 .. cap - 1 : entries[s] # Vacant => entries[s].key # carry.key
    BY <1>1, <1>2, FitsIsNew
  <2> QED BY <1>1, <1>2, <2>1, StoreKeepsSingle
(* The slot after a vacant one has no entry away from its home. *)
<1>5. HasHome(f, cap, Homes)
  <2> DEFINE m == After(i, cap)
  <2>1. m \in 0 .. cap - 1 /\ m # i /\ Ahead(m, i, cap) = 1
    BY <1>1 DEF Capacity, After, Ahead
  <2>2. f[m] = entries[m] /\ Away(f, cap, Homes, m) = Away(entries, cap, Homes, m)
    <3>1. f[m] = entries[m]
      BY <1>1, <2>1 DEF Table
    <3> QED BY <3>1 DEF Away
  <2>3. ASSUME entries[m] # Vacant PROVE Away(entries, cap, Homes, m) = 0
    <3>1. Away(entries, cap, Homes, m) \in 0 .. cap - 1
      BY <1>1, <2>1, <2>3, AwayType
    <3>2. ~(1 <= Away(entries, cap, Homes, m))
      BY <1>1, <1>2, <2>1, <2>3 DEF InOrder
    <3> QED BY <1>1, <3>1, <3>2
  <2> QED BY <2>1, <2>2, <2>3 DEF HasHome
<1>6. /\ f \in Table(cap)
      /\ Cardinality(Taken(f, cap)) <= Cardinality(Taken(entries, cap)) + 1
  BY <1>1, StoreIn, TakenStore
<1>7. /\ Returns(TRUE)
      /\ raw' = raw /\ cap' = cap /\ size' = size /\ canGrow' = canGrow /\ hasCb' = hasCb
  BY DEF Place
<1> QED BY <1>1, <1>3, <1>4, <1>5, <1>6, <1>7, ReturnsKeeps DEF Sound

LEMMA SameKeys ==
    ASSUME NEW c \in Capacity, NEW h, NEW e, NEW f,
           \A s \in 0 .. c - 1 : (f[s] = Vacant <=> e[s] = Vacant)
                                 /\ (e[s] # Vacant => f[s].key = e[s].key),
           Sound(e, c, h)
    PROVE  Sound(f, c, h) /\ Taken(f, c) = Taken(e, c)
<1>1. \A s \in 0 .. c - 1 : e[s] # Vacant => Away(f, c, h, s) = Away(e, c, h, s)
  BY DEF Away
<1>2. InOrder(f, c, h)
  <2> SUFFICES ASSUME NEW s \in 0 .. c - 1, NEW t \in 0 .. c - 1,
                      f[s] # Vacant, Ahead(s, t, c) <= Away(f, c, h, s)
               PROVE  f[t] # Vacant /\ Away(f, c, h, t) + Ahead(s, t, c) >= Away(f, c, h, s)
    BY DEF InOrder
  <2>1. e[t] # Vacant /\ Away(e, c, h, t) + Ahead(s, t, c) >= Away(e, c, h, s)
    BY <1>1 DEF Sound, InOrder
  <2> QED BY <1>1, <2>1
<1>3. Single(f, c)
  BY DEF Sound, Single
<1>4. HasHome(f, c, h)
  BY <1>1 DEF Sound, HasHome
<1>5. Taken(f, c) = Taken(e, c)
  BY DEF Taken
<1> QED BY <1>2, <1>3, <1>4, <1>5 DEF Sound

LEMMA DuplicateKeeps == HInv /\ Duplicate => HInv'
<1> SUFFICES ASSUME HInv, Duplicate PROVE HInv'
  OBVIOUS
<1>1. /\ TypeOK /\ cap \in Capacity /\ cap \in Nat /\ entries \in Table(cap) /\ i \in 0 .. cap - 1
      /\ entries[i] # Vacant /\ entries[i] \in Entry
  <2>1. /\ TypeOK /\ cap \in Capacity /\ cap \in Nat /\ entries \in Table(cap)
        /\ i \in 0 .. cap - 1 /\ entries[i] # Vacant
    BY ViewDistances DEF HInv, TypeOK, Duplicate, Slots, Capacity, Here
  <2> QED BY <2>1, EntryKey
<1>2. Sound(entries, cap, Homes)
  BY <1>1, ViewOrder DEF HInv, Sound
<1>3. /\ entries' \in Table(cap)
      /\ \A s \in 0 .. cap - 1 : (entries'[s] = Vacant <=> entries[s] = Vacant)
                                 /\ (entries[s] # Vacant => entries'[s].key = entries[s].key)
  <2>1. CASE entries' = entries
    BY <1>1, <2>1
  <2>2. ASSUME NEW v \in Values, entries' = [entries EXCEPT ![i].value = v]
        PROVE  <1>3!1 /\ <1>3!2
    <3> DEFINE x == [entries[i] EXCEPT !.value = v]
    <3>1. x \in Entry /\ x.key = entries[i].key /\ x # Vacant
      BY <1>1, VacantAssumption DEF Entry
    <3>2. entries' = [entries EXCEPT ![i] = x]
      BY <2>2
    <3> HIDE DEF x
    <3>3. /\ entries' \in Table(cap) /\ entries'[i] = x
          /\ \A t \in (0 .. cap - 1) \ {i} : entries'[t] = entries[t]
      BY <1>1, <3>1, <3>2 DEF Table
    <3> QED BY <1>1, <3>1, <3>3
  <2> QED BY <2>1, <2>2 DEF Duplicate
<1>4. /\ Sound(entries', cap, Homes)
      /\ Taken(entries', cap) = Taken(entries, cap)
  BY <1>1, <1>2, <1>3, SameKeys
<1>5. Cardinality(Taken(entries', cap)) <= Cardinality(Taken(entries, cap)) + 1
  BY <1>1, <1>4, TakenType
<1>6. PICK r : Returns(r)
  BY DEF Duplicate
<1>7. /\ pc = "insert"
      /\ raw' = raw /\ cap' = cap /\ size' = size /\ canGrow' = canGrow /\ hasCb' = hasCb
  BY DEF Duplicate
<1> QED BY <1>3, <1>4, <1>5, <1>6, <1>7, ReturnsKeeps

(* While an entry is in hand a slot is vacant. *)
LEMMA RoomLeavesAVacancy ==
    HInv /\ pc = "insert" => \E v \in 0 .. cap - 1 : entries[v] = Vacant
<1> SUFFICES ASSUME HInv, pc = "insert" PROVE \E v \in 0 .. cap - 1 : entries[v] = Vacant
  OBVIOUS
<1>1. cap \in Nat /\ Len(todo) \in Nat /\ Cardinality(Taken(entries, cap)) + 1 + Len(todo) <= cap
  BY StoredIsTaken, LenProperties DEF HInv, TypeOK, Room
<1>2. Cardinality(Taken(entries, cap)) < cap
  BY <1>1, TakenType
<1> QED BY <1>1, <1>2, TakenType

LEMMA DisplaceKeeps == HInv /\ Displace => HInv'
<1> SUFFICES ASSUME HInv, Displace PROVE HInv'
  OBVIOUS
<1> DEFINE f == entries'
           m == After(i, cap)
<1>1. /\ TypeOK /\ cap \in Capacity /\ cap \in Nat \ {0} /\ entries \in Table(cap)
      /\ Homes \in [Keys -> 0 .. cap - 1] /\ m \in 0 .. cap - 1
      /\ pc = "insert" /\ carry \in Entry /\ carry.key \in Keys /\ i \in 0 .. cap - 1
      /\ entries[i] # Vacant /\ entries[i].key # carry.key
      /\ entries' = [entries EXCEPT ![i] = carry]
      /\ pc' = pc /\ carry' = entries[i] /\ i' = (i + 1) % cap /\ todo' = todo
      /\ raw' = raw /\ cap' = cap /\ size' = size /\ canGrow' = canGrow /\ hasCb' = hasCb
  BY ViewDistances, HomesType, EntryFields, AfterType
     DEF HInv, TypeOK, Displace, Slots, Capacity, Here
<1>2. /\ InOrder(entries, cap, Homes) /\ Single(entries, cap)
      /\ Fits(entries, cap, Homes, i, carry.key)
      /\ probe = Ahead(i, Homes[carry.key], cap)
  BY <1>1, ViewOrder, ViewCarry DEF HInv
<1>3. entries[i] \in Entry /\ entries[i].key \in Keys
  BY <1>1, EntryKey
<1>4. /\ ProbeCount(i, entries[i].key) = Away(entries, cap, Homes, i)
      /\ Away(entries, cap, Homes, i) < Ahead(i, Homes[carry.key], cap)
      /\ probe' = Away(entries, cap, Homes, i) + 1
  <2>1. ProbeCount(i, entries[i].key) = Away(entries, cap, Homes, i)
    BY <1>1, ViewDistances DEF PC, Occupied, Slots
  <2> QED BY <1>2, <2>1 DEF Displace, Here
<1>5. i' = m
  BY <1>1, ModAfter
<1>6. InOrder(f, cap, Homes)
  BY <1>1, <1>2, <1>4, StoreKeepsOrder
<1>7. Single(f, cap)
  <2>1. \A s \in 0 .. cap - 1 : entries[s] # Vacant => entries[s].key # carry.key
    BY <1>1, <1>2, <1>4, FitsIsNew
  <2> QED BY <1>1, <1>2, <2>1, StoreKeepsSingle
<1>8. HasHome(f, cap, Homes)
  <2>1. PICK v \in 0 .. cap - 1 : entries[v] = Vacant
    BY <1>1, RoomLeavesAVacancy
  <2>2. f[v] = Vacant
    BY <1>1, <2>1 DEF Table
  <2> QED BY <2>2 DEF HasHome
<1>9. /\ f \in Table(cap) /\ Taken(f, cap) = Taken(entries, cap)
  <2>1. [entries EXCEPT ![i] = carry] \in Table(cap)
    BY <1>1 DEF Table
  <2>2. Taken([entries EXCEPT ![i] = carry], cap) = Taken(entries, cap)
    BY <1>1, TakenStore
  <2> QED BY <1>1, <2>1, <2>2
<1>10. /\ Fits(f, cap, Homes, m, entries[i].key)
       /\ Ahead(m, Homes[entries[i].key], cap) = Away(entries, cap, Homes, i) + 1
  BY <1>1, <1>2, <1>4, DisplacedFits
<1>11. Homes' = Homes /\ Slots' = Slots /\ Stored' = Stored
  <2>1. Stored' = Taken(f, cap)
    BY <1>1 DEF Stored, Taken, Occupied, Slots
  <2> QED BY <1>1, <1>9, <2>1, StoredIsTaken DEF Homes, Hash, Slots
<1>12. TypeOK'
  <2>1. entries' \in [Slots -> Entry \cup {Vacant}]
    BY <1>9 DEF Table, Slots
  <2>2. i' \in Slots
    BY <1>1, <1>5 DEF Slots
  <2>3. probe' \in Nat
    BY <1>1, <1>4, AwayType
  <2> QED BY <1>1, <1>3, <1>11, <2>1, <2>2, <2>3 DEF TypeOK
<1>13. Ordered' /\ KeysOnce' /\ SomeHome'
  BY <1>1, <1>6, <1>7, <1>8, <1>11, <1>12, ViewOrderNext
<1>14. CarryOrdered'
  BY <1>1, <1>4, <1>5, <1>10, <1>11, <1>12, ViewCarryNext
<1>15. Room' /\ AtRest' /\ SizeCovers'
  BY <1>1, <1>11 DEF HInv, Room, AtRest, SizeCovers
<1> QED BY <1>12, <1>13, <1>14, <1>15 DEF HInv

LEMMA PassOverKeeps == HInv /\ PassOver => HInv'
<1> SUFFICES ASSUME HInv, PassOver PROVE HInv'
  OBVIOUS
<1> DEFINE m == After(i, cap)
<1>1. /\ TypeOK /\ cap \in Capacity /\ cap \in Nat \ {0} /\ entries \in Table(cap)
      /\ Homes \in [Keys -> 0 .. cap - 1] /\ m \in 0 .. cap - 1
      /\ pc = "insert" /\ carry \in Entry /\ carry.key \in Keys /\ i \in 0 .. cap - 1
      /\ entries[i] # Vacant /\ entries[i].key # carry.key
      /\ i' = (i + 1) % cap /\ probe' = probe + 1
      /\ UNCHANGED <<raw, cap, size, canGrow, entries, hasCb, pc, todo, carry>>
  BY ViewDistances, HomesType, EntryFields, AfterType
     DEF HInv, TypeOK, PassOver, table, Slots, Capacity, Here
<1>2. /\ Fits(entries, cap, Homes, i, carry.key)
      /\ probe = Ahead(i, Homes[carry.key], cap)
  BY <1>1, ViewCarry DEF HInv
<1>3. Away(entries, cap, Homes, i) >= Ahead(i, Homes[carry.key], cap)
  <2>1. ProbeCount(i, entries[i].key) = Away(entries, cap, Homes, i)
    BY <1>1, ViewDistances DEF PC, Occupied, Slots
  <2> QED BY <1>2, <2>1 DEF PassOver, Here
<1>4. i' = m
  BY <1>1, ModAfter
<1>5. /\ Fits(entries, cap, Homes, m, carry.key)
      /\ Ahead(m, Homes[carry.key], cap) = probe + 1
  <2>1. \E v \in 0 .. cap - 1 : entries[v] = Vacant
    BY <1>1, RoomLeavesAVacancy
  <2> QED BY <1>1, <1>2, <1>3, <2>1, FitsOneOn
<1>6. Homes' = Homes /\ Slots' = Slots /\ Stored' = Stored
  BY <1>1 DEF Homes, Hash, Slots, Stored, Occupied
<1>7. TypeOK'
  BY <1>1, <1>4, <1>6 DEF TypeOK, Slots
<1>8. Ordered' /\ KeysOnce' /\ SomeHome'
  BY <1>1, <1>6, <1>7, ViewOrder, ViewOrderNext DEF HInv
<1>9. CarryOrdered'
  BY <1>1, <1>4, <1>5, <1>6, <1>7, ViewCarryNext
<1>10. Room' /\ AtRest' /\ SizeCovers'
  BY <1>1, <1>6 DEF HInv, Room, AtRest, SizeCovers
<1> QED BY <1>7, <1>8, <1>9, <1>10 DEF HInv

-----------------------------------------------------------------------------
(* INSERT and RESIZE. *)

(* Listed has every entry of the table, once. *)
LEMMA ListedIsStored ==
    TypeOK =>
        /\ Listed \in Seq(Entry) /\ Len(Listed) = Cardinality(Stored)
        /\ \E nth \in Bijection(1 .. Cardinality(Stored), Stored) :
              \A n \in 1 .. Cardinality(Stored) : Listed[n] = entries[nth[n]]
<1> SUFFICES ASSUME TypeOK
             PROVE  /\ Listed \in Seq(Entry) /\ Len(Listed) = Cardinality(Stored)
                    /\ \E nth \in Bijection(1 .. Cardinality(Stored), Stored) :
                          \A n \in 1 .. Cardinality(Stored) : Listed[n] = entries[nth[n]]
  OBVIOUS
<1> DEFINE N == Cardinality(Stored)
           Under(s) == {t \in Stored : t < s}
           rank == [s \in Stored |-> Cardinality(Under(s))]
           Nth(n) == CHOOSE s \in Stored : Cardinality(Under(s)) = n - 1
           nth == [n \in 1 .. N |-> Nth(n)]
<1>1. /\ IsFiniteSet(Stored) /\ N \in Nat /\ Stored \subseteq 0 .. cap - 1
      /\ cap \in Nat
  BY StoredIsTaken, TakenType DEF TypeOK, Taken
<1>2. Listed = [n \in 1 .. N |-> entries[Nth(n)]]
  BY DEF Listed, Stored, Occupied
<1>3. ASSUME NEW s \in Stored
      PROVE  /\ IsFiniteSet(Under(s)) /\ Cardinality(Under(s)) \in 0 .. N - 1
  <2>1. IsFiniteSet(Stored \ {s}) /\ Cardinality(Stored \ {s}) = N - 1
    BY <1>1, FS_RemoveElement
  <2>2. Under(s) \in SUBSET (Stored \ {s})
    BY <1>1
  <2>3. IsFiniteSet(Under(s)) /\ Cardinality(Under(s)) <= N - 1
    BY <2>1, <2>2, FS_Subset
  <2> HIDE DEF Under
  <2> QED BY <1>1, <2>3, FS_CardinalityType
<1>4. ASSUME NEW s \in Stored, NEW t \in Stored, s < t
      PROVE  Cardinality(Under(s)) # Cardinality(Under(t))
  <2>1. Under(s) \in SUBSET Under(t) /\ s \in Under(t) /\ s \notin Under(s)
    <3>1. \A u \in Stored : u \in Int
      BY <1>1
    <3>2. \A u \in Stored : u < s => u < t
      BY <1>4, <3>1
    <3>3. ~(s < s)
      BY <3>1
    <3> QED BY <1>4, <3>2, <3>3
  <2> HIDE DEF Under
  <2> QED BY <1>3, <2>1, FS_Subset
<1>5. ASSUME NEW s \in Stored, NEW t \in Stored, Cardinality(Under(s)) = Cardinality(Under(t))
      PROVE  s = t
  BY <1>1, <1>4, <1>5
<1> HIDE DEF N, Under
<1>6. rank \in Injection(Stored, 0 .. N - 1)
  <2>1. rank \in [Stored -> 0 .. N - 1]
    BY <1>3
  <2>2. \A s, t \in Stored : rank[s] = rank[t] => s = t
    BY <1>5
  <2> HIDE DEF rank
  <2> QED BY <2>1, <2>2, Fun_IsInj
<1>7. rank \in Surjection(Stored, 0 .. N - 1)
  <2>1. IsFiniteSet(0 .. N - 1) /\ Cardinality(0 .. N - 1) = N
    <3>1. 0 \in Int /\ N - 1 \in Int
      BY <1>1
    <3>2. /\ IsFiniteSet(0 .. N - 1)
          /\ Cardinality(0 .. N - 1) = IF 0 > N - 1 THEN 0 ELSE N - 1 - 0 + 1
      BY <3>1, FS_Interval
    <3> QED BY <1>1, <3>2
  <2> HIDE DEF rank
  <2>2. Cardinality(Stored) = Cardinality(0 .. N - 1)
    BY <2>1 DEF N
  <2> QED BY <1>6, <2>1, <2>2, FS_Injection
<1>8. ASSUME NEW n \in 1 .. N
      PROVE  Nth(n) \in Stored /\ Cardinality(Under(Nth(n))) = n - 1
  <2>1. n - 1 \in 0 .. N - 1
    BY <1>1
  <2>2. \E s \in Stored : rank[s] = n - 1
    <3> HIDE DEF rank
    <3> QED BY <1>7, <2>1 DEF Surjection
  <2>3. \E s \in Stored : Cardinality(Under(s)) = n - 1
    BY <2>2
  <2> QED BY <2>3
<1> HIDE DEF Nth
<1>9. nth \in Bijection(1 .. N, Stored)
  <2>1. nth \in [1 .. N -> Stored]
    BY <1>8
  <2>2. \A m, n \in 1 .. N : nth[m] = nth[n] => m = n
    <3> SUFFICES ASSUME NEW m \in 1 .. N, NEW n \in 1 .. N, Nth(m) = Nth(n) PROVE m = n
      OBVIOUS
    <3>1. m - 1 = n - 1
      BY <1>8
    <3> QED BY <1>1, <3>1
  <2>3. \A s \in Stored : \E n \in 1 .. N : nth[n] = s
    <3> SUFFICES ASSUME NEW s \in Stored PROVE \E n \in 1 .. N : Nth(n) = s
      OBVIOUS
    <3> DEFINE n == Cardinality(Under(s)) + 1
    <3>1. n \in 1 .. N /\ n - 1 = Cardinality(Under(s))
      BY <1>1, <1>3
    <3> HIDE DEF n
    <3>2. Nth(n) \in Stored /\ Cardinality(Under(Nth(n))) = Cardinality(Under(s))
      BY <1>8, <3>1
    <3> QED BY <1>5, <3>1, <3>2
  <2> HIDE DEF nth
  <2> QED BY <2>1, <2>2, <2>3, Fun_IsBij
<1>10. Listed \in Seq(Entry) /\ Len(Listed) = N
  <2>1. \A n \in 1 .. N : entries[Nth(n)] \in Entry
    BY <1>8 DEF Stored, Occupied, TypeOK
  <2>2. Listed \in [1 .. N -> Entry]
    BY <1>2, <2>1
  <2> QED BY <1>1, <1>2, <2>2, SeqDef, LenProperties
<1>11. \A n \in 1 .. N : Listed[n] = entries[nth[n]]
  BY <1>2
<1> QED BY <1>9, <1>10, <1>11 DEF N

(* An empty table is in order. *)
LEMMA VacatedIsSound ==
    ASSUME NEW c \in Capacity, NEW h
    PROVE  Vacated(c) \in Table(c) /\ Sound(Vacated(c), c, h)
  BY DEF Vacated, Table, Sound, InOrder, Single, HasHome, Capacity

LEMMA NotLoaded ==
    ASSUME NEW c \in Nat, NEW n \in Nat, n * 100 < c * LoadFactor
    PROVE  n < c
<1>1. LoadFactor \in Nat /\ 100 - LoadFactor \in Nat
  BY LoadAssumption
<1>2. c * 100 = c * LoadFactor + c * (100 - LoadFactor)
  BY <1>1
<1>3. c * (100 - LoadFactor) >= 0
  BY <1>1
<1>4. c * LoadFactor \in Int /\ c * (100 - LoadFactor) \in Int
  BY <1>1
<1>5. n * 100 < c * 100
  BY <1>2, <1>3, <1>4
<1> QED BY <1>5

LEMMA InsertKeeps ==
    ASSUME HInv, NEW k \in Keys, NEW v \in Values, Insert(k, v)
    PROVE  HInv'
<1> DEFINE x == [key |-> k, value |-> v]
<1>1. /\ TypeOK /\ cap \in Capacity /\ cap \in Nat /\ size \in Nat
      /\ x \in Entry /\ pc = "idle" /\ todo = <<>>
      /\ raw' = raw /\ size' = size + 1 /\ canGrow' = canGrow /\ hasCb' = hasCb
  BY DEF HInv, TypeOK, Insert, Entry, Capacity, AtRest
<1>2. /\ IsFiniteSet(Stored) /\ Cardinality(Stored) \in Nat
      /\ Cardinality(Stored) <= cap /\ Cardinality(Stored) <= size
  <2>1. /\ IsFiniteSet(Stored) /\ Cardinality(Stored) \in Nat /\ Cardinality(Stored) <= cap
    BY <1>1, StoredIsTaken, TakenType
  <2> QED BY <1>1, <2>1 DEF HInv, SizeCovers
<1> HIDE DEF x
<1>3. CASE GrowThenInsert(x)
  <2> DEFINE all == Append(Listed, x)
             y == Head(all)
             rest == Tail(all)
  <2>1. Listed \in Seq(Entry) /\ Len(Listed) = Cardinality(Stored)
    BY <1>1, ListedIsStored
  <2>2. all \in Seq(Entry) /\ Len(all) = Cardinality(Stored) + 1
    BY <1>1, <2>1, AppendProperties
  <2>3. y \in Entry /\ rest \in Seq(Entry) /\ Len(rest) = Cardinality(Stored)
    <3> HIDE DEF all
    <3>1. all # <<>>
      BY <1>2, <2>2, LenProperties
    <3> QED BY <1>2, <2>2, <3>1, HeadTailProperties
  <2>4. /\ cap' = 2 * cap /\ entries' = Vacated(2 * cap)
        /\ StartAt(y, 2 * cap) /\ todo' = rest
    BY <1>3 DEF GrowThenInsert
  <2> HIDE DEF all, y, rest
  <2>5. 2 * cap \in Capacity /\ 2 * cap \in Nat \ {0} /\ cap' = 2 * cap
    BY <1>1, <2>4 DEF Capacity
  <2>6. /\ entries' \in Table(cap') /\ Sound(entries', cap', Homes')
        /\ Taken(entries', cap') = {} /\ Cardinality(Taken(entries', cap')) = 0
    BY <2>4, <2>5, VacatedIsSound, TakenVacated
  <2>7. Stored' = Taken(entries', cap')
    BY DEF Stored, Taken, Occupied, Slots
  <2>8. TypeOK'
    <3>1. entries' \in [Slots' -> Entry \cup {Vacant}]
      BY <2>6 DEF Table, Slots
    <3>2. i' \in Slots'
      <4>1. y.key \in Keys /\ i' = Hash(y.key) % cap'
        BY <2>3, <2>4, <2>5, EntryFields DEF StartAt
      <4>2. Hash(y.key) \in Nat
        BY <1>1, <4>1, HashesAssumption DEF Hash, TypeOK
      <4> QED BY <2>5, <4>1, <4>2 DEF Slots
    <3> QED BY <1>1, <2>3, <2>4, <2>5, <3>1, <3>2 DEF TypeOK, StartAt, Capacity
  <2>9. CarryOrdered'
    BY <1>1, <2>3, <2>4, <2>5, <2>8, StartsInOrder
  <2>10. Ordered' /\ KeysOnce' /\ SomeHome'
    BY <2>6, <2>8, ViewOrderNext DEF Sound
  <2>11. Room' /\ AtRest' /\ SizeCovers'
    <3>1. pc' = "insert"
      BY <2>4 DEF StartAt
    <3>2. Cardinality(Stored)' = 0 /\ Len(todo)' = Cardinality(Stored)
      BY <2>3, <2>4, <2>6, <2>7
    <3> QED BY <1>1, <1>2, <2>5, <3>1, <3>2 DEF Room, AtRest, SizeCovers
  <2> QED BY <2>8, <2>9, <2>10, <2>11 DEF HInv
<1>4. CASE /\ ~Loaded \/ (~canGrow /\ size < cap)
           /\ StartAt(x, cap)
           /\ UNCHANGED <<cap, entries, todo>>
  <2>1. size < cap
    <3>1. CASE ~Loaded
      <4>1. size * 100 < cap * LoadFactor
        <5>1. size * 100 \in Int /\ cap * LoadFactor \in Int
          BY <1>1, LoadAssumption
        <5> QED BY <3>1, <5>1 DEF Loaded
      <4> QED BY <1>1, <4>1, NotLoaded
    <3> QED BY <1>4, <3>1
  <2>2. /\ cap' = cap /\ entries' = entries /\ todo' = <<>> /\ pc' = "insert"
        /\ carry' = x /\ probe' = 0 /\ i' = Hash(x.key) % cap
    BY <1>1, <1>4 DEF StartAt
  <2>3. Homes' = Homes /\ Slots' = Slots /\ Stored' = Stored
    BY <1>1, <2>2 DEF Homes, Hash, Slots, Stored, Occupied
  <2>4. TypeOK'
    <3>1. i' \in Slots
      <4>1. x.key \in Keys
        BY <1>1, EntryFields
      <4>2. Homes[x.key] \in 0 .. cap - 1
        BY <1>1, <4>1, HomesType
      <4> QED BY <2>2, <4>1, <4>2 DEF Homes, Slots
    <3> QED BY <1>1, <2>2, <2>3, <3>1 DEF TypeOK
  <2>5. CarryOrdered'
    BY <1>1, <1>4, <2>2, <2>4, StartsInOrder
  <2>6. Ordered' /\ KeysOnce' /\ SomeHome'
    BY <1>1, <2>2, <2>3, <2>4, ViewOrder, ViewOrderNext DEF HInv
  <2>7. Room' /\ AtRest' /\ SizeCovers'
    <3>1. Len(todo)' = 0
      BY <2>2
    <3> QED BY <1>1, <1>2, <2>1, <2>2, <2>3, <3>1 DEF Room, AtRest, SizeCovers
  <2> QED BY <2>4, <2>5, <2>6, <2>7 DEF HInv
<1> QED BY <1>3, <1>4 DEF Insert, x

LEMMA ResizeKeeps ==
    ASSUME HInv, NEW n \in InitCap .. MaxCap, Resize(n)
    PROVE  HInv'
<1>1. /\ TypeOK /\ cap \in Capacity /\ n \in Int /\ n > cap /\ size \in Nat
      /\ pc = "idle" /\ todo = <<>> /\ i = 0
      /\ cap' = n /\ entries' = Vacated(n)
      /\ UNCHANGED <<raw, size, canGrow, hasCb, pc, todo, carry, i, probe>>
  BY CapAssumption, MaxCapAssumption
     DEF HInv, TypeOK, Resize, Capacity, AtRest, loop
<1>2. n \in Capacity /\ cap' \in Nat
  BY <1>1 DEF Capacity
<1>3. /\ entries' \in Table(cap') /\ Sound(entries', cap', Homes')
      /\ Cardinality(Taken(entries', cap')) = 0
  BY <1>1, <1>2, VacatedIsSound, TakenVacated
<1>4. Stored' = Taken(entries', cap')
  BY DEF Stored, Taken, Occupied, Slots
<1>5. TypeOK'
  BY <1>1, <1>2, <1>3 DEF TypeOK, Table, Slots, Capacity
<1>6. Ordered' /\ KeysOnce' /\ SomeHome'
  BY <1>3, <1>5, ViewOrderNext DEF Sound
<1>7. CarryOrdered' /\ Room' /\ AtRest' /\ SizeCovers'
  BY <1>1, <1>3, <1>4 DEF CarryOrdered, Room, AtRest, SizeCovers
<1> QED BY <1>5, <1>6, <1>7 DEF HInv

-----------------------------------------------------------------------------
(* FIND_INDEX. *)

LEMMA SlotOfLater ==
    TypeOK => \A k \in Keys, p \in 0 .. cap :
        SlotOf(k, p) = Later(Homes[k], p, cap) /\ SlotOf(k, p) \in Slots
<1> SUFFICES ASSUME TypeOK, NEW k \in Keys, NEW p \in 0 .. cap
             PROVE  SlotOf(k, p) = Later(Homes[k], p, cap) /\ SlotOf(k, p) \in Slots
  OBVIOUS
<1>1. cap \in Nat \ {0} /\ Homes[k] \in 0 .. cap - 1 /\ Homes[k] = Hash(k) % cap
  BY HomesType DEF TypeOK, Homes
<1>2. SlotOf(k, p) = Later(Homes[k], p, cap)
  BY <1>1, ModLater DEF SlotOf
<1> QED BY <1>1, <1>2 DEF Later, Slots

(* The search ends: a round of probes is hopeless. *)
LEMMA SearchEnds ==
    TypeOK => \A k \in Keys :
        /\ LastProbe(k) \in 0 .. cap /\ Stops(k, LastProbe(k))
        /\ \A q \in 0 .. LastProbe(k) - 1 : ~Stops(k, q)
<1> SUFFICES ASSUME TypeOK, NEW k \in Keys
             PROVE  /\ LastProbe(k) \in 0 .. cap /\ Stops(k, LastProbe(k))
                    /\ \A q \in 0 .. LastProbe(k) - 1 : ~Stops(k, q)
  OBVIOUS
<1>1. cap \in Nat \ {0}
  BY DEF TypeOK
<1>2. Stops(k, cap)
  <2> DEFINE s == SlotOf(k, cap)
  <2>1. s \in Slots
    BY <1>1, SlotOfLater
  <2>2. CASE entries[s] = Vacant
    BY <2>2 DEF Stops, Hopeless
  <2>3. CASE entries[s] # Vacant
    <3>1. PC(s) \in 0 .. cap - 1
      BY <1>1, <2>1, <2>3, ViewDistances, AwayType, HomesType DEF Occupied, Slots
    <3> QED BY <1>1, <3>1 DEF Stops, Hopeless, PC
  <2> QED BY <2>2, <2>3
<1> DEFINE S == {p \in 0 .. cap : Stops(k, p)}
<1>3. S \subseteq Nat /\ S # {}
  BY <1>1, <1>2
<1>4. PICK p \in S : \A q \in S : p <= q
  BY <1>3, LeastNumber
<1>5. p \in 0 .. cap /\ Stops(k, p) /\ \A q \in 0 .. p - 1 : ~Stops(k, q)
  <2>1. \A q \in 0 .. p - 1 : q \in 0 .. cap /\ ~(p <= q)
    BY <1>1, <1>4
  <2> QED BY <1>4, <2>1
<1> QED BY <1>5 DEF LastProbe

(* What is found is stored ... *)
LEMMA FoundIsHere ==
    TypeOK => \A k \in Keys : Found(k) =>
        /\ FindIndex(k) \in Slots /\ Occupied(FindIndex(k))
        /\ entries[FindIndex(k)].key = k
<1> SUFFICES ASSUME TypeOK, NEW k \in Keys, Found(k)
             PROVE  /\ FindIndex(k) \in Slots /\ Occupied(FindIndex(k))
                    /\ entries[FindIndex(k)].key = k
  OBVIOUS
<1>1. LastProbe(k) \in 0 .. cap /\ Stops(k, LastProbe(k)) /\ ~Hopeless(k, LastProbe(k))
  BY SearchEnds DEF Found
<1>2. SlotOf(k, LastProbe(k)) \in Slots
  BY <1>1, SlotOfLater
<1> QED BY <1>1, <1>2 DEF FindIndex, Stops, Hopeless, Occupied

(* ... and what is stored is found: on the way to it no entry is so near to *)
(* its home that the search gives up.                                       *)
LEMMA HereIsFound ==
    TypeOK /\ Ordered /\ KeysOnce => \A s \in Slots : Occupied(s) =>
        Found(entries[s].key) /\ FindIndex(entries[s].key) = s
<1> SUFFICES ASSUME TypeOK, Ordered, KeysOnce, NEW s \in Slots, Occupied(s)
             PROVE  Found(entries[s].key) /\ FindIndex(entries[s].key) = s
  OBVIOUS
<1> DEFINE k == entries[s].key
           p == Ahead(s, Homes[k], cap)
<1>1. /\ cap \in Nat \ {0} /\ k \in Keys /\ s \in 0 .. cap - 1 /\ Homes[k] \in 0 .. cap - 1
      /\ p \in 0 .. cap - 1 /\ PC(s) = p
      /\ ProbeCount(s, k) = p
  <2>1. cap \in Nat /\ cap \in Nat \ {0} /\ entries \in Table(cap) /\ s \in 0 .. cap - 1
    BY ViewDistances DEF TypeOK, Slots
  <2>2. k \in Keys
    BY <2>1, EntryKey DEF Occupied
  <2>3. Homes[k] \in 0 .. cap - 1
    BY <2>2, HomesType
  <2>4. p \in 0 .. cap - 1
    BY <2>1, <2>3, AheadType
  <2>5. PC(s) = p
    BY ViewDistances DEF Away
  <2> QED BY <2>1, <2>2, <2>3, <2>4, <2>5, ViewDistances
<1> HIDE DEF p, k
<1>2. SlotOf(k, p) = s
  <2>1. Later(Homes[k], p, cap) = s
    BY <1>1 DEF Later, Ahead, p
  <2> QED BY <1>1, <2>1, SlotOfLater
<1>3. Stops(k, p) /\ ~Hopeless(k, p)
  <2>1. entries[s] # Vacant /\ entries[s].key = k
    BY DEF Occupied, k
  <2> QED BY <1>1, <1>2, <2>1 DEF Stops, Hopeless
<1>4. ASSUME NEW q \in 0 .. p - 1 PROVE ~Stops(k, q)
  <2> DEFINE t == SlotOf(k, q)
  <2>1. t \in Slots /\ Ahead(s, t, cap) = p - q /\ t # s
    <3>1. q \in 0 .. cap
      BY <1>1
    <3>2. t = Later(Homes[k], q, cap) /\ t \in Slots
      BY <1>1, <3>1, SlotOfLater
    <3> HIDE DEF t
    <3> QED BY <1>1, <3>2 DEF Later, Ahead, Slots, p
  <2> HIDE DEF t
  <2>2. Gap(s, t) = p - q
    BY <2>1, ViewDistances
  <2>3. Occupied(t) /\ PC(t) + (p - q) >= p
    BY <1>1, <2>1, <2>2 DEF Ordered
  <2>4. PC(t) \in Int
    BY <1>1, <2>1, <2>3, ViewDistances, HomesType, AwayType DEF Occupied, Slots
  <2>5. ~(PC(t) < q)
    BY <1>1, <2>3, <2>4
  <2>6. entries[t].key # k
    BY <2>1, <2>3 DEF KeysOnce, k
  <2> QED BY <2>3, <2>5, <2>6 DEF Stops, Hopeless, PC, Occupied, t
<1>5. LastProbe(k) = p
  <2>1. /\ LastProbe(k) \in 0 .. cap /\ Stops(k, LastProbe(k))
        /\ \A q \in 0 .. LastProbe(k) - 1 : ~Stops(k, q)
    BY <1>1, SearchEnds
  <2>2. ~(LastProbe(k) < p)
    BY <1>1, <1>4, <2>1
  <2>3. ~(p < LastProbe(k))
    BY <1>1, <1>3, <2>1
  <2> QED BY <1>1, <2>1, <2>2, <2>3
<1> QED BY <1>2, <1>3, <1>5 DEF Found, FindIndex, k

-----------------------------------------------------------------------------
(* DELETE_INDEX. *)

LEMMA ShiftStopsView ==
    TypeOK => \A s \in Slots, n \in 1 .. cap :
        ShiftStops(s, n) <=>
            IF n < cap
            THEN \/ entries[Later(s, n, cap)] = Vacant
                 \/ Away(entries, cap, Homes, Later(s, n, cap)) = 0
            ELSE \/ entries[After(s, cap)] = Vacant
                 \/ Ahead(s, Homes[entries[After(s, cap)].key], cap) = 0
<1> SUFFICES ASSUME TypeOK, NEW s \in Slots, NEW n \in 1 .. cap
             PROVE  ShiftStops(s, n) <=>
                        IF n < cap
                        THEN \/ entries[Later(s, n, cap)] = Vacant
                             \/ Away(entries, cap, Homes, Later(s, n, cap)) = 0
                        ELSE \/ entries[After(s, cap)] = Vacant
                             \/ Ahead(s, Homes[entries[After(s, cap)].key], cap) = 0
  OBVIOUS
<1>1. /\ cap \in Nat \ {0} /\ cap \in Nat /\ entries \in Table(cap) /\ s \in 0 .. cap - 1
      /\ (s + n) % cap = Later(s, n, cap) /\ (s + 1) % cap = After(s, cap)
      /\ After(s, cap) \in 0 .. cap - 1
  <2>1. /\ cap \in Nat \ {0} /\ cap \in Nat /\ entries \in Table(cap) /\ s \in 0 .. cap - 1
    BY ViewDistances DEF TypeOK, Slots
  <2>2. n \in 0 .. cap
    BY <2>1
  <2> QED BY <2>1, <2>2, ModLater, ModAfter, AfterType
<1>2. CASE n < cap
  <2> DEFINE t == Later(s, n, cap)
  <2>1. t \in 0 .. cap - 1 /\ n # cap
    BY <1>1, <1>2 DEF Later
  <2>2. ShiftStops(s, n) <=> entries[t] = Vacant \/ ProbeCount(t, entries[t].key) = 0
    BY <1>1, <2>1 DEF ShiftStops
  <2> HIDE DEF t
  <2>3. entries[t] # Vacant =>
            ProbeCount(t, entries[t].key) = Away(entries, cap, Homes, t)
    BY <2>1, ViewDistances DEF Occupied, PC, Slots
  <2> QED BY <1>2, <2>2, <2>3 DEF t
<1>3. CASE n = cap
  <2> DEFINE u == After(s, cap)
  <2>1. Later(s, n, cap) = s
    BY <1>1, <1>3 DEF Later
  <2>2. ShiftStops(s, n) <=> entries[u] = Vacant \/ ProbeCount(s, entries[u].key) = 0
    BY <1>1, <1>3, <2>1 DEF ShiftStops
  <2>3. entries[u] # Vacant => entries[u].key \in Keys
    BY <1>1, EntryKey
  <2> HIDE DEF u
  <2>4. entries[u] # Vacant =>
            ProbeCount(s, entries[u].key) = Ahead(s, Homes[entries[u].key], cap)
    BY <2>3, ViewDistances
  <2> QED BY <1>1, <1>3, <2>2, <2>4 DEF u
<1> QED BY <1>1, <1>2, <1>3

(* An entry that follows one at home is one step away from its own home at  *)
(* most, so that the shift stops within a round.                            *)
LEMMA ShiftEnds ==
    TypeOK /\ Ordered /\ SomeHome =>
        \A s \in Slots : Occupied(s) => \E n \in 1 .. cap : ShiftStops(s, n)
<1> SUFFICES ASSUME TypeOK, Ordered, SomeHome, NEW s \in Slots, Occupied(s),
                    \A n \in 1 .. cap : ~ShiftStops(s, n)
             PROVE  FALSE
  OBVIOUS
<1> DEFINE u == After(s, cap)
<1>1. /\ cap \in Nat /\ cap >= 2 /\ cap \in Capacity /\ entries \in Table(cap)
      /\ s \in 0 .. cap - 1 /\ entries[s] # Vacant
      /\ Homes \in [Keys -> 0 .. cap - 1]
      /\ u \in 0 .. cap - 1 /\ u # s /\ Ahead(u, s, cap) = 1
      /\ InOrder(entries, cap, Homes) /\ HasHome(entries, cap, Homes)
  <2>1. /\ cap \in Nat /\ cap >= 2 /\ cap \in Capacity /\ entries \in Table(cap)
        /\ s \in 0 .. cap - 1 /\ entries[s] # Vacant
        /\ Homes \in [Keys -> 0 .. cap - 1]
    BY ViewDistances, HomesType DEF TypeOK, Slots, Occupied
  <2>2. u \in 0 .. cap - 1 /\ u # s /\ Ahead(u, s, cap) = 1
    BY <2>1 DEF After, Ahead
  <2> QED BY <2>1, <2>2, ViewOrder
<1>2. ASSUME NEW t \in 0 .. cap - 1, t # s
      PROVE  entries[t] # Vacant /\ Away(entries, cap, Homes, t) # 0
  <2> DEFINE n == Ahead(t, s, cap)
  <2>1. n \in 1 .. cap /\ n < cap /\ Later(s, n, cap) = t
    BY <1>1, <1>2 DEF Ahead, Later
  <2> HIDE DEF n
  <2> QED BY <2>1, ShiftStopsView
<1>3. Away(entries, cap, Homes, s) = 0
  BY <1>1, <1>2 DEF HasHome
<1>4. Away(entries, cap, Homes, u) \in 1 .. cap - 1
  <2>1. entries[u] # Vacant /\ Away(entries, cap, Homes, u) # 0
    BY <1>1, <1>2
  <2>2. Away(entries, cap, Homes, u) \in 0 .. cap - 1
    BY <1>1, <2>1, AwayType
  <2> QED BY <1>1, <2>1, <2>2
<1>5. Away(entries, cap, Homes, s) + 1 >= Away(entries, cap, Homes, u)
  <2>1. entries[u] # Vacant /\ Ahead(u, s, cap) <= Away(entries, cap, Homes, u)
    BY <1>1, <1>2, <1>4
  <2> QED BY <1>1, <2>1 DEF InOrder
<1>6. Away(entries, cap, Homes, u) = 1
  BY <1>1, <1>3, <1>4, <1>5
<1>7. Ahead(s, Homes[entries[u].key], cap) = 0
  <2>1. entries[u] # Vacant
    BY <1>1, <1>2
  <2>2. Homes[entries[u].key] \in 0 .. cap - 1
    BY <1>1, <2>1, AwayType
  <2> QED BY <1>1, <1>6, <2>2 DEF Away, Ahead, After
<1>8. ShiftStops(s, cap)
  BY <1>1, <1>7, ShiftStopsView
<1> QED BY <1>1, <1>8

LEMMA ShiftLengthIs ==
    TypeOK /\ Ordered /\ SomeHome => \A s \in Slots : Occupied(s) =>
        /\ ShiftLength(s) \in 1 .. cap
        /\ ShiftsOver(entries, cap, Homes, s, ShiftLength(s))
        /\ Without(s) = Shifted(entries, cap, s, ShiftLength(s))
<1> SUFFICES ASSUME TypeOK, Ordered, SomeHome, NEW s \in Slots, Occupied(s)
             PROVE  /\ ShiftLength(s) \in 1 .. cap
                    /\ ShiftsOver(entries, cap, Homes, s, ShiftLength(s))
                    /\ Without(s) = Shifted(entries, cap, s, ShiftLength(s))
  OBVIOUS
<1> DEFINE n == ShiftLength(s)
           u == After(s, cap)
<1>1. /\ cap \in Nat \ {0} /\ cap \in Nat /\ cap >= 2 /\ s \in 0 .. cap - 1
      /\ entries \in Table(cap) /\ Homes \in [Keys -> 0 .. cap - 1]
  BY ViewDistances, HomesType DEF TypeOK, Slots
<1>2. n \in 1 .. cap /\ ShiftStops(s, n) /\ \A m \in 1 .. n - 1 : ~ShiftStops(s, m)
  <2> DEFINE S == {m \in 1 .. cap : ShiftStops(s, m)}
  <2>1. S \subseteq Nat /\ S # {}
    BY <1>1, ShiftEnds
  <2>2. PICK m \in S : \A q \in S : m <= q
    BY <2>1, LeastNumber
  <2>3. m \in 1 .. cap /\ ShiftStops(s, m) /\ \A q \in 1 .. m - 1 : ~ShiftStops(s, q)
    <3>1. \A q \in 1 .. m - 1 : q \in 1 .. cap /\ ~(m <= q)
      BY <1>1, <2>2
    <3> QED BY <2>2, <3>1
  <2> QED BY <2>3 DEF ShiftLength
<1>3. Without(s) = Shifted(entries, cap, s, n)
  <2>1. \A t \in Slots : (t + cap - s) % cap = Ahead(t, s, cap) /\ (t + 1) % cap = After(t, cap)
    BY <1>1, ModGap, ModAfter DEF Slots
  <2> QED BY <2>1 DEF Without, Shifted, Slots
<1> HIDE DEF n
<1>4. ASSUME NEW t \in 0 .. cap - 1, Ahead(t, s, cap) >= 1, Ahead(t, s, cap) < n
      PROVE  entries[t] # Vacant /\ Away(entries, cap, Homes, t) > 0
  <2> DEFINE m == Ahead(t, s, cap)
  <2>1. m \in 1 .. n - 1 /\ m \in 1 .. cap /\ m < cap /\ Later(s, m, cap) = t
    BY <1>1, <1>2, <1>4 DEF Ahead, Later
  <2> HIDE DEF m
  <2>2. entries[t] # Vacant /\ Away(entries, cap, Homes, t) # 0
    BY <1>2, <2>1, ShiftStopsView
  <2>3. Away(entries, cap, Homes, t) \in 0 .. cap - 1
    BY <1>1, <2>2, AwayType
  <2> QED BY <1>1, <2>2, <2>3
<1>5. ASSUME NEW t \in 0 .. cap - 1, Ahead(t, s, cap) = n
      PROVE  entries[t] = Vacant \/ Away(entries, cap, Homes, t) = 0
  <2>1. n < cap /\ Later(s, n, cap) = t
    BY <1>1, <1>2, <1>5 DEF Ahead, Later
  <2> QED BY <1>2, <2>1, ShiftStopsView
<1>6. ASSUME n = cap PROVE Away(entries, cap, Homes, u) = 1
  <2>1. u \in 0 .. cap - 1 /\ Ahead(u, s, cap) = 1
    BY <1>1 DEF After, Ahead
  <2>2. entries[u] # Vacant
    BY <1>1, <1>4, <1>6, <2>1
  <2>3. Homes[entries[u].key] \in 0 .. cap - 1
    BY <1>1, <2>1, <2>2, AwayType
  <2>4. Ahead(s, Homes[entries[u].key], cap) = 0
    BY <1>1, <1>2, <1>6, <2>2, ShiftStopsView
  <2> QED BY <1>1, <2>1, <2>3, <2>4 DEF Away, Ahead, After
<1>7. ShiftsOver(entries, cap, Homes, s, n)
  BY <1>4, <1>5, <1>6 DEF ShiftsOver
<1> QED BY <1>2, <1>3, <1>7 DEF n

LEMMA DeleteIndexKeeps ==
    ASSUME HInv, pc = "idle", NEW s \in Slots, Occupied(s), DeleteIndex(s),
           UNCHANGED <<raw, cap, canGrow, hasCb, loop>>
    PROVE  HInv' /\ Cardinality(Stored') = Cardinality(Stored) - 1
<1> DEFINE n == ShiftLength(s)
<1>1. /\ TypeOK /\ cap \in Capacity /\ cap \in Nat /\ entries \in Table(cap)
      /\ Homes \in [Keys -> 0 .. cap - 1] /\ s \in 0 .. cap - 1 /\ entries[s] # Vacant
      /\ size \in Nat
      /\ UNCHANGED <<raw, cap, canGrow, hasCb, pc, todo, carry, i, probe>>
  BY ViewDistances, HomesType DEF HInv, TypeOK, Capacity, Slots, Occupied, loop
<1>2. InOrder(entries, cap, Homes) /\ Single(entries, cap)
  BY <1>1, ViewOrder DEF HInv
<1>3. /\ n \in 1 .. cap /\ ShiftsOver(entries, cap, Homes, s, n)
      /\ entries' = Shifted(entries, cap, s, n) /\ size' = size - 1
  BY ShiftLengthIs DEF HInv, DeleteIndex
<1> HIDE DEF n
<1>4. entries' \in Table(cap)
  BY <1>1, <1>3, ShiftedType
<1>5. InOrder(entries', cap, Homes)
  BY <1>1, <1>2, <1>3, ShiftKeepsOrder
<1>6. Single(entries', cap)
  BY <1>1, <1>2, <1>3, ShiftKeepsSingle
<1>7. HasHome(entries', cap, Homes)
  BY <1>1, <1>2, <1>3, ShiftLeaves DEF HasHome
<1>8. /\ Cardinality(Taken(entries', cap)) = Cardinality(Taken(entries, cap)) - 1
      /\ Cardinality(Taken(entries, cap)) >= 1
  BY <1>1, <1>3, TakenShifted
<1>9. /\ Cardinality(Taken(entries', cap)) \in Nat /\ Cardinality(Taken(entries, cap)) \in Nat
      /\ Cardinality(Taken(entries, cap)) <= size
  <2>1. Cardinality(Taken(entries', cap)) \in Nat /\ Cardinality(Taken(entries, cap)) \in Nat
    BY <1>1, TakenType
  <2> QED BY <1>1, <2>1, StoredIsTaken DEF HInv, SizeCovers
<1>10. Homes' = Homes /\ Slots' = Slots /\ Stored' = Taken(entries', cap)
  BY <1>1 DEF Homes, Hash, Slots, Stored, Taken, Occupied
<1>11. TypeOK'
  <2>1. entries' \in [Slots' -> Entry \cup {Vacant}]
    BY <1>4, <1>10 DEF Table, Slots
  <2>2. size' \in Nat
    BY <1>1, <1>3, <1>8, <1>9
  <2> QED BY <1>1, <1>10, <2>1, <2>2 DEF TypeOK
<1>12. Ordered' /\ KeysOnce' /\ SomeHome'
  BY <1>1, <1>5, <1>6, <1>7, <1>10, <1>11, ViewOrderNext
<1>13. CarryOrdered' /\ Room' /\ AtRest'
  BY <1>1 DEF HInv, CarryOrdered, Room, AtRest
<1>14. SizeCovers'
  BY <1>1, <1>3, <1>8, <1>9, <1>10 DEF SizeCovers
<1> QED BY <1>8, <1>10, <1>11, <1>12, <1>13, <1>14, StoredIsTaken DEF HInv

LEMMA DeleteKeeps ==
    ASSUME HInv, NEW k \in Keys, Delete(k)
    PROVE  HInv'
<1>1. CASE Found(k) /\ DeleteIndex(FindIndex(k))
  <2>1. FindIndex(k) \in Slots /\ Occupied(FindIndex(k))
    BY <1>1, FoundIsHere DEF HInv
  <2> QED BY <1>1, <2>1, DeleteIndexKeeps DEF Delete
<1>2. CASE UNCHANGED <<entries, size>>
  BY <1>2 DEF Delete, HInv, TypeOK, Ordered, KeysOnce, SomeHome, CarryOrdered, Room, AtRest,
              SizeCovers, Stored, Slots, Occupied, PC, ProbeCount, Hash, Gap, loop
<1> QED BY <1>1, <1>2 DEF Delete

-----------------------------------------------------------------------------
(* The other calls. *)

LEMMA SameTable ==
    ASSUME HInv, UNCHANGED <<raw, cap, size, canGrow, entries, loop>>, hasCb' \in BOOLEAN
    PROVE  HInv'
  BY DEF HInv, TypeOK, Ordered, KeysOnce, SomeHome, CarryOrdered, Room, AtRest,
         SizeCovers, Stored, Slots, Occupied, PC, ProbeCount, Hash, Gap, loop

(* A table that is as INIT leaves it, or DESTROY, satisfies the invariant. *)
LEMMA EmptyTable ==
    ASSUME raw' \in [Keys -> RawHashes], cap' \in Nat \ {0, 1}, size' \in Nat,
           canGrow' \in BOOLEAN, hasCb' \in BOOLEAN, entries' = Vacated(cap'),
           pc' \in {"idle", "gone"}, todo' = <<>>, i' = 0, probe' \in Nat
    PROVE  HInv'
<1>1. cap' \in Capacity /\ cap' \in Nat /\ cap' >= 2
  BY DEF Capacity
<1>2. /\ entries' \in Table(cap') /\ Sound(entries', cap', Homes')
      /\ Cardinality(Taken(entries', cap')) = 0
  BY <1>1, VacatedIsSound, TakenVacated
<1>3. Stored' = Taken(entries', cap')
  BY DEF Stored, Taken, Occupied, Slots
<1>4. TypeOK'
  <2>1. entries' \in [Slots' -> Entry \cup {Vacant}]
    BY <1>2 DEF Table, Slots
  <2>2. i' \in Slots'
    <3>1. ASSUME NEW c \in Nat, c >= 2 PROVE 0 \in 0 .. c - 1
      BY <3>1
    <3>2. 0 \in 0 .. cap' - 1
      BY <1>1, <3>1
    <3> QED BY <3>2 DEF Slots
  <2>3. todo' \in Seq(Entry)
    OBVIOUS
  <2> QED BY <2>1, <2>2, <2>3 DEF TypeOK
<1>5. Ordered' /\ KeysOnce' /\ SomeHome'
  BY <1>2, <1>4, ViewOrderNext DEF Sound
<1>6. CarryOrdered' /\ Room' /\ AtRest' /\ SizeCovers'
  BY <1>2, <1>3 DEF CarryOrdered, Room, AtRest, SizeCovers
<1> QED BY <1>4, <1>5, <1>6 DEF HInv

LEMMA DestroyKeeps == HInv /\ Destroy => HInv'
<1> SUFFICES ASSUME HInv, Destroy PROVE HInv'
  OBVIOUS
<1>1. /\ TypeOK /\ todo = <<>> /\ i = 0
      /\ pc' = "gone" /\ entries' = Vacated(cap)
      /\ UNCHANGED <<raw, cap, size, canGrow, hasCb, todo, carry, i, probe>>
  BY DEF HInv, AtRest, Destroy
<1> QED BY <1>1, EmptyTable DEF TypeOK

LEMMA NewKeeps == HInv /\ New => HInv'
<1> SUFFICES ASSUME HInv, New PROVE HInv'
  OBVIOUS
<1>1. /\ TypeOK /\ todo' = <<>> /\ i' = 0 /\ probe' \in Nat
      /\ pc' = "idle" /\ cap' = InitCap /\ entries' = Vacated(cap')
      /\ size' = 0 /\ canGrow' \in BOOLEAN /\ hasCb' = FALSE
      /\ raw' \in [Keys -> RawHashes]
  BY DEF HInv, TypeOK, AtRest, New
<1> QED BY <1>1, EmptyTable, CapAssumption

LEMMA InitHolds == Init => HInv
<1> SUFFICES ASSUME Init PROVE HInv
  OBVIOUS
<1>1. /\ cap = InitCap /\ cap \in Capacity /\ cap \in Nat /\ cap >= 2
      /\ entries = Vacated(cap) /\ pc = "idle" /\ todo = <<>> /\ i = 0 /\ probe = 0
      /\ size = 0
  BY CapAssumption DEF Init, Capacity, Vacated, Slots
<1>2. /\ entries \in Table(cap) /\ Sound(entries, cap, Homes)
      /\ Cardinality(Taken(entries, cap)) = 0
  BY <1>1, VacatedIsSound, TakenVacated
<1>3. TypeOK
  <2>1. entries \in [Slots -> Entry \cup {Vacant}]
    BY <1>2 DEF Table, Slots
  <2>2. i \in Slots /\ todo \in Seq(Entry) /\ cap \in Nat \ {0, 1}
    BY <1>1 DEF Slots, Capacity
  <2> QED BY <1>1, <2>1, <2>2 DEF TypeOK, Init
<1>4. Ordered /\ KeysOnce /\ SomeHome
  BY <1>2, <1>3, ViewOrder DEF Sound
<1>5. CarryOrdered /\ Room /\ AtRest /\ SizeCovers
  BY <1>1, <1>2, StoredIsTaken DEF CarryOrdered, Room, AtRest, SizeCovers
<1> QED BY <1>3, <1>4, <1>5 DEF HInv

LEMMA NextKeeps == HInv /\ [Next]_vars => HInv'
<1> SUFFICES ASSUME HInv, [Next]_vars PROVE HInv'
  OBVIOUS
<1>1. CASE InsertStep
  BY <1>1, PlaceKeeps, DuplicateKeeps, DisplaceKeeps, PassOverKeeps DEF InsertStep
<1>2. ASSUME NEW k \in Keys, NEW v \in Values, Insert(k, v) PROVE HInv'
  BY <1>2, InsertKeeps
<1>3. ASSUME NEW k \in Keys, NEW v \in Values, InsertRefused(k, v) PROVE HInv'
  BY <1>3, SameTable DEF InsertRefused, table, HInv, TypeOK
<1>4. ASSUME NEW k \in Keys, Find(k) PROVE HInv'
  BY <1>4, SameTable DEF Find, table, HInv, TypeOK
<1>5. ASSUME NEW k \in Keys, Delete(k) PROVE HInv'
  BY <1>5, DeleteKeeps
<1>6. ASSUME NEW n \in InitCap .. MaxCap, Resize(n) PROVE HInv'
  BY <1>6, ResizeKeeps
<1>7. CASE SetDuplicateCb
  BY <1>7, SameTable DEF SetDuplicateCb
<1>8. CASE Destroy
  BY <1>8, DestroyKeeps
<1>9. CASE New
  BY <1>9, NewKeeps
<1>10. CASE UNCHANGED vars
  BY <1>10, SameTable DEF vars, loop, HInv, TypeOK
<1> QED
  BY <1>1, <1>2, <1>3, <1>4, <1>5, <1>6, <1>7, <1>8, <1>9, <1>10 DEF Next

(* The invariant holds in every reachable state, for every hash function,   *)
(* capacity and load factor.                                                *)
THEOREM TableInvariant == Spec => []HInv
<1>1. Init => HInv
  BY InitHolds
<1>2. HInv /\ [Next]_vars => HInv'
  BY NextKeeps
<1> QED
  BY <1>1, <1>2, PTL DEF Spec

(* Every variable keeps its type. *)
THEOREM TableTypes == Spec => []TypeOK
<1>1. HInv => TypeOK
  BY DEF HInv
<1> QED
  BY <1>1, TableInvariant, PTL

(* An entry away from its home follows one that is at most one step nearer  *)
(* to its own, whatever INSERT_AT displaces and DELETE_INDEX shifts.        *)
THEOREM TableIsRobinHood == Spec => []RobinHood
<1>1. HInv => RobinHood
  <2> SUFFICES ASSUME HInv, NEW s \in Slots, Occupied(s), PC(s) > 0
               PROVE  Occupied(Before(s)) /\ PC(Before(s)) + 1 >= PC(s)
    BY DEF RobinHood
  <2>1. /\ TypeOK /\ cap \in Nat /\ cap >= 2 /\ cap \in Nat \ {0} /\ s \in 0 .. cap - 1
        /\ PC(s) \in Int
    <3>1. /\ TypeOK /\ cap \in Nat /\ cap >= 2 /\ cap \in Nat \ {0} /\ s \in 0 .. cap - 1
          /\ entries \in Table(cap) /\ Homes \in [Keys -> 0 .. cap - 1]
      BY ViewDistances, HomesType DEF HInv, TypeOK, Slots
    <3>2. Away(entries, cap, Homes, s) \in 0 .. cap - 1
      BY <3>1, AwayType DEF Occupied
    <3>3. PC(s) = Away(entries, cap, Homes, s)
      BY <3>1, ViewDistances
    <3> QED BY <3>1, <3>2, <3>3
  <2> DEFINE t == Ahead(s, 1, cap)
  <2>2. Before(s) = t
    BY <2>1, ModGap DEF Before
  <2>3. t \in Slots /\ Ahead(s, t, cap) = 1
    BY <2>1 DEF Ahead, Slots
  <2> HIDE DEF t
  <2>4. Gap(s, t) = 1
    BY <2>1, <2>3, ViewDistances
  <2>5. Occupied(t) /\ PC(t) + 1 >= PC(s)
    BY <2>1, <2>3, <2>4 DEF HInv, Ordered
  <2> QED BY <2>2, <2>5
<1> QED
  BY <1>1, TableInvariant, PTL

(* FIND_INDEX finds what is stored where it is. *)
THEOREM TableFinds == Spec => []StoredIsFound
<1>1. HInv => StoredIsFound
  BY HereIsFound DEF HInv, StoredIsFound
<1> QED
  BY <1>1, TableInvariant, PTL

(* INSERT_AT always has a vacant slot to come to, and the back-shift of     *)
(* DELETE_INDEX stops within one round of the table.                        *)
THEOREM TableLoopsEnd == Spec => []LoopsEnd
<1>1. HInv => LoopsEnd
  <2> SUFFICES ASSUME HInv PROVE LoopsEnd
    OBVIOUS
  <2>1. pc = "insert" => \E s \in Slots : ~Occupied(s)
    BY RoomLeavesAVacancy DEF Slots, Occupied
  <2>2. \A s \in Slots : Occupied(s) => \E n \in 1 .. cap : ShiftStops(s, n)
    BY ShiftEnds DEF HInv
  <2> QED BY <2>1, <2>2 DEF LoopsEnd
<1> QED
  BY <1>1, TableInvariant, PTL

(* The size that INSERT and DELETE keep never understates what is stored    *)
(* and in hand.                                                             *)
THEOREM TableSizeCovers == Spec => []SizeCovers
<1>1. HInv => SizeCovers
  BY DEF HInv
<1> QED
  BY <1>1, TableInvariant, PTL

-----------------------------------------------------------------------------
(* HashTable implements Dictionary: to its callers the table is a map,      *)
(* whatever INSERT_AT displaces, RESIZE moves and DELETE_INDEX shifts.  The *)
(* argument is about the entries that count: those in the table, those a    *)
(* resize has still to insert, and the one being inserted unless its key is *)
(* among the others.  The steps of the loop of INSERT_AT only move them.    *)

(* Keys are in the table or in hand once, but for that of the last entry in *)
(* hand, which INSERT was called with until it is displaced.                *)
InHandOnce ==
    /\ \A m, n \in 1 .. Len(InHand) :
          m < n /\ InHand[m].key = InHand[n].key => n = Len(InHand)
    /\ \A n \in 1 .. Len(InHand) - 1 : ~InTable(InHand[n].key)

GoneIsEmpty == pc = "gone" => \A s \in Slots : ~Occupied(s)

RInv == HInv /\ InHandOnce /\ GoneIsEmpty

-----------------------------------------------------------------------------
(* Sets of entries as maps. *)

OneEach(E) == \A x, y \in E : x.key = y.key => x = y

Reads(E, k) ==
    IF \E x \in E : x.key = k THEN (CHOOSE x \in E : x.key = k).value ELSE NoValue

LEMMA ReadsHere ==
    ASSUME NEW E, OneEach(E), NEW x \in E
    PROVE  Reads(E, x.key) = x.value
<1>1. (CHOOSE y \in E : y.key = x.key) = x
  BY DEF OneEach
<1> QED BY <1>1 DEF Reads

LEMMA ReadsNothing ==
    ASSUME NEW E, NEW k, \A x \in E : x.key # k
    PROVE  Reads(E, k) = NoValue
  BY DEF Reads

LEMMA ReadsType ==
    ASSUME NEW E, E \subseteq Entry, OneEach(E), NEW k
    PROVE  \/ Reads(E, k) \in Values /\ Reads(E, k) # NoValue /\ \E x \in E : x.key = k
           \/ Reads(E, k) = NoValue /\ \A x \in E : x.key # k
<1>1. CASE \E x \in E : x.key = k
  <2>1. PICK x \in E : x.key = k
    BY <1>1
  <2>2. Reads(E, k) = x.value
    BY <2>1, ReadsHere
  <2>3. x.value \in Values
    BY DEF Entry
  <2> QED BY <2>1, <2>2, <2>3, NoValueAssumption
<1>2. CASE ~\E x \in E : x.key = k
  BY <1>2, ReadsNothing
<1> QED BY <1>1, <1>2

(* Adding an entry with a new key, taking one away, changing its value. *)
LEMMA ReadsAdded ==
    ASSUME NEW E, OneEach(E), NEW x, \A y \in E : y.key # x.key
    PROVE  /\ OneEach(E \cup {x})
           /\ \A k : Reads(E \cup {x}, k) = IF k = x.key THEN x.value ELSE Reads(E, k)
<1>1. OneEach(E \cup {x})
  BY DEF OneEach
<1>2. ASSUME NEW k PROVE Reads(E \cup {x}, k) = IF k = x.key THEN x.value ELSE Reads(E, k)
  <2>1. CASE k = x.key
    <3>1. Reads(E \cup {x}, x.key) = x.value
      BY <1>1, ReadsHere
    <3> QED BY <2>1, <3>1
  <2>2. CASE k # x.key /\ \E y \in E : y.key = k
    <3>1. PICK y \in E : y.key = k
      BY <2>2
    <3>2. Reads(E \cup {x}, y.key) = y.value
      BY <1>1, ReadsHere
    <3>3. Reads(E, y.key) = y.value
      BY ReadsHere
    <3> QED BY <2>2, <3>1, <3>2, <3>3
  <2>3. CASE k # x.key /\ ~\E y \in E : y.key = k
    <3>1. Reads(E \cup {x}, k) = NoValue /\ Reads(E, k) = NoValue
      BY <2>3, ReadsNothing
    <3> QED BY <2>3, <3>1
  <2> QED BY <2>1, <2>2, <2>3
<1> QED BY <1>1, <1>2

LEMMA ReadsWithout ==
    ASSUME NEW E, OneEach(E), NEW x \in E
    PROVE  /\ OneEach(E \ {x}) /\ \A y \in E \ {x} : y.key # x.key
           /\ \A k : Reads(E \ {x}, k) = IF k = x.key THEN NoValue ELSE Reads(E, k)
<1>1. OneEach(E \ {x}) /\ \A y \in E \ {x} : y.key # x.key
  BY DEF OneEach
<1>2. (E \ {x}) \cup {x} = E
  OBVIOUS
<1>3. \A k : Reads(E, k) = IF k = x.key THEN x.value ELSE Reads(E \ {x}, k)
  BY <1>1, <1>2, ReadsAdded
<1>4. Reads(E \ {x}, x.key) = NoValue
  BY <1>1, ReadsNothing
<1> QED BY <1>1, <1>3, <1>4

-----------------------------------------------------------------------------
(* The entries of a state. *)

Held(e, c) == {e[s] : s \in Taken(e, c)}

Waiting == {InHand[n] : n \in 1 .. Len(InHand) - 1}
Settled == Held(entries, cap) \cup Waiting
Final == InHand[Len(InHand)]
Present == \E x \in Settled : x.key = Final.key
Contents == IF pc = "insert" /\ ~Present THEN Settled \cup {Final} ELSE Settled

LEMMA InHandIs ==
    TypeOK =>
        /\ pc # "insert" => InHand = <<>> /\ Len(InHand) = 0
        /\ pc = "insert" =>
              /\ InHand \in Seq(Entry) /\ Len(InHand) = Len(todo) + 1 /\ Len(todo) \in Nat
              /\ InHand[1] = carry
              /\ \A n \in 1 .. Len(todo) : InHand[n + 1] = todo[n]
              /\ Final \in Entry /\ Final = InHand[Len(todo) + 1]
<1> SUFFICES ASSUME TypeOK
             PROVE  /\ pc # "insert" => InHand = <<>> /\ Len(InHand) = 0
                    /\ pc = "insert" =>
                          /\ InHand \in Seq(Entry) /\ Len(InHand) = Len(todo) + 1
                          /\ Len(todo) \in Nat
                          /\ InHand[1] = carry
                          /\ \A n \in 1 .. Len(todo) : InHand[n + 1] = todo[n]
                          /\ Final \in Entry /\ Final = InHand[Len(todo) + 1]
  OBVIOUS
<1>1. pc # "insert" => InHand = <<>> /\ Len(InHand) = 0
  BY DEF InHand
<1>2. ASSUME pc = "insert"
      PROVE  /\ InHand \in Seq(Entry) /\ Len(InHand) = Len(todo) + 1 /\ Len(todo) \in Nat
             /\ InHand[1] = carry
             /\ \A n \in 1 .. Len(todo) : InHand[n + 1] = todo[n]
             /\ Final \in Entry /\ Final = InHand[Len(todo) + 1]
  <2>1. carry \in Entry /\ todo \in Seq(Entry) /\ InHand = <<carry>> \o todo
    BY <1>2 DEF TypeOK, InHand
  <2>2. <<carry>> \in Seq(Entry) /\ Len(<<carry>>) = 1 /\ <<carry>>[1] = carry
        /\ Len(todo) \in Nat
    BY <2>1, LenProperties
  <2>3. /\ InHand \in Seq(Entry) /\ Len(InHand) = Len(todo) + 1
        /\ \A n \in 1 .. 1 + Len(todo) :
              InHand[n] = IF n <= 1 THEN <<carry>>[n] ELSE todo[n - 1]
    <3>1. /\ <<carry>> \o todo \in Seq(Entry)
          /\ Len(<<carry>> \o todo) = Len(<<carry>>) + Len(todo)
          /\ \A n \in 1 .. Len(<<carry>>) + Len(todo) :
                (<<carry>> \o todo)[n] = IF n <= Len(<<carry>>) THEN <<carry>>[n]
                                        ELSE todo[n - Len(<<carry>>)]
      BY <2>1, <2>2, ConcatProperties
    <3> QED BY <2>1, <2>2, <3>1
  <2>4. InHand[1] = carry
    BY <2>2, <2>3
  <2>5. ASSUME NEW n \in 1 .. Len(todo) PROVE InHand[n + 1] = todo[n]
    <3>1. n + 1 \in 1 .. 1 + Len(todo) /\ ~(n + 1 <= 1) /\ n + 1 - 1 = n
      BY <2>2
    <3> QED BY <2>3, <3>1
  <2>6. Final = InHand[Len(todo) + 1] /\ Final \in Entry
    <3>1. Len(InHand) \in 1 .. Len(InHand)
      BY <2>2, <2>3
    <3> QED BY <2>3, <3>1, ElementOfSeq DEF Final
  <2> QED BY <2>2, <2>3, <2>4, <2>5, <2>6
<1> QED BY <1>1, <1>2

LEMMA HeldType ==
    ASSUME NEW c \in Nat, NEW e \in Table(c)
    PROVE  Held(e, c) \subseteq Entry /\ (Single(e, c) => OneEach(Held(e, c)))
  BY DEF Held, Taken, Table, Single, OneEach

LEMMA HeldStore ==
    ASSUME NEW c \in Nat, NEW e \in Table(c), Single(e, c), NEW n \in 0 .. c - 1, NEW x \in Entry,
           NEW f, f[n] = x, \A t \in (0 .. c - 1) \ {n} : f[t] = e[t]
    PROVE  /\ e[n] = Vacant => Held(f, c) = Held(e, c) \cup {x}
           /\ e[n] # Vacant => /\ Held(f, c) = (Held(e, c) \ {e[n]}) \cup {x}
                               /\ e[n] \in Held(e, c)
<1>1. x # Vacant
  BY EntryFields
<1>2. ASSUME e[n] = Vacant PROVE Held(f, c) = Held(e, c) \cup {x}
  <2>1. Taken(f, c) = Taken(e, c) \cup {n} /\ n \notin Taken(e, c)
    BY <1>1, <1>2 DEF Taken
  <2>2. \A t \in Taken(e, c) : f[t] = e[t]
    BY <1>1, <2>1 DEF Taken
  <2> QED BY <1>1, <2>1, <2>2 DEF Held
<1>3. ASSUME e[n] # Vacant
      PROVE  Held(f, c) = (Held(e, c) \ {e[n]}) \cup {x} /\ e[n] \in Held(e, c)
  <2>1. Taken(f, c) = Taken(e, c) /\ n \in Taken(e, c)
    BY <1>1, <1>3 DEF Taken
  <2>2. \A t \in Taken(e, c) \ {n} : f[t] = e[t] /\ e[t] # e[n]
    BY <1>1, <1>3 DEF Taken, Single
  <2> QED BY <1>1, <2>1, <2>2 DEF Held
<1> QED BY <1>2, <1>3

LEMMA HeldShifted ==
    ASSUME NEW c \in Capacity, NEW h \in [Keys -> 0 .. c - 1], NEW e \in Table(c),
           Single(e, c), NEW s \in 0 .. c - 1, e[s] # Vacant, NEW n \in 1 .. c,
           ShiftsOver(e, c, h, s, n)
    PROVE  Held(Shifted(e, c, s, n), c) = Held(e, c) \ {e[s]} /\ e[s] \in Held(e, c)
<1> DEFINE f == Shifted(e, c, s, n)
<1>1. ASSUME NEW t \in Taken(f, c)
      PROVE  f[t] \in Held(e, c) /\ f[t] # e[s]
  <2>1. t \in 0 .. c - 1 /\ f[t] # Vacant
    BY DEF Taken
  <2>2. f[t].key # e[s].key
    BY <2>1, ShiftLeaves
  <2>3. PICK u \in 0 .. c - 1 : e[u] # Vacant /\ f[t] = e[u]
    BY <2>1, ShiftedFrom
  <2> QED BY <2>2, <2>3 DEF Held, Taken
<1>2. ASSUME NEW t \in Taken(e, c), e[t] # e[s]
      PROVE  e[t] \in Held(f, c)
  <2>1. t \in 0 .. c - 1 /\ e[t] # Vacant /\ t # s
    BY <1>2 DEF Taken
  <2>2. PICK u \in 0 .. c - 1 : f[u] = e[t]
    BY <2>1, ShiftedTo
  <2> QED BY <2>1, <2>2 DEF Held, Taken
<1>3. e[s] \in Held(e, c)
  BY DEF Held, Taken
<1> HIDE DEF f
<1>4. Held(f, c) = Held(e, c) \ {e[s]}
  BY <1>1, <1>2 DEF Held
<1> QED BY <1>3, <1>4 DEF f

LEMMA HeldVacated ==
    ASSUME NEW c \in Nat
    PROVE  Held(Vacated(c), c) = {}
  BY TakenVacated DEF Held

LEMMA InTableHeld == \A k : InTable(k) <=> \E x \in Held(entries, cap) : x.key = k
  BY DEF InTable, Held, Taken, Occupied, Slots

(* What counts is in the table, or in hand with a key of its own. *)
LEMMA SettledType ==
    RInv => /\ Settled \subseteq Entry /\ OneEach(Settled)
            /\ Contents \subseteq Entry /\ OneEach(Contents)
            /\ Held(entries, cap) \subseteq Settled
            /\ pc = "insert" => Final \in Entry
            /\ pc # "insert" => Settled = Held(entries, cap) /\ Contents = Settled
<1> SUFFICES ASSUME RInv
             PROVE  /\ Settled \subseteq Entry /\ OneEach(Settled)
                    /\ Contents \subseteq Entry /\ OneEach(Contents)
                    /\ Held(entries, cap) \subseteq Settled
                    /\ pc = "insert" => Final \in Entry
                    /\ pc # "insert" => Settled = Held(entries, cap) /\ Contents = Settled
  OBVIOUS
<1>1. /\ TypeOK /\ cap \in Nat /\ entries \in Table(cap) /\ Single(entries, cap)
  BY ViewDistances, ViewOrder DEF RInv, HInv, TypeOK
<1>2. Held(entries, cap) \subseteq Entry /\ OneEach(Held(entries, cap))
  BY <1>1, HeldType
<1>3. Len(InHand) \in Nat /\ \A n \in 1 .. Len(InHand) : InHand[n] \in Entry
  <2>1. CASE pc = "insert"
    BY <1>1, <2>1, InHandIs, ElementOfSeq
  <2>2. CASE pc # "insert"
    BY <1>1, <2>2, InHandIs
  <2> QED BY <2>1, <2>2
<1>4. Waiting \subseteq Entry
  BY <1>3 DEF Waiting
<1>5. OneEach(Settled)
  <2>1. ASSUME NEW x \in Waiting, NEW y \in Waiting, x.key = y.key PROVE x = y
    <3>1. PICK m \in 1 .. Len(InHand) - 1 : x = InHand[m]
      BY DEF Waiting
    <3>2. PICK n \in 1 .. Len(InHand) - 1 : y = InHand[n]
      BY DEF Waiting
    <3>3. ~(m < n) /\ ~(n < m)
      BY <1>3, <2>1, <3>1, <3>2 DEF RInv, InHandOnce
    <3>4. m = n
      BY <1>3, <3>3
    <3> QED BY <3>1, <3>2, <3>4
  <2>2. ASSUME NEW x \in Waiting, NEW y \in Held(entries, cap) PROVE x.key # y.key
    <3>1. ~InTable(x.key)
      BY DEF Waiting, RInv, InHandOnce
    <3> QED BY <3>1, InTableHeld
  <2>3. \A x, y \in Held(entries, cap) : x.key = y.key => x = y
    BY <1>2 DEF OneEach
  <2> QED BY <2>1, <2>2, <2>3 DEF OneEach, Settled
<1>6. pc = "insert" => Final \in Entry
  BY <1>1, InHandIs
<1>7. OneEach(Contents)
  <2>1. CASE pc = "insert" /\ ~Present
    <3>1. \A y \in Settled : y.key # Final.key
      BY <2>1 DEF Present
    <3>2. OneEach(Settled \cup {Final})
      BY <1>5, <3>1, ReadsAdded
    <3> QED BY <2>1, <3>2 DEF Contents
  <2>2. CASE ~(pc = "insert" /\ ~Present)
    BY <1>5, <2>2 DEF Contents
  <2> QED BY <2>1, <2>2
<1>8. pc # "insert" => Settled = Held(entries, cap) /\ Contents = Settled
  <2>1. pc # "insert" => Waiting = {}
    BY <1>1, InHandIs DEF Waiting
  <2> QED BY <2>1 DEF Settled, Contents
<1> QED BY <1>2, <1>4, <1>5, <1>6, <1>7, <1>8 DEF Settled, Contents

LEMMA FrontOrLast ==
    ASSUME NEW l \in Nat, NEW n \in 1 .. l
    PROVE  n \in 1 .. l - 1 \/ n = l
  OBVIOUS

LEMMA FrontInDomain ==
    ASSUME NEW l \in Nat, NEW n \in 1 .. l - 1
    PROVE  n \in 1 .. l /\ n # l /\ l \in 1 .. l
  OBVIOUS

LEMMA ValueIsRead == RInv => \A k \in Keys : ValueOf(k) = Reads(Contents, k)
<1> SUFFICES ASSUME RInv, NEW k \in Keys PROVE ValueOf(k) = Reads(Contents, k)
  OBVIOUS
<1>1. TypeOK /\ OneEach(Contents) /\ OneEach(Settled) /\ Held(entries, cap) \subseteq Settled
      /\ Settled \subseteq Contents
  BY SettledType DEF RInv, HInv, Contents
<1>2. CASE InTable(k)
  <2>1. PICK x \in Held(entries, cap) : x.key = k
    BY <1>2, InTableHeld
  <2>2. {entries[s] : s \in Stored} = Held(entries, cap)
    BY StoredIsTaken DEF Held
  <2>3. (CHOOSE e \in Held(entries, cap) : e.key = k) = x
    BY <1>1, <2>1 DEF OneEach
  <2>4. ValueOf(k) = x.value
    BY <1>2, <2>2, <2>3 DEF ValueOf
  <2>5. Reads(Contents, x.key) = x.value
    BY <1>1, <2>1, ReadsHere
  <2> QED BY <2>1, <2>4, <2>5
<1>3. CASE ~InTable(k) /\ pc = "insert" /\ \E n \in DOMAIN InHand : InHand[n].key = k
  <2>1. /\ InHand \in Seq(Entry) /\ Len(InHand) \in Nat /\ Len(InHand) >= 1
        /\ DOMAIN InHand = 1 .. Len(InHand)
    BY <1>1, <1>3, InHandIs, LenProperties
  <2> DEFINE First(n) == InHand[n].key = k /\ \A m \in 1 .. n - 1 : InHand[m].key # k
             S == {n \in 1 .. Len(InHand) : InHand[n].key = k}
             n0 == CHOOSE n \in DOMAIN InHand : First(n)
  <2>2. \E n \in 1 .. Len(InHand) : First(n)
    <3>1. S \subseteq Nat /\ S # {}
      BY <1>3, <2>1
    <3>2. PICK n \in S : \A m \in S : n <= m
      BY <3>1, LeastNumber
    <3>3. \A m \in 1 .. n - 1 : m \in 1 .. Len(InHand) /\ ~(n <= m)
      BY <2>1, <3>2
    <3> QED BY <3>2, <3>3
  <2>3. n0 \in 1 .. Len(InHand) /\ First(n0)
    BY <2>1, <2>2
  <2>4. ValueOf(k) = InHand[n0].value
    BY <1>3 DEF ValueOf
  <2> HIDE DEF n0
  <2>5. InHand[n0] \in Contents
    <3>1. CASE n0 \in 1 .. Len(InHand) - 1
      BY <1>1, <3>1 DEF Settled, Waiting
    <3>2. CASE n0 = Len(InHand)
      <4>1. ~Present
        <5> SUFFICES ASSUME NEW x \in Settled, x.key = Final.key PROVE FALSE
          BY DEF Present
        <5>1. x.key = k
          BY <2>3, <3>2 DEF Final
        <5>2. x \notin Held(entries, cap)
          BY <1>3, <5>1, InTableHeld
        <5>3. PICK n \in 1 .. Len(InHand) - 1 : x = InHand[n]
          BY <5>2 DEF Settled, Waiting
        <5> QED BY <2>3, <3>2, <5>1, <5>3
      <4> QED BY <1>3, <3>2, <4>1 DEF Contents, Final
    <3> QED BY <2>1, <2>3, <3>1, <3>2, FrontOrLast
  <2>6. Reads(Contents, InHand[n0].key) = InHand[n0].value
    BY <1>1, <2>5, ReadsHere
  <2> QED BY <2>3, <2>4, <2>6
<1>4. CASE ~InTable(k) /\ ~(pc = "insert" /\ \E n \in DOMAIN InHand : InHand[n].key = k)
  <2>1. ~\E n \in DOMAIN InHand : InHand[n].key = k
    BY <1>1, <1>4, InHandIs
  <2>2. ValueOf(k) = NoValue
    BY <1>4, <2>1 DEF ValueOf
  <2>3. pc = "insert" => DOMAIN InHand = 1 .. Len(InHand) /\ Len(InHand) \in Nat /\ Len(InHand) >= 1
    BY <1>1, InHandIs, LenProperties
  <2>4. \A x \in Contents : x.key # k
    <3>1. \A x \in Held(entries, cap) : x.key # k
      BY <1>4, InTableHeld
    <3>2. CASE pc = "insert"
      <4>1. \A x \in Waiting \cup {Final} : x.key # k
        BY <2>1, <2>3, <3>2 DEF Waiting, Final
      <4> QED BY <3>1, <4>1 DEF Contents, Settled
    <3>3. CASE pc # "insert"
      BY <3>1, <3>3, SettledType
    <3> QED BY <3>2, <3>3
  <2>5. Reads(Contents, k) = NoValue
    BY <2>4, ReadsNothing
  <2> QED BY <2>2, <2>5
<1> QED BY <1>2, <1>3, <1>4

LEMMA TwiceIsPresent ==
    RInv /\ pc = "insert" => {k \in Keys : Twice(k)} = IF Present THEN {Final.key} ELSE {}
<1> SUFFICES ASSUME RInv, pc = "insert"
             PROVE  {k \in Keys : Twice(k)} = IF Present THEN {Final.key} ELSE {}
  OBVIOUS
<1>1. TypeOK
  BY DEF RInv, HInv
<1>2. /\ DOMAIN InHand = 1 .. Len(InHand) /\ Len(InHand) \in Nat /\ Len(InHand) >= 1
      /\ Final \in Entry /\ Final.key \in Keys
  BY <1>1, InHandIs, LenProperties, EntryFields
<1>3. ASSUME NEW k \in Keys, Twice(k) PROVE Present /\ k = Final.key
  <2>1. CASE InTable(k) /\ \E n \in DOMAIN InHand : InHand[n].key = k
    <3>1. PICK n \in 1 .. Len(InHand) : InHand[n].key = k
      BY <1>2, <2>1
    <3>2. ~(n \in 1 .. Len(InHand) - 1)
      BY <2>1, <3>1 DEF RInv, InHandOnce
    <3>3. n = Len(InHand)
      BY <1>2, <3>2, FrontOrLast
    <3>4. \E x \in Settled : x.key = k
      BY <2>1, InTableHeld DEF Settled
    <3> QED BY <3>1, <3>3, <3>4 DEF Final, Present
  <2>2. ASSUME NEW m \in 1 .. Len(InHand), NEW n \in 1 .. Len(InHand), m < n,
               InHand[m].key = k, InHand[n].key = k
        PROVE  Present /\ k = Final.key
    <3>1. n = Len(InHand)
      BY <2>2 DEF RInv, InHandOnce
    <3>2. m \in 1 .. Len(InHand) - 1
      BY <1>2, <2>2, <3>1
    <3>3. InHand[m] \in Settled
      BY <3>2 DEF Settled, Waiting
    <3> QED BY <2>2, <3>1, <3>3 DEF Final, Present
  <2>3. CASE \E m, n \in DOMAIN InHand : m # n /\ InHand[m].key = k /\ InHand[n].key = k
    <3>1. PICK m \in 1 .. Len(InHand), n \in 1 .. Len(InHand) :
              m # n /\ InHand[m].key = k /\ InHand[n].key = k
      BY <1>2, <2>3
    <3>2. m < n \/ n < m
      BY <1>2, <3>1
    <3> QED BY <2>2, <3>1, <3>2
  <2> QED BY <1>3, <2>1, <2>3 DEF Twice
<1>4. ASSUME Present PROVE Twice(Final.key)
  <2>1. PICK x \in Settled : x.key = Final.key
    BY <1>4 DEF Present
  <2>2. Len(InHand) \in DOMAIN InHand
    BY <1>2
  <2>3. CASE x \in Held(entries, cap)
    BY <2>1, <2>2, <2>3, InTableHeld DEF Twice, Final
  <2>4. CASE x \in Waiting
    <3>1. PICK n \in 1 .. Len(InHand) - 1 : x = InHand[n]
      BY <2>4 DEF Waiting
    <3>2. n \in DOMAIN InHand /\ n # Len(InHand)
      BY <1>2, FrontInDomain
    <3> QED BY <2>1, <2>2, <3>1, <3>2 DEF Twice, Final
  <2> QED BY <2>1, <2>3, <2>4 DEF Settled
<1> QED BY <1>2, <1>3, <1>4

(* The variables of Dictionary, by what counts. *)
MapOf == [k \in Keys |-> Reads(Contents, k)]
PendingOf == IF pc = "insert" THEN IF Present THEN {Final.key} ELSE {} ELSE NoValue

LEMMA DictView ==
    RInv => /\ [k \in Keys |-> ValueOf(k)] = MapOf
            /\ (IF pc = "insert" THEN {k \in Keys : Twice(k)} ELSE NoValue) = PendingOf
  BY ValueIsRead, TwiceIsPresent DEF MapOf, PendingOf

(* The same after a step. *)
LEMMA DictViewNext ==
    (RInv => /\ [k \in Keys |-> ValueOf(k)] = MapOf
             /\ (IF pc = "insert" THEN {k \in Keys : Twice(k)} ELSE NoValue) = PendingOf)'
  BY DictView, PTL
LEMMA InHandIsNext ==
    (TypeOK =>
        /\ pc # "insert" => InHand = <<>> /\ Len(InHand) = 0
        /\ pc = "insert" =>
              /\ InHand \in Seq(Entry) /\ Len(InHand) = Len(todo) + 1 /\ Len(todo) \in Nat
              /\ InHand[1] = carry
              /\ \A n \in 1 .. Len(todo) : InHand[n + 1] = todo[n]
              /\ Final \in Entry /\ Final = InHand[Len(todo) + 1])'
  BY InHandIs, PTL
LEMMA InTableHeldNext == (\A k : InTable(k) <=> \E x \in Held(entries, cap) : x.key = k)'
  BY InTableHeld, PTL

(* Between insertions what counts is what the table holds. *)
LEMMA AtRestView ==
    TypeOK /\ pc # "insert" =>
        /\ InHandOnce /\ Settled = Held(entries, cap)
        /\ Contents = Held(entries, cap) /\ PendingOf = NoValue
<1> SUFFICES ASSUME TypeOK, pc # "insert"
             PROVE  /\ InHandOnce /\ Settled = Held(entries, cap)
                    /\ Contents = Held(entries, cap) /\ PendingOf = NoValue
  OBVIOUS
<1>1. Len(InHand) = 0
  BY InHandIs
<1>2. InHandOnce /\ Waiting = {}
  BY <1>1 DEF InHandOnce, Waiting
<1> QED BY <1>2 DEF Settled, Contents, PendingOf
LEMMA AtRestViewNext ==
    (TypeOK /\ pc # "insert" =>
        /\ InHandOnce /\ Settled = Held(entries, cap)
        /\ Contents = Held(entries, cap) /\ PendingOf = NoValue)'
  BY AtRestView, PTL

-----------------------------------------------------------------------------
(* The steps of INSERT_AT move entries between the table and the hand. *)

LEMMA InsertingFacts ==
    RInv /\ pc = "insert" =>
        /\ TypeOK /\ cap \in Capacity /\ cap \in Nat /\ entries \in Table(cap)
        /\ Homes \in [Keys -> 0 .. cap - 1] /\ i \in 0 .. cap - 1
        /\ carry \in Entry /\ carry.key \in Keys
        /\ Single(entries, cap) /\ InOrder(entries, cap, Homes)
        /\ Fits(entries, cap, Homes, i, carry.key)
        /\ probe = Ahead(i, Homes[carry.key], cap)
        /\ OneEach(Held(entries, cap)) /\ Held(entries, cap) \subseteq Entry
        /\ todo \in Seq(Entry) /\ Len(todo) \in Nat /\ (todo = <<>> <=> Len(todo) = 0)
        /\ entries[i] # Vacant => entries[i] \in Entry /\ entries[i] \in Held(entries, cap)
<1> SUFFICES ASSUME RInv, pc = "insert"
             PROVE  /\ TypeOK /\ cap \in Capacity /\ cap \in Nat /\ entries \in Table(cap)
                    /\ Homes \in [Keys -> 0 .. cap - 1] /\ i \in 0 .. cap - 1
                    /\ carry \in Entry /\ carry.key \in Keys
                    /\ Single(entries, cap) /\ InOrder(entries, cap, Homes)
                    /\ Fits(entries, cap, Homes, i, carry.key)
                    /\ probe = Ahead(i, Homes[carry.key], cap)
                    /\ OneEach(Held(entries, cap)) /\ Held(entries, cap) \subseteq Entry
                    /\ todo \in Seq(Entry) /\ Len(todo) \in Nat
                    /\ (todo = <<>> <=> Len(todo) = 0)
                    /\ entries[i] # Vacant =>
                          entries[i] \in Entry /\ entries[i] \in Held(entries, cap)
  OBVIOUS
<1>1. HInv /\ TypeOK
  BY DEF RInv, HInv
<1>2. /\ cap \in Capacity /\ cap \in Nat /\ entries \in Table(cap)
      /\ Homes \in [Keys -> 0 .. cap - 1] /\ i \in 0 .. cap - 1
      /\ carry \in Entry /\ carry.key \in Keys /\ todo \in Seq(Entry)
  BY <1>1, ViewDistances, HomesType, EntryFields DEF TypeOK, Slots
<1>3. Single(entries, cap) /\ InOrder(entries, cap, Homes)
  BY <1>1, ViewOrder DEF HInv
<1>4. Fits(entries, cap, Homes, i, carry.key) /\ probe = Ahead(i, Homes[carry.key], cap)
  BY <1>1, ViewCarry DEF HInv
<1>5. OneEach(Held(entries, cap)) /\ Held(entries, cap) \subseteq Entry
  BY <1>2, <1>3, HeldType
<1>6. Len(todo) \in Nat /\ (todo = <<>> <=> Len(todo) = 0)
  BY <1>2, LenProperties
<1>7. entries[i] # Vacant => entries[i] \in Entry /\ entries[i] \in Held(entries, cap)
  BY <1>2, EntryKey DEF Held, Taken
<1> QED BY <1>1, <1>2, <1>3, <1>4, <1>5, <1>6, <1>7

LEMMA CarryIsNew ==
    RInv /\ (Place \/ Displace) => \A x \in Held(entries, cap) : x.key # carry.key
<1> SUFFICES ASSUME RInv, Place \/ Displace, NEW x \in Held(entries, cap)
             PROVE  x.key # carry.key
  OBVIOUS
<1>1. pc = "insert"
  BY DEF Place, Displace
<1>2. \/ entries[i] = Vacant
      \/ entries[i] # Vacant /\ entries[i].key # carry.key /\ ProbeCount(i, entries[i].key) < probe
  BY DEF Place, Displace, Here
<1>3. entries[i] # Vacant =>
          ProbeCount(i, entries[i].key) = Away(entries, cap, Homes, i)
  BY <1>1, InsertingFacts, ViewDistances DEF PC, Occupied, Slots
<1>4. \/ entries[i] = Vacant
      \/ entries[i].key # carry.key /\ Away(entries, cap, Homes, i) < Ahead(i, Homes[carry.key], cap)
  BY <1>1, <1>2, <1>3, InsertingFacts
<1>5. \A s \in 0 .. cap - 1 : entries[s] # Vacant => entries[s].key # carry.key
  BY <1>1, <1>4, InsertingFacts, FitsIsNew
<1> QED BY <1>5 DEF Held, Taken

(* The entries of a list but for its last. *)
FrontOf(q) == {q[n] : n \in 1 .. Len(q) - 1}

LEMMA WaitingIs ==
    TypeOK /\ pc = "insert" =>
        /\ Len(todo) = 0 => Waiting = {} /\ Final = carry
        /\ Len(todo) > 0 => /\ Waiting = {carry} \cup FrontOf(todo)
                            /\ Final = todo[Len(todo)]
<1> SUFFICES ASSUME TypeOK, pc = "insert"
             PROVE  /\ Len(todo) = 0 => Waiting = {} /\ Final = carry
                    /\ Len(todo) > 0 => /\ Waiting = {carry} \cup FrontOf(todo)
                                        /\ Final = todo[Len(todo)]
  OBVIOUS
<1> DEFINE l == Len(todo)
<1>1. /\ l \in Nat /\ Len(InHand) = l + 1 /\ InHand[1] = carry
      /\ \A n \in 1 .. l : InHand[n + 1] = todo[n]
      /\ Final = InHand[l + 1]
  BY InHandIs
<1> HIDE DEF l
<1>2. Waiting = {InHand[n] : n \in 1 .. l}
  <2>1. 1 .. Len(InHand) - 1 = 1 .. l
    BY <1>1
  <2> QED BY <2>1 DEF Waiting
<1>3. ASSUME l = 0 PROVE Waiting = {} /\ Final = carry
  BY <1>1, <1>2, <1>3
<1>4. ASSUME l > 0 PROVE Waiting = {carry} \cup FrontOf(todo) /\ Final = todo[l]
  <2>1. ASSUME NEW n \in 1 .. l PROVE n = 1 \/ (n - 1 \in 1 .. l - 1 /\ InHand[n] = todo[n - 1])
    <3>1. n = 1 \/ n - 1 \in 1 .. l
      BY <1>1
    <3>2. n - 1 \in 1 .. l => InHand[(n - 1) + 1] = todo[n - 1]
      BY <1>1
    <3>3. (n - 1) + 1 = n /\ (n - 1 \in 1 .. l => n - 1 \in 1 .. l - 1)
      BY <1>1
    <3> QED BY <3>1, <3>2, <3>3
  <2>2. ASSUME NEW n \in 1 .. l - 1 PROVE n + 1 \in 1 .. l /\ InHand[n + 1] = todo[n]
    BY <1>1
  <2>3. FrontOf(todo) = {todo[n] : n \in 1 .. l - 1}
    BY DEF FrontOf, l
  <2>4. 1 \in 1 .. l
    BY <1>1, <1>4
  <2>5. Waiting \subseteq {carry} \cup FrontOf(todo)
    BY <1>1, <1>2, <2>1, <2>3
  <2>6. {carry} \cup FrontOf(todo) \subseteq Waiting
    BY <1>1, <1>2, <2>2, <2>3, <2>4
  <2>7. Final = todo[l]
    BY <1>1, <1>4
  <2> QED BY <2>5, <2>6, <2>7
<1> QED BY <1>3, <1>4 DEF l
LEMMA WaitingIsNext ==
    (TypeOK /\ pc = "insert" =>
        /\ Len(todo) = 0 => Waiting = {} /\ Final = carry
        /\ Len(todo) > 0 => /\ Waiting = {carry} \cup FrontOf(todo)
                            /\ Final = todo[Len(todo)])'
  BY WaitingIs, PTL

(* InHandOnce, of the entry in hand and those to come. *)
CarryOnce ==
    /\ \A n \in 1 .. Len(todo) : todo[n].key = carry.key => n = Len(todo)
    /\ Len(todo) > 0 => ~InTable(carry.key)
TodoOnce ==
    /\ \A m, n \in 1 .. Len(todo) : m < n /\ todo[m].key = todo[n].key => n = Len(todo)
    /\ \A n \in 1 .. Len(todo) - 1 : ~InTable(todo[n].key)

LEMMA InHandOnceIs ==
    TypeOK /\ pc = "insert" => (InHandOnce <=> CarryOnce /\ TodoOnce)
<1> SUFFICES ASSUME TypeOK, pc = "insert" PROVE InHandOnce <=> CarryOnce /\ TodoOnce
  OBVIOUS
<1> DEFINE l == Len(todo)
<1>1. /\ l \in Nat /\ Len(InHand) = l + 1 /\ InHand[1] = carry
      /\ \A n \in 1 .. l : InHand[n + 1] = todo[n]
  BY InHandIs
<1> HIDE DEF l
<1>2. ASSUME InHandOnce PROVE CarryOnce /\ TodoOnce
  <2>1. ASSUME NEW n \in 1 .. l, todo[n].key = carry.key PROVE n = l
    <3>1. 1 \in 1 .. l + 1 /\ n + 1 \in 1 .. l + 1 /\ 1 < n + 1
      BY <1>1
    <3>2. InHand[1].key = InHand[n + 1].key
      BY <1>1, <2>1
    <3>3. n + 1 = l + 1
      BY <1>1, <1>2, <3>1, <3>2 DEF InHandOnce
    <3> QED BY <1>1, <3>3
  <2>2. ASSUME l > 0 PROVE ~InTable(carry.key)
    <3>1. 1 \in 1 .. Len(InHand) - 1
      BY <1>1, <2>2
    <3> QED BY <1>1, <1>2, <3>1 DEF InHandOnce
  <2>3. ASSUME NEW m \in 1 .. l, NEW n \in 1 .. l, m < n, todo[m].key = todo[n].key PROVE n = l
    <3>1. m + 1 \in 1 .. l + 1 /\ n + 1 \in 1 .. l + 1 /\ m + 1 < n + 1
      BY <1>1, <2>3
    <3>2. InHand[m + 1].key = InHand[n + 1].key
      BY <1>1, <2>3
    <3>3. n + 1 = l + 1
      BY <1>1, <1>2, <3>1, <3>2 DEF InHandOnce
    <3> QED BY <1>1, <3>3
  <2>4. ASSUME NEW n \in 1 .. l - 1 PROVE ~InTable(todo[n].key)
    <3>1. n \in 1 .. l /\ n + 1 \in 1 .. Len(InHand) - 1
      BY <1>1
    <3>2. ~InTable(InHand[n + 1].key)
      BY <1>2, <3>1 DEF InHandOnce
    <3> QED BY <1>1, <3>1, <3>2
  <2> QED BY <2>1, <2>2, <2>3, <2>4 DEF CarryOnce, TodoOnce, l
<1>3. ASSUME CarryOnce, TodoOnce PROVE InHandOnce
  <2>1. ASSUME NEW n \in 1 .. l + 1
        PROVE  \/ n = 1 /\ InHand[n] = carry
               \/ n - 1 \in 1 .. l /\ InHand[n] = todo[n - 1]
    <3>1. n = 1 \/ (n - 1 \in 1 .. l /\ (n - 1) + 1 = n)
      BY <1>1
    <3> QED BY <1>1, <3>1
  <2>2. ASSUME NEW m \in 1 .. l + 1, NEW n \in 1 .. l + 1, m < n,
               InHand[m].key = InHand[n].key
        PROVE  n = l + 1
    <3>1. n - 1 \in 1 .. l /\ InHand[n] = todo[n - 1]
      BY <1>1, <2>1, <2>2
    <3>2. CASE m = 1
      <4>1. n - 1 = l
        BY <1>1, <1>3, <2>2, <3>1, <3>2 DEF CarryOnce, l
      <4> QED BY <1>1, <4>1
    <3>3. CASE m - 1 \in 1 .. l /\ InHand[m] = todo[m - 1]
      <4>1. m - 1 < n - 1
        BY <1>1, <2>2
      <4>2. n - 1 = l
        BY <1>3, <2>2, <3>1, <3>3, <4>1 DEF TodoOnce, l
      <4> QED BY <1>1, <4>2
    <3> QED BY <2>1, <3>2, <3>3
  <2>3. ASSUME NEW n \in 1 .. l PROVE ~InTable(InHand[n].key)
    <3>1. n \in 1 .. l + 1
      BY <1>1
    <3>2. CASE n = 1
      <4>1. l > 0
        BY <1>1, <3>2
      <4> QED BY <1>1, <1>3, <3>2, <4>1 DEF CarryOnce, l
    <3>3. CASE n - 1 \in 1 .. l /\ InHand[n] = todo[n - 1]
      <4>1. n - 1 \in 1 .. l - 1
        BY <1>1, <3>3
      <4> QED BY <1>3, <3>3, <4>1 DEF TodoOnce, l
    <3> QED BY <2>1, <3>1, <3>2, <3>3
  <2>4. Len(InHand) - 1 = l /\ Len(InHand) = l + 1
    BY <1>1
  <2> QED BY <2>2, <2>3, <2>4 DEF InHandOnce
<1> QED BY <1>2, <1>3
LEMMA InHandOnceIsNext ==
    (TypeOK /\ pc = "insert" => (InHandOnce <=> CarryOnce /\ TodoOnce))'
  BY InHandOnceIs, PTL

LEMMA PlaceMaps ==
    ASSUME RInv, HInv', Place
    PROVE  /\ InHandOnce' /\ Contents' = Contents
           /\ \/ PendingOf' = PendingOf /\ res' = res
              \/ PendingOf = {} /\ PendingOf' = NoValue /\ res' = TRUE
<1> DEFINE held == Held(entries, cap)
           l == Len(todo)
<1>1. /\ TypeOK /\ TypeOK' /\ pc = "insert" /\ cap' = cap /\ cap \in Nat
      /\ entries[i] = Vacant /\ entries' = [entries EXCEPT ![i] = carry]
      /\ todo \in Seq(Entry) /\ l \in Nat /\ (todo = <<>> <=> l = 0)
      /\ OneEach(held)
  BY InsertingFacts DEF Place, Here, RInv, HInv
<1>2. Held(entries', cap') = held \cup {carry}
  <2>1. /\ entries \in Table(cap) /\ Single(entries, cap) /\ i \in 0 .. cap - 1
        /\ carry \in Entry
    BY <1>1, InsertingFacts
  <2> DEFINE f == entries'
  <2>2. /\ f[i] = carry /\ \A t \in (0 .. cap - 1) \ {i} : f[t] = entries[t]
        /\ entries[i] = Vacant /\ cap \in Nat
    BY <1>1, <2>1 DEF Table
  <2> HIDE DEF f
  <2>3. Held(f, cap) = Held(entries, cap) \cup {carry}
    BY <2>1, <2>2, HeldStore
  <2> QED BY <1>1, <2>3 DEF f
<1>3. \A x \in held : x.key # carry.key
  BY CarryIsNew
<1>4. \A k : InTable(k)' <=> InTable(k) \/ k = carry.key
  BY <1>2, InTableHeld, InTableHeldNext
<1>5. CarryOnce /\ TodoOnce
  BY <1>1, InHandOnceIs DEF RInv
<1> HIDE DEF held, l
<1>6. CASE l > 0
  <2>1. /\ carry' = Head(todo) /\ todo' = Tail(todo) /\ pc' = "insert" /\ res' = res
    BY <1>1, <1>6 DEF Place, Returns, StartAt
  <2>2. /\ carry' = todo[1] /\ Len(todo') = l - 1 /\ 1 \in 1 .. l
        /\ \A n \in 1 .. l - 1 : todo'[n] = todo[n + 1]
    BY <1>1, <1>6, <2>1, HeadTailProperties DEF l
  <2>3. CarryOnce'
    <3>1. ASSUME NEW n \in 1 .. l - 1, todo'[n].key = carry'.key PROVE n = l - 1
      <4>1. n + 1 \in 1 .. l /\ 1 < n + 1 /\ todo[1].key = todo[n + 1].key
        BY <1>1, <2>2, <3>1
      <4>2. n + 1 = l
        BY <1>5, <2>2, <4>1 DEF TodoOnce, l
      <4> QED BY <1>1, <4>2
    <3>2. ASSUME l - 1 > 0, NEW k, k = todo[1].key PROVE ~InTable(k)'
      <4>1. 1 \in 1 .. l - 1 /\ 1 # l
        BY <1>1, <3>2
      <4>2. ~InTable(todo[1].key)
        BY <1>5, <4>1 DEF TodoOnce, l
      <4>3. todo[1].key # carry.key
        BY <1>5, <2>2, <4>1 DEF CarryOnce, l
      <4> QED BY <1>4, <3>2, <4>2, <4>3
    <3>3. CarryOnce' <=> /\ \A n \in 1 .. l - 1 : todo'[n].key = carry'.key => n = l - 1
                         /\ l - 1 > 0 => ~InTable(carry.key)'
      BY <2>2 DEF CarryOnce
    <3>4. l - 1 > 0 => ~InTable(carry.key)'
      <4> SUFFICES ASSUME l - 1 > 0 PROVE ~InTable(carry.key)'
        OBVIOUS
      <4>1. PICK k : k = todo[1].key
        OBVIOUS
      <4>2. ~InTable(k)'
        BY <3>2, <4>1
      <4>3. carry'.key = k
        BY <2>2, <4>1
      <4> QED BY <4>2, <4>3 DEF InTable
    <3> QED BY <3>1, <3>3, <3>4
  <2>4. TodoOnce'
    <3>1. ASSUME NEW m \in 1 .. l - 1, NEW n \in 1 .. l - 1, m < n, todo'[m].key = todo'[n].key
          PROVE  n = l - 1
      <4>1. m + 1 \in 1 .. l /\ n + 1 \in 1 .. l /\ m + 1 < n + 1
        BY <1>1, <3>1
      <4>2. n + 1 = l
        BY <1>5, <2>2, <3>1, <4>1 DEF TodoOnce, l
      <4> QED BY <1>1, <4>2
    <3>2. ASSUME NEW n \in 1 .. (l - 1) - 1 PROVE ~InTable(todo[n].key)'
      <4>1. n \in 1 .. l - 1 /\ n + 1 \in 1 .. l - 1 /\ n + 1 \in 1 .. l /\ n + 1 # l
        BY <1>1
      <4>2. PICK k : k = todo[n + 1].key
        OBVIOUS
      <4>3. ~InTable(k) /\ k # carry.key
        BY <1>5, <4>1, <4>2 DEF TodoOnce, CarryOnce, l
      <4>4. ~InTable(k)'
        BY <1>4, <4>3
      <4>5. todo'[n].key = k
        BY <2>2, <4>1, <4>2
      <4> QED BY <4>4, <4>5 DEF InTable
    <3> QED BY <2>2, <3>1, <3>2 DEF TodoOnce
  <2>5. InHandOnce'
    BY <1>1, <2>1, <2>3, <2>4, InHandOnceIsNext
  <2>6. Settled' = Settled /\ Final' = Final
    <3>1. Waiting = {carry} \cup FrontOf(todo) /\ Final = todo[l]
      BY <1>1, <1>6, WaitingIs DEF l
    <3>2. Waiting' = FrontOf(todo) /\ Final' = todo[l]
      <4>1. CASE l = 1
        <5>1. Len(todo') = 0 /\ 1 .. l - 1 = {}
          BY <2>2, <4>1
        <5>2. Waiting' = {} /\ Final' = carry'
          BY <1>1, <2>1, <5>1, WaitingIsNext
        <5> QED BY <2>2, <4>1, <5>1, <5>2 DEF FrontOf, l
      <4>2. CASE l > 1
        <5>1. Len(todo') > 0 /\ Len(todo') \in Nat /\ l - 1 \in 1 .. l - 1
          BY <1>1, <2>2, <4>2
        <5>2. Waiting' = {carry'} \cup FrontOf(todo') /\ Final' = todo'[l - 1]
          BY <1>1, <2>1, <2>2, <5>1, WaitingIsNext
        <5>3. FrontOf(todo') = {todo[n + 1] : n \in 1 .. (l - 1) - 1}
          <6>1. \A n \in 1 .. (l - 1) - 1 : n \in 1 .. l - 1
            BY <1>1
          <6> QED BY <2>2, <6>1 DEF FrontOf
        <5>4. FrontOf(todo) = {todo[1]} \cup {todo[n + 1] : n \in 1 .. (l - 1) - 1}
          <6>1. \A n \in 1 .. (l - 1) - 1 : n + 1 \in 1 .. l - 1
            BY <1>1
          <6>2. \A n \in 1 .. l - 1 : n = 1 \/ (n - 1 \in 1 .. (l - 1) - 1 /\ (n - 1) + 1 = n)
            BY <1>1
          <6>3. 1 \in 1 .. l - 1
            BY <1>1, <4>2
          <6>4. FrontOf(todo) = {todo[n] : n \in 1 .. l - 1}
            BY DEF FrontOf, l
          <6>5. ASSUME NEW n \in 1 .. l - 1
                PROVE  todo[n] \in {todo[1]} \cup {todo[q + 1] : q \in 1 .. (l - 1) - 1}
            BY <6>2
          <6> QED BY <6>1, <6>3, <6>4, <6>5
        <5>5. todo'[l - 1] = todo[l]
          <6>1. (l - 1) + 1 = l
            BY <1>1
          <6> QED BY <2>2, <5>1, <6>1
        <5> QED BY <2>2, <5>2, <5>3, <5>4, <5>5
      <4> QED BY <1>1, <1>6, <4>1, <4>2
    <3>3. Settled' = Held(entries', cap') \cup Waiting'
      BY DEF Settled
    <3> QED BY <1>2, <3>1, <3>2, <3>3 DEF Settled, held
  <2>7. Contents' = Contents /\ PendingOf' = PendingOf
    <3>1. Present' <=> Present
      BY <2>6 DEF Present
    <3> QED BY <1>1, <2>1, <2>6, <3>1 DEF Contents, PendingOf
  <2> QED BY <2>1, <2>5, <2>7
<1>7. CASE l = 0
  <2>1. pc' = "idle" /\ res' = TRUE
    BY <1>1, <1>7 DEF Place, Returns, Rest
  <2>2. InHandOnce' /\ Contents' = held \cup {carry} /\ PendingOf' = NoValue
    BY <1>1, <1>2, <2>1, AtRestViewNext
  <2>3. Settled = held /\ Final = carry
    BY <1>1, <1>7, WaitingIs DEF Settled, held, l
  <2>4. ~Present
    BY <1>3, <2>3 DEF Present
  <2> QED BY <1>1, <2>1, <2>2, <2>3, <2>4 DEF Contents, PendingOf
<1>8. l = 0 \/ l > 0
  BY <1>1
<1> QED BY <1>6, <1>7, <1>8

LEMMA PassOverMaps ==
    ASSUME RInv, HInv', PassOver
    PROVE  InHandOnce' /\ Contents' = Contents /\ PendingOf' = PendingOf /\ res' = res
<1>1. /\ cap' = cap /\ entries' = entries /\ todo' = todo /\ carry' = carry /\ pc' = pc
      /\ res' = res
  BY DEF PassOver, table
<1>2. InHand' = InHand /\ Held(entries', cap') = Held(entries, cap)
  BY <1>1 DEF InHand
<1>3. Waiting' = Waiting /\ Final' = Final
  BY <1>2 DEF Waiting, Final
<1>4. Settled' = Settled /\ (Present' <=> Present)
  BY <1>2, <1>3 DEF Settled, Present
<1>5. Contents' = Contents /\ PendingOf' = PendingOf
  BY <1>1, <1>3, <1>4 DEF Contents, PendingOf
<1>6. InHandOnce' <=> InHandOnce
  BY <1>1, <1>2 DEF InHandOnce, InTable, Slots, Occupied
<1> QED BY <1>1, <1>5, <1>6 DEF RInv

LEMMA DisplaceMaps ==
    ASSUME RInv, HInv', Displace
    PROVE  InHandOnce' /\ Contents' = Contents /\ PendingOf' = PendingOf /\ res' = res
<1> DEFINE held == Held(entries, cap)
           h == entries[i]
           l == Len(todo)
           f == entries'
<1>1. /\ TypeOK /\ TypeOK' /\ pc = "insert" /\ pc' = pc /\ cap' = cap /\ cap \in Nat
      /\ h # Vacant /\ h.key # carry.key /\ f = [entries EXCEPT ![i] = carry]
      /\ carry' = h /\ todo' = todo /\ res' = res
      /\ todo \in Seq(Entry) /\ l \in Nat
      /\ OneEach(held) /\ h \in held
      /\ entries \in Table(cap) /\ Single(entries, cap) /\ i \in 0 .. cap - 1 /\ carry \in Entry
  BY InsertingFacts DEF Displace, Here, RInv, HInv
<1>2. f[i] = carry /\ \A t \in (0 .. cap - 1) \ {i} : f[t] = entries[t]
  BY <1>1 DEF Table
<1>3. Held(entries', cap') = (held \ {h}) \cup {carry}
  <2>1. /\ entries \in Table(cap) /\ Single(entries, cap) /\ i \in 0 .. cap - 1
        /\ carry \in Entry /\ cap \in Nat /\ entries[i] # Vacant
    BY <1>1
  <2> HIDE DEF f
  <2>2. Held(f, cap) = (Held(entries, cap) \ {entries[i]}) \cup {carry}
    BY <1>2, <2>1, HeldStore
  <2> QED BY <1>1, <2>2 DEF f
<1> HIDE DEF f
<1>4. \A x \in held : x.key # carry.key
  BY CarryIsNew
<1>5. \A k : InTable(k)' <=> (InTable(k) /\ k # h.key) \/ k = carry.key
  <2>1. ASSUME NEW k PROVE (\E x \in held \ {h} : x.key = k) <=> (\E x \in held : x.key = k) /\ k # h.key
    BY <1>1 DEF OneEach
  <2>2. ASSUME NEW k PROVE InTable(k)' <=> \E x \in (held \ {h}) \cup {carry} : x.key = k
    BY <1>3, InTableHeldNext
  <2>3. ASSUME NEW k PROVE InTable(k) <=> \E x \in held : x.key = k
    BY InTableHeld
  <2> QED BY <2>1, <2>2, <2>3
<1>6. InTable(h.key)
  BY <1>1, InTableHeld
<1>7. CarryOnce /\ TodoOnce
  BY <1>1, InHandOnceIs DEF RInv
<1> HIDE DEF held, l
<1>8. CarryOnce'
  <2>1. ASSUME NEW n \in 1 .. l, todo[n].key = h.key PROVE n = l
    <3>1. CASE n \in 1 .. l - 1
      BY <1>6, <1>7, <2>1, <3>1 DEF TodoOnce, l
    <3> QED BY <1>1, <3>1, FrontOrLast
  <2>2. PICK k : k = h.key
    OBVIOUS
  <2>3. ~InTable(k)'
    BY <1>1, <1>5, <2>2
  <2>4. ~InTable(carry.key)'
    BY <1>1, <2>2, <2>3 DEF InTable
  <2>5. CarryOnce' <=> /\ \A n \in 1 .. l : todo[n].key = h.key => n = l
                       /\ l > 0 => ~InTable(carry.key)'
    BY <1>1 DEF CarryOnce, l
  <2> QED BY <2>1, <2>4, <2>5
<1>9. TodoOnce'
  <2>1. \A m, n \in 1 .. l : m < n /\ todo[m].key = todo[n].key => n = l
    BY <1>7 DEF TodoOnce, l
  <2>2. ASSUME NEW n \in 1 .. l - 1 PROVE ~InTable(todo[n].key)'
    <3>1. PICK k : k = todo[n].key
      OBVIOUS
    <3>2. n \in 1 .. l /\ n # l
      BY <1>1, FrontInDomain
    <3>3. ~InTable(k) /\ k # carry.key
      BY <1>7, <3>1, <3>2 DEF TodoOnce, CarryOnce, l
    <3>4. ~InTable(k)'
      BY <1>5, <3>3
    <3> QED BY <1>1, <3>1, <3>4 DEF InTable
  <2> QED BY <1>1, <2>1, <2>2 DEF TodoOnce, l
<1>10. InHandOnce'
  BY <1>1, <1>8, <1>9, InHandOnceIsNext
<1>11. Settled' = Held(entries', cap') \cup Waiting'
  BY DEF Settled
<1>12. CASE l > 0
  <2>1. Waiting = {carry} \cup FrontOf(todo) /\ Final = todo[l]
    BY <1>1, <1>12, WaitingIs DEF l
  <2>2. Waiting' = {h} \cup FrontOf(todo) /\ Final' = todo[l]
    BY <1>1, <1>12, WaitingIsNext DEF l
  <2>3. Settled' = Settled /\ Final' = Final
    BY <1>1, <1>3, <1>11, <2>1, <2>2 DEF Settled, held
  <2>4. Present' <=> Present
    BY <2>3 DEF Present
  <2> QED BY <1>1, <1>10, <2>3, <2>4 DEF Contents, PendingOf
<1>13. CASE l = 0
  <2>1. Waiting = {} /\ Final = carry
    BY <1>1, <1>13, WaitingIs DEF l
  <2>2. Waiting' = {} /\ Final' = h
    BY <1>1, <1>13, WaitingIsNext DEF l
  <2>3. Settled = held /\ Settled' = (held \ {h}) \cup {carry}
    BY <1>3, <1>11, <2>1, <2>2 DEF Settled, held
  <2>4. ~Present
    BY <1>4, <2>1, <2>3 DEF Present
  <2>5. ~Present'
    <3>1. \A x \in (held \ {h}) \cup {carry} : x.key # h.key
      BY <1>1 DEF OneEach
    <3>2. Present' <=> \E x \in Settled' : x.key = Final'.key
      BY DEF Present
    <3> QED BY <2>2, <2>3, <3>1, <3>2
  <2>6. Contents = held \cup {carry} /\ Contents' = ((held \ {h}) \cup {carry}) \cup {h}
    BY <1>1, <2>1, <2>2, <2>3, <2>4, <2>5 DEF Contents
  <2>7. Contents' = Contents
    BY <1>1, <2>6
  <2>8. PendingOf' = PendingOf
    BY <1>1, <2>4, <2>5 DEF PendingOf
  <2> QED BY <1>1, <1>10, <2>7, <2>8
<1>14. l = 0 \/ l > 0
  BY <1>1
<1> QED BY <1>12, <1>13, <1>14

LEMMA ReadsChanged ==
    ASSUME NEW E, OneEach(E), NEW x \in E, NEW y, y.key = x.key
    PROVE  \A k : Reads((E \ {x}) \cup {y}, k) = IF k = x.key THEN y.value ELSE Reads(E, k)
<1> DEFINE D == E \ {x}
<1>1. /\ OneEach(D) /\ \A z \in D : z.key # y.key
      /\ \A k : Reads(D, k) = IF k = x.key THEN NoValue ELSE Reads(E, k)
  BY ReadsWithout
<1> HIDE DEF D
<1>2. \A k : Reads(D \cup {y}, k) = IF k = y.key THEN y.value ELSE Reads(D, k)
  BY <1>1, ReadsAdded
<1> QED BY <1>1, <1>2 DEF D

(* A duplicate ends the insertion, for only the last entry in hand has a    *)
(* key that the table has.                                                  *)
LEMMA DuplicateMaps ==
    ASSUME RInv, HInv', Duplicate
    PROVE  /\ InHandOnce' /\ pc' = "idle"
           /\ PendingOf = {carry.key} /\ PendingOf' = NoValue /\ carry.key \in Keys
           /\ \/ ~hasCb /\ MapOf' = MapOf /\ res' = FALSE
              \/ /\ hasCb
                 /\ \E v \in Values, b \in BOOLEAN :
                       MapOf' = [MapOf EXCEPT ![carry.key] = v] /\ res' = b
<1> DEFINE held == Held(entries, cap)
           h == entries[i]
<1>1. /\ TypeOK /\ TypeOK' /\ pc = "insert" /\ cap' = cap /\ cap \in Nat
      /\ h # Vacant /\ h.key = carry.key /\ carry \in Entry /\ carry.key \in Keys
      /\ todo \in Seq(Entry) /\ Len(todo) \in Nat /\ (todo = <<>> <=> Len(todo) = 0)
      /\ OneEach(held) /\ h \in held /\ h \in Entry
      /\ entries \in Table(cap) /\ Single(entries, cap) /\ i \in 0 .. cap - 1
  BY InsertingFacts DEF Duplicate, Here, RInv, HInv
<1>2. todo = <<>>
  <2>1. InTable(carry.key)
    BY <1>1, InTableHeld
  <2>2. CarryOnce
    BY <1>1, InHandOnceIs DEF RInv
  <2> QED BY <1>1, <2>1, <2>2 DEF CarryOnce
<1>3. Waiting = {} /\ Final = carry /\ Settled = held
  BY <1>1, <1>2, WaitingIs DEF Settled
<1>4. Present
  BY <1>1, <1>3 DEF Present
<1>5. Contents = held /\ PendingOf = {carry.key}
  BY <1>1, <1>3, <1>4 DEF Contents, PendingOf
<1>6. ASSUME NEW b, Returns(b) PROVE pc' = "idle" /\ res' = b
  BY <1>2, <1>6 DEF Returns, Rest
<1>7. pc' = "idle"
  BY <1>6 DEF Duplicate
<1>8. InHandOnce' /\ Contents' = Held(entries', cap') /\ PendingOf' = NoValue
  BY <1>1, <1>7, AtRestViewNext
<1>9. CASE ~hasCb
  <2>1. Returns(FALSE) /\ entries' = entries
    BY <1>9 DEF Duplicate
  <2>2. res' = FALSE /\ Contents' = Contents
    BY <1>1, <1>5, <1>6, <1>8, <2>1
  <2>3. MapOf' = MapOf
    BY <2>2 DEF MapOf
  <2> QED BY <1>1, <1>5, <1>7, <1>8, <1>9, <2>2, <2>3
<1>10. CASE hasCb
  <2>1. PICK v \in Values : entries' = [entries EXCEPT ![i].value = v]
    BY <1>10 DEF Duplicate
  <2>2. PICK b \in BOOLEAN : Returns(b)
    BY <1>10 DEF Duplicate
  <2> DEFINE y == [h EXCEPT !.value = v]
             f == entries'
  <2>3. y \in Entry /\ y.key = h.key /\ y.value = v
    BY <1>1 DEF Entry
  <2>4. f[i] = y /\ \A t \in (0 .. cap - 1) \ {i} : f[t] = entries[t]
    BY <1>1, <2>1 DEF Table
  <2>5. entries \in Table(cap) /\ Single(entries, cap) /\ i \in 0 .. cap - 1
        /\ cap \in Nat /\ entries[i] # Vacant
    BY <1>1
  <2> HIDE DEF y, f
  <2>6. Held(f, cap) = (Held(entries, cap) \ {entries[i]}) \cup {y}
    BY <2>3, <2>4, <2>5, HeldStore
  <2> HIDE DEF held, h
  <2>7. Contents' = (held \ {h}) \cup {y}
    BY <1>1, <1>8, <2>6 DEF f, held, h
  <2>8. \A k : Reads((held \ {h}) \cup {y}, k) = IF k = h.key THEN y.value ELSE Reads(held, k)
    BY <1>1, <2>3, ReadsChanged
  <2>9. MapOf' = [k \in Keys |-> Reads(Contents', k)]
    BY DEF MapOf
  <2>10. MapOf' = [MapOf EXCEPT ![carry.key] = v]
    BY <1>1, <1>5, <2>3, <2>7, <2>8, <2>9 DEF MapOf
  <2>11. res' = b
    BY <1>6, <2>2
  <2> QED BY <1>1, <1>5, <1>7, <1>8, <1>10, <2>10, <2>11
<1> QED BY <1>9, <1>10

-----------------------------------------------------------------------------
(* The calls. *)

(* A resize lists every entry once. *)
LEMMA ListedIsHeld ==
    TypeOK /\ KeysOnce =>
        /\ Listed \in Seq(Entry) /\ Len(Listed) \in Nat
        /\ Held(entries, cap) = {Listed[n] : n \in 1 .. Len(Listed)}
        /\ \A m, n \in 1 .. Len(Listed) : Listed[m].key = Listed[n].key => m = n
<1> SUFFICES ASSUME TypeOK, KeysOnce
             PROVE  /\ Listed \in Seq(Entry) /\ Len(Listed) \in Nat
                    /\ Held(entries, cap) = {Listed[n] : n \in 1 .. Len(Listed)}
                    /\ \A m, n \in 1 .. Len(Listed) : Listed[m].key = Listed[n].key => m = n
  OBVIOUS
<1> DEFINE N == Cardinality(Stored)
<1>1. Listed \in Seq(Entry) /\ Len(Listed) = N /\ N \in Nat
  BY ListedIsStored, LenProperties
<1>2. PICK nth \in Bijection(1 .. N, Stored) : \A n \in 1 .. N : Listed[n] = entries[nth[n]]
  BY ListedIsStored
<1> HIDE DEF N
<1>3. nth \in Injection(1 .. N, Stored) /\ nth \in Surjection(1 .. N, Stored)
  BY <1>2 DEF Bijection
<1>4. \A n \in 1 .. N : nth[n] \in Stored
  BY <1>3 DEF Injection
<1>5. \A s \in Stored : \E n \in 1 .. N : nth[n] = s
  BY <1>3 DEF Surjection
<1>6. \A m, n \in 1 .. N : nth[m] = nth[n] => m = n
  BY <1>3 DEF Injection, IsInjective
<1>7. Stored = Taken(entries, cap)
  BY StoredIsTaken
<1>8. Held(entries, cap) = {Listed[n] : n \in 1 .. N}
  BY <1>2, <1>4, <1>5, <1>7 DEF Held
<1>9. ASSUME NEW m \in 1 .. N, NEW n \in 1 .. N, Listed[m].key = Listed[n].key PROVE m = n
  <2>1. nth[m] = nth[n]
    BY <1>2, <1>4, <1>9 DEF KeysOnce, Stored
  <2> QED BY <1>6, <2>1
<1> QED BY <1>1, <1>8, <1>9

LEMMA InsertMaps ==
    ASSUME RInv, HInv', NEW k \in Keys, NEW v \in Values, Insert(k, v)
    PROVE  /\ InHandOnce' /\ pc' = "insert" /\ PendingOf = NoValue /\ res' = NoValue
           /\ \/ MapOf[k] = NoValue /\ MapOf' = [MapOf EXCEPT ![k] = v] /\ PendingOf' = {}
              \/ MapOf[k] # NoValue /\ MapOf' = MapOf /\ PendingOf' = {k}
<1> DEFINE x == [key |-> k, value |-> v]
           held == Held(entries, cap)
<1>1. /\ TypeOK /\ TypeOK' /\ KeysOnce /\ pc = "idle" /\ todo = <<>> /\ cap \in Nat /\ cap # 0
      /\ x \in Entry /\ x.key = k /\ x.value = v
      /\ pc' = "insert" /\ res' = NoValue
      /\ Settled = held /\ Contents = held /\ PendingOf = NoValue
      /\ held \subseteq Entry /\ OneEach(held)
  <2>1. TypeOK /\ TypeOK' /\ KeysOnce /\ pc = "idle" /\ todo = <<>> /\ res' = NoValue
    BY DEF Insert, RInv, HInv, AtRest
  <2>2. pc' = "insert"
    BY DEF Insert, GrowThenInsert, StartAt
  <2>3. Settled = held /\ Contents = held /\ PendingOf = NoValue
    BY <2>1, AtRestView
  <2>4. held \subseteq Entry /\ OneEach(held)
    BY <2>1, <2>3, SettledType
  <2>5. cap \in Nat /\ cap # 0 /\ x \in Entry
    BY <2>1 DEF TypeOK, Entry
  <2> QED BY <2>1, <2>2, <2>3, <2>4, <2>5
<1> HIDE DEF x, held
<1>2. Settled' = held /\ Final' = x /\ InHandOnce'
  <2>1. CASE GrowThenInsert(x)
    <3> DEFINE N == Len(Listed)
               all == Append(Listed, x)
    <3>1. /\ Listed \in Seq(Entry) /\ N \in Nat /\ held = {Listed[n] : n \in 1 .. N}
          /\ \A m, n \in 1 .. N : Listed[m].key = Listed[n].key => m = n
      BY <1>1, ListedIsHeld DEF held
    <3>2. /\ all \in Seq(Entry) /\ Len(all) = N + 1 /\ all[N + 1] = x
          /\ \A n \in 1 .. N : all[n] = Listed[n]
      BY <1>1, <3>1, AppendProperties
    <3>3. /\ cap' = 2 * cap /\ entries' = Vacated(2 * cap)
          /\ carry' = Head(all) /\ todo' = Tail(all)
      BY <2>1 DEF GrowThenInsert, StartAt
    <3> HIDE DEF all
    <3>4. all # <<>>
      BY <3>1, <3>2, LenProperties
    <3>5. /\ carry' = all[1] /\ Len(todo') = N
          /\ \A n \in 1 .. N : todo'[n] = all[n + 1]
      BY <3>1, <3>2, <3>3, <3>4, HeadTailProperties
    <3> HIDE DEF N
    <3>6. /\ Len(InHand') = N + 1 /\ Final' = x
          /\ \A n \in 1 .. N + 1 : InHand'[n] = all[n]
      <4>1. /\ Len(InHand') = N + 1 /\ InHand'[1] = carry' /\ Final' = InHand'[N + 1]
            /\ \A n \in 1 .. N : InHand'[n + 1] = todo'[n]
        BY <1>1, <3>5, InHandIsNext
      <4>2. ASSUME NEW n \in 1 .. N + 1 PROVE InHand'[n] = all[n]
        <5>1. n = 1 \/ (n - 1 \in 1 .. N /\ (n - 1) + 1 = n)
          BY <3>1
        <5>2. CASE n = 1
          BY <3>5, <4>1, <5>2
        <5>3. CASE n - 1 \in 1 .. N /\ (n - 1) + 1 = n
          <6>1. InHand'[(n - 1) + 1] = all[(n - 1) + 1]
            BY <3>5, <4>1, <5>3
          <6> QED BY <5>3, <6>1
        <5> QED BY <5>1, <5>2, <5>3
      <4>3. N + 1 \in 1 .. N + 1
        BY <3>1
      <4> QED BY <3>2, <4>1, <4>2, <4>3
    <3>7. Held(entries', cap') = {}
      <4>1. 2 * cap \in Nat
        BY <1>1
      <4> QED BY <3>3, <4>1, HeldVacated
    <3>8. Len(InHand') - 1 = N
      BY <3>1, <3>6
    <3>9. \A n \in 1 .. N : n \in 1 .. N + 1 /\ InHand'[n] = Listed[n]
      BY <3>1, <3>2, <3>6
    <3>10. Settled' = held
      <4>1. Waiting' = {InHand'[n] : n \in 1 .. Len(InHand') - 1}
        BY DEF Waiting
      <4>2. Waiting' = held
        BY <3>1, <3>8, <3>9, <4>1
      <4> QED BY <3>7, <4>2 DEF Settled
    <3>11. InHandOnce'
      <4>1. ASSUME NEW m \in 1 .. N + 1, NEW n \in 1 .. N + 1, m < n,
                   InHand'[m].key = InHand'[n].key
            PROVE  n = N + 1
        <5>1. CASE n # N + 1
          <6>1. m \in 1 .. N /\ n \in 1 .. N /\ m # n
            BY <3>1, <4>1, <5>1
          <6> QED BY <3>1, <3>9, <4>1, <6>1
        <5> QED BY <5>1
      <4>2. \A y : ~InTable(y)'
        BY <3>7, InTableHeldNext
      <4>3. \A n : ~InTable(InHand[n].key)'
        <5> SUFFICES ASSUME NEW n PROVE ~InTable(InHand[n].key)'
          OBVIOUS
        <5>1. PICK y : y = InHand'[n].key
          OBVIOUS
        <5>2. ~InTable(y)'
          BY <4>2
        <5> QED BY <5>1, <5>2 DEF InTable
      <4> QED BY <3>6, <4>1, <4>3 DEF InHandOnce
    <3> QED BY <3>6, <3>10, <3>11
  <2>2. CASE StartAt(x, cap) /\ UNCHANGED <<cap, entries, todo>>
    <3>1. todo' = <<>> /\ carry' = x /\ entries' = entries /\ cap' = cap /\ Len(todo') = 0
      BY <1>1, <2>2 DEF StartAt
    <3>2. Waiting' = {} /\ Final' = x
      BY <1>1, <3>1, WaitingIsNext
    <3>3. Settled' = held
      BY <3>1, <3>2 DEF Settled, held
    <3>4. CarryOnce' /\ TodoOnce'
      BY <3>1 DEF CarryOnce, TodoOnce
    <3>5. InHandOnce'
      BY <1>1, <3>4, InHandOnceIsNext
    <3> QED BY <3>2, <3>3, <3>5
  <2> QED BY <2>1, <2>2 DEF Insert, x
<1>3. Present' <=> \E y \in held : y.key = k
  BY <1>1, <1>2 DEF Present
<1>4. MapOf = [q \in Keys |-> Reads(held, q)] /\ MapOf' = [q \in Keys |-> Reads(Contents', q)]
  BY <1>1 DEF MapOf
<1>5. \/ Reads(held, k) # NoValue /\ \E y \in held : y.key = k
      \/ Reads(held, k) = NoValue /\ \A y \in held : y.key # k
  BY <1>1, ReadsType
<1>6. CASE Reads(held, k) # NoValue /\ \E y \in held : y.key = k
  <2>1. Contents' = held /\ PendingOf' = {k}
    BY <1>1, <1>2, <1>3, <1>6 DEF Contents, PendingOf
  <2> QED BY <1>1, <1>2, <1>4, <1>6, <2>1
<1>7. CASE Reads(held, k) = NoValue /\ \A y \in held : y.key # k
  <2>1. Contents' = held \cup {x} /\ PendingOf' = {}
    BY <1>1, <1>2, <1>3, <1>7 DEF Contents, PendingOf
  <2>2. \A q : Reads(held \cup {x}, q) = IF q = k THEN v ELSE Reads(held, q)
    BY <1>1, <1>7, ReadsAdded
  <2>3. MapOf' = [MapOf EXCEPT ![k] = v]
    BY <1>4, <2>1, <2>2
  <2> QED BY <1>1, <1>2, <1>4, <1>7, <2>1, <2>3
<1> QED BY <1>5, <1>6, <1>7

(* What FIND_INDEX answers, by what counts. *)
LEMMA FoundIsHeld ==
    ASSUME RInv, pc # "insert", NEW k \in Keys
    PROVE  /\ Found(k) => /\ FindIndex(k) \in Slots /\ Occupied(FindIndex(k))
                          /\ entries[FindIndex(k)].key = k
                          /\ MapOf[k] = entries[FindIndex(k)].value /\ MapOf[k] # NoValue
           /\ ~Found(k) => MapOf[k] = NoValue
<1>1. TypeOK /\ Ordered /\ KeysOnce
  BY DEF RInv, HInv
<1>2. /\ OneEach(Contents) /\ Contents \subseteq Entry
      /\ Contents = Held(entries, cap) /\ MapOf[k] = Reads(Contents, k)
  BY SettledType DEF MapOf
<1>3. ASSUME Found(k)
      PROVE  /\ FindIndex(k) \in Slots /\ Occupied(FindIndex(k))
             /\ entries[FindIndex(k)].key = k
             /\ MapOf[k] = entries[FindIndex(k)].value /\ MapOf[k] # NoValue
  <2>1. /\ FindIndex(k) \in Slots /\ Occupied(FindIndex(k))
        /\ entries[FindIndex(k)].key = k
    BY <1>1, <1>3, FoundIsHere
  <2>2. entries[FindIndex(k)] \in Contents
    BY <1>2, <2>1 DEF Held, Taken, Slots, Occupied
  <2>3. Reads(Contents, k) = entries[FindIndex(k)].value
    BY <1>2, <2>1, <2>2, ReadsHere
  <2>4. entries[FindIndex(k)].value \in Values
    BY <1>2, <2>2 DEF Entry
  <2> QED BY <1>2, <2>1, <2>3, <2>4, NoValueAssumption
<1>4. ASSUME ~Found(k) PROVE MapOf[k] = NoValue
  <2>1. \A s \in Slots : Occupied(s) => entries[s].key # k
    BY <1>1, <1>4, HereIsFound
  <2>2. \A x \in Contents : x.key # k
    BY <1>2, <2>1 DEF Held, Taken, Slots, Occupied
  <2> QED BY <1>2, <2>2, ReadsNothing
<1> QED BY <1>3, <1>4

LEMMA DeleteMaps ==
    ASSUME RInv, HInv', NEW k \in Keys, Delete(k)
    PROVE  /\ InHandOnce' /\ pc' = "idle" /\ PendingOf = NoValue /\ PendingOf' = NoValue
           /\ MapOf' = [MapOf EXCEPT ![k] = NoValue]
           /\ res' = (MapOf[k] # NoValue)
<1>1. /\ TypeOK /\ TypeOK' /\ pc = "idle" /\ pc' = "idle" /\ cap' = cap
      /\ Ordered /\ SomeHome /\ res' = Found(k)
  BY DEF Delete, RInv, HInv, loop
<1>2. /\ InHandOnce' /\ PendingOf = NoValue /\ PendingOf' = NoValue
      /\ Contents = Held(entries, cap) /\ Contents' = Held(entries', cap)
  BY <1>1, AtRestView, AtRestViewNext
<1>3. MapOf = [q \in Keys |-> Reads(Contents, q)] /\ MapOf' = [q \in Keys |-> Reads(Contents', q)]
  BY DEF MapOf
<1>4. CASE Found(k)
  <2> DEFINE s == FindIndex(k)
  <2>1. s \in Slots /\ Occupied(s) /\ entries[s].key = k /\ MapOf[k] # NoValue
    BY <1>1, <1>4, FoundIsHeld
  <2>2. entries' = Without(s)
    BY <1>4 DEF Delete, DeleteIndex
  <2> DEFINE n == ShiftLength(s)
  <2> HIDE DEF s
  <2>3. /\ n \in 1 .. cap /\ ShiftsOver(entries, cap, Homes, s, n)
        /\ Without(s) = Shifted(entries, cap, s, n)
    BY <1>1, <2>1, ShiftLengthIs
  <2>4. /\ cap \in Capacity /\ entries \in Table(cap) /\ Single(entries, cap)
        /\ Homes \in [Keys -> 0 .. cap - 1] /\ s \in 0 .. cap - 1 /\ entries[s] # Vacant
    BY <1>1, <2>1, ViewDistances, ViewOrder, HomesType
       DEF RInv, HInv, TypeOK, Capacity, Slots, Occupied
  <2> HIDE DEF n
  <2>5. /\ Held(Shifted(entries, cap, s, n), cap) = Held(entries, cap) \ {entries[s]}
        /\ entries[s] \in Held(entries, cap)
    BY <2>3, <2>4, HeldShifted
  <2>6. Contents' = Contents \ {entries[s]} /\ entries[s] \in Contents
    BY <1>2, <2>2, <2>3, <2>5
  <2>7. OneEach(Contents)
    BY SettledType
  <2>8. \A q : Reads(Contents \ {entries[s]}, q) = IF q = k THEN NoValue ELSE Reads(Contents, q)
    BY <2>1, <2>6, <2>7, ReadsWithout
  <2>9. MapOf' = [MapOf EXCEPT ![k] = NoValue]
    BY <1>3, <2>6, <2>8
  <2> QED BY <1>1, <1>2, <1>4, <2>1, <2>9
<1>5. CASE ~Found(k)
  <2>1. MapOf[k] = NoValue
    BY <1>1, <1>5, FoundIsHeld
  <2>2. Contents' = Contents
    BY <1>2, <1>5 DEF Delete
  <2>3. MapOf' = [MapOf EXCEPT ![k] = NoValue]
    BY <1>3, <2>1, <2>2
  <2>4. res' = FALSE
    BY <1>1, <1>5 DEF Found
  <2> QED BY <1>1, <1>2, <2>1, <2>3, <2>4
<1> QED BY <1>4, <1>5

(* A step that leaves the table and the hand as they are. *)
LEMMA SameMaps ==
    ASSUME RInv, UNCHANGED <<cap, entries, pc, todo, carry>>
    PROVE  InHandOnce' /\ MapOf' = MapOf /\ PendingOf' = PendingOf
<1>1. InHand' = InHand /\ Held(entries', cap') = Held(entries, cap)
  BY DEF InHand
<1>2. Waiting' = Waiting /\ Final' = Final
  BY <1>1 DEF Waiting, Final
<1>3. Settled' = Settled /\ (Present' <=> Present)
  BY <1>1, <1>2 DEF Settled, Present
<1>4. Contents' = Contents /\ PendingOf' = PendingOf
  BY <1>2, <1>3 DEF Contents, PendingOf
<1>5. InHandOnce' <=> InHandOnce
  BY <1>1 DEF InHandOnce, InTable, Slots, Occupied
<1> QED BY <1>4, <1>5 DEF RInv, MapOf

(* An empty table is the map of nothing. *)
LEMMA EmptyMaps ==
    ASSUME HInv', pc' # "insert", cap' \in Nat, entries' = Vacated(cap')
    PROVE  /\ InHandOnce' /\ MapOf' = [q \in Keys |-> NoValue] /\ PendingOf' = NoValue
           /\ \A s \in Slots' : ~Occupied(s)'
<1>1. TypeOK'
  BY DEF HInv
<1>2. InHandOnce' /\ Contents' = Held(entries', cap') /\ PendingOf' = NoValue
  BY <1>1, AtRestViewNext
<1>3. Contents' = {}
  BY <1>2, HeldVacated
<1>4. \A q : Reads({}, q) = NoValue
  BY ReadsNothing
<1>5. MapOf' = [q \in Keys |-> NoValue]
  BY <1>3, <1>4 DEF MapOf
<1>6. \A s \in Slots' : ~Occupied(s)'
  BY DEF Vacated, Slots, Occupied
<1> QED BY <1>2, <1>5, <1>6

(* So is a table whose slots are all vacant. *)
LEMMA VacantMaps ==
    ASSUME RInv, pc # "insert", \A s \in Slots : ~Occupied(s)
    PROVE  MapOf = [q \in Keys |-> NoValue] /\ PendingOf = NoValue
<1>1. Contents = Held(entries, cap) /\ PendingOf = NoValue
  BY AtRestView DEF RInv, HInv
<1>2. Contents = {}
  BY <1>1 DEF Held, Taken, Slots, Occupied
<1>3. \A q : Reads({}, q) = NoValue
  BY ReadsNothing
<1> QED BY <1>1, <1>2, <1>3 DEF MapOf

-----------------------------------------------------------------------------
(* Every step is one of the dictionary or leaves it as it is. *)

MapSeen == [k \in Keys |-> ValueOf(k)]
PendingSeen == IF pc = "insert" THEN {k \in Keys : Twice(k)} ELSE NoValue

LEMMA Seen == RInv => MapSeen = MapOf /\ PendingSeen = PendingOf
  BY DictView DEF MapSeen, PendingSeen
LEMMA SeenNext == (RInv => MapSeen = MapOf /\ PendingSeen = PendingOf)'
  BY Seen, PTL

(* A set of keys is not NoValue. *)
LEMMA PendingIsSome ==
    ASSUME NEW S \in SUBSET Keys
    PROVE  S # NoValue
  BY NoValueAssumption

DictSeen == <<MapSeen, PendingSeen, res, hasCb, ~canGrow, size, cap, pc # "gone">>

(* A table that is not loaded has more places than its counter says.        *)
LEMMA SizeBelow == HInv /\ ~Loaded => size < cap
<1> SUFFICES ASSUME HInv, size >= cap PROVE Loaded
  BY DEF HInv, TypeOK
<1>1. size \in Nat /\ cap \in Nat
  BY DEF HInv, TypeOK
<1>2. PICK z \in Nat, c \in Nat : z = size /\ c = cap
  BY <1>1
<1>3. z * 100 >= c * LoadFactor
  <2>1. PICK f \in 1 .. 100 : f = LoadFactor
    BY LoadAssumption
  <2>2. z * 100 >= c * 100
    BY <1>2
  <2>3. PICK d \in Nat : d = 100 - f
    BY <2>1
  <2>4. c * 100 = c * f + c * d /\ c * d \in Nat /\ c * f \in Nat
    BY <2>1, <2>3
  <2> QED BY <2>1, <2>2, <2>4
<1> QED BY <1>2, <1>3 DEF Loaded

LEMMA StepMaps ==
    ASSUME RInv, HInv', [Next]_vars
    PROVE  RInv' /\ [Dict!Next]_DictSeen
<1> DEFINE Goal == RInv' /\ [Dict!Next]_DictSeen
<1>1. MapSeen = MapOf /\ PendingSeen = PendingOf
  BY Seen
<1>0. size \in Nat /\ cap \in Nat
  BY DEF RInv, HInv, TypeOK
<1>2. ASSUME InHandOnce', pc' # "gone" PROVE RInv'
  BY <1>2 DEF RInv, GoneIsEmpty
<1>3. ASSUME RInv', MapOf' = MapOf, PendingOf' = PendingOf, res' = res,
             UNCHANGED <<hasCb, canGrow, size, cap>>, (pc' = "gone") <=> (pc = "gone")
      PROVE  Goal
  BY <1>1, <1>3, SeenNext DEF DictSeen
<1>4. ASSUME Place PROVE Goal
  <2>1. /\ InHandOnce' /\ Contents' = Contents
        /\ \/ PendingOf' = PendingOf /\ res' = res
           \/ PendingOf = {} /\ PendingOf' = NoValue /\ res' = TRUE
    BY <1>4, PlaceMaps
  <2>4. UNCHANGED <<hasCb, canGrow, size, cap>> /\ pc # "gone" /\ pc' # "gone"
    BY <1>4 DEF Place, Returns, StartAt, Rest
  <2>2. RInv' /\ MapOf' = MapOf
    <3>1. pc' # "gone"
      BY <1>4 DEF Place, Returns, StartAt, Rest
    <3> QED BY <1>2, <2>1, <3>1 DEF MapOf
  <2>3. CASE PendingOf = {} /\ PendingOf' = NoValue /\ res' = TRUE
    <3>1. MapSeen' = MapSeen /\ PendingSeen = {} /\ PendingSeen' = NoValue
      BY <1>1, <2>2, <2>3, SeenNext
    <3>2. {} # NoValue
      BY PendingIsSome
    <3>3. Dict!InsertReturns
      BY <2>3, <2>4, <3>1, <3>2 DEF Dict!InsertReturns, MapSeen, PendingSeen
    <3> QED BY <2>2, <3>3 DEF Dict!Next
  <2> QED BY <1>3, <2>1, <2>2, <2>3, <2>4
<1>5. ASSUME Duplicate PROVE Goal
  <2>1. /\ InHandOnce' /\ pc' = "idle"
        /\ PendingOf = {carry.key} /\ PendingOf' = NoValue /\ carry.key \in Keys
    BY <1>5, DuplicateMaps
  <2>2. \/ ~hasCb /\ MapOf' = MapOf /\ res' = FALSE
        \/ /\ hasCb
           /\ \E v \in Values, b \in BOOLEAN :
                 MapOf' = [MapOf EXCEPT ![carry.key] = v] /\ res' = b
    BY <1>5, DuplicateMaps
  <2>7. UNCHANGED <<hasCb, canGrow, size, cap>> /\ pc # "gone"
    BY <1>5 DEF Duplicate
  <2>3. RInv'
    BY <1>2, <2>1
  <2>4. /\ MapSeen' = MapOf' /\ PendingSeen = {carry.key} /\ PendingSeen' = NoValue
        /\ PendingSeen # NoValue /\ PendingSeen # {}
    BY <1>1, <2>1, <2>3, SeenNext, PendingIsSome
  <2>5. CASE ~hasCb /\ MapOf' = MapOf /\ res' = FALSE
    <3>1. Dict!InsertReturns
      BY <1>1, <2>1, <2>4, <2>5, <2>7 DEF Dict!InsertReturns, MapSeen, PendingSeen
    <3> QED BY <2>3, <3>1 DEF Dict!Next
  <2>6. CASE /\ hasCb
             /\ \E v \in Values, b \in BOOLEAN :
                   MapOf' = [MapOf EXCEPT ![carry.key] = v] /\ res' = b
    <3>1. PICK v \in Values, b \in BOOLEAN :
              MapSeen' = [MapSeen EXCEPT ![carry.key] = v] /\ res' = b
      BY <1>1, <2>4, <2>6
    <3>2. Dict!CallbackReturns
      BY <2>1, <2>4, <2>6, <2>7, <3>1 DEF Dict!CallbackReturns, MapSeen, PendingSeen
    <3> QED BY <2>3, <3>2 DEF Dict!Next
  <2> QED BY <2>2, <2>5, <2>6
<1>6. ASSUME Displace PROVE Goal
  <2>1. InHandOnce' /\ Contents' = Contents /\ PendingOf' = PendingOf /\ res' = res
    BY <1>6, DisplaceMaps
  <2>2. RInv' /\ MapOf' = MapOf
    BY <1>2, <1>6, <2>1 DEF Displace, MapOf
  <2>3. UNCHANGED <<hasCb, canGrow, size, cap, pc>>
    BY <1>6 DEF Displace
  <2> QED BY <1>3, <2>1, <2>2, <2>3
<1>7. ASSUME PassOver PROVE Goal
  <2>1. InHandOnce' /\ Contents' = Contents /\ PendingOf' = PendingOf /\ res' = res
    BY <1>7, PassOverMaps
  <2>2. RInv' /\ MapOf' = MapOf
    BY <1>2, <1>7, <2>1 DEF PassOver, MapOf
  <2>3. UNCHANGED <<hasCb, canGrow, size, cap, pc>>
    BY <1>7 DEF PassOver, table
  <2> QED BY <1>3, <2>1, <2>2, <2>3
<1>8. ASSUME NEW k \in Keys, NEW v \in Values, Insert(k, v) PROVE Goal
  <2>1. /\ InHandOnce' /\ pc' = "insert" /\ PendingOf = NoValue /\ res' = NoValue
        /\ \/ MapOf[k] = NoValue /\ MapOf' = [MapOf EXCEPT ![k] = v] /\ PendingOf' = {}
           \/ MapOf[k] # NoValue /\ MapOf' = MapOf /\ PendingOf' = {k}
    BY <1>8, InsertMaps
  <2>2. RInv'
    BY <1>2, <2>1
  <2>3. MapSeen' = MapOf' /\ PendingSeen' = PendingOf'
    BY <2>2, SeenNext
  <2>5. Dict!LetIn
    <3>1. /\ pc = "idle" /\ size' = size + 1 /\ UNCHANGED <<hasCb, canGrow>>
          /\ \/ canGrow /\ cap' = 2 * cap
             \/ cap' = cap /\ (~Loaded \/ size < cap)
      BY <1>8 DEF Insert, GrowThenInsert
    <3>2. ~Loaded => size < cap
      BY SizeBelow DEF RInv
    <3> QED BY <1>0, <1>1, <2>1, <3>1, <3>2 DEF Dict!LetIn, Dict!Idle, PendingSeen
  <2>4. Dict!InsertNew(k, v) \/ Dict!InsertPresent(k)
    BY <1>1, <2>1, <2>3, <2>5 DEF Dict!InsertNew, Dict!InsertPresent, MapSeen, PendingSeen
  <2> QED BY <2>2, <2>4 DEF Dict!Next
<1>9. ASSUME NEW k \in Keys, NEW v \in Values, InsertRefused(k, v) PROVE Goal
  <2>1. /\ UNCHANGED <<cap, entries, pc, todo, carry, hasCb, canGrow, size>> /\ pc = "idle"
        /\ ~canGrow /\ size >= cap /\ res' = FALSE
    BY <1>9 DEF InsertRefused, table, loop
  <2>2. InHandOnce' /\ MapOf' = MapOf /\ PendingOf' = PendingOf
    BY <2>1, SameMaps
  <2>3. RInv' /\ PendingOf = NoValue
    BY <1>2, <2>1, <2>2 DEF PendingOf
  <2>4. Dict!InsertRefused
    BY <1>1, <2>1, <2>2, <2>3, SeenNext DEF Dict!InsertRefused, Dict!Idle, MapSeen, PendingSeen
  <2> QED BY <2>3, <2>4 DEF Dict!Next
<1>10. ASSUME NEW k \in Keys, Find(k) PROVE Goal
  <2>1. UNCHANGED <<cap, entries, pc, todo, carry, hasCb, canGrow, size>> /\ pc = "idle"
    BY <1>10 DEF Find, table, loop
  <2>2. InHandOnce' /\ MapOf' = MapOf /\ PendingOf' = PendingOf
    BY <2>1, SameMaps
  <2>3. RInv' /\ PendingOf = NoValue
    BY <1>2, <2>1, <2>2 DEF PendingOf
  <2>4. res' = MapOf[k]
    BY <1>10, <2>1, FoundIsHeld DEF Find
  <2>5. Dict!Find(k)
    BY <1>1, <2>1, <2>2, <2>3, <2>4, SeenNext DEF Dict!Find, Dict!Idle, MapSeen, PendingSeen
  <2> QED BY <2>3, <2>5 DEF Dict!Next
<1>11. ASSUME NEW k \in Keys, Delete(k) PROVE Goal
  <2>1. /\ InHandOnce' /\ pc' = "idle" /\ PendingOf = NoValue /\ PendingOf' = NoValue
        /\ MapOf' = [MapOf EXCEPT ![k] = NoValue]
        /\ res' = (MapOf[k] # NoValue)
    BY <1>11, DeleteMaps
  <2>2. RInv'
    BY <1>2, <2>1
  <2>4. /\ UNCHANGED <<cap, canGrow, hasCb>> /\ pc = "idle"
        /\ size' = IF MapOf[k] # NoValue THEN size - 1 ELSE size
    BY <1>11, FoundIsHeld DEF Delete, DeleteIndex
  <2>3. Dict!Delete(k)
    BY <1>1, <2>1, <2>2, <2>4, SeenNext DEF Dict!Delete, Dict!Idle, MapSeen, PendingSeen
  <2> QED BY <2>2, <2>3 DEF Dict!Next
<1>12. ASSUME NEW n \in InitCap .. MaxCap, Resize(n) PROVE Goal
  <2>1. /\ pc = "idle" /\ pc' = "idle" /\ res' = res /\ cap' = n /\ entries' = Vacated(cap')
        /\ \A s \in Slots : ~Occupied(s)
        /\ n > cap /\ UNCHANGED <<size, canGrow, hasCb>>
    BY <1>12 DEF Resize, loop, Occupied
  <2>2. n \in Nat
    BY CapAssumption, MaxCapAssumption
  <2>3. InHandOnce' /\ MapOf' = MapOf /\ PendingOf' = PendingOf
    BY <2>1, <2>2, EmptyMaps, VacantMaps
  <2>4. RInv' /\ MapOf = [q \in Keys |-> NoValue] /\ PendingOf = NoValue
    BY <1>2, <2>1, <2>3, VacantMaps
  <2>5. Dict!Resize
    BY <1>1, <2>1, <2>3, <2>4, SeenNext
       DEF Dict!Resize, Dict!Idle, Dict!Nothing, MapSeen, PendingSeen
  <2> QED BY <2>4, <2>5 DEF Dict!Next
<1>13. ASSUME SetDuplicateCb PROVE Goal
  <2>1. /\ UNCHANGED <<cap, entries, pc, todo, carry, size, canGrow, res>>
        /\ pc = "idle" /\ hasCb' = TRUE
    BY <1>13 DEF SetDuplicateCb, loop
  <2>2. InHandOnce' /\ MapOf' = MapOf /\ PendingOf' = PendingOf
    BY <2>1, SameMaps
  <2>3. RInv' /\ PendingOf = NoValue
    BY <1>2, <2>1, <2>2 DEF PendingOf
  <2>4. Dict!SetDuplicateCb
    BY <1>1, <2>1, <2>2, <2>3, SeenNext
       DEF Dict!SetDuplicateCb, Dict!Idle, MapSeen, PendingSeen
  <2> QED BY <2>3, <2>4 DEF Dict!Next
<1>14. ASSUME Destroy PROVE Goal
  <2>1. /\ pc = "idle" /\ pc' = "gone" /\ res' = NoValue /\ cap' = cap
        /\ entries' = Vacated(cap') /\ cap' \in Nat
        /\ UNCHANGED <<size, canGrow, hasCb>>
    BY <1>14 DEF Destroy, RInv, HInv, TypeOK
  <2>2. /\ InHandOnce' /\ MapOf' = [k \in Keys |-> NoValue] /\ PendingOf' = NoValue
        /\ GoneIsEmpty'
    BY <2>1, EmptyMaps DEF GoneIsEmpty
  <2>3. RInv' /\ PendingOf = NoValue
    BY <2>1, <2>2 DEF PendingOf, RInv
  <2>4. Dict!Destroy
    BY <1>1, <2>1, <2>2, <2>3, SeenNext
       DEF Dict!Destroy, Dict!Idle, Dict!Nothing, MapSeen, PendingSeen
  <2> QED BY <2>3, <2>4 DEF Dict!Next
<1>15. ASSUME New PROVE Goal
  <2>1. /\ pc = "gone" /\ pc' = "idle" /\ res' = res /\ cap' = InitCap
        /\ entries' = Vacated(cap') /\ cap' \in Nat
        /\ \A s \in Slots : ~Occupied(s)
        /\ size' = 0 /\ canGrow' \in BOOLEAN /\ hasCb' = FALSE
    BY <1>15, CapAssumption DEF New, RInv, GoneIsEmpty
  <2>2. InHandOnce' /\ MapOf' = MapOf /\ PendingOf' = PendingOf
    BY <2>1, EmptyMaps, VacantMaps
  <2>3. RInv'
    BY <1>2, <2>1, <2>2
  <2>4. Dict!New
    BY <1>1, <2>1, <2>2, <2>3, SeenNext DEF Dict!New, MapSeen, PendingSeen
  <2> QED BY <2>3, <2>4 DEF Dict!Next
<1>16. ASSUME UNCHANGED vars PROVE Goal
  <2>1. UNCHANGED <<cap, entries, pc, todo, carry, res, hasCb, canGrow, size>>
    BY <1>16 DEF vars
  <2>2. InHandOnce' /\ MapOf' = MapOf /\ PendingOf' = PendingOf
    BY <2>1, SameMaps
  <2>3. GoneIsEmpty'
    BY <2>1 DEF RInv, GoneIsEmpty, Slots, Occupied
  <2> QED BY <1>3, <2>1, <2>2, <2>3 DEF RInv
<1> HIDE DEF Goal
<1>17. Goal
  BY <1>4, <1>5, <1>6, <1>7, <1>8, <1>9, <1>10, <1>11, <1>12, <1>13, <1>14, <1>15, <1>16
     DEF Next, InsertStep
<1> QED BY <1>17 DEF Goal

(* The refinement: whatever the hash function, what a caller of the table   *)
(* sees is a map, and INSERT, FIND and DELETE answer as a map would.        *)
THEOREM TableIsADictionary == Spec => ImplementsDictionary
<1>1. Init => RInv /\ Dict!Init
  <2> SUFFICES ASSUME Init PROVE RInv /\ Dict!Init
    OBVIOUS
  <2>1. HInv
    BY InitHolds
  <2>2. /\ pc = "idle" /\ res = NoValue /\ \A s \in Slots : ~Occupied(s)
        /\ hasCb = FALSE /\ canGrow \in BOOLEAN /\ size = 0 /\ cap \in Nat
    BY CapAssumption DEF Init, Occupied
  <2>3. RInv
    BY <2>1, <2>2, AtRestView DEF RInv, HInv, GoneIsEmpty
  <2>4. MapSeen = [k \in Keys |-> NoValue] /\ PendingSeen = NoValue
    BY <2>2, <2>3, VacantMaps, Seen
  <2> QED BY <2>2, <2>3, <2>4 DEF Dict!Init, Dict!Nothing, MapSeen, PendingSeen
<1>2. RInv /\ [Next]_vars => RInv' /\ [Dict!Next]_(Dict!dvars)
  <2> SUFFICES ASSUME RInv, [Next]_vars PROVE RInv' /\ [Dict!Next]_(Dict!dvars)
    OBVIOUS
  <2>1. HInv'
    BY NextKeeps DEF RInv
  <2>2. RInv' /\ [Dict!Next]_DictSeen
    BY <2>1, StepMaps
  <2> QED BY <2>2 DEF Dict!dvars, DictSeen, MapSeen, PendingSeen
<1> QED
  BY <1>1, <1>2, PTL DEF Spec, ImplementsDictionary, Dict!Spec

-----------------------------------------------------------------------------
(* A loop over the table whose body inserts and deletes. *)

(* Where the keys are: a set of pairs of a key and a slot.                  *)
Pairs(e, c) == {<<e[s].key, s>> : s \in Taken(e, c)}
Places == Pairs(entries, cap) \cup (IF pc = "insert" THEN {<<carry.key, i>>} ELSE {})

(* The keys of K that pairs P have up to slot l, and after it.              *)
Early(P, K, l) == {k \in K : \E s \in 0 .. l : <<k, s>> \in P}
Late(P, K, l, c) == {k \in K : \E s \in l + 1 .. c - 1 : <<k, s>> \in P}

(* Of the keys in D, whose turn is to come, at most g are behind the loop,  *)
(* and of those in H, which had theirs, at most g are ahead.                *)
AtMost(P, D, H, l, c, g) ==
    Cardinality(Early(P, D, l)) <= g /\ Cardinality(Late(P, H, l, c)) <= g

(* From slot n on, slots T are taken up to the end of the table; up to l.   *)
GoesRound(T, n, c) == n .. c - 1 \subseteq T
GoesPast(T, n, l, c) ==
    IF n <= l THEN n .. l \subseteq T ELSE (n .. c - 1) \cup (0 .. l) \subseteq T

(* An entry in hand that may yet be carried over the end of the table, or   *)
(* past the loop, has not been counted.                                     *)
Allowed(P, D, H, l, c, g, T, n) ==
    /\ GoesRound(T, n, c) => Cardinality(Early(P, D, l)) < g
    /\ GoesPast(T, n, l, c) => Cardinality(Late(P, H, l, c)) < g

EachType ==
    /\ cap = InitCap /\ todo = <<>> /\ hasCb = FALSE
    /\ each.at \in -1 .. cap /\ each.changes \in Nat
    /\ each = [at |-> each.at, due |-> each.due, had |-> each.had, changes |-> each.changes]
    /\ IsFiniteSet(each.due) /\ IsFiniteSet(each.had)

EachCounts ==
    /\ each.at = cap => Cardinality(each.due) <= each.changes
    /\ each.at \in 0 .. cap - 1 =>
          /\ \A k \in each.due : \E s \in 0 .. cap - 1 : <<k, s>> \in Places
          /\ AtMost(Places, each.due, each.had, each.at, cap, each.changes)
          /\ pc = "insert" =>
                Allowed(Places, each.due, each.had, each.at, cap, each.changes,
                        Taken(entries, cap), i)

EachInv == HInv /\ EachType /\ EachCounts

LEMMA CountSubset ==
    ASSUME NEW S, IsFiniteSet(S), NEW T, T \subseteq S
    PROVE  /\ IsFiniteSet(T) /\ Cardinality(T) \in Nat /\ Cardinality(S) \in Nat
           /\ Cardinality(T) <= Cardinality(S)
  BY FS_Subset, FS_CardinalityType

LEMMA CountOneMore ==
    ASSUME NEW S, IsFiniteSet(S), NEW x, NEW T, T \subseteq S \cup {x}
    PROVE  /\ IsFiniteSet(T) /\ Cardinality(T) \in Nat /\ Cardinality(S) \in Nat
           /\ Cardinality(T) <= Cardinality(S) + 1
<1>1. /\ IsFiniteSet(S \cup {x}) /\ Cardinality(S) \in Nat
      /\ Cardinality(S \cup {x}) <= Cardinality(S) + 1
  <2>1. /\ IsFiniteSet(S \cup {x})
        /\ Cardinality(S \cup {x}) = IF x \in S THEN Cardinality(S) ELSE Cardinality(S) + 1
    BY FS_AddElement
  <2>2. Cardinality(S) \in Nat
    BY FS_CardinalityType
  <2> QED BY <2>1, <2>2
<1>2. /\ IsFiniteSet(T) /\ Cardinality(T) \in Nat /\ Cardinality(S \cup {x}) \in Nat
      /\ Cardinality(T) <= Cardinality(S \cup {x})
  BY <1>1, CountSubset
<1> QED BY <1>1, <1>2

LEMMA CountedAreFinite ==
    ASSUME NEW P, NEW K, IsFiniteSet(K), NEW l, NEW c
    PROVE  /\ IsFiniteSet(Early(P, K, l)) /\ Cardinality(Early(P, K, l)) \in Nat
           /\ IsFiniteSet(Late(P, K, l, c)) /\ Cardinality(Late(P, K, l, c)) \in Nat
  BY CountSubset DEF Early, Late

(* An entry that moves from slot n to the next, which is taken like n, is   *)
(* one more behind the loop only if it goes over the end of the table, and  *)
(* one more ahead only if it goes past the loop; it does neither twice,     *)
(* because there is a free slot.                                            *)
LEMMA MovesOn ==
    ASSUME NEW c \in Nat \ {0, 1}, NEW n \in 0 .. c - 1, NEW l \in 0 .. c - 1, NEW g \in Nat,
           NEW T, n \in T, \E v \in 0 .. c - 1 : v \notin T,
           NEW D, IsFiniteSet(D), NEW H, IsFiniteSet(H),
           NEW P, NEW Q, NEW x, <<x, n>> \in P, Q \subseteq P \cup {<<x, After(n, c)>>},
           AtMost(P, D, H, l, c, g), Allowed(P, D, H, l, c, g, T, n)
    PROVE  AtMost(Q, D, H, l, c, g) /\ Allowed(Q, D, H, l, c, g, T, After(n, c))
<1> DEFINE m == After(n, c)
           a == Early(P, D, l)
           b == Late(P, H, l, c)
           a2 == Early(Q, D, l)
           b2 == Late(Q, H, l, c)
<1>1. /\ IsFiniteSet(a) /\ IsFiniteSet(b) /\ IsFiniteSet(a2) /\ IsFiniteSet(b2)
      /\ Cardinality(a) \in Nat /\ Cardinality(b) \in Nat
      /\ Cardinality(a2) \in Nat /\ Cardinality(b2) \in Nat
      /\ Cardinality(a) <= g /\ Cardinality(b) <= g
  BY CountedAreFinite DEF AtMost
<1>2. /\ m \in 0 .. c - 1
      /\ (n = c - 1 /\ m = 0) \/ (n < c - 1 /\ m = n + 1)
  BY DEF After
<1>3. a2 \subseteq a \cup {x}
  BY DEF Early
<1>4. b2 \subseteq b \cup {x}
  BY DEF Late
<1>5. ASSUME ~(n = c - 1 /\ l < c - 1) PROVE a2 \subseteq a
  <2>1. SUFFICES ASSUME NEW k \in D, NEW s \in 0 .. l, <<k, s>> \in Q
                 PROVE  \E t \in 0 .. l : <<k, t>> \in P
    BY DEF Early
  <2>2. CASE <<k, s>> \in P
    BY <2>2
  <2>3. CASE k = x /\ s = m
    <3>1. n \in 0 .. l
      BY <1>2, <1>5, <2>3
    <3> QED BY <2>3, <3>1
  <2> QED BY <2>1, <2>2, <2>3
<1>6. ASSUME ~(n = l /\ m > l) PROVE b2 \subseteq b
  <2>1. SUFFICES ASSUME NEW k \in H, NEW s \in l + 1 .. c - 1, <<k, s>> \in Q
                 PROVE  \E t \in l + 1 .. c - 1 : <<k, t>> \in P
    BY DEF Late
  <2>2. CASE <<k, s>> \in P
    BY <2>2
  <2>3. CASE k = x /\ s = m
    <3>1. n \in l + 1 .. c - 1
      BY <1>2, <1>6, <2>3
    <3> QED BY <2>3, <3>1
  <2> QED BY <2>1, <2>2, <2>3
<1>7. ASSUME 0 .. c - 1 \subseteq T PROVE FALSE
  BY <1>7
<1>8. GoesRound(T, m, c) => n < c - 1 /\ GoesRound(T, n, c)
  <2>1. SUFFICES ASSUME m .. c - 1 \subseteq T PROVE n < c - 1 /\ n .. c - 1 \subseteq T
    BY DEF GoesRound
  <2>2. m # 0
    BY <1>7, <2>1
  <2>3. n < c - 1 /\ m = n + 1
    BY <1>2, <2>2
  <2>4. \A s \in n .. c - 1 : s = n \/ s \in m .. c - 1
    BY <2>3
  <2> QED BY <2>1, <2>3, <2>4
<1>9. n = c - 1 => GoesRound(T, n, c)
  BY DEF GoesRound
<1>10. GoesPast(T, m, l, c) => n # l /\ GoesPast(T, n, l, c)
  <2>1. SUFFICES ASSUME GoesPast(T, m, l, c) PROVE n # l /\ GoesPast(T, n, l, c)
    OBVIOUS
  <2>2. n # l
    <3>1. SUFFICES ASSUME n = l PROVE FALSE
      OBVIOUS
    <3>2. CASE n = c - 1
      BY <1>2, <1>7, <2>1, <3>1, <3>2 DEF GoesPast
    <3>3. CASE n < c - 1
      <4>1. m = l + 1 /\ (m .. c - 1) \cup (0 .. l) \subseteq T
        BY <1>2, <2>1, <3>1, <3>3 DEF GoesPast
      <4>2. \A s \in 0 .. c - 1 : s \in m .. c - 1 \/ s \in 0 .. l
        BY <4>1
      <4> QED BY <1>7, <4>1, <4>2
    <3> QED BY <1>2, <3>2, <3>3
  <2>3. CASE n < l
    <3>1. m = n + 1 /\ m .. l \subseteq T
      BY <1>2, <2>1, <2>3 DEF GoesPast
    <3>2. \A s \in n .. l : s = n \/ s \in m .. l
      BY <3>1
    <3>3. n .. l \subseteq T
      BY <3>1, <3>2
    <3> QED BY <2>2, <2>3, <3>3 DEF GoesPast
  <2>4. CASE n > l /\ n < c - 1
    <3>1. m = n + 1 /\ m .. c - 1 \subseteq T /\ 0 .. l \subseteq T
      BY <1>2, <2>1, <2>4 DEF GoesPast
    <3>2. \A s \in n .. c - 1 : s = n \/ s \in m .. c - 1
      BY <3>1
    <3>3. (n .. c - 1) \cup (0 .. l) \subseteq T
      BY <3>1, <3>2
    <3> QED BY <2>2, <2>4, <3>3 DEF GoesPast
  <2>5. CASE n > l /\ n = c - 1
    <3>1. 0 .. l \subseteq T
      BY <1>2, <2>1, <2>5 DEF GoesPast
    <3>2. (n .. c - 1) \cup (0 .. l) \subseteq T
      BY <2>5, <3>1
    <3> QED BY <2>2, <2>5, <3>2 DEF GoesPast
  <2> QED BY <2>2, <2>3, <2>4, <2>5
<1>11. n = l => GoesPast(T, n, l, c)
  BY DEF GoesPast
<1>12. (GoesRound(T, n, c) => Cardinality(a) < g) /\ (GoesPast(T, n, l, c) => Cardinality(b) < g)
  BY DEF Allowed
<1> HIDE DEF m, a, b, a2, b2
<1>13. Cardinality(a2) <= g /\ (GoesRound(T, m, c) => Cardinality(a2) < g)
  <2>1. CASE n = c - 1 /\ l < c - 1
    <3>1. Cardinality(a) < g /\ ~GoesRound(T, m, c)
      BY <1>8, <1>9, <1>12, <2>1
    <3>2. Cardinality(a2) <= Cardinality(a) + 1
      BY <1>1, <1>3, CountOneMore
    <3> QED BY <1>1, <3>1, <3>2
  <2>2. CASE ~(n = c - 1 /\ l < c - 1)
    <3>1. Cardinality(a2) <= Cardinality(a)
      BY <1>1, <1>5, <2>2, CountSubset
    <3> QED BY <1>1, <1>8, <1>12, <3>1
  <2> QED BY <2>1, <2>2
<1>14. Cardinality(b2) <= g /\ (GoesPast(T, m, l, c) => Cardinality(b2) < g)
  <2>1. CASE n = l /\ m > l
    <3>1. Cardinality(b) < g /\ ~GoesPast(T, m, l, c)
      BY <1>10, <1>11, <1>12, <2>1
    <3>2. Cardinality(b2) <= Cardinality(b) + 1
      BY <1>1, <1>4, CountOneMore
    <3> QED BY <1>1, <3>1, <3>2
  <2>2. CASE ~(n = l /\ m > l)
    <3>1. Cardinality(b2) <= Cardinality(b)
      BY <1>1, <1>6, <2>2, CountSubset
    <3> QED BY <1>1, <1>10, <1>12, <3>1
  <2> QED BY <2>1, <2>2
<1> QED BY <1>13, <1>14 DEF AtMost, Allowed, m, a2, b2

-----------------------------------------------------------------------------
(* Where the keys are, after each call. *)

LEMMA PairsAre ==
    ASSUME NEW e, NEW c, NEW k, NEW s
    PROVE  <<k, s>> \in Pairs(e, c) <=> s \in 0 .. c - 1 /\ e[s] # Vacant /\ e[s].key = k
  BY DEF Pairs, Taken

(* Displacing an entry puts the one in hand in its place. *)
LEMMA PairsStore ==
    ASSUME NEW c \in Nat, NEW e \in Table(c), NEW n \in 0 .. c - 1, NEW x \in Entry,
           NEW f, f[n] = x, \A t \in (0 .. c - 1) \ {n} : f[t] = e[t]
    PROVE  /\ Pairs(f, c) \subseteq Pairs(e, c) \cup {<<x.key, n>>}
           /\ <<x.key, n>> \in Pairs(f, c)
           /\ \A p \in Pairs(e, c) : p \in Pairs(f, c) \/ (e[n] # Vacant /\ p = <<e[n].key, n>>)
<1>1. x # Vacant
  BY EntryFields
<1>2. ASSUME NEW s \in Taken(f, c) PROVE <<f[s].key, s>> \in Pairs(e, c) \cup {<<x.key, n>>}
  <2>1. CASE s = n
    BY <2>1
  <2>2. CASE s # n
    <3>1. s \in Taken(e, c) /\ f[s] = e[s]
      BY <2>2 DEF Taken
    <3> QED BY <3>1 DEF Pairs
  <2> QED BY <2>1, <2>2
<1>3. n \in Taken(f, c)
  BY <1>1 DEF Taken
<1>4. ASSUME NEW s \in Taken(e, c)
      PROVE  <<e[s].key, s>> \in Pairs(f, c) \/ (e[n] # Vacant /\ <<e[s].key, s>> = <<e[n].key, n>>)
  <2>1. CASE s = n
    BY <2>1 DEF Taken
  <2>2. CASE s # n
    <3>1. s \in Taken(f, c) /\ f[s] = e[s]
      BY <2>2 DEF Taken
    <3> QED BY <3>1 DEF Pairs
  <2> QED BY <2>1, <2>2
<1> QED BY <1>2, <1>3, <1>4 DEF Pairs

(* The back-shift of a deletion moves entries to the slot before, and takes *)
(* the deleted one alone.                                                   *)
LEMMA PairsShifted ==
    ASSUME NEW c \in Capacity, NEW h \in [Keys -> 0 .. c - 1], NEW e \in Table(c),
           NEW s \in 0 .. c - 1, NEW n \in 1 .. c, ShiftsOver(e, c, h, s, n)
    PROVE  /\ \A k, t : <<k, t>> \in Pairs(Shifted(e, c, s, n), c) =>
                  <<k, t>> \in Pairs(e, c) \/ <<k, After(t, c)>> \in Pairs(e, c)
           /\ \A k, t : <<k, t>> \in Pairs(e, c) /\ t # s =>
                  \E u \in 0 .. c - 1 : <<k, u>> \in Pairs(Shifted(e, c, s, n), c)
<1> DEFINE f == Shifted(e, c, s, n)
<1>1. \A t \in 0 .. c - 1 : f[t] # Vacant =>
          \/ After(t, c) \in 0 .. c - 1 /\ e[After(t, c)] # Vacant /\ f[t] = e[After(t, c)]
          \/ e[t] # Vacant /\ f[t] = e[t]
  BY ShiftedFrom
<1>2. \A t \in 0 .. c - 1 : t # s => \E u \in 0 .. c - 1 : f[u] = e[t]
  BY ShiftedTo
<1> HIDE DEF f
<1>3. ASSUME NEW k, NEW t, <<k, t>> \in Pairs(f, c)
      PROVE  <<k, t>> \in Pairs(e, c) \/ <<k, After(t, c)>> \in Pairs(e, c)
  <2>1. t \in 0 .. c - 1 /\ f[t] # Vacant /\ f[t].key = k
    BY <1>3, PairsAre
  <2>2. CASE After(t, c) \in 0 .. c - 1 /\ e[After(t, c)] # Vacant /\ f[t] = e[After(t, c)]
    BY <2>1, <2>2, PairsAre
  <2>3. CASE e[t] # Vacant /\ f[t] = e[t]
    BY <2>1, <2>3, PairsAre
  <2> QED BY <1>1, <2>1, <2>2, <2>3
<1>4. ASSUME NEW k, NEW t, <<k, t>> \in Pairs(e, c), t # s
      PROVE  \E u \in 0 .. c - 1 : <<k, u>> \in Pairs(f, c)
  <2>1. t \in 0 .. c - 1 /\ e[t] # Vacant /\ e[t].key = k
    BY <1>4, PairsAre
  <2>2. PICK u \in 0 .. c - 1 : f[u] = e[t]
    BY <1>2, <1>4, <2>1
  <2> QED BY <2>1, <2>2, PairsAre
<1> QED BY <1>3, <1>4 DEF f

(* It brings one key at most back past the loop, from the slot after it,    *)
(* and one over the end of the table, from slot 0.                          *)
LEMMA ShiftCounts ==
    ASSUME NEW c \in Nat \ {0, 1}, NEW e, NEW l \in 0 .. c - 1, NEW g \in Nat,
           NEW D, IsFiniteSet(D), NEW H, IsFiniteSet(H), NEW k,
           NEW Q, \A x, t : <<x, t>> \in Q =>
                      <<x, t>> \in Pairs(e, c) \/ <<x, After(t, c)>> \in Pairs(e, c),
           AtMost(Pairs(e, c), D, H, l, c, g)
    PROVE  AtMost(Q, D \ {k}, H \ {k}, l, c, g + 1)
<1> DEFINE P == Pairs(e, c)
<1>1. /\ IsFiniteSet(Early(P, D, l)) /\ Cardinality(Early(P, D, l)) \in Nat
      /\ IsFiniteSet(Late(P, H, l, c)) /\ Cardinality(Late(P, H, l, c)) \in Nat
      /\ Cardinality(Early(P, D, l)) <= g /\ Cardinality(Late(P, H, l, c)) <= g
  BY CountedAreFinite DEF AtMost
<1>2. ASSUME NEW x \in Early(Q, D \ {k}, l)
      PROVE  x \in Early(P, D, l) \cup {e[After(l, c)].key}
  <2>1. x \in D
    BY DEF Early
  <2>2. PICK t \in 0 .. l : <<x, t>> \in Q
    BY DEF Early
  <2>3. CASE <<x, t>> \in P
    BY <2>1, <2>3 DEF Early
  <2>4. CASE <<x, After(t, c)>> \in P /\ t < l
    <3>1. After(t, c) \in 0 .. l
      BY <2>4 DEF After
    <3> QED BY <2>1, <2>4, <3>1 DEF Early
  <2>5. CASE <<x, After(t, c)>> \in P /\ t = l
    <3>1. x = e[After(l, c)].key
      BY <2>5, PairsAre
    <3> QED BY <3>1
  <2>6. t < l \/ t = l
    OBVIOUS
  <2> QED BY <2>2, <2>3, <2>4, <2>5, <2>6
<1>3. ASSUME NEW x \in Late(Q, H \ {k}, l, c)
      PROVE  x \in Late(P, H, l, c) \cup {e[0].key}
  <2>1. x \in H
    BY DEF Late
  <2>2. PICK t \in l + 1 .. c - 1 : <<x, t>> \in Q
    BY DEF Late
  <2>3. CASE <<x, t>> \in P
    BY <2>1, <2>3 DEF Late
  <2>4. CASE <<x, After(t, c)>> \in P /\ t < c - 1
    <3>1. After(t, c) \in l + 1 .. c - 1
      BY <2>4 DEF After
    <3> QED BY <2>1, <2>4, <3>1 DEF Late
  <2>5. CASE <<x, After(t, c)>> \in P /\ t = c - 1
    <3>1. After(t, c) = 0
      BY <2>5 DEF After
    <3>2. x = e[0].key
      BY <2>5, <3>1, PairsAre
    <3> QED BY <3>2
  <2>6. t < c - 1 \/ t = c - 1
    OBVIOUS
  <2> QED BY <2>2, <2>3, <2>4, <2>5, <2>6
<1> HIDE DEF P
<1>4. Cardinality(Early(Q, D \ {k}, l)) <= Cardinality(Early(P, D, l)) + 1
      /\ Cardinality(Early(Q, D \ {k}, l)) \in Nat
  BY <1>1, <1>2, CountOneMore
<1>5. Cardinality(Late(Q, H \ {k}, l, c)) <= Cardinality(Late(P, H, l, c)) + 1
      /\ Cardinality(Late(Q, H \ {k}, l, c)) \in Nat
  BY <1>1, <1>3, CountOneMore
<1> QED BY <1>1, <1>4, <1>5 DEF AtMost

-----------------------------------------------------------------------------
(* The loop's count is kept by every step. *)

LEMMA InsertStepCounts ==
    ASSUME EachInv, InsertStep, UNCHANGED each
    PROVE  EachInv'
<1>1. HInv'
  BY PlaceKeeps, DuplicateKeeps, DisplaceKeeps, PassOverKeeps DEF EachInv, InsertStep
<1>2. /\ HInv /\ TypeOK /\ pc = "insert" /\ EachType /\ EachCounts
      /\ cap' = cap /\ hasCb' = hasCb
  BY DEF EachInv, HInv, InsertStep, Place, Duplicate, Displace, PassOver, table
<1>3. /\ cap \in Nat \ {0, 1} /\ cap \in Nat /\ entries \in Table(cap) /\ i \in 0 .. cap - 1
      /\ carry \in Entry /\ todo = <<>> /\ hasCb = FALSE /\ (i + 1) % cap = After(i, cap)
  BY <1>2, ViewDistances, ModAfter DEF TypeOK, EachType, Slots
<1>4. /\ \E v \in 0 .. cap - 1 : v \notin Taken(entries, cap)
      /\ Places = Pairs(entries, cap) \cup {<<carry.key, i>>}
  BY <1>2, RoomLeavesAVacancy DEF Taken, Places
<1>5. todo' = <<>> /\ (Place \/ Duplicate => pc' = "idle")
  BY <1>2, <1>3 DEF InsertStep, Place, Duplicate, Displace, PassOver, Returns, Rest
<1>6. EachType'
  BY <1>2, <1>5 DEF EachType
<1>7. ASSUME pc' = "idle", Places' = Places PROVE EachInv'
  BY <1>1, <1>2, <1>6, <1>7 DEF EachCounts, EachInv
<1>8. ASSUME pc' = "insert", i' = After(i, cap), Taken(entries', cap) = Taken(entries, cap),
             i \in Taken(entries, cap),
             NEW x, <<x, i>> \in Places, <<x, After(i, cap)>> \in Places',
             Places' \subseteq Places \cup {<<x, After(i, cap)>>},
             \A p \in Places : p \in Places' \/ p = <<x, i>>
      PROVE  EachInv'
  <2>1. SUFFICES ASSUME each.at \in 0 .. cap - 1
                 PROVE  /\ \A k \in each.due : \E s \in 0 .. cap - 1 : <<k, s>> \in Places'
                        /\ AtMost(Places', each.due, each.had, each.at, cap, each.changes)
                        /\ Allowed(Places', each.due, each.had, each.at, cap, each.changes,
                                   Taken(entries, cap), After(i, cap))
    BY <1>1, <1>2, <1>6, <1>8 DEF EachCounts, EachInv
  <2>2. /\ \A k \in each.due : \E s \in 0 .. cap - 1 : <<k, s>> \in Places
        /\ AtMost(Places, each.due, each.had, each.at, cap, each.changes)
        /\ Allowed(Places, each.due, each.had, each.at, cap, each.changes,
                   Taken(entries, cap), i)
        /\ IsFiniteSet(each.due) /\ IsFiniteSet(each.had) /\ each.changes \in Nat
    BY <1>2, <2>1 DEF EachCounts, EachType
  <2>3. ASSUME NEW k \in each.due PROVE \E s \in 0 .. cap - 1 : <<k, s>> \in Places'
    <3>1. PICK s \in 0 .. cap - 1 : <<k, s>> \in Places
      BY <2>2
    <3>2. CASE <<k, s>> \in Places'
      BY <3>2
    <3>3. CASE k = x
      <4>1. After(i, cap) \in 0 .. cap - 1
        BY <1>3, AfterType
      <4> QED BY <1>8, <3>3, <4>1
    <3> QED BY <1>8, <3>1, <3>2, <3>3
  <2>4. PICK P, Q, T, D, H, l, g :
            /\ P = Places /\ Q = Places' /\ T = Taken(entries, cap)
            /\ D = each.due /\ H = each.had /\ l = each.at /\ g = each.changes
    OBVIOUS
  <2>5. /\ l \in 0 .. cap - 1 /\ g \in Nat /\ IsFiniteSet(D) /\ IsFiniteSet(H)
        /\ i \in T /\ \E v \in 0 .. cap - 1 : v \notin T
        /\ <<x, i>> \in P /\ Q \subseteq P \cup {<<x, After(i, cap)>>}
        /\ AtMost(P, D, H, l, cap, g) /\ Allowed(P, D, H, l, cap, g, T, i)
    BY <1>4, <1>8, <2>1, <2>2, <2>4
  <2>6. AtMost(Q, D, H, l, cap, g) /\ Allowed(Q, D, H, l, cap, g, T, After(i, cap))
    BY <1>3, <2>5, MovesOn
  <2> QED BY <2>3, <2>4, <2>6
<1>9. CASE Place
  <2>1. /\ entries[i] = Vacant /\ entries' = [entries EXCEPT ![i] = carry] /\ pc' = "idle"
    BY <1>5, <1>9 DEF Place, Here
  <2>2. entries'[i] = carry /\ \A t \in (0 .. cap - 1) \ {i} : entries'[t] = entries[t]
    BY <1>3, <2>1, StoreIn
  <2>3. PICK f : f = entries'
    OBVIOUS
  <2>4. /\ Pairs(f, cap) \subseteq Pairs(entries, cap) \cup {<<carry.key, i>>}
        /\ <<carry.key, i>> \in Pairs(f, cap)
        /\ \A p \in Pairs(entries, cap) : p \in Pairs(f, cap)
    BY <1>3, <2>1, <2>2, <2>3, PairsStore
  <2>5. Places' = Pairs(f, cap)
    BY <1>2, <2>1, <2>3 DEF Places
  <2> QED BY <1>4, <1>7, <2>1, <2>4, <2>5
<1>10. CASE Duplicate
  <2>1. entries' = entries /\ pc' = "idle" /\ entries[i] # Vacant /\ entries[i].key = carry.key
    BY <1>3, <1>5, <1>10 DEF Duplicate, Here
  <2>2. <<carry.key, i>> \in Pairs(entries, cap)
    BY <1>3, <2>1, PairsAre
  <2>3. Places' = Pairs(entries, cap)
    BY <1>2, <2>1 DEF Places
  <2> QED BY <1>4, <1>7, <2>1, <2>2, <2>3
<1>11. CASE Displace
  <2>1. /\ entries[i] # Vacant /\ entries' = [entries EXCEPT ![i] = carry] /\ pc' = "insert"
        /\ carry' = entries[i] /\ i' = After(i, cap)
    BY <1>2, <1>3, <1>11 DEF Displace, Here
  <2>2. entries'[i] = carry /\ \A t \in (0 .. cap - 1) \ {i} : entries'[t] = entries[t]
    BY <1>3, <2>1, StoreIn
  <2>3. PICK f : f = entries'
    OBVIOUS
  <2>4. /\ Pairs(f, cap) \subseteq Pairs(entries, cap) \cup {<<carry.key, i>>}
        /\ <<carry.key, i>> \in Pairs(f, cap)
        /\ \A p \in Pairs(entries, cap) :
              p \in Pairs(f, cap) \/ (entries[i] # Vacant /\ p = <<entries[i].key, i>>)
    BY <1>3, <2>2, <2>3, PairsStore
  <2>5. Places' = Pairs(f, cap) \cup {<<entries[i].key, After(i, cap)>>}
    BY <1>2, <2>1, <2>3 DEF Places
  <2>6. <<entries[i].key, i>> \in Pairs(entries, cap) /\ i \in Taken(entries, cap)
    BY <1>3, <2>1, PairsAre DEF Taken
  <2>7. Taken(entries', cap) = Taken(entries, cap)
    BY <1>3, <2>1, TakenStore
  <2>8. /\ <<entries[i].key, i>> \in Places
        /\ <<entries[i].key, After(i, cap)>> \in Places'
        /\ Places' \subseteq Places \cup {<<entries[i].key, After(i, cap)>>}
        /\ \A p \in Places : p \in Places' \/ p = <<entries[i].key, i>>
    BY <1>4, <2>4, <2>5, <2>6
  <2> QED BY <1>8, <2>1, <2>6, <2>7, <2>8
<1>12. CASE PassOver
  <2>1. /\ entries[i] # Vacant /\ entries' = entries /\ pc' = "insert"
        /\ carry' = carry /\ i' = After(i, cap)
    BY <1>2, <1>3, <1>12 DEF PassOver, Here, table
  <2>2. Places' = Pairs(entries, cap) \cup {<<carry.key, After(i, cap)>>}
    BY <1>2, <2>1 DEF Places
  <2>3. i \in Taken(entries, cap) /\ Taken(entries', cap) = Taken(entries, cap)
    BY <1>3, <2>1 DEF Taken
  <2>4. /\ <<carry.key, i>> \in Places
        /\ <<carry.key, After(i, cap)>> \in Places'
        /\ Places' \subseteq Places \cup {<<carry.key, After(i, cap)>>}
        /\ \A p \in Places : p \in Places' \/ p = <<carry.key, i>>
    BY <1>4, <2>2
  <2> QED BY <1>8, <2>1, <2>3, <2>4
<1> QED BY <1>9, <1>10, <1>11, <1>12 DEF InsertStep

(* What the loop's advance looks for. *)
LEMMA NextEntryIs ==
    ASSUME cap \in Nat, NEW n \in 0 .. cap
    PROVE  \/ NextEntry(n) = cap /\ \A s \in n .. cap - 1 : entries[s] = Vacant
           \/ /\ NextEntry(n) \in n .. cap - 1 /\ entries[NextEntry(n)] # Vacant
              /\ \A s \in n .. cap - 1 : s < NextEntry(n) => entries[s] = Vacant
<1> DEFINE ahead == {s \in n .. cap - 1 : entries[s] # Vacant}
<1>1. CASE ahead = {}
  BY <1>1 DEF NextEntry
<1>2. CASE ahead # {}
  <2>1. \E x \in ahead : \A y \in ahead : x <= y
    <3>1. ahead \subseteq Nat
      OBVIOUS
    <3> HIDE DEF ahead
    <3> QED BY <1>2, <3>1, LeastNumber
  <2>2. NextEntry(n) = CHOOSE x \in ahead : \A y \in ahead : x <= y
    BY <1>2 DEF NextEntry
  <2>3. NextEntry(n) \in ahead /\ \A y \in ahead : NextEntry(n) <= y
    BY <2>1, <2>2
  <2>4. PICK m : m = NextEntry(n)
    OBVIOUS
  <2>5. m \in n .. cap - 1 /\ entries[m] # Vacant /\ \A y \in ahead : m <= y
    BY <2>3, <2>4
  <2>6. \A s \in n .. cap - 1 : s < m => entries[s] = Vacant
    BY <2>5
  <2> QED BY <2>4, <2>5, <2>6
<1> QED BY <1>1, <1>2

(* The loop goes on from slot l, where D was still to come and H had had    *)
(* their turn: what it leaves behind on the way is nothing.                 *)
LEMMA AtCounts ==
    ASSUME HInv, EachType, pc = "idle", UNCHANGED vars,
           NEW l \in -1 .. cap - 1, NEW D, IsFiniteSet(D), NEW H, IsFiniteSet(H), NEW g \in Nat,
           \A k \in D : \E s \in 0 .. cap - 1 : <<k, s>> \in Pairs(entries, cap),
           AtMost(Pairs(entries, cap), D, H, l, cap, g),
           At(NextEntry(l + 1), D, H, g)
    PROVE  EachInv'
<1>1. TypeOK /\ KeysOnce /\ cap \in Nat \ {0, 1} /\ cap \in Nat /\ entries \in Table(cap)
  BY ViewDistances DEF HInv, TypeOK
<1>2. HInv' /\ cap' = cap /\ pc' = "idle" /\ entries' = entries /\ todo' = todo /\ hasCb' = hasCb
  BY SameTable DEF vars, loop, HInv, TypeOK
<1>3. PICK m : m = NextEntry(l + 1)
  OBVIOUS
<1>4. \/ m = cap /\ \A s \in l + 1 .. cap - 1 : entries[s] = Vacant
      \/ /\ m \in l + 1 .. cap - 1 /\ entries[m] # Vacant
         /\ \A s \in l + 1 .. cap - 1 : s < m => entries[s] = Vacant
  <2>1. l + 1 \in 0 .. cap
    BY <1>1
  <2> QED BY <1>1, <1>3, <2>1, NextEntryIs
<1>5. PICK P : P = Pairs(entries, cap)
  OBVIOUS
<1>6. Places' = P
  BY <1>2, <1>5 DEF Places
<1>7. /\ IsFiniteSet(Early(P, D, l)) /\ Cardinality(Early(P, D, l)) \in Nat
      /\ IsFiniteSet(Late(P, H, l, cap)) /\ Cardinality(Late(P, H, l, cap)) \in Nat
      /\ Cardinality(Early(P, D, l)) <= g /\ Cardinality(Late(P, H, l, cap)) <= g
  BY <1>5, CountedAreFinite DEF AtMost
<1>8. CASE m = cap /\ \A s \in l + 1 .. cap - 1 : entries[s] = Vacant
  <2>1. each' = [at |-> cap, due |-> D, had |-> H, changes |-> g]
    <3>1. D \ {} = D /\ H \cup {} = H
      OBVIOUS
    <3> QED BY <1>3, <1>8, <3>1 DEF At
  <2>2. D \subseteq Early(P, D, l)
    <3>1. SUFFICES ASSUME NEW k \in D PROVE \E s \in 0 .. l : <<k, s>> \in P
      BY DEF Early
    <3>2. PICK s \in 0 .. cap - 1 : <<k, s>> \in P
      BY <1>5
    <3>3. entries[s] # Vacant
      BY <1>5, <3>2, PairsAre
    <3>4. s \in 0 .. l
      BY <1>8, <3>3
    <3> QED BY <3>2, <3>4
  <2>3. Cardinality(D) <= g
    BY <1>7, <2>2, CountSubset
  <2>4. /\ each'.at = cap /\ each'.due = D /\ each'.had = H /\ each'.changes = g
    BY <2>1
  <2>5. EachType'
    BY <1>1, <1>2, <2>1, <2>4 DEF EachType
  <2>6. EachCounts'
    BY <1>1, <1>2, <2>3, <2>4 DEF EachCounts
  <2> QED BY <1>2, <2>5, <2>6 DEF EachInv
<1>9. CASE /\ m \in l + 1 .. cap - 1 /\ entries[m] # Vacant
           /\ \A s \in l + 1 .. cap - 1 : s < m => entries[s] = Vacant
  <2> DEFINE k0 == entries[m].key
             D2 == D \ {k0}
             H2 == H \cup {k0}
  <2>1. each' = [at |-> m, due |-> D2, had |-> H2, changes |-> g]
    <3>1. m # cap
      BY <1>1, <1>9
    <3> QED BY <1>3, <3>1 DEF At
  <2>2. \A k, s : <<k, s>> \in P => s \in 0 .. cap - 1 /\ entries[s] # Vacant /\ entries[s].key = k
    BY <1>5, PairsAre
  <2>3. ASSUME NEW s, <<k0, s>> \in P PROVE s = m
    BY <1>1, <1>9, <2>2, <2>3 DEF KeysOnce, Slots, Occupied
  <2> HIDE DEF k0
  <2>4. Early(P, D2, m) \subseteq Early(P, D, l)
    <3>1. SUFFICES ASSUME NEW k \in D2, NEW s \in 0 .. m, <<k, s>> \in P
                   PROVE  \E t \in 0 .. l : <<k, t>> \in P
      BY DEF Early
    <3>2. s # m
      BY <2>2, <3>1 DEF k0
    <3>3. s \in 0 .. l
      BY <1>9, <2>2, <3>1, <3>2
    <3> QED BY <3>1, <3>3
  <2>5. Late(P, H2, m, cap) \subseteq Late(P, H, l, cap)
    <3>1. SUFFICES ASSUME NEW k \in H2, NEW s \in m + 1 .. cap - 1, <<k, s>> \in P
                   PROVE  k \in H /\ \E t \in l + 1 .. cap - 1 : <<k, t>> \in P
      BY DEF Late
    <3>2. k # k0
      BY <1>9, <2>3, <3>1
    <3>3. s \in l + 1 .. cap - 1
      BY <1>9, <3>1
    <3> QED BY <3>1, <3>2, <3>3
  <2>6. Cardinality(Early(P, D2, m)) <= g /\ Cardinality(Late(P, H2, m, cap)) <= g
    <3>1. /\ Cardinality(Early(P, D2, m)) \in Nat
          /\ Cardinality(Early(P, D2, m)) <= Cardinality(Early(P, D, l))
      BY <1>7, <2>4, CountSubset
    <3>2. /\ Cardinality(Late(P, H2, m, cap)) \in Nat
          /\ Cardinality(Late(P, H2, m, cap)) <= Cardinality(Late(P, H, l, cap))
      BY <1>7, <2>5, CountSubset
    <3> QED BY <1>7, <3>1, <3>2
  <2>7. IsFiniteSet(D2) /\ IsFiniteSet(H2)
    <3>1. D2 \subseteq D
      OBVIOUS
    <3> QED BY <3>1, CountSubset, FS_AddElement
  <2>8. \A k \in D2 : \E s \in 0 .. cap - 1 : <<k, s>> \in P
    BY <1>5
  <2> HIDE DEF D2, H2
  <2>9. /\ each'.at = m /\ each'.due = D2 /\ each'.had = H2 /\ each'.changes = g
    BY <2>1
  <2>10. m \in 0 .. cap - 1 /\ m # cap
    BY <1>1, <1>9
  <2>11. EachType'
    BY <1>1, <1>2, <2>1, <2>7, <2>9, <2>10 DEF EachType
  <2>12. EachCounts'
    BY <1>2, <1>6, <2>6, <2>8, <2>9, <2>10 DEF EachCounts, AtMost
  <2> QED BY <1>2, <2>11, <2>12 DEF EachInv
<1> QED BY <1>4, <1>8, <1>9

(* A call that changes the table is counted, and its key is not.            *)
LEMMA ChangesAre ==
    ASSUME EachType, NEW k, Changes(k), UNCHANGED <<cap, hasCb>>, todo' = todo
    PROVE  /\ EachType'
           /\ each.at \notin Slots => each' = each
           /\ each.at \in Slots =>
                 /\ each'.at = each.at /\ each'.changes = each.changes + 1
                 /\ each'.due = each.due \ {k} /\ each'.had = each.had \ {k}
<1>1. CASE each.at \notin Slots
  BY <1>1 DEF Changes, Running, EachType
<1>2. CASE each.at \in Slots
  <2>1. each = [at |-> each.at, due |-> each.due, had |-> each.had, changes |-> each.changes]
    BY DEF EachType
  <2>2. each' = [at |-> each.at, due |-> each.due \ {k}, had |-> each.had \ {k},
                 changes |-> each.changes + 1]
    BY <1>2, <2>1 DEF Changes, Running
  <2>3. /\ each'.at = each.at /\ each'.changes = each.changes + 1
        /\ each'.due = each.due \ {k} /\ each'.had = each.had \ {k}
    BY <2>2
  <2>4. each' = [at |-> each'.at, due |-> each'.due, had |-> each'.had, changes |-> each'.changes]
    BY <2>2, <2>3
  <2>5. IsFiniteSet(each'.due) /\ IsFiniteSet(each'.had) /\ each'.changes \in Nat
    <3>1. each'.due \subseteq each.due /\ each'.had \subseteq each.had
      BY <2>3
    <3> QED BY <2>3, <3>1, CountSubset DEF EachType
  <2> QED BY <1>2, <2>3, <2>4, <2>5 DEF EachType
<1> QED BY <1>1, <1>2

(* Between calls and loops there is nothing to count. *)
LEMMA NotRunningCounts ==
    ASSUME EachInv, EachType', HInv', each.at \notin Slots, each' = each, cap' = cap
    PROVE  EachInv'
  BY DEF EachInv, EachCounts, Slots

LEMMA InsertCounts ==
    ASSUME MaxCap < 2 * InitCap,
           EachInv, NEW k \in Keys, NEW v \in Values, Insert(k, v), Changes(k)
    PROVE  EachInv'
<1>1. HInv' /\ HInv /\ TypeOK /\ EachType /\ EachCounts /\ pc = "idle"
  BY InsertKeeps DEF EachInv, HInv, Insert
<1>2. /\ cap' = cap /\ hasCb' = hasCb /\ entries' = entries /\ todo' = todo
      /\ pc' = "insert" /\ carry'.key = k
  <2>1. ~(2 * cap <= MaxCap)
    BY <1>1, CapAssumption, MaxCapAssumption DEF EachType
  <2> QED BY <2>1 DEF Insert, StartAt
<1>3. /\ EachType'
      /\ each.at \notin Slots => each' = each
      /\ each.at \in Slots =>
            /\ each'.at = each.at /\ each'.changes = each.changes + 1
            /\ each'.due = each.due \ {k} /\ each'.had = each.had \ {k}
  BY <1>1, <1>2, ChangesAre
<1>4. CASE each.at \notin Slots
  BY <1>1, <1>2, <1>3, <1>4, NotRunningCounts
<1>5. CASE each.at \in Slots
  <2>1. PICK P, D, H, l, g, Q :
            /\ P = Pairs(entries, cap) /\ D = each.due /\ H = each.had /\ l = each.at
            /\ g = each.changes /\ Q = Places'
    OBVIOUS
  <2>2. cap \in Nat /\ l \in 0 .. cap - 1 /\ l # cap /\ Places = P
    BY <1>1, <1>5, <2>1 DEF Slots, TypeOK, Places
  <2>3. /\ IsFiniteSet(D) /\ IsFiniteSet(H) /\ g \in Nat
        /\ \A x \in D : \E s \in 0 .. cap - 1 : <<x, s>> \in P
        /\ AtMost(P, D, H, l, cap, g)
    BY <1>1, <2>1, <2>2 DEF EachType, EachCounts
  <2>4. Q = P \cup {<<k, i'>>}
    BY <1>2, <2>1 DEF Places
  <2>5. Early(Q, D \ {k}, l) \subseteq Early(P, D, l)
    BY <2>4 DEF Early
  <2>6. Late(Q, H \ {k}, l, cap) \subseteq Late(P, H, l, cap)
    BY <2>4 DEF Late
  <2>7. /\ Cardinality(Early(Q, D \ {k}, l)) \in Nat /\ Cardinality(Early(Q, D \ {k}, l)) <= g
        /\ Cardinality(Late(Q, H \ {k}, l, cap)) \in Nat
        /\ Cardinality(Late(Q, H \ {k}, l, cap)) <= g
    <3>1. /\ IsFiniteSet(Early(P, D, l)) /\ Cardinality(Early(P, D, l)) \in Nat
          /\ IsFiniteSet(Late(P, H, l, cap)) /\ Cardinality(Late(P, H, l, cap)) \in Nat
          /\ Cardinality(Early(P, D, l)) <= g /\ Cardinality(Late(P, H, l, cap)) <= g
      BY <2>3, CountedAreFinite DEF AtMost
    <3>2. /\ Cardinality(Early(Q, D \ {k}, l)) \in Nat
          /\ Cardinality(Early(Q, D \ {k}, l)) <= Cardinality(Early(P, D, l))
      BY <2>5, <3>1, CountSubset
    <3>3. /\ Cardinality(Late(Q, H \ {k}, l, cap)) \in Nat
          /\ Cardinality(Late(Q, H \ {k}, l, cap)) <= Cardinality(Late(P, H, l, cap))
      BY <2>6, <3>1, CountSubset
    <3> QED BY <2>3, <3>1, <3>2, <3>3
  <2>8. PICK T, n : T = Taken(entries', cap') /\ n = i'
    OBVIOUS
  <2>9. /\ AtMost(Q, D \ {k}, H \ {k}, l, cap, g + 1)
        /\ Allowed(Q, D \ {k}, H \ {k}, l, cap, g + 1, T, n)
    BY <2>3, <2>7 DEF AtMost, Allowed
  <2>10. \A x \in D \ {k} : \E s \in 0 .. cap - 1 : <<x, s>> \in Q
    BY <2>3, <2>4
  <2>11. /\ each'.at = l /\ each'.due = D \ {k} /\ each'.had = H \ {k}
         /\ each'.changes = g + 1
    BY <1>3, <1>5, <2>1
  <2>12. EachCounts'
    BY <1>2, <2>1, <2>2, <2>8, <2>9, <2>10, <2>11 DEF EachCounts
  <2> QED BY <1>1, <1>3, <2>12 DEF EachInv
<1> QED BY <1>4, <1>5

LEMMA DeleteCounts ==
    ASSUME EachInv, NEW k \in Keys, Found(k), Delete(k), Changes(k)
    PROVE  EachInv'
<1>1. HInv' /\ HInv /\ TypeOK /\ EachType /\ EachCounts /\ pc = "idle"
  BY DeleteKeeps DEF EachInv, HInv, Delete
<1>2. cap' = cap /\ hasCb' = hasCb /\ todo' = todo /\ pc' = "idle"
  BY <1>1 DEF Delete, loop
<1>3. /\ EachType'
      /\ each.at \notin Slots => each' = each
      /\ each.at \in Slots =>
            /\ each'.at = each.at /\ each'.changes = each.changes + 1
            /\ each'.due = each.due \ {k} /\ each'.had = each.had \ {k}
  BY <1>1, <1>2, ChangesAre
<1>4. CASE each.at \notin Slots
  BY <1>1, <1>2, <1>3, <1>4, NotRunningCounts
<1>5. CASE each.at \in Slots
  <2>1. PICK P, D, H, l, g, Q, s, n, h :
            /\ P = Pairs(entries, cap) /\ D = each.due /\ H = each.had /\ l = each.at
            /\ g = each.changes /\ Q = Places' /\ s = FindIndex(k)
            /\ n = ShiftLength(s) /\ h = Homes
    OBVIOUS
  <2>2. s \in Slots /\ Occupied(s) /\ entries[s].key = k /\ entries' = Without(s)
    BY <1>1, <2>1, FoundIsHere DEF Delete, DeleteIndex
  <2>3. /\ cap \in Capacity /\ cap \in Nat \ {0, 1} /\ cap \in Nat /\ entries \in Table(cap)
        /\ h \in [Keys -> 0 .. cap - 1] /\ s \in 0 .. cap - 1
        /\ n \in 1 .. cap /\ ShiftsOver(entries, cap, h, s, n)
        /\ entries' = Shifted(entries, cap, s, n)
    BY <1>1, <2>1, <2>2, ShiftLengthIs, ViewDistances, HomesType
       DEF HInv, TypeOK, Slots, Capacity
  <2>4. l \in 0 .. cap - 1 /\ l # cap /\ Places = P
    BY <1>1, <1>5, <2>1, <2>3 DEF Slots, Places
  <2>5. /\ IsFiniteSet(D) /\ IsFiniteSet(H) /\ g \in Nat
        /\ \A x \in D : \E t \in 0 .. cap - 1 : <<x, t>> \in P
        /\ AtMost(P, D, H, l, cap, g)
    BY <1>1, <2>1, <2>4 DEF EachType, EachCounts
  <2>6. Q = Pairs(Shifted(entries, cap, s, n), cap)
    BY <1>2, <2>1, <2>3 DEF Places
  <2>7. /\ \A x, t : <<x, t>> \in Q => <<x, t>> \in P \/ <<x, After(t, cap)>> \in P
        /\ \A x, t : <<x, t>> \in P /\ t # s => \E u \in 0 .. cap - 1 : <<x, u>> \in Q
    BY <2>1, <2>3, <2>6, PairsShifted
  <2>8. AtMost(Q, D \ {k}, H \ {k}, l, cap, g + 1)
    <3>1. AtMost(Pairs(entries, cap), D, H, l, cap, g)
      BY <2>1, <2>5
    <3>2. \A x, t : <<x, t>> \in Q =>
              <<x, t>> \in Pairs(entries, cap) \/ <<x, After(t, cap)>> \in Pairs(entries, cap)
      BY <2>1, <2>7
    <3> QED BY <2>3, <2>4, <2>5, <3>1, <3>2, ShiftCounts
  <2>9. ASSUME NEW x \in D \ {k} PROVE \E u \in 0 .. cap - 1 : <<x, u>> \in Q
    <3>1. PICK t \in 0 .. cap - 1 : <<x, t>> \in P
      BY <2>5
    <3>2. t # s
      BY <2>1, <2>2, <3>1, PairsAre
    <3> QED BY <2>7, <3>1, <3>2
  <2>10. /\ each'.at = l /\ each'.due = D \ {k} /\ each'.had = H \ {k}
         /\ each'.changes = g + 1
    BY <1>3, <1>5, <2>1
  <2>11. EachCounts'
    BY <1>2, <2>1, <2>4, <2>8, <2>9, <2>10 DEF EachCounts
  <2> QED BY <1>1, <1>3, <2>11 DEF EachInv
<1> QED BY <1>4, <1>5

LEMMA BeginCounts ==
    ASSUME EachInv, EachBegin
    PROVE  EachInv'
<1> DEFINE D == {k \in Keys : InTable(k)}
<1>1. /\ HInv /\ TypeOK /\ EachType /\ pc = "idle" /\ UNCHANGED vars
      /\ cap \in Nat \ {0, 1} /\ cap \in Nat /\ entries \in Table(cap)
      /\ At(NextEntry(-1 + 1), D, {}, 0)
  BY ViewDistances DEF EachInv, EachBegin, HInv, TypeOK
<1>2. PICK P : P = Pairs(entries, cap)
  OBVIOUS
<1>3. \A k \in D : \E s \in 0 .. cap - 1 : <<k, s>> \in P
  BY <1>2, PairsAre DEF InTable, Slots, Occupied
<1>4. IsFiniteSet(D)
  <2> DEFINE K == {entries[s].key : s \in Taken(entries, cap)}
  <2>1. IsFiniteSet(K)
    <3> DEFINE f == [s \in Taken(entries, cap) |-> entries[s].key]
    <3>1. f \in [Taken(entries, cap) -> K] /\ \A k \in K : \E s \in Taken(entries, cap) : f[s] = k
      OBVIOUS
    <3>2. IsFiniteSet(Taken(entries, cap))
      BY <1>1, TakenType
    <3>3. f \in Surjection(Taken(entries, cap), K)
      BY <3>1 DEF Surjection
    <3> HIDE DEF K, f
    <3> QED BY <3>2, <3>3, FS_Surjection
  <2>2. D \subseteq K
    BY DEF InTable, Slots, Occupied, Taken
  <2> QED BY <2>1, <2>2, CountSubset
<1>5. /\ IsFiniteSet({}) /\ Cardinality({}) = 0
  BY FS_EmptySet
<1> HIDE DEF D
<1>6. AtMost(P, D, {}, -1, cap, 0)
  <2>1. Early(P, D, -1) = {} /\ Late(P, {}, -1, cap) = {}
    BY DEF Early, Late
  <2> QED BY <1>5, <2>1 DEF AtMost
<1>7. -1 \in -1 .. cap - 1 /\ 0 \in Nat
  BY <1>1
<1> QED BY <1>1, <1>2, <1>3, <1>4, <1>5, <1>6, <1>7, AtCounts

LEMMA OnCounts ==
    ASSUME EachInv, EachOn
    PROVE  EachInv'
<1>1. /\ HInv /\ TypeOK /\ EachType /\ EachCounts /\ pc = "idle" /\ UNCHANGED vars
      /\ each.at \in 0 .. cap - 1 /\ cap \in Nat \ {0, 1}
      /\ At(NextEntry(each.at + 1), each.due, each.had, each.changes)
  BY DEF EachInv, EachOn, HInv, TypeOK, Running, Slots
<1>2. PICK l, D, H, g : l = each.at /\ D = each.due /\ H = each.had /\ g = each.changes
  OBVIOUS
<1>3. Places = Pairs(entries, cap)
  BY <1>1 DEF Places
<1>4. /\ l \in -1 .. cap - 1 /\ IsFiniteSet(D) /\ IsFiniteSet(H) /\ g \in Nat
      /\ \A k \in D : \E s \in 0 .. cap - 1 : <<k, s>> \in Pairs(entries, cap)
      /\ AtMost(Pairs(entries, cap), D, H, l, cap, g)
  <2>1. l \in -1 .. cap - 1
    BY <1>1, <1>2
  <2>2. IsFiniteSet(D) /\ IsFiniteSet(H) /\ g \in Nat
    BY <1>1, <1>2 DEF EachType
  <2>3. /\ \A k \in D : \E s \in 0 .. cap - 1 : <<k, s>> \in Pairs(entries, cap)
        /\ AtMost(Pairs(entries, cap), D, H, l, cap, g)
    BY <1>1, <1>2, <1>3 DEF EachCounts
  <2> QED BY <2>1, <2>2, <2>3
<1>5. At(NextEntry(l + 1), D, H, g)
  BY <1>1, <1>2
<1> QED BY <1>1, <1>4, <1>5, AtCounts

LEMMA EachFromTheStart == EachInit => EachInv
<1> SUFFICES ASSUME EachInit PROVE EachInv
  OBVIOUS
<1>1. HInv /\ cap = InitCap /\ todo = <<>> /\ hasCb = FALSE
  BY InitHolds DEF EachInit, Init
<1>2. /\ each = [at |-> -1, due |-> {}, had |-> {}, changes |-> 0]
      /\ each.at = -1 /\ each.due = {} /\ each.had = {} /\ each.changes = 0
  BY DEF EachInit
<1>3. cap \in Nat \ {0, 1} /\ IsFiniteSet({})
  BY <1>1, FS_EmptySet DEF HInv, TypeOK
<1>4. each.at \in -1 .. cap /\ each.at # cap /\ each.at \notin 0 .. cap - 1
  BY <1>2, <1>3
<1>5. EachType
  BY <1>1, <1>2, <1>3, <1>4 DEF EachType
<1> QED BY <1>1, <1>4, <1>5 DEF EachInv, EachCounts

LEMMA EachKept == MaxCap < 2 * InitCap /\ EachInv /\ [EachNext]_evars => EachInv'
<1> SUFFICES ASSUME MaxCap < 2 * InitCap, EachInv, [EachNext]_evars PROVE EachInv'
  OBVIOUS
<1>1. ASSUME InsertStep, UNCHANGED each PROVE EachInv'
  BY <1>1, InsertStepCounts
<1>2. ASSUME NEW k \in Keys, Found(k), Delete(k), Changes(k) PROVE EachInv'
  BY <1>2, DeleteCounts
<1>3. ASSUME NEW k \in Keys, NEW v \in Values, Insert(k, v), Changes(k) PROVE EachInv'
  BY <1>3, InsertCounts
<1>4. ASSUME UNCHANGED evars PROVE EachInv'
  <2>1. UNCHANGED vars /\ each' = each
    BY <1>4 DEF evars
  <2>2. HInv'
    BY <2>1, NextKeeps DEF EachInv
  <2> QED BY <2>1, <2>2 DEF vars, EachInv, EachType, EachCounts, Places
<1> QED BY <1>1, <1>2, <1>3, <1>4, BeginCounts, OnCounts DEF EachNext

(* A loop whose body inserts and deletes misses at most one entry for each  *)
(* change and gives at most one a second turn: whatever the hash function,  *)
(* the capacity, the number of changes and the order in which they fall     *)
(* (ht.h:427, 236-254, 386-395), as long as the table does not grow.        *)
THEOREM EachMissesFew ==
    ASSUME MaxCap < 2 * InitCap
    PROVE  EachSpec => []EachMissesOnePerChange
<1>1. ASSUME EachInv PROVE EachMissesOnePerChange
  <2>1. SUFFICES ASSUME pc = "idle", each.at >= 0
                 PROVE  /\ Cardinality(each.due \cap Passed) <= each.changes
                        /\ Cardinality(each.had \cap ToCome) <= each.changes
    BY DEF EachMissesOnePerChange
  <2>2. /\ HInv /\ TypeOK /\ EachType /\ EachCounts /\ cap \in Nat
        /\ each.at \in 0 .. cap /\ each.changes \in Nat
        /\ IsFiniteSet(each.due) /\ IsFiniteSet(each.had)
    BY <1>1, <2>1 DEF EachInv, HInv, TypeOK, EachType
  <2>3. CASE each.at = cap
    <3>1. Cardinality(each.due \cap Passed) <= each.changes
      <4>1. Cardinality(each.due) <= each.changes
        BY <2>2, <2>3 DEF EachCounts
      <4>2. each.due \cap Passed \subseteq each.due
        OBVIOUS
      <4>3. /\ Cardinality(each.due \cap Passed) \in Nat /\ Cardinality(each.due) \in Nat
            /\ Cardinality(each.due \cap Passed) <= Cardinality(each.due)
        BY <2>2, <4>2, CountSubset
      <4> QED BY <2>2, <4>1, <4>3
    <3>2. Cardinality(each.had \cap ToCome) <= each.changes
      <4>1. each.had \cap ToCome = {}
        BY <2>2, <2>3 DEF ToCome, Stored, Slots
      <4>2. Cardinality({}) = 0
        BY FS_EmptySet
      <4>3. 0 <= each.changes
        BY <2>2
      <4> QED BY <4>1, <4>2, <4>3
    <3> QED BY <3>1, <3>2
  <2>4. CASE each.at \in 0 .. cap - 1
    <3>1. PICK P, D, H, l, g :
              /\ P = Pairs(entries, cap) /\ D = each.due /\ H = each.had /\ l = each.at
              /\ g = each.changes
      OBVIOUS
    <3>2. Places = P
      BY <2>1, <3>1 DEF Places
    <3>3. /\ IsFiniteSet(Early(P, D, l)) /\ Cardinality(Early(P, D, l)) \in Nat
          /\ IsFiniteSet(Late(P, H, l, cap)) /\ Cardinality(Late(P, H, l, cap)) \in Nat
          /\ Cardinality(Early(P, D, l)) <= g /\ Cardinality(Late(P, H, l, cap)) <= g
      BY <2>2, <2>4, <3>1, <3>2, CountedAreFinite DEF EachCounts, AtMost
    <3>4. D \cap Passed \subseteq Early(P, D, l)
      <4>1. SUFFICES ASSUME NEW s \in Stored, s <= l, entries[s].key \in D
                     PROVE  \E t \in 0 .. l : <<entries[s].key, t>> \in P
        BY <3>1 DEF Passed, Early
      <4>2. s \in 0 .. l /\ <<entries[s].key, s>> \in P
        BY <2>2, <2>4, <3>1, <4>1, PairsAre DEF Stored, Slots, Occupied
      <4> QED BY <4>2
    <3>5. H \cap ToCome \subseteq Late(P, H, l, cap)
      <4>1. SUFFICES ASSUME NEW s \in Stored, s > l, entries[s].key \in H
                     PROVE  \E t \in l + 1 .. cap - 1 : <<entries[s].key, t>> \in P
        BY <3>1 DEF ToCome, Late
      <4>2. s \in l + 1 .. cap - 1 /\ <<entries[s].key, s>> \in P
        BY <2>2, <2>4, <3>1, <4>1, PairsAre DEF Stored, Slots, Occupied
      <4> QED BY <4>2
    <3>6. Cardinality(D \cap Passed) <= g
      BY <2>2, <3>1, <3>3, <3>4, CountSubset
    <3>7. Cardinality(H \cap ToCome) <= g
      BY <2>2, <3>1, <3>3, <3>5, CountSubset
    <3> QED BY <3>1, <3>6, <3>7
  <2> QED BY <2>2, <2>3, <2>4
<1>2. EachInv /\ [EachNext]_evars => EachInv'
  BY EachKept
<1> QED
  BY <1>1, <1>2, EachFromTheStart, PTL DEF EachSpec

-----------------------------------------------------------------------------
(* How far INSERT_AT and RESIZE are from their end: the entries to come have *)
(* a round of the table each, and the one in hand is at its place when the  *)
(* loop comes to a free slot, if not before.                                *)

(* How many slots after j the first free slot comes.                        *)
Nearest(e, c, j) ==
    CHOOSE n \in 0 .. c - 1 :
        /\ \E s \in 0 .. c - 1 : e[s] = Vacant /\ n = Ahead(s, j, c)
        /\ \A s \in 0 .. c - 1 : e[s] = Vacant => n <= Ahead(s, j, c)

RoundsLeft == IF pc = "insert" THEN Len(todo) * cap + Nearest(entries, cap, i) + 1 ELSE 0

LEMMA NearestIs ==
    ASSUME NEW c \in Nat, NEW e, NEW j \in 0 .. c - 1, \E s \in 0 .. c - 1 : e[s] = Vacant
    PROVE  /\ Nearest(e, c, j) \in 0 .. c - 1
           /\ \E s \in 0 .. c - 1 : e[s] = Vacant /\ Nearest(e, c, j) = Ahead(s, j, c)
           /\ \A s \in 0 .. c - 1 : e[s] = Vacant => Nearest(e, c, j) <= Ahead(s, j, c)
<1>1. \A s \in 0 .. c - 1 : Ahead(s, j, c) \in 0 .. c - 1
  BY DEF Ahead
<1>2. PICK D : D = {n \in 0 .. c - 1 : \E s \in 0 .. c - 1 : e[s] = Vacant /\ n = Ahead(s, j, c)}
  OBVIOUS
<1>3. D \subseteq Nat /\ D # {}
  BY <1>1, <1>2
<1>4. PICK n \in D : \A m \in D : n <= m
  BY <1>3, LeastNumber
<1>5. /\ n \in 0 .. c - 1
      /\ \E s \in 0 .. c - 1 : e[s] = Vacant /\ n = Ahead(s, j, c)
      /\ \A s \in 0 .. c - 1 : e[s] = Vacant => n <= Ahead(s, j, c)
  BY <1>1, <1>2, <1>4
<1> QED BY <1>5 DEF Nearest

(* The slot after a taken one is one slot nearer, when what is free stays.  *)
LEMMA NearestComes ==
    ASSUME NEW c \in Nat, NEW e, NEW f, NEW j \in 0 .. c - 1, e[j] # Vacant,
           \A s \in 0 .. c - 1 : f[s] = Vacant <=> e[s] = Vacant,
           \E s \in 0 .. c - 1 : e[s] = Vacant
    PROVE  Nearest(f, c, After(j, c)) < Nearest(e, c, j)
<1>1. PICK s \in 0 .. c - 1 : e[s] = Vacant /\ Nearest(e, c, j) = Ahead(s, j, c)
  BY NearestIs
<1>2. After(j, c) \in 0 .. c - 1 /\ s # j /\ f[s] = Vacant
  BY <1>1 DEF After
<1>3. PICK a : a = After(j, c)
  OBVIOUS
<1>4. Ahead(s, a, c) = Ahead(s, j, c) - 1 /\ Ahead(s, j, c) \in Nat
  BY <1>2, <1>3 DEF Ahead, After
<1>5. Nearest(f, c, a) \in 0 .. c - 1 /\ Nearest(f, c, a) <= Ahead(s, a, c)
  BY <1>2, <1>3, NearestIs
<1> QED BY <1>1, <1>3, <1>4, <1>5

LEMMA RoundsAre ==
    HInv => /\ RoundsLeft \in Nat
            /\ pc = "insert" =>
                  /\ Nearest(entries, cap, i) \in 0 .. cap - 1
                  /\ RoundsLeft = Len(todo) * cap + Nearest(entries, cap, i) + 1
                  /\ RoundsLeft <= (Len(todo) + 1) * cap
<1> SUFFICES ASSUME HInv, pc = "insert"
             PROVE  /\ RoundsLeft \in Nat
                    /\ Nearest(entries, cap, i) \in 0 .. cap - 1
                    /\ RoundsLeft = Len(todo) * cap + Nearest(entries, cap, i) + 1
                    /\ RoundsLeft <= (Len(todo) + 1) * cap
  BY DEF RoundsLeft
<1>1. cap \in Nat /\ i \in 0 .. cap - 1 /\ todo \in Seq(Entry)
  BY DEF HInv, TypeOK, Slots
<1>2. PICK n : n = Nearest(entries, cap, i)
  OBVIOUS
<1>3. n \in 0 .. cap - 1
  BY <1>1, <1>2, RoomLeavesAVacancy, NearestIs
<1>4. PICK l : l = Len(todo)
  OBVIOUS
<1>5. l \in Nat
  BY <1>1, <1>4, LenProperties
<1>6. l * cap \in Nat /\ (l + 1) * cap = l * cap + cap
  BY <1>1, <1>5
<1> QED BY <1>1, <1>2, <1>3, <1>4, <1>5, <1>6 DEF RoundsLeft
LEMMA RoundsAreNext ==
    (HInv => /\ RoundsLeft \in Nat
             /\ pc = "insert" =>
                   /\ Nearest(entries, cap, i) \in 0 .. cap - 1
                   /\ RoundsLeft = Len(todo) * cap + Nearest(entries, cap, i) + 1
                   /\ RoundsLeft <= (Len(todo) + 1) * cap)'
  BY RoundsAre, PTL

(* Passing over a slot, with or without a change of entries.                *)
LEMMA OnwardIsNearer ==
    ASSUME HInv, HInv', PassOver \/ Displace
    PROVE  RoundsLeft' < RoundsLeft
<1>1. /\ pc = "insert" /\ pc' = "insert" /\ cap' = cap /\ todo' = todo
      /\ cap \in Nat /\ cap # 0 /\ i \in 0 .. cap - 1 /\ entries[i] # Vacant
      /\ i' = (i + 1) % cap
  BY DEF HInv, TypeOK, PassOver, Displace, Here, table, Slots
<1>2. \A s \in 0 .. cap - 1 : entries'[s] = Vacant <=> entries[s] = Vacant
  <2>1. CASE PassOver
    BY <2>1 DEF PassOver, table
  <2>2. CASE Displace
    <3>1. carry # Vacant /\ entries' = [entries EXCEPT ![i] = carry]
      BY <1>1, <2>2, VacantAssumption DEF Displace, HInv, TypeOK, Entry
    <3>2. \A s \in 0 .. cap - 1 : entries'[s] = IF s = i THEN carry ELSE entries[s]
      BY <3>1 DEF HInv, TypeOK, Slots
    <3> QED BY <1>1, <3>1, <3>2
  <2> QED BY <2>1, <2>2
<1>3. i' = After(i, cap)
  BY <1>1, ModAfter
<1>4. Nearest(entries', cap, i') < Nearest(entries, cap, i)
  BY <1>1, <1>2, <1>3, RoomLeavesAVacancy, NearestComes
<1>5. /\ RoundsLeft = Len(todo) * cap + Nearest(entries, cap, i) + 1
      /\ Nearest(entries, cap, i) \in Nat
      /\ RoundsLeft' = Len(todo) * cap + Nearest(entries', cap, i') + 1
      /\ Nearest(entries', cap, i') \in Nat
  BY <1>1, RoundsAre, RoundsAreNext
<1>6. Len(todo) * cap \in Nat
  BY <1>1, LenProperties DEF HInv, TypeOK
<1> QED BY <1>4, <1>5, <1>6

(* One entry is dealt with.                                                 *)
LEMMA ReturningIsNearer ==
    ASSUME HInv, HInv', Place \/ Duplicate
    PROVE  RoundsLeft' < RoundsLeft
<1>1. /\ pc = "insert" /\ cap' = cap /\ cap \in Nat /\ todo \in Seq(Entry)
      /\ \E r : Returns(r)
  BY DEF HInv, TypeOK, Place, Duplicate
<1>2. PICK l : l = Len(todo)
  OBVIOUS
<1>3. /\ RoundsLeft = l * cap + Nearest(entries, cap, i) + 1
      /\ Nearest(entries, cap, i) \in Nat /\ l \in Nat /\ l * cap \in Nat
  <2>1. l \in Nat
    BY <1>1, <1>2, LenProperties
  <2>2. l * cap \in Nat
    BY <1>1, <2>1
  <2> QED BY <1>1, <1>2, <2>1, <2>2, RoundsAre
<1>4. CASE todo # <<>> /\ todo' = Tail(todo) /\ pc' = "insert"
  <2>1. Len(todo') = l - 1
    BY <1>1, <1>2, <1>4, HeadTailProperties
  <2>2. RoundsLeft' <= (Len(todo') + 1) * cap' /\ RoundsLeft' \in Nat
    BY <1>4, RoundsAreNext
  <2>3. (Len(todo') + 1) * cap' = l * cap
    <3>1. Len(todo') + 1 = l
      BY <1>3, <2>1
    <3> QED BY <1>1, <3>1
  <2> QED BY <1>3, <2>2, <2>3
<1>5. CASE pc' = "idle"
  BY <1>3, <1>5 DEF RoundsLeft
<1> QED BY <1>1, <1>4, <1>5 DEF Returns, StartAt, Rest

LEMMA StepIsNearer ==
    ASSUME HInv, HInv', InsertStep
    PROVE  RoundsLeft \in Nat /\ RoundsLeft' \in Nat /\ RoundsLeft' < RoundsLeft
<1>1. RoundsLeft \in Nat /\ RoundsLeft' \in Nat
  BY RoundsAre, RoundsAreNext
<1> QED BY <1>1, OnwardIsNearer, ReturningIsNearer DEF InsertStep

(* Each iteration of INSERT_AT (ht.h:225-257), for the entry of an INSERT   *)
(* or for those of a RESIZE, brings the call nearer to its end: whatever    *)
(* the hash function, the loops that have no bound of their own end.        *)
THEOREM TableInsertionsShorten ==
    Spec => [][InsertStep => /\ RoundsLeft \in Nat /\ RoundsLeft' \in Nat
                             /\ RoundsLeft' < RoundsLeft]_vars
<1>1. HInv /\ [Next]_vars => HInv'
  BY NextKeeps
<1>2. HInv /\ HInv' => [InsertStep => /\ RoundsLeft \in Nat /\ RoundsLeft' \in Nat
                                     /\ RoundsLeft' < RoundsLeft]_vars
  BY StepIsNearer
<1> QED BY <1>1, <1>2, TableInvariant, PTL DEF Spec

(* ... and there are no more of them than slots in the table for each entry *)
(* that is in hand or to come.                                              *)
THEOREM TableInsertionsBounded == Spec => [](RoundsLeft <= (Len(todo) + 1) * cap)
<1>1. HInv => RoundsLeft <= (Len(todo) + 1) * cap
  <2> SUFFICES ASSUME HInv PROVE RoundsLeft <= (Len(todo) + 1) * cap
    OBVIOUS
  <2>1. CASE pc = "insert"
    BY <2>1, RoundsAre
  <2>2. CASE pc # "insert"
    <3>1. todo = <<>> /\ cap \in Nat
      BY <2>2 DEF HInv, AtRest, TypeOK
    <3>2. Len(todo) = 0
      BY <3>1
    <3> QED BY <2>2, <3>1, <3>2 DEF RoundsLeft
  <2> QED BY <2>1, <2>2
<1> QED BY <1>1, TableInvariant, PTL
=============================================================================
