--------------------------- MODULE SequenceProofs ---------------------------
(***************************************************************************)
(* The two linked lists and the vector are the sequences their calls       *)
(* promise, whatever the number of nodes and elements, the capacities and  *)
(* the requests, and whatever the sequence of calls.                       *)
(*                                                                         *)
(* The vector also keeps the room it promised, and goes wrong only after   *)
(* A3_VEC_CLEAR.                                                           *)
(***************************************************************************)
EXTENDS Containers, ListProofs

-----------------------------------------------------------------------------
(* The doubly-linked list: its places from the head, 0, to the end node.    *)

Place(s, i) == IF i = 0 THEN HeadField ELSE IF i = Len(s) + 1 THEN End ELSE s[i]

Linked2(s, next, prev) ==
    /\ \A i \in 0 .. Len(s) :
          /\ prev[Place(s, i + 1)] = Place(s, i)
          /\ \/ next[Place(s, i)] = Place(s, i + 1)
             \/ s = <<>> /\ next[HeadField] = NULL
    /\ next[End] = NULL /\ prev[HeadField] = NULL

LEMMA PlacesApart ==
    ASSUME NEW s, Elements(s)
    PROVE  /\ \A i \in 0 .. Len(s) + 1 : Place(s, i) \in Linked
           /\ \A i \in 1 .. Len(s) : Place(s, i) = s[i]
           /\ Place(s, 0) = HeadField /\ Place(s, Len(s) + 1) = End
           /\ \A i, j \in 0 .. Len(s) + 1 : Place(s, i) = Place(s, j) => i = j
           /\ \A i \in 0 .. Len(s) + 1, n \in Nodes \ ToSet(s) : Place(s, i) # n
<1>1. /\ Len(s) \in Nat /\ \A i \in 1 .. Len(s) : s[i] \in Nodes /\ s[i] \in ToSet(s)
      /\ \A i, j \in 1 .. Len(s) : s[i] = s[j] => i = j
  BY ElementsAre
<1>2. HeadField \notin Nodes /\ End \notin Nodes /\ HeadField # End
  BY NodesAssumption, EndAssumption
<1>3. /\ \A i \in 1 .. Len(s) : Place(s, i) = s[i]
      /\ Place(s, 0) = HeadField /\ Place(s, Len(s) + 1) = End
  BY <1>1 DEF Place
<1>4. \A i \in 0 .. Len(s) + 1 : i = 0 \/ i = Len(s) + 1 \/ i \in 1 .. Len(s)
  BY <1>1
<1>5. \A i \in 0 .. Len(s) + 1 : Place(s, i) \in Linked
  BY <1>1, <1>3, <1>4 DEF Linked
<1>6. ASSUME NEW i \in 0 .. Len(s) + 1, NEW j \in 0 .. Len(s) + 1, Place(s, i) = Place(s, j)
      PROVE  i = j
  BY <1>1, <1>2, <1>3, <1>4, <1>6
<1>7. ASSUME NEW i \in 0 .. Len(s) + 1, NEW n \in Nodes \ ToSet(s) PROVE Place(s, i) # n
  BY <1>1, <1>2, <1>3, <1>4
<1> QED BY <1>3, <1>5, <1>6, <1>7

LEMMA PathIs ==
    ASSUME NEW S, NEW h \in S, NEW e \in S, NEW s \in Seq(S)
    PROVE  /\ <<h>> \o s \o <<e>> \in Seq(S) /\ Len(<<h>> \o s \o <<e>>) = Len(s) + 2
           /\ \A i \in 1 .. Len(s) + 2 :
                 (<<h>> \o s \o <<e>>)[i] = IF i = 1 THEN h ELSE IF i = Len(s) + 2 THEN e ELSE s[i - 1]
<1> DEFINE a == <<h>>
           b == <<e>>
           c == a \o s
           t == c \o b
<1>1. /\ a \in Seq(S) /\ Len(a) = 1 /\ a[1] = h
      /\ b \in Seq(S) /\ Len(b) = 1 /\ b[1] = e
      /\ Len(s) \in Nat
  OBVIOUS
<1> HIDE DEF a, b
<1>2. /\ c \in Seq(S) /\ Len(c) = Len(a) + Len(s)
      /\ \A i \in 1 .. Len(a) + Len(s) : c[i] = IF i <= Len(a) THEN a[i] ELSE s[i - Len(a)]
  BY <1>1, ConcatProperties
<1> HIDE DEF c
<1>3. /\ t \in Seq(S) /\ Len(t) = Len(c) + Len(b)
      /\ \A i \in 1 .. Len(c) + Len(b) : t[i] = IF i <= Len(c) THEN c[i] ELSE b[i - Len(c)]
  <2>1. c \in Seq(S) /\ b \in Seq(S)
    BY <1>1, <1>2
  <2> QED BY <2>1, ConcatProperties
<1> HIDE DEF t
<1>4. Len(c) = Len(s) + 1 /\ Len(t) = Len(s) + 2
  BY <1>1, <1>2, <1>3
<1>5. ASSUME NEW i \in 1 .. Len(s) + 2
      PROVE  t[i] = IF i = 1 THEN h ELSE IF i = Len(s) + 2 THEN e ELSE s[i - 1]
  <2>1. CASE i = 1
    <3>1. t[1] = c[1] /\ c[1] = a[1]
      BY <1>1, <1>2, <1>3, <1>4
    <3> QED BY <1>1, <2>1, <3>1
  <2>2. CASE i = Len(s) + 2
    <3>1. ~(i <= Len(c)) /\ i - Len(c) = 1 /\ i \in 1 .. Len(c) + Len(b)
      BY <1>1, <1>4, <2>2
    <3>2. t[i] = b[1]
      BY <1>3, <3>1
    <3> QED BY <1>1, <2>2, <3>2
  <2>3. CASE i # 1 /\ i # Len(s) + 2
    <3>1. i <= Len(c) /\ i \in 1 .. Len(c) + Len(b)
      BY <1>1, <1>4, <2>3
    <3>2. ~(i <= Len(a)) /\ i \in 1 .. Len(a) + Len(s)
      BY <1>1, <2>3
    <3>3. t[i] = c[i]
      BY <1>3, <3>1
    <3>4. c[i] = s[i - 1]
      BY <1>1, <1>2, <3>2
    <3> QED BY <2>3, <3>3, <3>4
  <2> QED BY <2>1, <2>2, <2>3
<1> QED BY <1>3, <1>4, <1>5 DEF t, c, a, b

LEMMA AgreeIs ==
    ASSUME Elements(litems)
    PROVE  LinksAgree <=> Linked2(litems, lnext, lprev)
<1> DEFINE path == <<HeadField>> \o litems \o <<End>>
           n == Len(litems)
<1>1. litems \in Seq(Nodes) /\ n \in Nat
  BY ElementsAre DEF Elements
<1>2. litems \in Seq(Linked)
  <2>1. Nodes \subseteq Linked
    BY DEF Linked
  <2> HIDE DEF Linked
  <2> QED BY <1>1, <2>1, SeqMonotonic
<1>3. HeadField \in Linked /\ End \in Linked
  BY DEF Linked
<1>4. /\ Len(path) = n + 2
      /\ \A i \in 1 .. n + 2 :
            path[i] = IF i = 1 THEN HeadField ELSE IF i = n + 2 THEN End ELSE litems[i - 1]
  <2> HIDE DEF Linked
  <2> QED BY <1>2, <1>3, PathIs
<1> HIDE DEF path, n
<1>5. \A i \in 0 .. n + 1 : path[i + 1] = Place(litems, i)
  <2> TAKE i \in 0 .. n + 1
  <2>1. i + 1 \in 1 .. n + 2 /\ i + 1 - 1 = i /\ (i + 1 = 1 <=> i = 0) /\ (i + 1 = n + 2 <=> i = n + 1)
    BY <1>1
  <2> QED BY <1>4, <2>1 DEF Place, n
<1>6. Linked2(litems, lnext, lprev) <=>
      /\ \A i \in 0 .. n :
            /\ lprev[path[i + 1 + 1]] = path[i + 1]
            /\ \/ lnext[path[i + 1]] = path[i + 1 + 1]
               \/ litems = <<>> /\ lnext[HeadField] = NULL
      /\ lnext[End] = NULL /\ lprev[HeadField] = NULL
  <2>1. \A i \in 0 .. n : path[i + 1] = Place(litems, i) /\ path[i + 1 + 1] = Place(litems, i + 1)
    <3> TAKE i \in 0 .. n
    <3>1. i \in 0 .. n + 1 /\ i + 1 \in 0 .. n + 1
      BY <1>1
    <3> QED BY <1>5, <3>1
  <2> QED BY <2>1 DEF Linked2, n
<1>7. LinksAgree <=>
      /\ \A i \in 1 .. n + 1 :
            /\ lprev[path[i + 1]] = path[i]
            /\ \/ lnext[path[i]] = path[i + 1]
               \/ litems = <<>> /\ lnext[HeadField] = NULL
      /\ lnext[End] = NULL /\ lprev[HeadField] = NULL
  <2>1. Len(path) - 1 = n + 1
    BY <1>1, <1>4
  <2> QED BY <2>1 DEF LinksAgree, path
<1>8. (\A i \in 0 .. n :
            /\ lprev[path[i + 1 + 1]] = path[i + 1]
            /\ \/ lnext[path[i + 1]] = path[i + 1 + 1]
               \/ litems = <<>> /\ lnext[HeadField] = NULL)
      <=> \A i \in 1 .. n + 1 :
            /\ lprev[path[i + 1]] = path[i]
            /\ \/ lnext[path[i]] = path[i + 1]
               \/ litems = <<>> /\ lnext[HeadField] = NULL
  <2>1. \A i \in 0 .. n : i + 1 \in 1 .. n + 1
    BY <1>1
  <2>2. \A i \in 1 .. n + 1 : i - 1 \in 0 .. n /\ i - 1 + 1 = i /\ i - 1 + 1 + 1 = i + 1
    BY <1>1
  <2> QED BY <2>1, <2>2
<1> QED BY <1>6, <1>7, <1>8

(* Putting n between two neighbours a and b: the link forth from n and the  *)
(* link back from b are all that insertion, pushing and enqueueing write    *)
(* besides those from a and n.                                              *)
LEMMA InsertedLinks ==
    ASSUME NEW s, Elements(s), NEW n \in Nodes \ ToSet(s), NEW k \in 1 .. Len(s) + 1,
           NEW t, Grown(s, k, n, t), NEW next, NEW prev, Linked2(s, next, prev),
           NEW next2, NEW prev2,
           next2[n] = Place(s, k), next2[Place(s, k - 1)] = n,
           \A p \in Linked : p # n /\ p # Place(s, k - 1) => next2[p] = next[p],
           prev2[n] = Place(s, k - 1), prev2[Place(s, k)] = n,
           \A p \in Linked : p # n /\ p # Place(s, k) => prev2[p] = prev[p]
    PROVE  Linked2(t, next2, prev2)
<1>1. /\ Len(s) \in Nat /\ k \in Nat /\ 1 <= k /\ k <= Len(s) + 1 /\ Len(t) = Len(s) + 1
      /\ t[k] = n /\ s \in Seq(Nodes)
  BY ElementsAre DEF Grown, Elements
<1>2. \A i \in 0 .. Len(t) + 1 :
         Place(t, i) = IF i < k THEN Place(s, i) ELSE IF i = k THEN n ELSE Place(s, i - 1)
  <2> TAKE i \in 0 .. Len(t) + 1
  <2>1. CASE i = 0
    BY <1>1, <2>1 DEF Place
  <2>2. CASE 0 < i /\ i < k
    <3>1. i \in 1 .. k - 1 /\ i # Len(s) + 1 /\ i # Len(t) + 1
      BY <1>1, <2>2
    <3> QED BY <2>2, <3>1 DEF Place, Grown
  <2>3. CASE i = k
    BY <1>1, <2>3 DEF Place
  <2>4. CASE i > k /\ i # Len(t) + 1
    <3>1. i \in k + 1 .. Len(s) + 1 /\ i - 1 # Len(s) + 1 /\ i - 1 # 0 /\ i # 0 /\ ~(i < k) /\ i # k
      BY <1>1, <2>4
    <3> QED BY <2>4, <3>1 DEF Place, Grown
  <2>5. CASE i = Len(t) + 1
    <3>1. i - 1 = Len(s) + 1 /\ i # 0 /\ i - 1 # 0 /\ ~(i < k) /\ i # k
      BY <1>1, <2>5
    <3> QED BY <2>5, <3>1 DEF Place
  <2> QED BY <1>1, <2>1, <2>2, <2>3, <2>4, <2>5
<1>3. /\ \A i \in 0 .. Len(s) + 1 : Place(s, i) \in Linked /\ Place(s, i) # n
      /\ \A i, j \in 0 .. Len(s) + 1 : Place(s, i) = Place(s, j) => i = j
      /\ Place(s, 0) = HeadField /\ Place(s, Len(s) + 1) = End
  BY PlacesApart
<1>4. k - 1 \in 0 .. Len(s) + 1 /\ k \in 0 .. Len(s) + 1
  BY <1>1
<1>5. \A i \in 0 .. Len(s) + 1 :
         /\ i # k - 1 => next2[Place(s, i)] = next[Place(s, i)]
         /\ i # k => prev2[Place(s, i)] = prev[Place(s, i)]
  BY <1>3, <1>4
<1>6. next2[End] = NULL /\ prev2[HeadField] = NULL
  <2>1. Len(s) + 1 # k - 1 /\ 0 # k /\ 0 \in 0 .. Len(s) + 1 /\ Len(s) + 1 \in 0 .. Len(s) + 1
    BY <1>1
  <2> QED BY <1>3, <1>5, <2>1 DEF Linked2
<1>7. \A i \in 0 .. Len(s) :
         /\ prev[Place(s, i + 1)] = Place(s, i)
         /\ Len(s) > 0 => next[Place(s, i)] = Place(s, i + 1)
  BY <1>1, EmptySeq DEF Linked2
<1>8. ASSUME NEW i \in 0 .. Len(t)
      PROVE  prev2[Place(t, i + 1)] = Place(t, i) /\ next2[Place(t, i)] = Place(t, i + 1)
  <2>1. i \in 0 .. Len(t) + 1 /\ i + 1 \in 0 .. Len(t) + 1
    BY <1>1
  <2>2. CASE i < k - 1
    <3>1. i < k /\ i + 1 < k /\ i \in 0 .. Len(s) /\ i \in 0 .. Len(s) + 1 /\ i + 1 \in 0 .. Len(s) + 1 /\ Len(s) > 0
      BY <1>1, <2>2
    <3>2. Place(t, i) = Place(s, i) /\ Place(t, i + 1) = Place(s, i + 1)
      BY <1>2, <2>1, <3>1
    <3>3. i # k - 1 /\ i + 1 # k
      BY <1>1, <2>2
    <3> QED BY <1>5, <1>7, <3>1, <3>2, <3>3
  <2>3. CASE i = k - 1
    <3>1. i < k /\ i + 1 = k
      BY <1>1, <2>3
    <3>2. Place(t, i) = Place(s, k - 1) /\ Place(t, i + 1) = n
      BY <1>2, <2>1, <2>3, <3>1
    <3> QED BY <3>2
  <2>4. CASE i = k
    <3>1. ~(i + 1 < k) /\ i + 1 # k /\ i + 1 - 1 = k /\ ~(i < k)
      BY <1>1, <2>4
    <3>2. Place(t, i) = n /\ Place(t, i + 1) = Place(s, k)
      BY <1>2, <2>1, <2>4, <3>1
    <3> QED BY <3>2
  <2>5. CASE i > k
    <3>1. PICK j : j = i - 1
      OBVIOUS
    <3>2. /\ ~(i + 1 < k) /\ i + 1 # k /\ i + 1 - 1 = j + 1 /\ ~(i < k) /\ i # k
          /\ j \in 0 .. Len(s) /\ j \in 0 .. Len(s) + 1 /\ j + 1 \in 0 .. Len(s) + 1 /\ Len(s) > 0
          /\ j # k - 1 /\ j + 1 # k
      BY <1>1, <2>5, <3>1
    <3>3. Place(t, i) = Place(s, j) /\ Place(t, i + 1) = Place(s, j + 1)
      BY <1>2, <2>1, <3>1, <3>2
    <3> QED BY <1>5, <1>7, <3>2, <3>3
  <2> QED BY <1>1, <2>2, <2>3, <2>4, <2>5
<1> QED BY <1>6, <1>8 DEF Linked2

(* Taking out the k-th element makes its neighbours point at each other; a  *)
(* head that gets no link to the end node is that of a list that got empty. *)
LEMMA RemovedLinks ==
    ASSUME NEW s, Elements(s), NEW k \in 1 .. Len(s),
           NEW t, Shrunk(s, k, t), NEW next, NEW prev, Linked2(s, next, prev),
           NEW next2, NEW prev2,
           \/ next2[Place(s, k - 1)] = Place(s, k + 1)
           \/ Len(s) = 1 /\ next2[HeadField] = NULL,
           \A p \in Linked : p # Place(s, k - 1) => next2[p] = next[p],
           prev2[Place(s, k + 1)] = Place(s, k - 1),
           \A p \in Linked : p # Place(s, k + 1) => prev2[p] = prev[p]
    PROVE  Linked2(t, next2, prev2)
<1>1. /\ Len(s) \in Nat /\ k \in Nat /\ 1 <= k /\ k <= Len(s) /\ Len(t) = Len(s) - 1
      /\ s \in Seq(Nodes) /\ t \in Seq(Nodes) /\ Len(s) > 0
  BY ElementsAre DEF Shrunk, Elements
<1>2. \A i \in 0 .. Len(t) + 1 :
         Place(t, i) = IF i < k THEN Place(s, i) ELSE Place(s, i + 1)
  <2> TAKE i \in 0 .. Len(t) + 1
  <2>1. CASE i = 0
    BY <1>1, <2>1 DEF Place
  <2>2. CASE 0 < i /\ i < k
    <3>1. i \in 1 .. k - 1 /\ i # Len(s) + 1 /\ i # Len(t) + 1 /\ i # 0
      BY <1>1, <2>2
    <3> QED BY <2>2, <3>1 DEF Place, Shrunk
  <2>3. CASE i >= k /\ i # Len(t) + 1
    <3>1. i \in k .. Len(s) - 1 /\ i + 1 # Len(s) + 1 /\ i + 1 # 0 /\ i # 0 /\ ~(i < k)
      BY <1>1, <2>3
    <3> QED BY <2>3, <3>1 DEF Place, Shrunk
  <2>4. CASE i = Len(t) + 1
    <3>1. i + 1 = Len(s) + 1 /\ i # 0 /\ i + 1 # 0 /\ ~(i < k)
      BY <1>1, <2>4
    <3> QED BY <2>4, <3>1 DEF Place
  <2> QED BY <1>1, <2>1, <2>2, <2>3, <2>4
<1>3. /\ \A i \in 0 .. Len(s) + 1 : Place(s, i) \in Linked
      /\ \A i, j \in 0 .. Len(s) + 1 : Place(s, i) = Place(s, j) => i = j
      /\ Place(s, 0) = HeadField /\ Place(s, Len(s) + 1) = End
  BY PlacesApart
<1>4. k - 1 \in 0 .. Len(s) + 1 /\ k + 1 \in 0 .. Len(s) + 1
  BY <1>1
<1>5. \A i \in 0 .. Len(s) + 1 :
         /\ i # k - 1 => next2[Place(s, i)] = next[Place(s, i)]
         /\ i # k + 1 => prev2[Place(s, i)] = prev[Place(s, i)]
  BY <1>3, <1>4
<1>6. next2[End] = NULL /\ prev2[HeadField] = NULL
  <2>1. Len(s) + 1 # k - 1 /\ 0 # k + 1 /\ 0 \in 0 .. Len(s) + 1 /\ Len(s) + 1 \in 0 .. Len(s) + 1
    BY <1>1
  <2> QED BY <1>3, <1>5, <2>1 DEF Linked2
<1>7. \A i \in 0 .. Len(s) :
         prev[Place(s, i + 1)] = Place(s, i) /\ next[Place(s, i)] = Place(s, i + 1)
  BY <1>1, EmptySeq DEF Linked2
<1>8. ASSUME NEW i \in 0 .. Len(t)
      PROVE  /\ prev2[Place(t, i + 1)] = Place(t, i)
             /\ \/ next2[Place(t, i)] = Place(t, i + 1)
                \/ t = <<>> /\ next2[HeadField] = NULL
  <2>1. i \in 0 .. Len(t) + 1 /\ i + 1 \in 0 .. Len(t) + 1
    BY <1>1
  <2>2. CASE i < k - 1
    <3>1. i < k /\ i + 1 < k /\ i \in 0 .. Len(s) /\ i \in 0 .. Len(s) + 1 /\ i + 1 \in 0 .. Len(s) + 1
      BY <1>1, <2>2
    <3>2. Place(t, i) = Place(s, i) /\ Place(t, i + 1) = Place(s, i + 1)
      BY <1>2, <2>1, <3>1
    <3>3. i # k - 1 /\ i + 1 # k + 1
      BY <1>1, <2>2
    <3> QED BY <1>5, <1>7, <3>1, <3>2, <3>3
  <2>3. CASE i = k - 1
    <3>1. i < k /\ i + 1 = k /\ ~(i + 1 < k)
      BY <1>1, <2>3
    <3>2. Place(t, i) = Place(s, k - 1) /\ Place(t, i + 1) = Place(s, k + 1)
      BY <1>2, <2>1, <2>3, <3>1
    <3>3. Len(s) = 1 => t = <<>>
      BY <1>1, EmptySeq
    <3> QED BY <3>2, <3>3
  <2>4. CASE i >= k
    <3>1. PICK j : j = i + 1
      OBVIOUS
    <3>2. /\ ~(i + 1 < k) /\ ~(i < k)
          /\ j \in 0 .. Len(s) /\ j \in 0 .. Len(s) + 1 /\ j + 1 \in 0 .. Len(s) + 1
          /\ j # k - 1 /\ j + 1 # k + 1
      BY <1>1, <2>4, <3>1
    <3>3. Place(t, i) = Place(s, j) /\ Place(t, i + 1) = Place(s, j + 1)
      BY <1>2, <2>1, <3>1, <3>2
    <3> QED BY <1>5, <1>7, <3>2, <3>3
  <2> QED BY <1>1, <2>2, <2>3, <2>4
<1> QED BY <1>6, <1>8 DEF Linked2

(* HEAD, END, NEXT and PREV give the neighbours of an element: the end node *)
(* is the only place reached by a link whose own next is NULL, the head the *)
(* only one reached by a link back whose own prev is NULL.                  *)
LEMMA ReadsFollow ==
    ASSUME LlTypeOK, LinksAgree
    PROVE  /\ LlHead = At(litems, 1) /\ LlEnd = At(litems, Len(litems))
           /\ \A i \in 1 .. Len(litems) :
                 /\ LlNextOf(litems[i]) = At(litems, i + 1)
                 /\ LlPrevOf(litems[i]) = At(litems, i - 1)
<1>1. Elements(litems) /\ Len(litems) \in Nat
  BY ElementsAre DEF LlTypeOK, Elements
<1>2. Linked2(litems, lnext, lprev)
  BY <1>1, AgreeIs
<1> DEFINE s == litems
           n == Len(litems)
<1>3. /\ \A i \in 0 .. n + 1 : Place(s, i) \in Linked
      /\ \A i \in 1 .. n : Place(s, i) = s[i] /\ s[i] \in Nodes
      /\ Place(s, 0) = HeadField /\ Place(s, n + 1) = End
  BY <1>1, PlacesApart, ElementsAre
<1>4. NULL \notin Nodes /\ HeadField # NULL /\ End # NULL /\ End \notin Nodes /\ HeadField \notin Nodes
  BY NodesAssumption, EndAssumption
<1>5. \A i \in 0 .. n : lprev[Place(s, i + 1)] = Place(s, i)
  BY <1>2 DEF Linked2
<1>6. CASE n = 0
  <2>1. lnext[HeadField] \in {End, NULL}
    <3>1. 0 \in 0 .. n /\ 0 + 1 = n + 1
      BY <1>6
    <3> QED BY <1>2, <1>3, <1>6, <3>1 DEF Linked2
  <2>2. LlHead = NULL /\ LlEnd = NULL
    BY <2>1 DEF LlHead, LlEnd, LlIsEmpty
  <2> QED BY <1>6, <2>2 DEF At
<1>7. CASE n > 0
  <2>1. \A i \in 0 .. n : lnext[Place(s, i)] = Place(s, i + 1)
    BY <1>1, <1>2, <1>7, EmptySeq DEF Linked2
  <2>2. lnext[HeadField] = s[1] /\ s[1] \in Nodes
    <3>1. 0 \in 0 .. n /\ 0 + 1 = 1 /\ 1 \in 1 .. n
      BY <1>1, <1>7
    <3> QED BY <1>3, <2>1, <3>1
  <2>3. lprev[End] = s[n]
    <3>1. n \in 0 .. n /\ n \in 1 .. n
      BY <1>1, <1>7
    <3> QED BY <1>3, <1>5, <3>1
  <2>4. LlHead = At(s, 1) /\ LlEnd = At(s, n)
    <3>1. 1 \in 1 .. n /\ n \in 1 .. n
      BY <1>1, <1>7
    <3>2. ~LlIsEmpty
      BY <1>4, <2>2 DEF LlIsEmpty
    <3> QED BY <2>2, <2>3, <3>1, <3>2 DEF LlHead, LlEnd, At
  <2>5. ASSUME NEW i \in 1 .. n PROVE LlNextOf(s[i]) = At(s, i + 1)
    <3>1. i \in 0 .. n /\ i + 1 \in 0 .. n + 1 /\ i \in Int
      BY <1>1
    <3>2. lnext[s[i]] = Place(s, i + 1) /\ Place(s, i + 1) # NULL
      <4>1. Place(s, i) = s[i]
        BY <1>3
      <4> QED BY <1>3, <1>4, <2>1, <3>1, <4>1 DEF Linked
    <3>3. CASE i = n
      <4>1. lnext[lnext[s[i]]] = NULL
        BY <1>2, <1>3, <3>2, <3>3 DEF Linked2
      <4>2. i + 1 \notin 1 .. n
        BY <1>1, <3>3
      <4> QED BY <4>1, <4>2 DEF LlNextOf, LlIsLast, At
    <3>4. CASE i # n
      <4>1. i + 1 \in 0 .. n /\ i + 1 \in 1 .. n /\ i + 1 + 1 \in 0 .. n + 1
        BY <1>1, <3>1, <3>4
      <4>2. lnext[Place(s, i + 1)] = Place(s, i + 1 + 1)
        BY <2>1, <4>1
      <4>3. Place(s, i + 1 + 1) # NULL
        BY <1>3, <1>4, <4>1 DEF Linked
      <4>4. Place(s, i + 1) = s[i + 1]
        BY <1>3, <4>1
      <4> QED BY <3>2, <4>1, <4>2, <4>3, <4>4 DEF LlNextOf, LlIsLast, At
    <3> QED BY <3>3, <3>4
  <2>6. ASSUME NEW i \in 1 .. n PROVE LlPrevOf(s[i]) = At(s, i - 1)
    <3>1. i - 1 \in 0 .. n /\ i - 1 \in 0 .. n + 1 /\ i - 1 + 1 = i /\ i \in Int
      BY <1>1
    <3>2. lprev[s[i]] = Place(s, i - 1) /\ Place(s, i - 1) # NULL
      <4>1. Place(s, i) = s[i]
        BY <1>3
      <4>2. lprev[Place(s, i)] = Place(s, i - 1)
        BY <1>5, <3>1
      <4> QED BY <1>3, <1>4, <3>1, <4>1, <4>2 DEF Linked
    <3>3. CASE i = 1
      <4>1. lprev[lprev[s[i]]] = NULL
        BY <1>2, <1>3, <3>2, <3>3 DEF Linked2
      <4>2. i - 1 \notin 1 .. n
        BY <3>3
      <4> QED BY <4>1, <4>2 DEF LlPrevOf, LlIsFirst, At
    <3>4. CASE i # 1
      <4>1. i - 1 \in 1 .. n /\ i - 1 - 1 \in 0 .. n /\ i - 1 - 1 \in 0 .. n + 1 /\ i - 1 - 1 + 1 = i - 1
        BY <1>1, <3>1, <3>4
      <4>2. lprev[Place(s, i - 1)] = Place(s, i - 1 - 1)
        BY <1>5, <4>1
      <4>3. Place(s, i - 1 - 1) # NULL
        BY <1>3, <1>4, <4>1 DEF Linked
      <4>4. Place(s, i - 1) = s[i - 1]
        BY <1>3, <4>1
      <4> QED BY <3>2, <4>1, <4>2, <4>3, <4>4 DEF LlPrevOf, LlIsFirst, At
    <3> QED BY <3>3, <3>4
  <2> HIDE DEF s, n
  <2> QED BY <2>4, <2>5, <2>6 DEF s, n
<1> QED BY <1>1, <1>6, <1>7

LEMMA ReadsAgreeToo ==
    ASSUME LlTypeOK, LinksAgree
    PROVE  ReadsAgree
<1>1. DOMAIN litems = 1 .. Len(litems)
  BY LenProperties DEF LlTypeOK
<1> QED BY <1>1, ReadsFollow DEF ReadsAgree, At

LlInv ==
    /\ LlTypeOK
    /\ LinksAgree
    /\ InOrder(litems, lloop.next, lloop.due, lback)

LEMMA AgreeNow ==
    Elements(litems) => (LinksAgree <=> Linked2(litems, lnext, lprev))
BY AgreeIs

LEMMA AgreeNext ==
    (Elements(litems) => (LinksAgree <=> Linked2(litems, lnext, lprev)))'
BY AgreeNow, PTL

LEMMA LlParts ==
    ASSUME LlInv
    PROVE  /\ Elements(litems) /\ Len(litems) \in Nat
           /\ Linked2(litems, lnext, lprev)
           /\ lnext \in [Linked -> Nodes \cup {End, NULL}]
           /\ lprev \in [Linked -> Nodes \cup {HeadField, NULL}]
           /\ lloop \in Loops /\ lback \in BOOLEAN
           /\ InOrder(litems, lloop.next, lloop.due, lback)
<1>1. Elements(litems)
  BY DEF LlInv, LlTypeOK, Elements
<1> QED BY <1>1, AgreeIs, ElementsAre DEF LlInv, LlTypeOK

(* The four insertions differ in how they find the neighbours.              *)
LEMMA LlGrows ==
    ASSUME LlInv, NEW n \in LlOutside, NEW k \in 1 .. Len(litems) + 1,
           Grown(litems, k, n, litems'),
           NEW a, a = Place(litems, k - 1), NEW b, b = Place(litems, k),
           lnext' = [lnext EXCEPT ![n] = b, ![a] = n],
           lprev' = [lprev EXCEPT ![n] = a, ![b] = n],
           UNCHANGED <<lloop, lback>>
    PROVE  LlInv'
<1>1. /\ Elements(litems) /\ Len(litems) \in Nat /\ Linked2(litems, lnext, lprev)
      /\ lnext \in [Linked -> Nodes \cup {End, NULL}]
      /\ lprev \in [Linked -> Nodes \cup {HeadField, NULL}]
      /\ lloop \in Loops /\ lback \in BOOLEAN
      /\ InOrder(litems, lloop.next, lloop.due, lback)
  BY LlParts
<1>2. n \in Nodes /\ n \notin ToSet(litems) /\ n \in Linked
  BY DEF LlOutside, Linked
<1>3. k - 1 \in 0 .. Len(litems) + 1 /\ k \in 0 .. Len(litems) + 1 /\ k - 1 # Len(litems) + 1 /\ k # 0
  BY <1>1
<1>4. a \in Linked /\ a # n /\ b \in Linked /\ b # n /\ a # End /\ b # HeadField
  <2>1. Len(litems) + 1 \in 0 .. Len(litems) + 1 /\ 0 \in 0 .. Len(litems) + 1
    BY <1>1
  <2> QED BY <1>1, <1>2, <1>3, <2>1, PlacesApart
<1>5. a \in Nodes \cup {HeadField} /\ b \in Nodes \cup {End}
  BY <1>4 DEF Linked
<1>6. /\ lnext' \in [Linked -> Nodes \cup {End, NULL}]
      /\ lnext'[n] = b /\ lnext'[a] = n
      /\ \A p \in Linked : p # n /\ p # a => lnext'[p] = lnext[p]
  BY <1>1, <1>2, <1>4, <1>5
<1>7. /\ lprev' \in [Linked -> Nodes \cup {HeadField, NULL}]
      /\ lprev'[n] = a /\ lprev'[b] = n
      /\ \A p \in Linked : p # n /\ p # b => lprev'[p] = lprev[p]
  BY <1>1, <1>2, <1>4, <1>5
<1>8. Elements(litems')
  BY <1>1, <1>2, GrownElements
<1>9. Linked2(litems', lnext', lprev')
  <2>1. n \in Nodes \ ToSet(litems)
    BY <1>2
  <2>2. PICK next, prev : next = lnext' /\ prev = lprev'
    OBVIOUS
  <2>3. /\ next[n] = Place(litems, k) /\ next[Place(litems, k - 1)] = n
        /\ \A p \in Linked : p # n /\ p # Place(litems, k - 1) => next[p] = lnext[p]
    BY <1>6, <2>2
  <2>4. /\ prev[n] = Place(litems, k - 1) /\ prev[Place(litems, k)] = n
        /\ \A p \in Linked : p # n /\ p # Place(litems, k) => prev[p] = lprev[p]
    BY <1>7, <2>2
  <2>5. Linked2(litems', next, prev)
    BY <1>1, <2>1, <2>3, <2>4, InsertedLinks
  <2> QED BY <2>2, <2>5
<1>10. LinksAgree'
  BY <1>8, <1>9, AgreeNext
<1>11. InOrder(litems', lloop'.next, lloop'.due, lback')
  BY <1>1, <1>2, InsertKeepsOrder
<1>12. LlTypeOK'
  BY <1>1, <1>6, <1>7, <1>8 DEF LlTypeOK, Elements
<1> QED BY <1>10, <1>11, <1>12 DEF LlInv

LEMMA LlShrinks ==
    ASSUME LlInv, NEW k \in 1 .. Len(litems), litems[k] # lloop.next,
           Shrunk(litems, k, litems'),
           NEW a, a = Place(litems, k - 1), NEW b, b = Place(litems, k + 1),
           NEW c, c = b \/ (Len(litems) = 1 /\ c = NULL),
           lnext' = [lnext EXCEPT ![a] = c],
           lprev' = [lprev EXCEPT ![b] = a],
           lloop' = Left(lloop, litems[k]), UNCHANGED lback
    PROVE  LlInv'
<1>1. /\ Elements(litems) /\ Len(litems) \in Nat /\ Linked2(litems, lnext, lprev)
      /\ lnext \in [Linked -> Nodes \cup {End, NULL}]
      /\ lprev \in [Linked -> Nodes \cup {HeadField, NULL}]
      /\ lloop \in Loops /\ lback \in BOOLEAN
      /\ InOrder(litems, lloop.next, lloop.due, lback)
  BY LlParts
<1>2. k - 1 \in 0 .. Len(litems) + 1 /\ k + 1 \in 0 .. Len(litems) + 1 /\ k - 1 # Len(litems) + 1 /\ k + 1 # 0
  BY <1>1
<1>3. a \in Linked /\ b \in Linked /\ a # End /\ b # HeadField
  <2>1. Len(litems) + 1 \in 0 .. Len(litems) + 1 /\ 0 \in 0 .. Len(litems) + 1
    BY <1>1
  <2> QED BY <1>1, <1>2, <2>1, PlacesApart
<1>4. a \in Nodes \cup {HeadField} /\ b \in Nodes \cup {End} /\ c \in Nodes \cup {End, NULL}
  BY <1>3 DEF Linked
<1>5. /\ lnext' \in [Linked -> Nodes \cup {End, NULL}] /\ lnext'[a] = c
      /\ \A p \in Linked : p # a => lnext'[p] = lnext[p]
      /\ lprev' \in [Linked -> Nodes \cup {HeadField, NULL}] /\ lprev'[b] = a
      /\ \A p \in Linked : p # b => lprev'[p] = lprev[p]
  BY <1>1, <1>3, <1>4
<1>6. Elements(litems')
  BY <1>1, ShrunkElements
<1>7. \/ lnext'[Place(litems, k - 1)] = Place(litems, k + 1)
      \/ Len(litems) = 1 /\ lnext'[HeadField] = NULL
  <2>1. CASE c = b
    BY <1>5, <2>1
  <2>2. CASE Len(litems) = 1 /\ c = NULL
    <3>1. k - 1 = 0
      BY <2>2
    <3>2. a = HeadField
      BY <1>1, <3>1, PlacesApart
    <3> QED BY <1>5, <2>2, <3>2
  <2> QED BY <2>1, <2>2
<1>8. Linked2(litems', lnext', lprev')
  <2>1. PICK next, prev : next = lnext' /\ prev = lprev'
    OBVIOUS
  <2>2. /\ \A p \in Linked : p # Place(litems, k - 1) => next[p] = lnext[p]
        /\ prev[Place(litems, k + 1)] = Place(litems, k - 1)
        /\ \A p \in Linked : p # Place(litems, k + 1) => prev[p] = lprev[p]
    BY <1>5, <2>1
  <2>3. \/ next[Place(litems, k - 1)] = Place(litems, k + 1)
        \/ Len(litems) = 1 /\ next[HeadField] = NULL
    BY <1>7, <2>1
  <2>4. Linked2(litems', next, prev)
    BY <1>1, <2>2, <2>3, RemovedLinks
  <2> QED BY <2>1, <2>4
<1>9. LinksAgree'
  BY <1>6, <1>8, AgreeNext
<1>10. lloop' \in Loops /\ lloop'.next = lloop.next /\ lloop'.due = lloop.due \ {litems[k]}
  BY <1>1 DEF Loops, Left
<1>11. InOrder(litems', lloop'.next, lloop'.due, lback')
  BY <1>1, <1>10, RemoveKeepsOrder
<1>12. LlTypeOK'
  BY <1>1, <1>5, <1>6, <1>10 DEF LlTypeOK, Elements
<1> QED BY <1>9, <1>11, <1>12 DEF LlInv

LEMMA LlStarts == LlInit => LlInv
<1> SUFFICES ASSUME LlInit PROVE LlInv
  OBVIOUS
<1> USE DEF LlInit
<1>1. litems \in Seq(Nodes) /\ Len(litems) = 0
  BY EmptySeq
<1>2. Elements(litems)
  BY <1>1, LenProperties DEF Elements, IsInjective
<1>3. LlTypeOK
  <2>1. lloop \in Loops
    BY DEF Loops, NoLoop
  <2> QED BY <1>2, <2>1, NodesAssumption, EndAssumption DEF LlTypeOK, Elements, Linked
<1>4. lnext[End] = NULL /\ lprev[HeadField] = NULL /\ lnext[HeadField] = NULL /\ lprev[End] = HeadField
  BY EndAssumption DEF Linked
<1>5. Linked2(litems, lnext, lprev)
  <2>1. ASSUME NEW i \in 0 .. Len(litems) PROVE Place(litems, i) = HeadField /\ Place(litems, i + 1) = End
    <3>1. i = 0
      BY <1>1
    <3> QED BY <1>1, <3>1 DEF Place
  <2> QED BY <1>4, <2>1 DEF Linked2
<1>6. InOrder(litems, lloop.next, lloop.due, lback)
  BY DEF InOrder, NoLoop
<1> QED BY <1>2, <1>3, <1>5, <1>6, AgreeIs DEF LlInv

LEMMA LlNeighbours ==
    ASSUME LlInv
    PROVE  /\ \A i \in 1 .. Len(litems) :
                 /\ Place(litems, i) = litems[i]
                 /\ lnext[litems[i]] = Place(litems, i + 1)
                 /\ lprev[litems[i]] = Place(litems, i - 1)
           /\ lprev[End] = Place(litems, Len(litems))
           /\ (IF LlIsEmpty THEN End ELSE LlHead) = Place(litems, 1)
<1>1. Elements(litems) /\ Len(litems) \in Nat /\ Linked2(litems, lnext, lprev)
  BY LlParts
<1>2. LlTypeOK /\ LinksAgree
  BY DEF LlInv
<1>3. \A i \in 1 .. Len(litems) : Place(litems, i) = litems[i]
  BY <1>1, PlacesApart
<1>4. ASSUME NEW i \in 1 .. Len(litems) PROVE lnext[litems[i]] = Place(litems, i + 1)
  <2>1. i \in 0 .. Len(litems) /\ Len(litems) # 0
    BY <1>1
  <2> QED BY <1>1, <1>3, <2>1, EmptySeq DEF Linked2
<1>5. ASSUME NEW i \in 1 .. Len(litems) PROVE lprev[litems[i]] = Place(litems, i - 1)
  <2>1. i - 1 \in 0 .. Len(litems) /\ i - 1 + 1 = i
    BY <1>1
  <2> QED BY <1>1, <1>3, <2>1 DEF Linked2
<1>6. lprev[End] = Place(litems, Len(litems))
  <2>1. Len(litems) \in 0 .. Len(litems) /\ Place(litems, Len(litems) + 1) = End
    BY <1>1, PlacesApart
  <2> QED BY <1>1, <2>1 DEF Linked2
<1>7. (IF LlIsEmpty THEN End ELSE LlHead) = Place(litems, 1)
  <2>1. Place(litems, 0) = HeadField /\ Place(litems, Len(litems) + 1) = End
    BY <1>1, PlacesApart
  <2>2. CASE Len(litems) = 0
    <3>1. 0 \in 0 .. Len(litems) /\ 0 + 1 = 1
      BY <2>2
    <3>2. lnext[HeadField] = Place(litems, 1) \/ lnext[HeadField] = NULL
      BY <1>1, <2>1, <3>1 DEF Linked2
    <3>3. Place(litems, 1) = End
      BY <2>1, <2>2
    <3> QED BY <3>2, <3>3 DEF LlIsEmpty
  <2>3. CASE Len(litems) # 0
    <3>1. 0 \in 0 .. Len(litems) /\ 0 + 1 = 1 /\ 1 \in 1 .. Len(litems)
      BY <1>1, <2>3
    <3>2. lnext[HeadField] = Place(litems, 1)
      BY <1>1, <2>1, <2>3, <3>1, EmptySeq DEF Linked2
    <3>3. Place(litems, 1) \in Nodes
      BY <1>1, <1>3, <3>1, ElementsAre
    <3> QED BY <3>2, <3>3, NodesAssumption, EndAssumption DEF LlIsEmpty, LlHead
  <2> QED BY <2>2, <2>3
<1> QED BY <1>3, <1>4, <1>5, <1>6, <1>7

LEMMA LlInserts ==
    ASSUME LlInv, NEW n \in Nodes,
           LlPush(n) \/ LlEnqueue(n) \/ \E e \in Nodes : LlInsertAfter(e, n) \/ LlInsertBefore(e, n)
    PROVE  LlInv'
<1>1. /\ Elements(litems) /\ litems \in Seq(Nodes) /\ Len(litems) \in Nat
      /\ lnext \in [Linked -> Nodes \cup {End, NULL}]
      /\ lprev \in [Linked -> Nodes \cup {HeadField, NULL}]
  BY LlParts DEF Elements
<1>2. n \in LlOutside /\ n \in Linked
  BY DEF LlPush, LlEnqueue, LlInsertAfter, LlInsertBefore, Linked
<1>3. CASE LlPush(n)
  <2>1. PICK a, b : a = HeadField /\ b = Place(litems, 1)
    OBVIOUS
  <2>2. a = Place(litems, 1 - 1) /\ 1 \in 1 .. Len(litems) + 1
    BY <1>1, <2>1 DEF Place
  <2>3. lnext' = [lnext EXCEPT ![n] = b, ![a] = n] /\ UNCHANGED <<lloop, lback>>
    BY <1>3, <2>1, LlNeighbours DEF LlPush
  <2>4. lprev' = [lprev EXCEPT ![b] = n, ![n] = a]
    BY <1>3, <2>1, LlNeighbours DEF LlPush
  <2>5. b # n
    <3>1. 1 \in 0 .. Len(litems) + 1 /\ n \in Nodes \ ToSet(litems)
      BY <1>1, <1>2 DEF LlOutside
    <3> QED BY <1>1, <2>1, <3>1, PlacesApart
  <2>6. lprev' = [lprev EXCEPT ![n] = a, ![b] = n]
    BY <1>1, <2>4, <2>5
  <2>7. Grown(litems, 1, n, litems')
    BY <1>1, <1>3, ConsGrows DEF LlPush
  <2> QED BY <1>2, <2>1, <2>2, <2>3, <2>6, <2>7, LlGrows
<1>4. CASE LlEnqueue(n)
  <2>1. PICK a, b, k : a = lprev[End] /\ b = End /\ k = Len(litems) + 1
    OBVIOUS
  <2>2. a = Place(litems, k - 1) /\ b = Place(litems, k) /\ k \in 1 .. Len(litems) + 1
    <3>1. k - 1 = Len(litems) /\ k \in 1 .. Len(litems) + 1
      BY <1>1, <2>1
    <3> QED BY <1>1, <2>1, <3>1, LlNeighbours, PlacesApart
  <2>3. /\ lnext' = [lnext EXCEPT ![n] = b, ![a] = n] /\ UNCHANGED <<lloop, lback>>
        /\ lprev' = [lprev EXCEPT ![n] = a, ![b] = n]
    BY <1>4, <2>1 DEF LlEnqueue
  <2>4. Grown(litems, k, n, litems')
    BY <1>1, <1>4, <2>1, AppendGrows DEF LlEnqueue
  <2> QED BY <1>2, <2>2, <2>3, <2>4, LlGrows
<1>5. CASE \E e \in Nodes : LlInsertAfter(e, n)
  <2>1. PICK e \in Nodes : LlInsertAfter(e, n)
    BY <1>5
  <2>2. PICK i : i = Position(litems, e)
    OBVIOUS
  <2>3. e \in ToSet(litems) /\ i \in 1 .. Len(litems) /\ litems[i] = e /\ i + 1 \in 1 .. Len(litems) + 1
    BY <1>1, <2>1, <2>2, PositionIs DEF LlInsertAfter
  <2>4. PICK a, b, k : a = e /\ b = lnext[e] /\ k = i + 1
    OBVIOUS
  <2>5. a = Place(litems, k - 1) /\ b = Place(litems, k) /\ k \in 1 .. Len(litems) + 1
    <3>1. k - 1 = i
      BY <2>3, <2>4
    <3> QED BY <2>3, <2>4, <3>1, LlNeighbours
  <2>6. /\ lnext' = [lnext EXCEPT ![n] = b, ![a] = n] /\ UNCHANGED <<lloop, lback>>
        /\ lprev' = [lprev EXCEPT ![n] = a, ![b] = n]
    BY <2>1, <2>4 DEF LlInsertAfter
  <2>7. Grown(litems, k, n, litems')
    BY <1>1, <2>1, <2>2, <2>4, <2>5, InsertAtGrows DEF LlInsertAfter, PutAfter
  <2> QED BY <1>2, <2>5, <2>6, <2>7, LlGrows
<1>6. CASE \E e \in Nodes : LlInsertBefore(e, n)
  <2>1. PICK e \in Nodes : LlInsertBefore(e, n)
    BY <1>6
  <2>2. PICK k : k = Position(litems, e)
    OBVIOUS
  <2>3. e \in ToSet(litems) /\ k \in 1 .. Len(litems) /\ litems[k] = e /\ k \in 1 .. Len(litems) + 1
    BY <1>1, <2>1, <2>2, PositionIs DEF LlInsertBefore
  <2>4. PICK a, b : a = lprev[e] /\ b = e
    OBVIOUS
  <2>5. a = Place(litems, k - 1) /\ b = Place(litems, k)
    BY <2>3, <2>4, LlNeighbours
  <2>6. /\ lnext' = [lnext EXCEPT ![n] = b, ![a] = n] /\ UNCHANGED <<lloop, lback>>
        /\ lprev' = [lprev EXCEPT ![n] = a, ![b] = n]
    BY <2>1, <2>4 DEF LlInsertBefore
  <2>7. Grown(litems, k, n, litems')
    BY <1>1, <2>1, <2>2, <2>3, InsertAtGrows DEF LlInsertBefore, PutBefore
  <2> QED BY <1>2, <2>3, <2>5, <2>6, <2>7, LlGrows
<1> QED BY <1>3, <1>4, <1>5, <1>6

LEMMA LlRemoves ==
    ASSUME LlInv, LlPop \/ \E n \in Nodes : LlRemove(n)
    PROVE  LlInv'
<1>1. /\ Elements(litems) /\ litems \in Seq(Nodes) /\ Len(litems) \in Nat
      /\ lnext \in [Linked -> Nodes \cup {End, NULL}]
      /\ lprev \in [Linked -> Nodes \cup {HeadField, NULL}]
  BY LlParts DEF Elements
<1>2. CASE \E n \in Nodes : LlRemove(n)
  <2>1. PICK n \in Nodes : LlRemove(n)
    BY <1>2
  <2>2. PICK k : k = Position(litems, n)
    OBVIOUS
  <2>3. k \in 1 .. Len(litems) /\ litems[k] = n /\ lloop.next # n
    BY <1>1, <2>1, <2>2, PositionIs DEF LlRemove, MayLeave
  <2>4. PICK a, b : a = lprev[n] /\ b = lnext[n]
    OBVIOUS
  <2>5. a = Place(litems, k - 1) /\ b = Place(litems, k + 1)
    BY <2>3, <2>4, LlNeighbours
  <2>6. /\ lnext' = [lnext EXCEPT ![a] = b] /\ lprev' = [lprev EXCEPT ![b] = a]
        /\ lloop' = Left(lloop, litems[k]) /\ UNCHANGED lback
    BY <2>1, <2>3, <2>4 DEF LlRemove, Leaves
  <2>7. Shrunk(litems, k, litems')
    BY <1>1, <2>1, <2>2, <2>3, RemoveAtShrinks DEF LlRemove, Leaves, TakenOut
  <2>8. PICK c : c = b
    OBVIOUS
  <2>9. lnext' = [lnext EXCEPT ![a] = c]
    BY <2>6, <2>8
  <2> QED BY <2>3, <2>5, <2>6, <2>7, <2>8, <2>9, LlShrinks
<1>3. CASE LlPop
  <2>1. Len(litems) > 0 /\ 1 \in 1 .. Len(litems)
    BY <1>1, <1>3, EmptySeq DEF LlPop
  <2>2. LlHead = litems[1] /\ LlNextOf(litems[1]) = At(litems, 1 + 1)
    BY <2>1, ReadsFollow DEF LlInv, At
  <2>3. PICK a, b, c : a = HeadField /\ b = Place(litems, 1 + 1) /\ c = At(litems, 1 + 1)
    OBVIOUS
  <2>4. /\ c = b \/ (Len(litems) = 1 /\ c = NULL)
        /\ b = IF c = NULL THEN End ELSE c
        /\ a = Place(litems, 1 - 1)
    <3>1. a = Place(litems, 1 - 1)
      BY <2>3 DEF Place
    <3>2. CASE Len(litems) = 1
      <4>1. c = NULL /\ b = End
        BY <2>3, <3>2 DEF At, Place
      <4> QED BY <3>1, <3>2, <4>1
    <3>3. CASE Len(litems) # 1
      <4>1. PICK m : m = Len(litems)
        OBVIOUS
      <4>2. m \in Nat /\ m > 0 /\ m # 1
        BY <1>1, <2>1, <3>3, <4>1
      <4>3. 1 + 1 \in 1 .. m /\ 1 + 1 # m + 1 /\ 1 + 1 # 0
        BY <4>2
      <4>4. c = litems[1 + 1] /\ b = litems[1 + 1]
        BY <2>3, <4>1, <4>3 DEF At, Place
      <4>5. c = b /\ c \in Nodes
        BY <1>1, <4>1, <4>3, <4>4, ElementsAre
      <4> QED BY <3>1, <4>5, NodesAssumption
    <3> QED BY <3>2, <3>3
  <2>5. /\ lnext' = [lnext EXCEPT ![a] = c]
        /\ lprev' = [lprev EXCEPT ![b] = a]
        /\ lloop' = Left(lloop, litems[1]) /\ UNCHANGED lback
        /\ litems' = TakenOut(litems, litems[1]) /\ litems[1] # lloop.next
    BY <1>3, <2>2, <2>3, <2>4 DEF LlPop, Leaves, MayLeave
  <2>6. Position(litems, litems[1]) = 1
    BY <1>1, <2>1, PositionIs
  <2>7. Shrunk(litems, 1, litems')
    BY <1>1, <2>1, <2>5, <2>6, RemoveAtShrinks DEF TakenOut
  <2>8. b = Place(litems, 1 + 1)
    BY <2>3
  <2> QED BY <2>1, <2>4, <2>5, <2>7, <2>8, LlShrinks
<1> QED BY <1>2, <1>3

LEMMA LlLoops ==
    ASSUME LlInv, LlLoopOn \/ \E back \in BOOLEAN : LlForEach(back)
    PROVE  LlInv'
<1>1. /\ Elements(litems) /\ litems \in Seq(Nodes) /\ Len(litems) \in Nat
      /\ lloop \in Loops /\ lback \in BOOLEAN
      /\ InOrder(litems, lloop.next, lloop.due, lback)
      /\ LlTypeOK /\ LinksAgree
  BY LlParts DEF Elements, LlInv
<1>2. NULL \notin ToSet(litems)
  BY <1>1, ElementsAre, NodesAssumption
<1>3. UNCHANGED <<lnext, lprev, litems>>
  BY DEF LlLoopOn, LlForEach
<1>4. LinksAgree'
  BY <1>1, <1>3 DEF LinksAgree
(* Reading ahead from the i-th element.                                     *)
<1>5. ASSUME NEW i \in 1 .. Len(litems), NEW back \in BOOLEAN
      PROVE  /\ Ahead(back, litems[i]) = IF back THEN At(litems, i - 1) ELSE At(litems, i + 1)
             /\ litems[i] \in Nodes /\ Ahead(back, litems[i]) \in Nodes \cup {NULL}
  <2>1. Ahead(back, litems[i]) = IF back THEN At(litems, i - 1) ELSE At(litems, i + 1)
    BY <1>1, ReadsFollow DEF Ahead
  <2>2. \A j : At(litems, j) \in Nodes \cup {NULL}
    BY <1>1, ElementsAre DEF At
  <2> QED BY <1>1, <2>1, <2>2, ElementsAre
<1>6. lloop' \in Loops /\ lback' \in BOOLEAN /\ InOrder(litems, lloop'.next, lloop'.due, lback')
  <2>1. CASE LlLoopOn /\ lloop.next # NULL
    <3>1. PICK i \in 1 .. Len(litems) : litems[i] = lloop.next
      BY <1>1, <2>1, ElementsAre DEF InOrder
    <3>2. PICK next, due : next = Ahead(lback, litems[i]) /\ due = lloop.due \ {litems[i]}
      OBVIOUS
    <3>3. lloop' = [at |-> litems[i], next |-> next, due |-> due] /\ lback' = lback
      BY <2>1, <3>1, <3>2 DEF LlLoopOn
    <3>4. InOrder(litems, litems[i], lloop.due, lback)
      BY <1>1, <3>1
    <3>5. InOrder(litems, next, due, lback)
      <4>1. InOrder(litems, IF lback THEN At(litems, i - 1) ELSE At(litems, i + 1), due, lback)
        BY <1>1, <1>2, <3>2, <3>4, TurnKeepsOrder
      <4> QED BY <1>1, <1>5, <3>2, <4>1
    <3>6. litems[i] \in Nodes /\ next \in Nodes \cup {NULL} /\ due \subseteq Nodes
      BY <1>1, <1>5, <3>2 DEF Loops
    <3> QED BY <1>1, <3>3, <3>5, <3>6 DEF Loops
  <2>2. CASE LlLoopOn /\ lloop.next = NULL
    <3>1. lloop.due = {}
      BY <1>1, <1>2, <2>2 DEF InOrder
    <3>2. lloop' = [at |-> NULL, next |-> NULL, due |-> {}] /\ lback' = lback
      BY <2>2, <3>1 DEF LlLoopOn
    <3> QED BY <1>1, <3>2 DEF Loops, InOrder
  <2>3. CASE \E back \in BOOLEAN : LlForEach(back)
    <3>1. PICK back \in BOOLEAN : LlForEach(back)
      BY <2>3
    <3>2. Len(litems) > 0
      BY <1>1, <3>1, EmptySeq DEF LlForEach
    <3>3. PICK i : i = IF back THEN Len(litems) ELSE 1
      OBVIOUS
    <3>4. i \in 1 .. Len(litems)
      BY <1>1, <3>2, <3>3
    <3>5. (IF back THEN LlEnd ELSE LlHead) = litems[i]
      <4>1. LlEnd = At(litems, Len(litems)) /\ LlHead = At(litems, 1)
        BY <1>1, ReadsFollow
      <4> QED BY <3>3, <3>4, <4>1 DEF At
    <3>6. PICK next, due : next = Ahead(back, litems[i]) /\ due = ToSet(litems) \ {litems[i]}
      OBVIOUS
    <3>7. lloop' = [at |-> litems[i], next |-> next, due |-> due] /\ lback' = back
      BY <3>1, <3>5, <3>6 DEF LlForEach
    <3>8. InOrder(litems, litems[i], ToSet(litems), back)
      <4>1. InOrder(litems, IF back THEN litems[Len(litems)] ELSE litems[1], ToSet(litems), back)
        BY <1>1, <3>2, WholeIsInOrder
      <4>2. (IF back THEN litems[Len(litems)] ELSE litems[1]) = litems[i]
        BY <3>3
      <4> QED BY <4>1, <4>2
    <3>9. InOrder(litems, next, due, back)
      <4>1. InOrder(litems, IF back THEN At(litems, i - 1) ELSE At(litems, i + 1), due, back)
        BY <1>1, <1>2, <3>4, <3>6, <3>8, TurnKeepsOrder
      <4> QED BY <1>5, <3>4, <3>6, <4>1
    <3>10. litems[i] \in Nodes /\ next \in Nodes \cup {NULL} /\ due \subseteq Nodes
      BY <1>1, <1>5, <3>4, <3>6, ElementsAre
    <3> QED BY <3>7, <3>9, <3>10 DEF Loops
  <2> QED BY <2>1, <2>2, <2>3
<1> QED BY <1>1, <1>3, <1>4, <1>6 DEF LlInv, LlTypeOK

LEMMA LlReuses ==
    ASSUME LlInv, NEW n \in Nodes, LlReuse(n)
    PROVE  LlInv'
<1>1. /\ Elements(litems) /\ litems \in Seq(Nodes) /\ Len(litems) \in Nat
      /\ lnext \in [Linked -> Nodes \cup {End, NULL}]
      /\ lprev \in [Linked -> Nodes \cup {HeadField, NULL}]
      /\ Linked2(litems, lnext, lprev) /\ LlTypeOK
      /\ InOrder(litems, lloop.next, lloop.due, lback)
  BY LlParts DEF Elements, LlInv
<1>2. n \in Nodes \ ToSet(litems) /\ n \in Linked /\ n # End /\ n # HeadField
  BY NodesAssumption, EndAssumption DEF LlReuse, LlOutside, Linked
<1>3. \A p \in Linked : p # n => lnext'[p] = lnext[p] /\ lprev'[p] = lprev[p]
  BY <1>1 DEF LlReuse
<1>4. /\ lnext' \in [Linked -> Nodes \cup {End, NULL}] /\ lprev' \in [Linked -> Nodes \cup {HeadField, NULL}]
      /\ UNCHANGED <<litems, lloop, lback>>
  BY <1>1 DEF LlReuse
<1>5. \A i \in 0 .. Len(litems) + 1 :
         lnext'[Place(litems, i)] = lnext[Place(litems, i)] /\ lprev'[Place(litems, i)] = lprev[Place(litems, i)]
  BY <1>1, <1>2, <1>3, PlacesApart
<1>6. Linked2(litems, lnext', lprev')
  <2>1. \A i \in 0 .. Len(litems) : i \in 0 .. Len(litems) + 1 /\ i + 1 \in 0 .. Len(litems) + 1
    BY <1>1
  <2>2. HeadField \in Linked /\ End \in Linked
    BY DEF Linked
  <2> QED BY <1>1, <1>2, <1>3, <1>5, <2>1, <2>2 DEF Linked2
<1>7. LinksAgree'
  BY <1>1, <1>4, <1>6, AgreeNext
<1> QED BY <1>1, <1>4, <1>7 DEF LlInv, LlTypeOK

LEMMA LlStays == LlInv /\ [LlStep]_lvars => LlInv'
<1> SUFFICES ASSUME LlInv, [LlStep]_lvars PROVE LlInv'
  OBVIOUS
<1>1. CASE UNCHANGED lvars
  BY <1>1 DEF lvars, LlInv, LlTypeOK, LinksAgree
<1>2. CASE LlStep
  BY <1>2, LlInserts, LlRemoves, LlLoops, LlReuses DEF LlStep
<1> QED BY <1>1, <1>2

(* After any sequence of calls of ll.h:101-173 the links forth and back of  *)
(* every place agree with the elements the calls put in, and the loop in    *)
(* progress has read ahead an element that is in the list (ll.h:179-189).   *)
THEOREM DoublyLinkedInvariant == LlSpec => []LlInv
BY LlStarts, LlStays, PTL DEF LlSpec

(* The links (ll.h:37-60) keep their types, and no node is in the list      *)
(* twice.                                                                   *)
THEOREM DoublyLinkedTypes == LlSpec => []LlTypeOK
<1>1. LlInv => LlTypeOK
  BY DEF LlInv
<1> QED BY <1>1, DoublyLinkedInvariant, PTL

(* A doubly-linked list of any nodes is the sequence its calls promise, by  *)
(* its links and through HEAD, END, NEXT and PREV (ll.h:80-98), though POP  *)
(* leaves an emptied list with a head of NULL.                              *)
THEOREM DoublyLinkedIsSequence == LlSpec => []LlIsSequence
<1>1. LlInv => LlIsSequence
  BY ReadsAgreeToo DEF LlInv, LlIsSequence
<1> QED BY <1>1, DoublyLinkedInvariant, PTL

(* FOR_EACH and FOR_EACH_REV (ll.h:179-189) miss no element that stays,     *)
(* whatever their body inserts and removes but the element read ahead.      *)
THEOREM DoublyLinkedLoops == LlSpec => []LlLoopMissesNothing
<1>1. LlInv => LlLoopMissesNothing
  BY DEF LlInv, LlLoopMissesNothing, InOrder
<1> QED BY <1>1, DoublyLinkedInvariant, PTL

-----------------------------------------------------------------------------
(* The singly-linked list.  end may point into a node that has left: each   *)
(* node that left, followed by what its link still leads to, comes to an    *)
(* element, and the later it left the sooner.                               *)

Descends(s, next, R, f) ==
    \A x \in R : next[x] \in ToSet(s) \/ (next[x] \in R /\ f[next[x]] < f[x])

Leads(s, next, p) ==
    \E R \in SUBSET (Nodes \ ToSet(s)), f \in [Nodes -> Nat] :
        /\ p \in R \cup ToSet(s) \cup {HeadField}
        /\ Descends(s, next, R, f)

LEMMA LeadsHome ==
    ASSUME NEW s, NEW next, NEW p \in ToSet(s) \cup {HeadField}
    PROVE  Leads(s, next, p)
<1> DEFINE R == {}
           f == [x \in Nodes |-> 0]
<1>1. R \in SUBSET (Nodes \ ToSet(s)) /\ f \in [Nodes -> Nat]
  OBVIOUS
<1>2. Descends(s, next, R, f)
  BY DEF Descends
<1> QED BY <1>1, <1>2 DEF Leads

LEMMA LeadsOnceMore ==
    ASSUME NEW s, NEW t, NEW n \in Nodes, ToSet(t) = ToSet(s) \cup {n},
           NEW next, NEW next2, \A x \in Nodes \ (ToSet(s) \cup {n}) : next2[x] = next[x],
           NEW p, Leads(s, next, p)
    PROVE  Leads(t, next2, p)
<1>1. PICK R \in SUBSET (Nodes \ ToSet(s)), f \in [Nodes -> Nat] :
         p \in R \cup ToSet(s) \cup {HeadField} /\ Descends(s, next, R, f)
  BY DEF Leads
<1>2. PICK Q : Q = R \ {n}
  OBVIOUS
<1>3. Q \in SUBSET (Nodes \ ToSet(t)) /\ p \in Q \cup ToSet(t) \cup {HeadField}
  BY <1>1, <1>2
<1>4. Descends(t, next2, Q, f)
  <2> SUFFICES ASSUME NEW x \in Q
               PROVE  next2[x] \in ToSet(t) \/ (next2[x] \in Q /\ f[next2[x]] < f[x])
    BY DEF Descends
  <2>1. next2[x] = next[x] /\ x \in R
    BY <1>1, <1>2
  <2>2. next[x] \in ToSet(s) \/ (next[x] \in R /\ f[next[x]] < f[x])
    BY <1>1, <2>1 DEF Descends
  <2> QED BY <1>2, <2>1, <2>2
<1> QED BY <1>1, <1>3, <1>4 DEF Leads

(* The node that leaves joins them at the end.                              *)
LEMMA LeadsOneLess ==
    ASSUME NEW s, NEW t, NEW n \in Nodes, ToSet(t) = ToSet(s) \ {n},
           NEW next, NEW next2, \A x \in Nodes \ ToSet(t) : next2[x] = next[x],
           next[n] \in ToSet(t),
           NEW p, Leads(s, next, p)
    PROVE  Leads(t, next2, p)
<1>1. PICK R \in SUBSET (Nodes \ ToSet(s)), f \in [Nodes -> Nat] :
         p \in R \cup ToSet(s) \cup {HeadField} /\ Descends(s, next, R, f)
  BY DEF Leads
<1>2. PICK Q, g : Q = R \cup {n} /\ g = [x \in Nodes |-> IF x = n THEN 0 ELSE f[x] + 1]
  OBVIOUS
<1>3. /\ Q \in SUBSET (Nodes \ ToSet(t)) /\ p \in Q \cup ToSet(t) \cup {HeadField}
      /\ g \in [Nodes -> Nat]
  BY <1>1, <1>2
<1>4. Descends(t, next2, Q, g)
  <2> SUFFICES ASSUME NEW x \in Q
               PROVE  next2[x] \in ToSet(t) \/ (next2[x] \in Q /\ g[next2[x]] < g[x])
    BY DEF Descends
  <2>1. next2[x] = next[x]
    BY <1>3
  <2>2. CASE x = n
    BY <2>1, <2>2
  <2>3. CASE x # n
    <3>1. x \in R /\ x \in Nodes
      BY <1>2, <2>3, <1>1
    <3>2. g[x] = f[x] + 1 /\ f[x] \in Nat
      BY <1>2, <2>3, <3>1
    <3>3. CASE next[x] \in ToSet(s)
      <4>1. CASE next[x] = n
        <5>1. g[n] = 0
          BY <1>2
        <5> QED BY <1>2, <2>1, <3>2, <4>1, <5>1
      <4>2. CASE next[x] # n
        BY <2>1, <3>3, <4>2
      <4> QED BY <4>1, <4>2
    <3>4. CASE next[x] \in R /\ f[next[x]] < f[x]
      <4>1. next[x] \in Nodes /\ f[next[x]] \in Nat
        BY <3>4
      <4>2. g[next[x]] = 0 \/ g[next[x]] = f[next[x]] + 1
        BY <1>2, <4>1
      <4> QED BY <1>2, <2>1, <3>2, <3>4, <4>1, <4>2
    <3> QED BY <1>1, <3>1, <3>3, <3>4 DEF Descends
  <2> QED BY <2>2, <2>3
<1> QED BY <1>3, <1>4 DEF Leads

(* Wherever end points, what it leads to ends where the list ends.          *)
LEMMA LeadsSpells ==
    ASSUME NEW s, NEW next, Nodes \subseteq DOMAIN next, Spells(next, HeadField, s),
           NEW p, Leads(s, next, p)
    PROVE  \E c : Spells(next, p, c) /\ Reached(p, c, Len(c)) = Reached(HeadField, s, Len(s))
<1>1. PICK R \in SUBSET (Nodes \ ToSet(s)), f \in [Nodes -> Nat] :
         p \in R \cup ToSet(s) \cup {HeadField} /\ Descends(s, next, R, f)
  BY DEF Leads
<1>2. Elements(s) /\ Len(s) \in Nat
  BY ElementsAre DEF Spells
<1>3. PICK D, last : D = R \cup ToSet(s) \cup {HeadField} /\ last = Reached(HeadField, s, Len(s))
  OBVIOUS
<1>4. PICK g : g = [x \in D |-> IF x = HeadField THEN Len(s)
                                ELSE IF x \in ToSet(s) THEN Len(s) - Position(s, x)
                                ELSE Len(s) + 1 + f[x]]
  OBVIOUS
<1>5. \A x \in ToSet(s) : Position(s, x) \in 1 .. Len(s) /\ s[Position(s, x)] = x /\ x \in Nodes
  BY <1>2, PositionIs, ElementsAre
<1>6. HeadField \notin Nodes
  BY NodesAssumption
<1>7. g \in [D -> Nat]
  <2> SUFFICES ASSUME NEW x \in D PROVE g[x] \in Nat
    BY <1>4
  <2>1. CASE x = HeadField
    BY <1>2, <1>4, <2>1
  <2>2. CASE x \in ToSet(s)
    BY <1>2, <1>4, <1>5, <1>6, <2>2
  <2>3. CASE x \in R
    <3>1. x \in Nodes /\ x \notin ToSet(s) /\ f[x] \in Nat
      BY <2>3
    <3> QED BY <1>2, <1>4, <1>6, <3>1
  <2> QED BY <1>3, <2>1, <2>2, <2>3
<1>8. \A i \in 1 .. Len(s) : s[i] \in ToSet(s) /\ s[i] \in Nodes /\ g[s[i]] = Len(s) - i
  <2> TAKE i \in 1 .. Len(s)
  <2>1. s[i] \in ToSet(s) /\ Position(s, s[i]) = i /\ s[i] \in Nodes
    BY <1>2, PositionIs, ElementsAre
  <2> QED BY <1>3, <1>4, <1>6, <2>1
<1>9. ASSUME NEW x \in D
      PROVE  x = last \/ (next[x] \in D /\ next[x] \in Nodes /\ g[next[x]] < g[x])
  <2>1. CASE x = HeadField /\ Len(s) # 0
    <3>1. 0 \in 0 .. Len(s) - 1 /\ 0 + 1 \in 1 .. Len(s) /\ 0 + 1 = 1
      BY <1>2, <2>1
    <3>2. next[x] = s[1]
      BY <2>1, <3>1 DEF Spells, Reached
    <3>3. g[x] = Len(s)
      BY <1>3, <1>4, <2>1
    <3> QED BY <1>2, <1>3, <1>8, <3>1, <3>2, <3>3
  <2>2. CASE x = HeadField /\ Len(s) = 0
    BY <1>3, <2>2 DEF Reached
  <2>3. CASE x \in ToSet(s)
    <3>1. PICK i : i = Position(s, x)
      OBVIOUS
    <3>2. i \in 1 .. Len(s) /\ s[i] = x /\ Reached(HeadField, s, i) = x
      <4>1. i \in 1 .. Len(s) /\ s[i] = x
        BY <1>5, <2>3, <3>1
      <4> QED BY <1>2, <4>1, ReachedIs
    <3>3. CASE i = Len(s)
      BY <1>3, <3>2, <3>3
    <3>4. CASE i # Len(s)
      <4>1. i \in 0 .. Len(s) - 1 /\ i + 1 \in 1 .. Len(s) /\ Len(s) - (i + 1) < Len(s) - i
        BY <1>2, <3>2, <3>4
      <4>2. next[x] = s[i + 1]
        BY <3>2, <4>1 DEF Spells
      <4>3. g[x] = Len(s) - i /\ g[s[i + 1]] = Len(s) - (i + 1) /\ s[i + 1] \in ToSet(s) /\ s[i + 1] \in Nodes
        BY <1>8, <3>2, <4>1
      <4> QED BY <1>3, <4>1, <4>2, <4>3
    <3> QED BY <3>3, <3>4
  <2>4. CASE x \in R
    <3>1. x \in Nodes /\ x \notin ToSet(s) /\ f[x] \in Nat /\ x # HeadField
      BY <1>6, <2>4
    <3>2. g[x] = Len(s) + 1 + f[x]
      BY <1>4, <3>1
    <3>3. CASE next[x] \in ToSet(s)
      <4>1. PICK i \in 1 .. Len(s) : next[x] = s[i]
        BY <1>2, <3>3, ElementsAre
      <4>2. g[next[x]] = Len(s) - i /\ next[x] \in Nodes
        BY <1>8, <4>1
      <4> QED BY <1>2, <1>3, <3>1, <3>2, <3>3, <4>1, <4>2
    <3>4. CASE next[x] \in R /\ f[next[x]] < f[x]
      <4>1. next[x] \in Nodes /\ next[x] \notin ToSet(s) /\ f[next[x]] \in Nat /\ next[x] # HeadField /\ next[x] \in D
        BY <1>3, <1>6, <3>4
      <4>2. g[next[x]] = Len(s) + 1 + f[next[x]]
        BY <1>4, <4>1
      <4> QED BY <1>2, <3>1, <3>2, <3>4, <4>1, <4>2
    <3> QED BY <1>1, <2>4, <3>3, <3>4 DEF Descends
  <2> QED BY <1>3, <2>1, <2>2, <2>3, <2>4
<1>10. next[last] \notin Nodes
  BY <1>3 DEF Spells
<1>11. p \in D
  BY <1>1, <1>3
<1>12. \A x \in D : \E c : Spells(next, x, c) /\ Reached(x, c, Len(c)) = last
  BY <1>7, <1>9, <1>10, RankedSpells
<1> QED BY <1>3, <1>11, <1>12

SllInv ==
    /\ SllTypeOK
    /\ Spells(snext, HeadField, sitems)
    /\ ~astray => Leads(sitems, snext, send)
    /\ InOrder(sitems, sloop.next, sloop.due, FALSE)

LEMMA SllParts ==
    ASSUME SllInv
    PROVE  /\ Elements(sitems) /\ sitems \in Seq(Nodes) /\ Len(sitems) \in Nat
           /\ Spells(snext, HeadField, sitems)
           /\ snext \in [Places -> Nodes \cup {NULL}] /\ Nodes \subseteq DOMAIN snext
           /\ HeadField \in DOMAIN snext /\ send \in DOMAIN snext /\ send \in Places
           /\ sloop \in Loops
           /\ HeadField \notin Nodes /\ NULL \notin Nodes /\ NULL \notin ToSet(sitems)
<1>1. Elements(sitems) /\ sitems \in Seq(Nodes)
  BY DEF SllInv, Spells, Elements
<1>2. NULL \notin ToSet(sitems) /\ Len(sitems) \in Nat
  BY <1>1, ElementsAre, NodesAssumption
<1>3. HeadField \notin Nodes /\ NULL \notin Nodes
  BY NodesAssumption
<1> QED BY <1>1, <1>2, <1>3 DEF SllInv, SllTypeOK, Places

(* What end leads to, in the words of the model.                            *)
LEMMA EndLeads ==
    ASSUME SllInv, ~astray
    PROVE  \E c :
              /\ Spells(snext, send, c) /\ EndPath = {send} \cup ToSet(c)
              /\ FixedUp = Reached(HeadField, sitems, Len(sitems)) /\ FixupStops
<1>1. PICK c : Spells(snext, send, c) /\ Reached(send, c, Len(c)) = Reached(HeadField, sitems, Len(sitems))
  <2>1. Leads(sitems, snext, send)
    BY DEF SllInv
  <2> QED BY <2>1, SllParts, LeadsSpells
<1>2. Chain(snext, send) = c /\ LastPlace(snext, send) = Reached(send, c, Len(c))
  BY <1>1, SllParts, ChainIs, LastPlaceIs
<1>3. FixedUp = Reached(HeadField, sitems, Len(sitems))
  BY <1>1, <1>2 DEF FixedUp
<1>4. FixupStops
  <2>1. FixedUp \in Places
    <3>1. Len(sitems) \in 0 .. Len(sitems)
      BY SllParts
    <3> QED BY <1>3, <3>1, SllParts, ReachedIs DEF Places
  <2>2. snext[FixedUp] \notin Nodes
    BY <1>3, SllParts DEF Spells
  <2> QED BY <2>1, <2>2, SllParts DEF FixupStops
<1> QED BY <1>1, <1>2, <1>3, <1>4 DEF EndPath

(* Links that agree where s goes spell s alike.                             *)
LEMMA SpellsAlike ==
    ASSUME Spells(snext, HeadField, sitems), sitems' = sitems, Len(sitems) \in Nat,
           \A i \in 0 .. Len(sitems) : snext'[Reached(HeadField, sitems, i)] = snext[Reached(HeadField, sitems, i)]
    PROVE  Spells(snext', HeadField, sitems')
<1>1. Len(sitems) \in 0 .. Len(sitems) /\ \A i \in 0 .. Len(sitems) - 1 : i \in 0 .. Len(sitems)
  OBVIOUS
<1> QED BY <1>1 DEF Spells

LEMMA SllStarts == SllInit => SllInv
<1> SUFFICES ASSUME SllInit PROVE SllInv
  OBVIOUS
<1> USE DEF SllInit
<1>1. sitems \in Seq(Nodes) /\ Len(sitems) = 0
  BY EmptySeq
<1>2. Elements(sitems)
  BY <1>1, LenProperties DEF Elements, IsInjective
<1>3. SllTypeOK
  BY <1>2 DEF SllTypeOK, Elements, Loops, NoLoop, Places
<1>4. snext[HeadField] \notin Nodes
  BY NodesAssumption DEF Places
<1>5. Spells(snext, HeadField, sitems)
  <2>1. Reached(HeadField, sitems, Len(sitems)) = HeadField
    BY <1>1 DEF Reached
  <2>2. \A i \in 0 .. Len(sitems) - 1 : FALSE
    BY <1>1
  <2> QED BY <1>2, <1>4, <2>1, <2>2 DEF Spells
<1>6. ~astray => Leads(sitems, snext, send)
  BY LeadsHome
<1>7. InOrder(sitems, sloop.next, sloop.due, FALSE)
  BY DEF InOrder, NoLoop
<1> QED BY <1>3, <1>5, <1>6, <1>7 DEF SllInv

(* The three insertions differ in where they link the new node and in what  *)
(* they do to end.                                                          *)
LEMMA SllGrows ==
    ASSUME SllInv, NEW n \in Outside, NEW k \in 1 .. Len(sitems) + 1,
           Grown(sitems, k, n, sitems'),
           NEW a, a = Reached(HeadField, sitems, k - 1),
           snext' \in [Places -> Nodes \cup {NULL}],
           snext'[a] = n, snext'[n] = snext[a],
           \A q \in Places : q # n /\ q # a => snext'[q] = snext[q],
           send' = n \/ (send' = send /\ (astray => astray')), astray' \in BOOLEAN,
           UNCHANGED sloop
    PROVE  SllInv'
<1>1. n \in Nodes /\ n \notin ToSet(sitems) /\ n \in Nodes \ ToSet(sitems)
  BY DEF Outside
<1>2. Elements(sitems') /\ ToSet(sitems') = ToSet(sitems) \cup {n}
  BY <1>1, SllParts, GrownElements
<1>3. Spells(snext', HeadField, sitems')
  <2>1. PICK next2 : next2 = snext'
    OBVIOUS
  <2>2. /\ next2[Reached(HeadField, sitems, k - 1)] = n
        /\ next2[n] = snext[Reached(HeadField, sitems, k - 1)]
        /\ \A q \in Nodes \cup {HeadField} : q # n /\ q # Reached(HeadField, sitems, k - 1) => next2[q] = snext[q]
    BY <2>1 DEF Places
  <2>3. Spells(next2, HeadField, sitems')
    BY <1>1, <2>2, SllParts, InsertedSpells
  <2> QED BY <2>1, <2>3
<1>4. a \in ToSet(sitems) \cup {HeadField}
  <2>1. k - 1 = 0 \/ k - 1 \in 1 .. Len(sitems)
    BY SllParts
  <2> QED BY <2>1, SllParts, ElementsAre DEF Reached
<1>5. ASSUME ~astray' PROVE Leads(sitems', snext', send')
  <2>1. CASE send' = n
    BY <1>2, <2>1, LeadsHome
  <2>2. CASE send' = send /\ (astray => astray')
    <3>1. \A x \in Nodes \ (ToSet(sitems) \cup {n}) : snext'[x] = snext[x]
      BY <1>4, SllParts DEF Places
    <3>2. Leads(sitems, snext, send)
      BY <1>5, <2>2 DEF SllInv
    <3>3. Leads(sitems', snext', send)
      BY <1>1, <1>2, <3>1, <3>2, LeadsOnceMore
    <3> QED BY <2>2, <3>3
  <2> QED BY <2>1, <2>2
<1>6. InOrder(sitems', sloop'.next, sloop'.due, FALSE)
  <2>1. InOrder(sitems, sloop.next, sloop.due, FALSE)
    BY DEF SllInv
  <2>2. InOrder(sitems', sloop.next, sloop.due, FALSE)
    BY <1>1, <2>1, SllParts, InsertKeepsOrder
  <2> QED BY <2>2
<1>7. SllTypeOK'
  BY <1>1, <1>2, SllParts DEF SllTypeOK, Elements, Places
<1> QED BY <1>3, <1>5, <1>6, <1>7 DEF SllInv

LEMMA SllInserts ==
    ASSUME SllInv, NEW n \in Nodes,
           SllPush(n) \/ SllEnqueue(n) \/ \E e \in Nodes : SllInsertAfter(e, n)
    PROVE  SllInv'
<1>1. n \in Outside /\ n \in Places /\ n # HeadField /\ n \notin ToSet(sitems)
  BY NodesAssumption DEF SllPush, SllEnqueue, SllInsertAfter, Outside, Places
<1>2. \A i \in 0 .. Len(sitems) : Reached(HeadField, sitems, i) \in Places /\ Reached(HeadField, sitems, i) # n
  BY <1>1, SllParts, ReachedIs, ReachedApart DEF Places
<1>3. CASE SllPush(n)
  <2>1. PICK a : a = HeadField
    OBVIOUS
  <2>2. a = Reached(HeadField, sitems, 1 - 1) /\ 1 \in 1 .. Len(sitems) + 1 /\ a \in Places
    BY <2>1, SllParts DEF Reached, Places
  <2>3. /\ snext' = [snext EXCEPT ![n] = snext[a], ![a] = n] /\ UNCHANGED sloop
        /\ (send' = n \/ (send' = send /\ (astray => astray'))) /\ astray' \in BOOLEAN
    BY <1>3, <2>1 DEF SllPush
  <2>4. Grown(sitems, 1, n, sitems')
    BY <1>3, SllParts, ConsGrows DEF SllPush
  <2>5. /\ snext' \in [Places -> Nodes \cup {NULL}] /\ snext'[a] = n /\ snext'[n] = snext[a]
        /\ \A q \in Places : q # n /\ q # a => snext'[q] = snext[q]
    BY <1>1, <2>1, <2>2, <2>3, SllParts
  <2> QED BY <1>1, <2>2, <2>3, <2>4, <2>5, SllGrows
<1>4. CASE SllEnqueue(n)
  <2>1. PICK a, k : a = FixedUp /\ k = Len(sitems) + 1
    OBVIOUS
  <2>2. k - 1 = Len(sitems) /\ k \in 1 .. Len(sitems) + 1 /\ Len(sitems) \in 0 .. Len(sitems)
    BY <2>1, SllParts
  <2>3. /\ snext' = [snext EXCEPT ![n] = NULL, ![a] = n] /\ UNCHANGED sloop /\ snext[a] = NULL
        /\ send' = n /\ astray' \in BOOLEAN
    BY <1>4, <2>1 DEF SllEnqueue, FixupStops
  <2>4. LastPlace(snext, HeadField) = Reached(HeadField, sitems, k - 1)
    BY <2>2, SllParts, LastPlaceIs
  <2>5. CASE a = LastPlace(snext, HeadField)
    <3>1. a = Reached(HeadField, sitems, k - 1) /\ a \in Places /\ a # n
      BY <1>2, <2>2, <2>4, <2>5
    <3>2. Grown(sitems, k, n, sitems')
      BY <1>4, <2>1, <2>5, SllParts, AppendGrows DEF SllEnqueue
    <3>3. /\ snext' \in [Places -> Nodes \cup {NULL}] /\ snext'[a] = n /\ snext'[n] = snext[a]
          /\ \A q \in Places : q # n /\ q # a => snext'[q] = snext[q]
      BY <1>1, <2>3, <3>1, SllParts
    <3> QED BY <1>1, <2>2, <2>3, <3>1, <3>2, <3>3, SllGrows
(* FIXUP stops where nothing follows, and in the list that is at its end.   *)
  <2>6. CASE a # LastPlace(snext, HeadField)
    <3>1. \A i \in 0 .. Len(sitems) : Reached(HeadField, sitems, i) # a
      <4> SUFFICES ASSUME NEW i \in 0 .. Len(sitems), Reached(HeadField, sitems, i) = a PROVE FALSE
        OBVIOUS
      <4>1. i # Len(sitems)
        BY <2>2, <2>4, <2>6
      <4>2. i \in 0 .. Len(sitems) - 1 /\ i + 1 \in 1 .. Len(sitems)
        BY <4>1, SllParts
      <4>3. snext[a] = sitems[i + 1] /\ sitems[i + 1] \in Nodes
        BY <4>2, SllParts, ElementsAre DEF Spells
      <4> QED BY <2>3, <4>3, SllParts
    <3>2. \A q \in Places : q # n /\ q # a => snext'[q] = snext[q]
      BY <2>3, SllParts
    <3>3. snext' \in [Places -> Nodes \cup {NULL}]
      BY <2>3, SllParts
    <3>4. UNCHANGED sitems /\ astray' = TRUE
      BY <1>4, <2>1, <2>6 DEF SllEnqueue
    <3>5. \A i \in 0 .. Len(sitems) : snext'[Reached(HeadField, sitems, i)] = snext[Reached(HeadField, sitems, i)]
      BY <1>2, <3>1, <3>2
    <3>6. Spells(snext', HeadField, sitems')
      BY <3>3, <3>4, <3>5, SllParts, SpellsAlike
    <3> QED BY <1>1, <2>3, <3>3, <3>4, <3>6 DEF SllInv, SllTypeOK
  <2> QED BY <2>5, <2>6
<1>5. CASE \E e \in Nodes : SllInsertAfter(e, n)
  <2>1. PICK e \in Nodes : SllInsertAfter(e, n)
    BY <1>5
  <2>2. PICK i, k : i = Position(sitems, e) /\ k = i + 1
    OBVIOUS
  <2>3. e \in ToSet(sitems) /\ i \in 1 .. Len(sitems) /\ sitems[i] = e
    BY <2>1, <2>2, SllParts, PositionIs DEF SllInsertAfter
  <2>4. k \in 1 .. Len(sitems) + 1 /\ k - 1 = i /\ i # 0
    BY <2>2, <2>3
  <2>5. e = Reached(HeadField, sitems, k - 1) /\ e \in Places /\ e # n
    BY <1>1, <2>3, <2>4 DEF Reached, Places
  <2>6. /\ snext' = [snext EXCEPT ![n] = snext[e], ![e] = n] /\ UNCHANGED sloop
        /\ (send' = n \/ (send' = send /\ (astray => astray'))) /\ astray' \in BOOLEAN
    BY <2>1 DEF SllInsertAfter, SllInv, SllTypeOK
  <2>7. Grown(sitems, k, n, sitems')
    BY <2>1, <2>2, <2>4, SllParts, InsertAtGrows DEF SllInsertAfter, PutAfter
  <2>8. /\ snext' \in [Places -> Nodes \cup {NULL}] /\ snext'[e] = n /\ snext'[n] = snext[e]
        /\ \A q \in Places : q # n /\ q # e => snext'[q] = snext[q]
    BY <1>1, <2>5, <2>6, SllParts
  <2> QED BY <1>1, <2>4, <2>5, <2>6, <2>7, <2>8, SllGrows
<1> QED BY <1>3, <1>4, <1>5

LEMMA SllUnlinks ==
    ASSUME SllInv, NEW p \in {HeadField} \cup ToSet(sitems), NEW n \in Nodes, Unlink(p, n)
    PROVE  SllInv'
<1>1. n \in ToSet(sitems) /\ sloop.next # n /\ snext[p] = n
  BY DEF Unlink, MayLeave
(* p is the place before n.                                                 *)
<1>2. PICK k : k = Position(sitems, n)
  OBVIOUS
<1>3. k \in 1 .. Len(sitems) /\ sitems[k] = n
  BY <1>1, <1>2, SllParts, PositionIs
<1>4. PICK j \in 0 .. Len(sitems) : p = Reached(HeadField, sitems, j)
  <2>1. CASE p = HeadField
    <3>1. 0 \in 0 .. Len(sitems) /\ p = Reached(HeadField, sitems, 0)
      BY <2>1, SllParts DEF Reached
    <3> QED BY <3>1
  <2>2. CASE p \in ToSet(sitems)
    <3>1. PICK i \in 1 .. Len(sitems) : p = sitems[i]
      BY <2>2, SllParts, ElementsAre
    <3>2. i \in 0 .. Len(sitems) /\ p = Reached(HeadField, sitems, i)
      BY <3>1, SllParts DEF Reached
    <3> QED BY <3>2
  <2> QED BY <2>1, <2>2
<1>5. j = k - 1
  <2>1. j # Len(sitems)
    BY <1>1, <1>4, SllParts DEF Spells
  <2>2. j \in 0 .. Len(sitems) - 1 /\ j + 1 \in 1 .. Len(sitems)
    BY <2>1, SllParts
  <2>3. sitems[j + 1] = n
    BY <1>1, <1>4, <2>2, SllParts DEF Spells
  <2>4. j + 1 = k
    BY <1>3, <2>2, <2>3, SllParts, ElementsAre
  <2> QED BY <2>2, <2>4, SllParts
<1>6. /\ snext' = [snext EXCEPT ![p] = snext[n]]
      /\ send' = IF snext[n] = NULL THEN p ELSE send
      /\ sitems' = RemoveAt(sitems, k)
      /\ astray' = (astray /\ snext[n] # NULL)
      /\ sloop' = Left(sloop, n)
  BY <1>2 DEF Unlink, TakenOut
<1>7. Shrunk(sitems, k, sitems')
  BY <1>3, <1>6, SllParts, RemoveAtShrinks
<1>8. Elements(sitems') /\ ToSet(sitems') = ToSet(sitems) \ {n}
  BY <1>3, <1>7, SllParts, ShrunkElements
<1>9. p \in Places /\ n \in Places /\ p # n
  <2>1. p \in Places /\ n \in Places
    BY SllParts, ElementsAre DEF Places
  <2>2. k \in 0 .. Len(sitems) /\ n = Reached(HeadField, sitems, k) /\ j # k
    BY <1>3, <1>5, SllParts DEF Reached
  <2>3. p # n
    BY <1>4, <2>2, SllParts, ReachedApart
  <2> QED BY <2>1, <2>3
<1>10. /\ snext' \in [Places -> Nodes \cup {NULL}] /\ snext'[p] = snext[n]
       /\ \A q \in Places : q # p => snext'[q] = snext[q]
  BY <1>6, <1>9, SllParts
<1>11. Spells(snext', HeadField, sitems')
  <2>1. PICK next2 : next2 = snext'
    OBVIOUS
  <2>2. /\ next2[Reached(HeadField, sitems, k - 1)] = snext[sitems[k]]
        /\ \A q \in Nodes \cup {HeadField} : q # Reached(HeadField, sitems, k - 1) => next2[q] = snext[q]
    BY <1>3, <1>4, <1>5, <1>10, <2>1 DEF Places
  <2>3. Spells(next2, HeadField, sitems')
    BY <1>3, <1>7, <2>2, SllParts, RemovedSpells
  <2> QED BY <2>1, <2>3
<1>12. p \in ToSet(sitems') \cup {HeadField}
  BY <1>8, <1>9
<1>13. ASSUME ~astray' PROVE Leads(sitems', snext', send')
  <2>1. CASE snext[n] = NULL
    BY <1>6, <1>12, <2>1, LeadsHome
  <2>2. CASE snext[n] # NULL
    <3>1. k # Len(sitems)
      <4>1. n = Reached(HeadField, sitems, k)
        BY <1>3 DEF Reached
      <4> QED BY <1>9, <2>2, <4>1, SllParts DEF Spells
    <3>2. k \in 0 .. Len(sitems) - 1 /\ k + 1 \in 1 .. Len(sitems) /\ k + 1 # k /\ k # 0
      BY <1>3, <3>1, SllParts
    <3>3. snext[n] = sitems[k + 1]
      <4>1. n = Reached(HeadField, sitems, k)
        BY <1>3, <3>2 DEF Reached
      <4> QED BY <3>2, <4>1, SllParts DEF Spells
    <3>4. snext[n] \in ToSet(sitems')
      <4>1. sitems[k + 1] \in ToSet(sitems) /\ sitems[k + 1] # n
        BY <1>3, <3>2, SllParts, ElementsAre
      <4> QED BY <1>8, <3>3, <4>1
    <3>5. \A x \in Nodes \ ToSet(sitems') : snext'[x] = snext[x]
      BY <1>10, <1>12, SllParts DEF Places
    <3>6. Leads(sitems, snext, send)
      BY <1>6, <1>13, <2>2 DEF SllInv
    <3>7. Leads(sitems', snext', send)
      BY <1>8, <3>4, <3>5, <3>6, LeadsOneLess
    <3> QED BY <1>6, <2>2, <3>7
  <2> QED BY <2>1, <2>2
<1>14. sloop' \in Loops /\ sloop'.next = sloop.next /\ sloop'.due = sloop.due \ {n}
  BY <1>6, SllParts DEF Loops, Left
<1>15. InOrder(sitems', sloop'.next, sloop'.due, FALSE)
  <2>1. InOrder(sitems, sloop.next, sloop.due, FALSE)
    BY DEF SllInv
  <2>2. InOrder(sitems', sloop.next, sloop.due \ {sitems[k]}, FALSE)
    BY <1>1, <1>3, <1>7, <2>1, SllParts, RemoveKeepsOrder
  <2> QED BY <1>3, <1>14, <2>2
<1>16. send' \in Places
  BY <1>6, <1>9, SllParts
<1>17. astray' \in BOOLEAN
  BY <1>6
<1> QED BY <1>8, <1>10, <1>11, <1>13, <1>14, <1>15, <1>16, <1>17 DEF SllInv, SllTypeOK, Elements

LEMMA SllRemoves ==
    ASSUME SllInv, SllPop \/ \E n \in Nodes : SllRemove(n)
    PROVE  SllInv'
<1>1. Chain(snext, HeadField) = sitems
  BY SllParts, ChainIs
<1> QED BY <1>1, SllUnlinks DEF SllPop, SllRemove

LEMMA SllLoops ==
    ASSUME SllInv, SllForEach \/ SllLoopOn
    PROVE  SllInv'
<1>1. UNCHANGED <<snext, send, sitems, astray>>
  BY DEF SllForEach, SllLoopOn
<1>2. InOrder(sitems, sloop.next, sloop.due, FALSE)
  BY DEF SllInv
(* Reading ahead from the i-th element.                                     *)
<1>3. ASSUME NEW i \in 1 .. Len(sitems)
      PROVE  /\ snext[sitems[i]] = At(sitems, i + 1)
             /\ sitems[i] \in Nodes /\ At(sitems, i + 1) \in Nodes \cup {NULL}
  <2>1. sitems[i] \in Nodes /\ sitems[i] = Reached(HeadField, sitems, i) /\ sitems[i] \in Places
    <3>1. sitems[i] = Reached(HeadField, sitems, i)
      BY SllParts, ReachedIs
    <3>2. sitems[i] \in Nodes
      BY SllParts, ElementsAre
    <3> QED BY <3>1, <3>2 DEF Places
  <2>2. CASE i = Len(sitems)
    <3>1. snext[sitems[i]] = NULL
      BY <2>1, <2>2, SllParts DEF Spells
    <3>2. i + 1 \notin 1 .. Len(sitems)
      BY <2>2, SllParts
    <3> QED BY <2>1, <3>1, <3>2 DEF At
  <2>3. CASE i # Len(sitems)
    <3>1. i \in 0 .. Len(sitems) - 1 /\ i + 1 \in 1 .. Len(sitems)
      BY <2>3, SllParts
    <3>2. snext[sitems[i]] = sitems[i + 1] /\ sitems[i + 1] \in Nodes
      BY <2>1, <3>1, SllParts, ElementsAre DEF Spells
    <3> QED BY <2>1, <3>1, <3>2 DEF At
  <2> QED BY <2>2, <2>3
<1>4. ASSUME NEW i \in 1 .. Len(sitems), NEW due, due \subseteq Nodes,
             InOrder(sitems, sitems[i], due, FALSE),
             sloop' = [at |-> sitems[i], next |-> snext[sitems[i]], due |-> due \ {sitems[i]}]
      PROVE  sloop' \in Loops /\ InOrder(sitems, sloop'.next, sloop'.due, FALSE)
  <2>1. InOrder(sitems, IF FALSE THEN At(sitems, i - 1) ELSE At(sitems, i + 1), due \ {sitems[i]}, FALSE)
    BY <1>4, SllParts, TurnKeepsOrder
  <2> QED BY <1>3, <1>4, <2>1 DEF Loops
<1>5. sloop' \in Loops /\ InOrder(sitems, sloop'.next, sloop'.due, FALSE)
  <2>1. CASE SllForEach
    <3>1. Len(sitems) > 0 /\ 1 \in 1 .. Len(sitems)
      BY <2>1, SllParts, EmptySeq DEF SllForEach
    <3>2. snext[HeadField] = sitems[1]
      <4>1. 0 \in 0 .. Len(sitems) - 1 /\ 0 + 1 = 1
        BY <3>1, SllParts
      <4> QED BY <4>1, SllParts DEF Spells, Reached
    <3>3. InOrder(sitems, sitems[1], ToSet(sitems), FALSE)
      <4>1. InOrder(sitems, IF FALSE THEN sitems[Len(sitems)] ELSE sitems[1], ToSet(sitems), FALSE)
        BY <3>1, SllParts, WholeIsInOrder
      <4> QED BY <4>1
    <3>4. ToSet(sitems) \subseteq Nodes
      BY SllParts, ElementsAre
    <3>5. sloop' = [at |-> sitems[1], next |-> snext[sitems[1]], due |-> ToSet(sitems) \ {sitems[1]}]
      BY <2>1, <3>2 DEF SllForEach
    <3> QED BY <1>4, <3>1, <3>3, <3>4, <3>5
  <2>2. CASE SllLoopOn /\ sloop.next # NULL
    <3>1. PICK i \in 1 .. Len(sitems) : sitems[i] = sloop.next
      BY <1>2, <2>2, SllParts, ElementsAre DEF InOrder
    <3>2. sloop' = [at |-> sitems[i], next |-> snext[sitems[i]], due |-> sloop.due \ {sitems[i]}]
      BY <2>2, <3>1 DEF SllLoopOn
    <3>3. sloop.due \subseteq Nodes
      BY SllParts DEF Loops
    <3> QED BY <1>2, <1>4, <3>1, <3>2, <3>3
  <2>3. CASE SllLoopOn /\ sloop.next = NULL
    <3>1. sloop.due = {}
      BY <1>2, <2>3, SllParts DEF InOrder
    <3>2. sloop' = [at |-> NULL, next |-> NULL, due |-> {}]
      BY <2>3, <3>1 DEF SllLoopOn
    <3> QED BY <3>2 DEF Loops, InOrder
  <2> QED BY <2>1, <2>2, <2>3
<1> QED BY <1>1, <1>5 DEF SllInv, SllTypeOK

LEMMA SllFixes ==
    ASSUME SllInv, SllFixup
    PROVE  SllInv'
<1>1. send' = FixedUp /\ snext[FixedUp] = NULL /\ UNCHANGED <<snext, sitems, astray, sloop>>
  BY DEF SllFixup, FixupStops
<1>2. FixedUp \in Places
  BY SllParts, LastPlaceTyped DEF FixedUp, Places
<1>3. ASSUME ~astray PROVE Leads(sitems, snext, send')
  <2>1. FixedUp = Reached(HeadField, sitems, Len(sitems))
    BY <1>3, EndLeads
  <2>2. FixedUp \in ToSet(sitems) \cup {HeadField}
    <3>1. Len(sitems) = 0 \/ Len(sitems) \in 1 .. Len(sitems)
      BY SllParts
    <3> QED BY <2>1, <3>1, SllParts, ElementsAre DEF Reached
  <2> QED BY <1>1, <2>2, LeadsHome
<1> QED BY <1>1, <1>2, <1>3 DEF SllInv, SllTypeOK

LEMMA SllReuses ==
    ASSUME SllInv, NEW n \in Nodes, SllReuse(n)
    PROVE  SllInv'
<1>1. /\ n \notin ToSet(sitems) /\ UNCHANGED <<send, sitems, sloop>> /\ n # HeadField
      /\ astray' = (astray \/ n \in EndPath)
  BY SllParts DEF SllReuse, Outside
<1>2. PICK m \in Nodes \cup {NULL} : snext' = [snext EXCEPT ![n] = m]
  BY DEF SllReuse, Outside
<1>3. /\ snext' \in [Places -> Nodes \cup {NULL}]
      /\ \A q \in Places : q # n => snext'[q] = snext[q]
  BY <1>2, SllParts
<1>4. Spells(snext', HeadField, sitems)
  <2>1. \A i \in 0 .. Len(sitems) : Reached(HeadField, sitems, i) \in Places /\ Reached(HeadField, sitems, i) # n
    BY <1>1, SllParts, ReachedIs, ReachedApart DEF Places
  <2>2. \A i \in 0 .. Len(sitems) : snext'[Reached(HeadField, sitems, i)] = snext[Reached(HeadField, sitems, i)]
    BY <1>3, <2>1
  <2> QED BY <1>1, <2>2, SllParts, SpellsAlike
(* The node is not among those that end leads through.                      *)
<1>5. ASSUME ~astray' PROVE Leads(sitems, snext', send)
  <2>0. ~astray /\ n \notin EndPath
    BY <1>1, <1>5
  <2>1. PICK c : Spells(snext, send, c) /\ EndPath = {send} \cup ToSet(c)
    BY <2>0, EndLeads
  <2>2. ASSUME NEW x \in EndPath, snext[x] \in Nodes PROVE snext[x] \in EndPath
    <3>1. Elements(c) /\ Len(c) \in Nat
      BY <2>1, ElementsAre DEF Spells
    <3>2. PICK i \in 0 .. Len(c) : x = Reached(send, c, i)
      <4>1. CASE x = send
        <5>1. 0 \in 0 .. Len(c) /\ x = Reached(send, c, 0)
          BY <3>1, <4>1 DEF Reached
        <5> QED BY <5>1
      <4>2. CASE x \in ToSet(c)
        <5>1. PICK i \in 1 .. Len(c) : x = c[i]
          BY <3>1, <4>2, ElementsAre
        <5>2. i \in 0 .. Len(c) /\ x = Reached(send, c, i)
          BY <3>1, <5>1 DEF Reached
        <5> QED BY <5>2
      <4> QED BY <2>1, <2>2, <4>1, <4>2
    <3>3. i # Len(c)
      BY <2>1, <2>2, <3>2 DEF Spells
    <3>4. i \in 0 .. Len(c) - 1 /\ i + 1 \in 1 .. Len(c)
      BY <3>1, <3>3
    <3>5. snext[x] = c[i + 1] /\ c[i + 1] \in ToSet(c)
      BY <2>1, <3>1, <3>2, <3>4, ElementsAre DEF Spells
    <3> QED BY <2>1, <3>5
  <2>3. PICK R \in SUBSET (Nodes \ ToSet(sitems)), f \in [Nodes -> Nat] :
           send \in R \cup ToSet(sitems) \cup {HeadField} /\ Descends(sitems, snext, R, f)
    BY <2>0 DEF SllInv, Leads
  <2>4. PICK Q : Q = R \cap EndPath
    OBVIOUS
  <2>5. Q \in SUBSET (Nodes \ ToSet(sitems)) /\ send \in Q \cup ToSet(sitems) \cup {HeadField}
    BY <2>1, <2>3, <2>4
  <2>6. Descends(sitems, snext', Q, f)
    <3> SUFFICES ASSUME NEW x \in Q
                 PROVE  snext'[x] \in ToSet(sitems) \/ (snext'[x] \in Q /\ f[snext'[x]] < f[x])
      BY DEF Descends
    <3>1. x \in R /\ x \in EndPath /\ x \in Nodes /\ x # n
      BY <2>0, <2>3, <2>4
    <3>2. snext'[x] = snext[x]
      BY <1>3, <3>1 DEF Places
    <3>3. snext[x] \in ToSet(sitems) \/ (snext[x] \in R /\ f[snext[x]] < f[x])
      BY <2>3, <3>1 DEF Descends
    <3>4. snext[x] \in R => snext[x] \in Q
      BY <2>2, <2>3, <2>4, <3>1
    <3> QED BY <3>2, <3>3, <3>4
  <2> QED BY <2>3, <2>5, <2>6 DEF Leads
<1>6. astray' \in BOOLEAN
  BY <1>1 DEF SllInv, SllTypeOK
<1> QED BY <1>1, <1>3, <1>4, <1>5, <1>6 DEF SllInv, SllTypeOK

LEMMA SllStays == SllInv /\ [SllNext]_svars => SllInv'
<1> SUFFICES ASSUME SllInv, [SllNext]_svars PROVE SllInv'
  OBVIOUS
<1>1. CASE UNCHANGED svars
  BY <1>1 DEF svars, SllInv, SllTypeOK
<1>2. CASE SllNext
  BY <1>2, SllInserts, SllRemoves, SllLoops, SllFixes, SllReuses DEF SllNext
<1> QED BY <1>1, <1>2

(* After any sequence of calls of sll.h:72-143, and whatever the owners do  *)
(* with the nodes they took out, the links from the head spell the          *)
(* elements; and until a node that end leads through is reused, end leads   *)
(* into the list, however far it lags behind.                               *)
THEOREM SinglyLinkedInvariant == SllSpec => []SllInv
BY SllStarts, SllStays, PTL DEF SllSpec

(* The links and end (sll.h:26-36) keep their types, and no node is in the  *)
(* list twice.                                                              *)
THEOREM SinglyLinkedTypes == SllSpec => []SllTypeOK
<1>1. SllInv => SllTypeOK
  BY DEF SllInv
<1> QED BY <1>1, SinglyLinkedInvariant, PTL

(* The links of a singly-linked list of any nodes spell what its calls put  *)
(* in, even after ENQUEUE has linked an element elsewhere; and FIXUP        *)
(* (sll.h:123) finds the last link, so that ENQUEUE appends, as long as     *)
(* astray is FALSE: INSERT_AFTER, POP and REMOVE alone never mislead it.    *)
THEOREM SinglyLinkedIsSequence == SllSpec => []SllIsSequence
<1>1. SllInv => SllIsSequence
  <2> SUFFICES ASSUME SllInv PROVE SllIsSequence
    OBVIOUS
  <2>1. Chain(snext, HeadField) = sitems
    BY SllParts, ChainIs
  <2>2. LastPlace(snext, HeadField) = Reached(HeadField, sitems, Len(sitems))
    BY SllParts, LastPlaceIs
  <2>3. ~astray => FixedUp = LastPlace(snext, HeadField)
    BY <2>2, EndLeads
  <2>4. snext[LastPlace(snext, HeadField)] = NULL
    <3>1. Len(sitems) \in 0 .. Len(sitems)
      BY SllParts
    <3>2. LastPlace(snext, HeadField) \in Places
      BY <2>2, <3>1, SllParts, ReachedIs DEF Places
    <3>3. snext[LastPlace(snext, HeadField)] \notin Nodes
      BY <2>2, SllParts DEF Spells
    <3> QED BY <3>2, <3>3, SllParts
  <2> QED BY <2>1, <2>3, <2>4 DEF SllIsSequence
<1> QED BY <1>1, SinglyLinkedInvariant, PTL

(* FOR_EACH (sll.h:146) misses no element that stays, whatever its body     *)
(* inserts and removes but the element read ahead.                          *)
THEOREM SinglyLinkedLoops == SllSpec => []SllLoopMissesNothing
<1>1. SllInv => SllLoopMissesNothing
  BY DEF SllInv, SllLoopMissesNothing, InOrder
<1> QED BY <1>1, SinglyLinkedInvariant, PTL
-----------------------------------------------------------------------------
(* The vector. *)

(* A set with 0, and with the next number for each of its numbers below n,  *)
(* has all the numbers up to n.                                             *)
LEMMA UpTo ==
    ASSUME NEW n \in Nat, NEW T, 0 \in T, \A k \in 0 .. n - 1 : k \in T => k + 1 \in T
    PROVE  \A k \in 0 .. n : k \in T
<1>1. PICK S : S = {k \in 0 .. n : k \notin T}
  OBVIOUS
<1>2. S \subseteq Nat
  BY <1>1
<1>3. S = {}
  <2> SUFFICES ASSUME S # {} PROVE FALSE
    OBVIOUS
  <2>1. PICK k \in S : \A e \in S : k <= e
    BY <1>2, LeastNumber
  <2>2. k \in 0 .. n /\ k \notin T /\ k # 0
    BY <1>1, <2>1
  <2>3. PICK j : j = k - 1
    OBVIOUS
  <2>4. j \in 0 .. n - 1 /\ j \in 0 .. n /\ j + 1 = k /\ ~(k <= j)
    BY <2>2, <2>3
  <2>5. j \in T
    BY <1>1, <2>1, <2>4
  <2> QED BY <2>2, <2>4, <2>5
<1> QED BY <1>1, <1>3

-----------------------------------------------------------------------------
(* The doubling loop. *)

Doubles(g, least, need) ==
    /\ DOMAIN g = least .. 2 * need
    /\ \A c \in least .. 2 * need : g[c] = IF c >= need THEN c ELSE g[2 * c]

(* There is a function that does what the loop does: one for the capacities *)
(* that are enough, and one for each smaller capacity as well, since that   *)
(* is doubled to a larger one.                                              *)
LEMMA LoopEnds ==
    ASSUME NEW cap \in Nat, cap > 0, NEW need \in Nat, cap <= need
    PROVE  \E g : Doubles(g, cap, need)
<1> DEFINE Bad == {d \in Nat : d <= need - cap /\ ~\E g : Doubles(g, need - d, need)}
<1>1. Bad = {}
  <2> SUFFICES ASSUME Bad # {} PROVE FALSE
    OBVIOUS
  <2>1. Bad \subseteq Nat
    OBVIOUS
  <2>2. PICK d \in Bad : \A e \in Bad : d <= e
    <3> HIDE DEF Bad
    <3> QED BY <2>1, LeastNumber
  <2>3. d \in Nat /\ d <= need - cap /\ ~\E g : Doubles(g, need - d, need)
    OBVIOUS
  <2>4. CASE d = 0
    <3> DEFINE g == [c \in need .. 2 * need |-> c]
    <3>1. need - d = need
      BY <2>4
    <3>2. DOMAIN g = need .. 2 * need
      OBVIOUS
    <3>3. \A c \in need .. 2 * need : g[c] = IF c >= need THEN c ELSE g[2 * c]
      OBVIOUS
    <3>4. Doubles(g, need, need)
      <4> HIDE DEF g
      <4> QED BY <3>2, <3>3 DEF Doubles
    <3> QED BY <2>3, <3>1, <3>4
  <2>5. CASE d # 0
    <3>1. d - 1 \in Nat /\ d - 1 <= need - cap /\ ~(d <= d - 1)
      BY <2>3, <2>5
    <3>2. d - 1 \notin Bad
      <4> HIDE DEF Bad
      <4> QED BY <2>2, <3>1
    <3>3. PICK g : Doubles(g, need - (d - 1), need)
      BY <3>1, <3>2
    <3>4. PICK c0, c1 : c0 = need - d /\ c1 = need - (d - 1)
      OBVIOUS
    <3>5. c0 \in Nat /\ c0 > 0 /\ c0 < need /\ c1 = c0 + 1 /\ 2 * c0 \in c1 .. 2 * need
      BY <2>3, <2>5, <3>4
    <3>6. DOMAIN g = c1 .. 2 * need
          /\ \A c \in c1 .. 2 * need : g[c] = IF c >= need THEN c ELSE g[2 * c]
      BY <3>3, <3>4 DEF Doubles
    <3> DEFINE h == [c \in c0 .. 2 * need |-> IF c = c0 THEN g[2 * c0] ELSE g[c]]
    <3>7. DOMAIN h = c0 .. 2 * need
      OBVIOUS
    <3>8. \A c \in c0 .. 2 * need : h[c] = IF c = c0 THEN g[2 * c0] ELSE g[c]
      OBVIOUS
    <3> HIDE DEF h
    <3>9. ASSUME NEW c \in c0 .. 2 * need
          PROVE  h[c] = IF c >= need THEN c ELSE h[2 * c]
      <4>1. CASE c = c0
        <5>1. 2 * c0 \in c0 .. 2 * need /\ 2 * c0 # c0 /\ ~(c0 >= need)
          BY <3>5
        <5>2. h[2 * c0] = g[2 * c0]
          BY <3>8, <5>1
        <5> QED BY <3>8, <4>1, <5>1, <5>2
      <4>2. CASE c # c0
        <5>1. c \in c1 .. 2 * need
          BY <3>5, <4>2
        <5>2. h[c] = g[c] /\ g[c] = IF c >= need THEN c ELSE g[2 * c]
          BY <3>6, <3>8, <4>2, <5>1
        <5>3. c < need => h[2 * c] = g[2 * c]
          <6>1. c < need => 2 * c \in c0 .. 2 * need /\ 2 * c # c0
            BY <3>5, <5>1
          <6> QED BY <3>8, <6>1
        <5>4. c >= need \/ c < need
          BY <3>5, <5>1
        <5> QED BY <5>2, <5>3, <5>4
      <4> QED BY <4>1, <4>2
    <3>10. Doubles(h, need - d, need)
      BY <3>4, <3>7, <3>9 DEF Doubles
    <3> QED BY <2>3, <3>10
  <2> QED BY <2>4, <2>5
<1>2. PICK d : d = need - cap
  OBVIOUS
<1>3. d \in Nat /\ d <= need - cap /\ need - d = cap
  BY <1>2
<1>4. \E g : Doubles(g, need - d, need)
  BY <1>1, <1>3
<1> QED BY <1>3, <1>4

LEMMA LoopIsEnough ==
    ASSUME NEW cap \in Nat, cap > 0, NEW need \in Nat, cap <= need, NEW g, Doubles(g, cap, need)
    PROVE  g[cap] \in Nat /\ g[cap] >= need
<1> DEFINE Fine(c) == g[c] \in Nat /\ g[c] >= need
           Bad == {d \in Nat : d <= 2 * need - cap /\ ~Fine(2 * need - d)}
<1>1. Bad = {}
  <2> SUFFICES ASSUME Bad # {} PROVE FALSE
    OBVIOUS
  <2>1. Bad \subseteq Nat
    OBVIOUS
  <2>2. PICK d \in Bad : \A e \in Bad : d <= e
    <3> HIDE DEF Bad
    <3> QED BY <2>1, LeastNumber
  <2>3. PICK c : c = 2 * need - d
    OBVIOUS
  <2>4. c \in cap .. 2 * need /\ ~Fine(c) /\ d \in Nat
    BY <2>2, <2>3
  <2>5. g[c] = IF c >= need THEN c ELSE g[2 * c]
    BY <2>4 DEF Doubles
  <2>6. CASE c >= need
    BY <2>4, <2>5, <2>6
  <2>7. CASE c < need
    <3>1. PICK e : e = 2 * need - 2 * c
      OBVIOUS
    <3>2. e \in Nat /\ e < d /\ e <= 2 * need - cap /\ 2 * need - e = 2 * c
      BY <2>3, <2>4, <2>7, <3>1
    <3>3. e \notin Bad
      <4> HIDE DEF Bad
      <4> QED BY <2>2, <2>4, <3>2
    <3>4. Fine(2 * c)
      <4>1. Fine(2 * need - e)
        <5> HIDE DEF Fine
        <5> QED BY <3>2, <3>3
      <4> QED BY <3>2, <4>1
    <3>5. g[c] = g[2 * c]
      BY <2>4, <2>5, <2>7
    <3> QED BY <2>4, <3>4, <3>5
  <2> QED BY <2>4, <2>6, <2>7
<1>2. PICK d : d = 2 * need - cap
  OBVIOUS
<1>3. d \in Nat /\ d <= 2 * need - cap /\ 2 * need - d = cap
  BY <1>2
<1>4. Fine(2 * need - d)
  <2> HIDE DEF Fine
  <2> QED BY <1>1, <1>3
<1> QED BY <1>3, <1>4

LEMMA DoubledIsEnough ==
    ASSUME NEW cap \in Nat, cap > 0, NEW need \in Nat, cap <= need
    PROVE  Doubled(cap, need) \in Nat /\ Doubled(cap, need) >= need
<1> DEFINE G(g) == g = [c \in cap .. 2 * need |-> IF c >= need THEN c ELSE g[2 * c]]
           grow == CHOOSE g : G(g)
<1>1. \A g : Doubles(g, cap, need) => G([c \in cap .. 2 * need |-> g[c]])
  <2> TAKE g
  <2> SUFFICES ASSUME Doubles(g, cap, need) PROVE G([c \in cap .. 2 * need |-> g[c]])
    OBVIOUS
  <2> DEFINE h == [c \in cap .. 2 * need |-> g[c]]
  <2>1. \A c \in cap .. 2 * need : c < need => 2 * c \in cap .. 2 * need
    OBVIOUS
  <2>2. \A c \in cap .. 2 * need : h[c] = IF c >= need THEN c ELSE h[2 * c]
    BY <2>1 DEF Doubles
  <2> QED BY <2>2
<1>2. \E g : G(g)
  <2> HIDE DEF G
  <2> QED BY <1>1, LoopEnds
<1>3. G(grow)
  <2> HIDE DEF G
  <2> QED BY <1>2
<1>4. Doubled(cap, need) = grow[cap]
  BY DEF Doubled
<1> HIDE DEF grow
<1>5. Doubles(grow, cap, need)
  <2>1. PICK g : g = grow
    OBVIOUS
  <2>2. g = [c \in cap .. 2 * need |-> IF c >= need THEN c ELSE g[2 * c]]
    BY <1>3, <2>1
  <2>3. DOMAIN g = cap .. 2 * need
    BY <2>2
  <2>4. \A c \in cap .. 2 * need : g[c] = IF c >= need THEN c ELSE g[2 * c]
    BY <2>2
  <2> QED BY <2>1, <2>3, <2>4 DEF Doubles
<1> QED BY <1>4, <1>5, LoopIsEnough

-----------------------------------------------------------------------------
(* The invariant. *)

Mem == Elems \cup {Junk}

(* A buffer holds the elements, one that is there has room for something,   *)
(* and one that was freed for nothing.                                      *)
Sound(v) ==
    /\ v \in [block : Blocks, freed : BOOLEAN, len : Nat, mem : Seq(Mem)]
    /\ v.len <= Len(v.mem)
    /\ v.freed => v.mem = <<>> /\ v.block # "none"
    /\ v.block = "none" => Len(v.mem) = 0
    /\ v.block # "none" /\ ~v.freed => Len(v.mem) > 0

(* What the calls put in is what is there, and the room that was promised   *)
(* is left.                                                                 *)
Holds(v, s, room) ==
    /\ s \in Seq(Elems) /\ room \in Nat /\ v.len = Len(s)
    /\ \A i \in 1 .. Len(s) : v.mem[i] = s[i]
    /\ v.len + room <= Len(v.mem)

VecInv ==
    /\ Sound(vec) /\ Holds(vec, vitems, vroom)
    /\ Len(vitems) <= MaxLen
    /\ vfate \in {"ok", "spins", "freed twice"}
    /\ VecTroubleOnlyAfterClear

LEMMA VecInvTypes == VecInv => VecTypeOK
<1> SUFFICES ASSUME VecInv PROVE VecTypeOK
  OBVIOUS
<1>1. /\ vec \in [block : Blocks, freed : BOOLEAN, len : Nat, mem : Seq(Mem)]
      /\ vec.freed => vec.mem = <<>>
      /\ vitems \in Seq(Elems) /\ vroom \in Nat /\ vec.len = Len(vitems) /\ Len(vitems) <= MaxLen
      /\ vfate \in {"ok", "spins", "freed twice"}
  BY DEF VecInv, Sound, Holds
<1>2. vec.len \in 0 .. MaxLen
  <2>1. PICK n : n = vec.len
    OBVIOUS
  <2>2. n \in Nat /\ n <= MaxLen
    BY <1>1, <2>1
  <2> QED BY <2>1, <2>2, VecAssumption
<1>3. vec \in [block : Blocks, freed : BOOLEAN, len : 0 .. MaxLen, mem : Seq(Elems \cup {Junk})]
  BY <1>1, <1>2 DEF Mem
<1> QED BY <1>1, <1>3 DEF VecTypeOK

LEMMA SoundIs ==
    ASSUME NEW v, Sound(v)
    PROVE  /\ Len(v.mem) \in Nat /\ v.len \in Nat /\ v.len <= Len(v.mem)
           /\ v.mem \in Seq(Mem) /\ v.block \in Blocks /\ v.freed \in BOOLEAN
           /\ Cap(v) = Len(v.mem)
<1>1. v.mem \in Seq(Mem) /\ v.block \in Blocks /\ v.freed \in BOOLEAN /\ v.len \in Nat
  BY DEF Sound
<1>2. Len(v.mem) \in Nat
  BY <1>1, LenProperties
<1>3. Cap(v) = Len(v.mem)
  <2>1. v.mem = <<>> => Len(v.mem) = 0
    BY EmptySeq
  <2> QED BY <2>1 DEF Cap, Sound
<1> QED BY <1>1, <1>2, <1>3 DEF Sound

LEMMA FreshIs ==
    ASSUME NEW b \in Blocks, NEW cap \in Nat, b = "none" <=> cap = 0
    PROVE  Sound(Fresh(b, cap)) /\ Fresh(b, cap).len = 0
<1> DEFINE m == [i \in 1 .. cap |-> Junk]
<1>1. m \in Seq(Mem) /\ Len(m) = cap
  BY DEF Mem
<1> HIDE DEF m
<1>2. Fresh(b, cap) = [block |-> b, freed |-> FALSE, len |-> 0, mem |-> m]
  BY DEF Fresh, m
<1> QED BY <1>1, <1>2 DEF Sound

LEMMA MovedIs ==
    ASSUME NEW v, Sound(v), NEW cap \in Nat, v.len <= cap, cap > 0
    PROVE  LET r == Moved(v, cap)
           IN  /\ Sound(r) /\ ~r.freed /\ r.len = v.len /\ Len(r.mem) = cap
               /\ \A i \in 1 .. v.len : r.mem[i] = v.mem[i]
<1> DEFINE m == [i \in 1 .. cap |-> IF i <= v.len THEN v.mem[i] ELSE Junk]
           r == Moved(v, cap)
<1>1. v.mem \in Seq(Mem) /\ v.len \in Nat /\ Len(v.mem) \in Nat /\ v.len <= Len(v.mem)
  BY SoundIs
<1>2. \A i \in 1 .. v.len : v.mem[i] \in Mem
  BY <1>1, ElementOfSeq
<1>3. m \in Seq(Mem) /\ Len(m) = cap /\ \A i \in 1 .. v.len : m[i] = v.mem[i]
  <2>1. \A i \in 1 .. cap : (IF i <= v.len THEN v.mem[i] ELSE Junk) \in Mem
    BY <1>1, <1>2 DEF Mem
  <2> HIDE DEF Mem
  <2> QED BY <1>1, <2>1
<1>4. r = [block |-> OtherBlock(v.block), freed |-> FALSE, len |-> v.len, mem |-> m]
  <2>1. PICK f, b, j : /\ f = Fresh(OtherBlock(v.block), cap)
                       /\ b = OtherBlock(v.block) /\ j = [i \in 1 .. cap |-> Junk]
    OBVIOUS
  <2>2. f = [block |-> b, freed |-> FALSE, len |-> 0, mem |-> j]
    BY <2>1 DEF Fresh
  <2>3. DOMAIN j = 1 .. cap /\ \A i \in 1 .. cap : j[i] = Junk
    BY <2>1
  <2>4. PICK g, n : n = v.len /\ g = [i \in DOMAIN j |-> IF i <= n THEN v.mem[i] ELSE j[i]]
    OBVIOUS
  <2>5. g = m
    BY <2>3, <2>4
  <2>6. r = [f EXCEPT !.len = n, !.mem = g]
    <3>1. f.mem = j
      BY <2>2
    <3> QED BY <2>1, <2>4, <3>1 DEF Moved
  <2>7. r = [block |-> b, freed |-> FALSE, len |-> n, mem |-> g]
    <3> HIDE DEF m, r
    <3> QED BY <2>2, <2>6
  <2> QED BY <2>1, <2>4, <2>5, <2>7
<1> HIDE DEF m, r
<1>5. OtherBlock(v.block) \in Blocks /\ OtherBlock(v.block) # "none"
  BY DEF OtherBlock, Blocks
<1>6. Sound(r) /\ ~r.freed /\ r.len = v.len /\ Len(r.mem) = cap
  BY <1>1, <1>3, <1>4, <1>5 DEF Sound
<1> QED BY <1>3, <1>4, <1>6 DEF r

(* a3_vec_reserve makes room and leaves the elements alone; what fits       *)
(* already stays where it is.                                               *)
LEMMA ReservedIs ==
    ASSUME NEW v, Sound(v), NEW k \in Nat, ~Spins(v, k)
    PROVE  LET r == Reserved(v, k)
           IN  /\ Sound(r) /\ r.len = v.len
               /\ v.len + k <= Len(r.mem) /\ Len(v.mem) <= Len(r.mem)
               /\ \A i \in 1 .. v.len : r.mem[i] = v.mem[i]
               /\ v.len + k <= Len(v.mem) => r = v
               /\ r.freed => v.freed
<1> DEFINE r == Reserved(v, k)
           n == Len(v.mem)
<1>1. n \in Nat /\ v.len \in Nat /\ v.len <= n /\ Cap(v) = n
  BY SoundIs
<1>2. Fits(v, k) <=> v.len + k <= n
  BY <1>1 DEF Fits
<1>3. CASE Fits(v, k)
  BY <1>1, <1>2, <1>3 DEF Reserved
<1>4. ASSUME ~Fits(v, k), NEW cap \in Nat, v.len + k <= cap, r = Moved(v, cap)
      PROVE  /\ Sound(r) /\ r.len = v.len
             /\ v.len + k <= Len(r.mem) /\ Len(v.mem) <= Len(r.mem)
             /\ \A i \in 1 .. v.len : r.mem[i] = v.mem[i]
             /\ v.len + k <= Len(v.mem) => r = v
             /\ r.freed => v.freed
  <2>1. v.len <= cap /\ cap > 0 /\ n < v.len + k /\ n <= cap
    BY <1>1, <1>2, <1>4
  <2>2. /\ Sound(r) /\ ~r.freed /\ r.len = v.len /\ Len(r.mem) = cap
        /\ \A i \in 1 .. v.len : r.mem[i] = v.mem[i]
    <3>1. LET q == Moved(v, cap)
          IN  /\ Sound(q) /\ ~q.freed /\ q.len = v.len /\ Len(q.mem) = cap
              /\ \A i \in 1 .. v.len : q.mem[i] = v.mem[i]
      BY <2>1, MovedIs
    <3> QED BY <1>4, <3>1
  <2> HIDE DEF r
  <2> QED BY <1>1, <1>4, <2>1, <2>2
<1>5. CASE ~Fits(v, k) /\ v.block = "none"
  <2>1. n = 0 /\ v.len = 0 /\ r = Moved(v, k)
    BY <1>1, <1>5 DEF Sound, Reserved
  <2>2. v.len + k <= k
    BY <2>1
  <2> QED BY <1>4, <1>5, <2>1, <2>2
<1>6. CASE ~Fits(v, k) /\ v.block # "none"
  <2>1. r = Moved(v, Doubled(n, v.len + k)) /\ n > 0
    BY <1>1, <1>6 DEF Reserved, Spins
  <2>2. v.len + k \in Nat /\ n <= v.len + k
    BY <1>1, <1>2, <1>6
  <2>3. Doubled(n, v.len + k) \in Nat /\ Doubled(n, v.len + k) >= v.len + k
    BY <1>1, <2>1, <2>2, DoubledIsEnough
  <2>4. PICK cap \in Nat : cap = Doubled(n, v.len + k) /\ v.len + k <= cap
    BY <2>2, <2>3
  <2> QED BY <1>4, <1>6, <2>1, <2>4
<1> QED BY <1>3, <1>5, <1>6

-----------------------------------------------------------------------------
(* The calls. *)

LEMMA VecStarts == VecInit => VecInv
<1> SUFFICES ASSUME VecInit PROVE VecInv
  OBVIOUS
<1>1. PICK cap \in InitCaps : vec = VecFresh(cap)
  BY DEF VecInit
<1>2. cap \in Nat /\ vitems = <<>> /\ vroom = 0 /\ vfate = "ok" /\ MaxLen \in Nat
  BY VecAssumption DEF VecInit
<1>3. PICK b : b = IF cap = 0 THEN "none" ELSE "a"
  OBVIOUS
<1>4. b \in Blocks /\ (b = "none" <=> cap = 0) /\ vec = Fresh(b, cap)
  BY <1>1, <1>3 DEF Blocks, VecFresh
<1>5. Sound(vec) /\ vec.len = 0
  BY <1>2, <1>4, FreshIs
<1>6. Len(vitems) = 0 /\ vitems \in Seq(Elems)
  BY <1>2
<1>7. Holds(vec, vitems, vroom)
  BY <1>2, <1>5, <1>6, SoundIs DEF Holds
<1> QED BY <1>2, <1>5, <1>6, <1>7 DEF VecInv, VecTroubleOnlyAfterClear

(* The step in terms that do not change any more.                           *)
LEMMA VecSettles ==
    ASSUME NEW v, v = vec', NEW s, s = vitems', NEW room, room = vroom',
           Sound(v), Holds(v, s, room), Len(s) <= MaxLen, vfate' = "ok"
    PROVE  VecInv'
BY DEF VecInv, VecTroubleOnlyAfterClear

LEMMA ReserveKeeps ==
    ASSUME VecInv, vfate = "ok", NEW k \in Reserves, VecReserve(k)
    PROVE  VecInv'
<1>1. /\ k \in Nat /\ Sound(vec) /\ Holds(vec, vitems, vroom) /\ Len(vitems) <= MaxLen
      /\ ~Spins(vec, k)
  BY VecAssumption DEF VecInv, VecReserve
<1>2. PICK v, room : v = vec' /\ room = vroom'
  OBVIOUS
<1>3. v = Reserved(vec, k) /\ room = (IF vroom > k THEN vroom ELSE k) /\ vitems' = vitems /\ vfate' = "ok"
  BY <1>2 DEF VecReserve
<1>4. /\ Sound(v) /\ v.len = vec.len
      /\ vec.len + k <= Len(v.mem) /\ Len(vec.mem) <= Len(v.mem)
      /\ \A i \in 1 .. vec.len : v.mem[i] = vec.mem[i]
  BY <1>1, <1>3, ReservedIs
<1>5. Len(v.mem) \in Nat /\ Len(vec.mem) \in Nat /\ vec.len \in Nat
  BY <1>1, <1>4, SoundIs
<1>6. Holds(v, vitems, room)
  BY <1>1, <1>3, <1>4, <1>5 DEF Holds
<1> QED BY <1>1, <1>2, <1>3, <1>4, <1>6, VecSettles

LEMMA PushKeeps ==
    ASSUME VecInv, vfate = "ok", NEW e \in Elems, VecPush(e)
    PROVE  VecInv' /\ (vroom > 0 => vec'.block = vec.block)
<1>1. /\ Sound(vec) /\ Holds(vec, vitems, vroom) /\ Len(vitems) < MaxLen /\ ~Spins(vec, 1)
      /\ MaxLen \in Nat
  BY VecAssumption DEF VecInv, VecPush
<1>2. PICK v, w, s, room : v = Reserved(vec, 1) /\ w = vec' /\ s = vitems' /\ room = vroom'
  OBVIOUS
<1>3. /\ w = [v EXCEPT !.len = @ + 1, !.mem[v.len + 1] = e]
      /\ s = Append(vitems, e) /\ vfate' = "ok"
      /\ room = IF vroom > 0 THEN vroom - 1 ELSE 0
  BY <1>2 DEF VecPush
<1>4. /\ Sound(v) /\ v.len = vec.len
      /\ vec.len + 1 <= Len(v.mem) /\ Len(vec.mem) <= Len(v.mem)
      /\ \A i \in 1 .. vec.len : v.mem[i] = vec.mem[i]
      /\ vec.len + 1 <= Len(vec.mem) => v = vec
  BY <1>1, <1>2, ReservedIs
<1>5. /\ vitems \in Seq(Elems) /\ vroom \in Nat /\ vec.len = Len(vitems)
      /\ \A i \in 1 .. Len(vitems) : vec.mem[i] = vitems[i]
      /\ vec.len + vroom <= Len(vec.mem)
  BY <1>1 DEF Holds
<1>6. /\ Len(v.mem) \in Nat /\ Len(vec.mem) \in Nat /\ vec.len \in Nat /\ v.mem \in Seq(Mem)
      /\ v.block \in Blocks /\ v.freed \in BOOLEAN /\ v.len \in Nat
  BY <1>1, <1>4, SoundIs
<1>7. PICK n : n = v.len + 1
  OBVIOUS
<1>8. n \in 1 .. Len(v.mem) /\ n \in Nat
  BY <1>4, <1>6, <1>7
<1>9. PICK m : m = [v.mem EXCEPT ![n] = e]
  OBVIOUS
<1>10. /\ m \in Seq(Mem) /\ Len(m) = Len(v.mem)
       /\ \A i \in 1 .. Len(v.mem) : m[i] = IF i = n THEN e ELSE v.mem[i]
  <2>1. e \in Mem
    BY DEF Mem
  <2> QED BY <1>6, <1>8, <1>9, <2>1, ExceptSeq
<1>11. v \in [block : Blocks, freed : BOOLEAN, len : Nat, mem : Seq(Mem)]
  BY <1>4 DEF Sound
<1>12. w = [block |-> v.block, freed |-> v.freed, len |-> n, mem |-> m]
  BY <1>3, <1>7, <1>9, <1>11
<1>13. Sound(w)
  <2>1. ~v.freed
    <3> SUFFICES ASSUME v.freed PROVE FALSE
      OBVIOUS
    <3>1. v.mem = <<>>
      BY <1>4 DEF Sound
    <3>2. Len(v.mem) = 0
      BY <3>1
    <3> QED BY <1>8, <3>2
  <2>2. v.block # "none"
    BY <1>4, <1>6, <1>8 DEF Sound
  <2>3. n <= Len(m) /\ Len(m) > 0
    BY <1>6, <1>8, <1>10
  <2> QED BY <1>6, <1>8, <1>10, <1>12, <2>1, <2>2, <2>3 DEF Sound
<1>14. /\ s \in Seq(Elems) /\ Len(s) = Len(vitems) + 1 /\ s[Len(vitems) + 1] = e
       /\ \A i \in 1 .. Len(vitems) : s[i] = vitems[i]
  BY <1>3, <1>5, AppendProperties
<1>15. n = Len(vitems) + 1 /\ Len(vitems) \in Nat /\ n = Len(s)
  BY <1>4, <1>5, <1>6, <1>7, <1>14
<1>16. ASSUME NEW i \in 1 .. Len(s) PROVE m[i] = s[i]
  <2>1. i \in 1 .. Len(v.mem)
    BY <1>6, <1>8, <1>15
  <2>2. CASE i = n
    BY <1>10, <1>14, <1>15, <2>1, <2>2
  <2>3. CASE i # n
    <3>1. i \in 1 .. Len(vitems)
      BY <1>15, <2>3
    <3>2. m[i] = v.mem[i] /\ v.mem[i] = vec.mem[i] /\ vec.mem[i] = vitems[i] /\ s[i] = vitems[i]
      BY <1>4, <1>5, <1>10, <1>14, <2>1, <2>3, <3>1
    <3> QED BY <3>2
  <2> QED BY <2>2, <2>3
<1>17. room \in Nat /\ n + room <= Len(m)
  <2>1. CASE vroom > 0
    BY <1>3, <1>4, <1>5, <1>6, <1>7, <1>10, <2>1
  <2>2. CASE ~(vroom > 0)
    BY <1>3, <1>4, <1>5, <1>6, <1>7, <1>10, <2>2
  <2> QED BY <2>1, <2>2
<1>18. Holds(w, s, room)
  BY <1>12, <1>14, <1>15, <1>16, <1>17 DEF Holds
<1>19. Len(s) <= MaxLen
  BY <1>1, <1>14, <1>15
<1>20. vroom > 0 => vec'.block = vec.block
  <2>1. vroom > 0 => v = vec
    BY <1>4, <1>5, <1>6
  <2> QED BY <1>2, <1>12, <2>1
<1>21. VecInv'
  BY <1>2, <1>3, <1>13, <1>18, <1>19, VecSettles
<1> QED BY <1>20, <1>21

LEMMA PopKeeps ==
    ASSUME VecInv, vfate = "ok", VecPop
    PROVE  VecInv' /\ Len(vitems') <= Len(vitems)
<1>1. /\ Sound(vec) /\ Holds(vec, vitems, vroom) /\ Len(vitems) <= MaxLen /\ vec.len > 0
      /\ MaxLen \in Nat
  BY VecAssumption DEF VecInv, VecPop
<1>2. PICK w, s : w = vec' /\ s = vitems'
  OBVIOUS
<1>3. w = [vec EXCEPT !.len = @ - 1] /\ s = SubSeq(vitems, 1, Len(vitems) - 1) /\ vroom' = vroom /\ vfate' = "ok"
  BY <1>2 DEF VecPop, Front
<1>4. /\ vitems \in Seq(Elems) /\ vroom \in Nat /\ vec.len = Len(vitems)
      /\ \A i \in 1 .. Len(vitems) : vec.mem[i] = vitems[i]
      /\ vec.len + vroom <= Len(vec.mem)
  BY <1>1 DEF Holds
<1>5. PICK n : n = Len(vitems) - 1
  OBVIOUS
<1>6. n \in Nat /\ n + 1 = Len(vitems) /\ Len(vec.mem) \in Nat /\ vec.len - 1 = n
  BY <1>1, <1>4, <1>5, SoundIs
<1>7. s \in Seq(Elems) /\ Len(s) = n /\ \A i \in 1 .. n : s[i] = vitems[i]
  <2>1. 1 \in Int /\ n \in Int /\ \A i \in 1 .. n : vitems[i] \in Elems
    BY <1>4, <1>6, ElementOfSeq
  <2>2. /\ SubSeq(vitems, 1, n) \in Seq(Elems)
        /\ Len(SubSeq(vitems, 1, n)) = IF 1 <= n THEN n - 1 + 1 ELSE 0
        /\ \A i \in 1 .. n - 1 + 1 : SubSeq(vitems, 1, n)[i] = vitems[1 + i - 1]
    BY <2>1, SubSeqProperties
  <2>3. s = SubSeq(vitems, 1, n) /\ Len(s) = n
    BY <1>3, <1>5, <1>6, <2>2
  <2>4. ASSUME NEW i \in 1 .. n PROVE s[i] = vitems[i]
    <3>1. i \in 1 .. n - 1 + 1 /\ 1 + i - 1 = i
      BY <1>6
    <3> QED BY <2>2, <2>3, <3>1
  <2> QED BY <2>2, <2>3, <2>4
<1>8. /\ vec \in [block : Blocks, freed : BOOLEAN, len : Nat, mem : Seq(Mem)]
      /\ w = [block |-> vec.block, freed |-> vec.freed, len |-> n, mem |-> vec.mem]
  <2>1. vec \in [block : Blocks, freed : BOOLEAN, len : Nat, mem : Seq(Mem)]
    BY <1>1 DEF Sound
  <2> HIDE DEF Mem, Blocks
  <2> QED BY <1>3, <1>6, <2>1
<1>9. Sound(w)
  BY <1>1, <1>4, <1>6, <1>8 DEF Sound
<1>10. Holds(w, s, vroom)
  BY <1>4, <1>6, <1>7, <1>8 DEF Holds
<1>11. Len(s) <= MaxLen /\ Len(s) <= Len(vitems)
  BY <1>1, <1>6, <1>7
<1>12. VecInv'
  BY <1>2, <1>3, <1>9, <1>10, <1>11, VecSettles
<1> QED BY <1>2, <1>11, <1>12

LEMMA EmptiedIs ==
    ASSUME NEW v, Sound(v),
           NEW w, w = [v EXCEPT !.len = 0, !.freed = v.block # "none", !.mem = <<>>]
    PROVE  Sound(w) /\ Holds(w, <<>>, 0) /\ (v.freed => w.freed)
<1>1. v \in [block : Blocks, freed : BOOLEAN, len : Nat, mem : Seq(Mem)]
  BY DEF Sound
<1>2. w = [block |-> v.block, freed |-> w.freed, len |-> 0, mem |-> <<>>]
  <2> HIDE DEF Mem, Blocks
  <2> QED BY <1>1
<1>3. w.block = v.block /\ w.len = 0 /\ w.mem = <<>>
  BY <1>1
<1>4. w.freed \in BOOLEAN /\ (w.freed <=> w.block # "none")
  BY <1>1
<1>5. Len(<<>>) = 0 /\ <<>> \in Seq(Mem) /\ <<>> \in Seq(Elems)
  BY EmptySeq
<1>6. Sound(w)
  <2>1. w \in [block : Blocks, freed : BOOLEAN, len : Nat, mem : Seq(Mem)]
    <3> HIDE DEF Mem, Blocks
    <3> QED BY <1>1, <1>2, <1>4, <1>5
  <2>2. w.len <= Len(w.mem) /\ Len(w.mem) = 0
    BY <1>3, <1>5
  <2> QED BY <1>3, <1>4, <2>1, <2>2 DEF Sound
<1>7. Holds(w, <<>>, 0)
  BY <1>3, <1>5 DEF Holds
<1>8. v.freed => v.block # "none"
  BY DEF Sound
<1> QED BY <1>3, <1>4, <1>6, <1>7, <1>8

LEMMA DestroyKeeps ==
    ASSUME VecInv, vfate = "ok", VecDestroy
    PROVE  VecInv' /\ Len(vitems') <= Len(vitems)
<1>1. Sound(vec) /\ Holds(vec, vitems, vroom) /\ MaxLen \in Nat
  BY VecAssumption DEF VecInv
<1>2. PICK w : w = vec'
  OBVIOUS
<1>3. /\ w = [vec EXCEPT !.len = 0, !.freed = vec.block # "none", !.mem = <<>>]
      /\ vitems' = <<>> /\ vroom' = 0
      /\ IF vec.freed THEN vfate' = "freed twice" ELSE vfate' = vfate
  BY <1>2 DEF VecDestroy
<1>4. Sound(w) /\ Holds(w, <<>>, 0) /\ (vec.freed => w.freed)
  BY <1>1, <1>3, EmptiedIs
<1>5. Len(vitems') = 0 /\ Len(vitems) \in Nat
  BY <1>1, <1>3, EmptySeq, LenProperties DEF Holds
<1>6. VecInv'
  <2>1. vfate' \in {"ok", "freed twice"} /\ (vfate' # "ok" => w.freed)
    BY <1>3, <1>4
  <2>2. Sound(vec') /\ Holds(vec', vitems', vroom')
    BY <1>2, <1>3, <1>4
  <2>4. Len(vitems') <= MaxLen
    BY <1>1, <1>5
  <2>3. vfate' # "ok" => vec'.freed
    BY <1>2, <2>1
  <2> QED BY <2>1, <2>2, <2>3, <2>4 DEF VecInv, VecTroubleOnlyAfterClear
<1> QED BY <1>5, <1>6

LEMMA ReinitKeeps ==
    ASSUME VecInv, vfate = "ok", VecReinit
    PROVE  VecInv'
<1>1. Sound(vec) /\ Holds(vec, vitems, vroom) /\ Len(vitems) <= MaxLen /\ vec.freed
  BY DEF VecInv, VecReinit
<1>2. PICK cap \in InitCaps : vec' = VecFresh(cap)
  BY DEF VecReinit
<1>3. PICK w, b : w = vec' /\ b = IF cap = 0 THEN "none" ELSE "a"
  OBVIOUS
<1>4. cap \in Nat /\ b \in Blocks /\ (b = "none" <=> cap = 0) /\ w = Fresh(b, cap)
  BY <1>2, <1>3, VecAssumption DEF Blocks, VecFresh
<1>5. Sound(w) /\ w.len = 0
  BY <1>4, FreshIs
<1>6. Len(vec.mem) = 0
  BY <1>1, EmptySeq DEF Sound
<1>7. Len(vitems) = 0 /\ vroom = 0
  <2>1. /\ vitems \in Seq(Elems) /\ vroom \in Nat /\ vec.len = Len(vitems)
        /\ vec.len + vroom <= Len(vec.mem)
    BY <1>1 DEF Holds
  <2>2. Len(vitems) \in Nat
    BY <2>1, LenProperties
  <2> QED BY <1>6, <2>1, <2>2
<1>8. Len(w.mem) \in Nat
  BY <1>5, SoundIs
<1>9. Holds(w, vitems, vroom)
  BY <1>1, <1>5, <1>7, <1>8 DEF Holds
<1>10. vitems' = vitems /\ vroom' = vroom /\ vfate' = "ok"
  BY DEF VecReinit
<1> QED BY <1>1, <1>3, <1>5, <1>9, <1>10, VecSettles

LEMMA SpinKeeps ==
    ASSUME VecInv, VecSpin
    PROVE  VecInv'
<1>1. Sound(vec) /\ vec' = vec /\ vitems' = vitems /\ vroom' = vroom /\ vfate' = "spins"
  BY DEF VecInv, VecSpin
<1>2. PICK k \in Reserves \cup {1} : Spins(vec, k)
  BY DEF VecSpin
<1>3. vec.freed
  <2>1. vec.block # "none" /\ Len(vec.mem) = 0
    BY <1>1, <1>2, SoundIs DEF Spins
  <2> QED BY <1>1, <2>1, SoundIs DEF Sound
<1> QED BY <1>1, <1>3 DEF VecInv, VecTroubleOnlyAfterClear

Steady == Len(vitems') > Len(vitems) /\ vroom > 0 => vec'.block = vec.block

LEMMA VecStays == VecInv /\ [VecNext]_vvars => VecInv' /\ Steady
<1> SUFFICES ASSUME VecInv, [VecNext]_vvars PROVE VecInv' /\ Steady
  OBVIOUS
<1>1. Len(vitems) \in Nat
  BY LenProperties DEF VecInv, Holds
<1>2. vitems' = vitems => Steady
  BY <1>1 DEF Steady
<1>3. Len(vitems') \in Nat /\ Len(vitems') <= Len(vitems) => Steady
  BY <1>1 DEF Steady
<1>4. VecInv' => Len(vitems') \in Nat
  BY LenProperties DEF VecInv, Holds
<1>5. ASSUME vfate = "ok", NEW k \in Reserves, VecReserve(k) PROVE VecInv' /\ Steady
  BY <1>2, <1>5, ReserveKeeps DEF VecReserve
<1>6. ASSUME vfate = "ok", NEW e \in Elems, VecPush(e) PROVE VecInv' /\ Steady
  BY <1>6, PushKeeps DEF Steady
<1>7. CASE vfate = "ok" /\ VecSpin
  BY <1>2, <1>7, SpinKeeps DEF VecSpin
<1>8. CASE vfate = "ok" /\ VecPop
  BY <1>3, <1>4, <1>8, PopKeeps
<1>9. CASE vfate = "ok" /\ VecDestroy
  BY <1>3, <1>4, <1>9, DestroyKeeps
<1>10. CASE vfate = "ok" /\ VecReinit
  BY <1>2, <1>10, ReinitKeeps DEF VecReinit
<1>11. CASE UNCHANGED vvars
  BY <1>2, <1>11 DEF vvars, VecInv, VecTroubleOnlyAfterClear
<1> QED BY <1>5, <1>6, <1>7, <1>8, <1>9, <1>10, <1>11 DEF VecNext, VecStep, VecStuck

-----------------------------------------------------------------------------
(* The theorems. *)

(* After any sequence of calls of vec.c and vec.h:86-99 the buffer holds    *)
(* what was pushed and not popped, has the room that was promised, and is   *)
(* empty only before the first allocation and after a3_vec_destroy.         *)
THEOREM VecInvariant == VecSpec => []VecInv
BY VecStarts, VecStays, PTL DEF VecSpec

(* However often the buffer moved, a loop over the vector and a3_vec_at     *)
(* give the elements in the order in which they were pushed (vec.c:74-77).  *)
THEOREM VectorIsSequence == VecSpec => []VecIsSequence
<1>1. VecInv => VecIsSequence
  <2> SUFFICES ASSUME VecInv PROVE VecIsSequence
    OBVIOUS
  <2>1. /\ Sound(vec) /\ vitems \in Seq(Elems) /\ vec.len = Len(vitems)
        /\ \A i \in 1 .. Len(vitems) : vec.mem[i] = vitems[i]
    BY DEF VecInv, Holds
  <2>2. Len(vitems) \in Nat /\ vec.mem \in Seq(Mem) /\ Len(vitems) <= Len(vec.mem)
        /\ Len(vec.mem) \in Nat
    BY <2>1, SoundIs
  <2>3. VecMeets = vitems
    <3>1. CASE vec.block = "none"
      <4>1. Len(vitems) = 0
        BY <2>1, <2>2, <3>1 DEF Sound
      <4> QED BY <2>1, <3>1, <4>1, EmptySeq DEF VecMeets
    <3>2. CASE vec.block # "none"
      <4>1. PICK n, s, m : n = Len(vitems) /\ m = vec.mem /\ s = SubSeq(m, 1, n)
        OBVIOUS
      <4>2. \A i \in 1 .. n : m[i] \in Mem
        BY <2>1, <2>2, <4>1, ElementOfSeq
      <4>3. s \in Seq(Mem) /\ Len(s) = n /\ \A i \in 1 .. n : s[i] = m[i]
        <5>1. 1 \in Int /\ n \in Nat
          BY <2>2, <4>1
        <5>2. /\ SubSeq(m, 1, n) \in Seq(Mem)
              /\ Len(SubSeq(m, 1, n)) = IF 1 <= n THEN n - 1 + 1 ELSE 0
              /\ \A i \in 1 .. n - 1 + 1 : SubSeq(m, 1, n)[i] = m[1 + i - 1]
          BY <4>2, <5>1, SubSeqProperties
        <5>3. n - 1 + 1 = n /\ \A i \in 1 .. n : 1 + i - 1 = i
          BY <5>1
        <5> QED BY <4>1, <5>1, <5>2, <5>3
      <4>4. s = vitems
        <5>1. Len(s) = Len(vitems) /\ \A i \in 1 .. Len(s) : s[i] = vitems[i]
          BY <2>1, <4>1, <4>3
        <5>2. vitems \in Seq(Mem)
          BY <2>1, ElementOfSeq, SeqDef DEF Mem
        <5> QED BY <4>3, <5>1, <5>2, SeqEqual
      <4>5. VecMeets = s
        BY <2>1, <3>2, <4>1 DEF VecMeets
      <4> QED BY <4>4, <4>5
    <3> QED BY <3>1, <3>2
  <2>4. ASSUME NEW i \in 0 .. MaxLen
        PROVE  VecAt(i) = IF i < Len(vitems) THEN vitems[i + 1] ELSE Junk
    <3>1. i \in Nat
      BY VecAssumption
    <3>2. CASE i < Len(vitems)
      <4>1. i + 1 \in 1 .. Len(vitems) /\ ~(i >= vec.len)
        BY <2>1, <2>2, <3>1, <3>2
      <4> QED BY <2>1, <3>2, <4>1 DEF VecAt
    <3>3. CASE ~(i < Len(vitems))
      <4>1. i >= vec.len
        BY <2>1, <2>2, <3>1, <3>3
      <4> QED BY <3>3, <4>1 DEF VecAt
    <3> QED BY <3>2, <3>3
  <2> QED BY <2>3, <2>4 DEF VecIsSequence
<1> QED BY <1>1, VecInvariant, PTL

(* A push for which room was reserved leaves the buffer where it is: the    *)
(* pointers to elements, and that of a loop, stay good (vec.c:62, vec.h:95).*)
THEOREM ReservedRoomHolds == VecSpec => VecRoomHolds
<1>1. VecInv /\ [VecNext]_vvars =>
          [Len(vitems') > Len(vitems) /\ vroom > 0 => vec'.block = vec.block]_vvars
  BY VecStays DEF Steady
<1> QED BY <1>1, VecInvariant, PTL DEF VecSpec, VecRoomHolds

(* A call never returns, or frees a buffer a second time, only after        *)
(* a3_vec_destroy or A3_VEC_CLEAR (vec.c:71, vec.c:83).                     *)
THEOREM TroubleOnlyAfterClear == VecSpec => []VecTroubleOnlyAfterClear
<1>1. VecInv => VecTroubleOnlyAfterClear
  BY DEF VecInv
<1> QED BY <1>1, VecInvariant, PTL

-----------------------------------------------------------------------------
(* All three, as the run checks them: a step of one leaves the others alone. *)

AllInv == SllInv /\ LlInv /\ VecInv

LEMMA AllStart == SeqInit => AllInv
BY SllStarts, LlStarts, VecStarts DEF SeqInit, AllInv

LEMMA AllStay == AllInv /\ [SeqNext]_<<svars, lvars, vvars, kind>> => AllInv'
<1> SUFFICES ASSUME AllInv, [SeqNext]_<<svars, lvars, vvars, kind>> PROVE AllInv'
  OBVIOUS
<1>1. SllInv /\ LlInv /\ VecInv
  BY DEF AllInv
<1>2. /\ SllNext \/ UNCHANGED svars
      /\ LlStep \/ UNCHANGED lvars
      /\ VecNext \/ UNCHANGED vvars
  BY DEF SeqNext
<1>3. SllInv'
  BY <1>1, <1>2, SllStays
<1>4. LlInv'
  BY <1>1, <1>2, LlStays
<1>5. VecInv'
  BY <1>1, <1>2, VecStays
<1> QED BY <1>3, <1>4, <1>5 DEF AllInv

(* The invariants of the three hold together: a client uses one of them and *)
(* leaves the others as their INIT made them.                               *)
THEOREM SequencesInvariant == SeqSpec => []AllInv
BY AllStart, AllStay, PTL DEF SeqSpec

(* The links of the lists (sll.h:26, ll.h:37) and the vector (vec.h:27)     *)
(* keep their types, whichever of them the client uses.                     *)
THEOREM SequencesTypes == SeqSpec => []TypesOK
<1>1. AllInv => TypesOK
  BY VecInvTypes DEF AllInv, TypesOK, SllInv, LlInv
<1> QED BY <1>1, SequencesInvariant, PTL

(* A FOR_EACH of either list (sll.h:146, ll.h:137) visits every element     *)
(* that stays from beginning to end, whatever its body inserts and removes. *)
THEOREM NoLoopMisses == SeqSpec => []LoopsMissNothing
<1>1. AllInv => LoopsMissNothing
  BY DEF AllInv, LoopsMissNothing, SllInv, LlInv, SllLoopMissesNothing, LlLoopMissesNothing,
         InOrder
<1> QED BY <1>1, SequencesInvariant, PTL
=============================================================================
