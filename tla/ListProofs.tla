----------------------------- MODULE ListProofs -----------------------------
(***************************************************************************)
(* What the proofs about the lists rest on: how insertion and removal      *)
(* move the elements of a sequence, and that following links that spell a  *)
(* sequence gives that sequence.                                           *)
(***************************************************************************)
EXTENDS Lists, SequenceTheorems, FiniteSetTheorems, WellFoundedInduction, TLAPS

(* Every set of numbers that is not empty has a least element.              *)
LEMMA LeastNumber ==
    ASSUME NEW S, S \subseteq Nat, S # {}
    PROVE  \E x \in S : \A y \in S : x <= y
<1>1. PICK x \in S : \A y \in S : ~(<<y, x>> \in OpToRel(<, Nat))
  BY NatLessThanWellFounded, WFMin
<1>2. \A y \in S : ~(y < x)
  BY <1>1 DEF OpToRel
<1> QED BY <1>2

-----------------------------------------------------------------------------
(* Sequences without repetition. *)

Elements(s) == s \in Seq(Nodes) /\ IsInjective(s)

LEMMA ElementsAre ==
    ASSUME NEW s, Elements(s)
    PROVE  /\ Len(s) \in Nat /\ DOMAIN s = 1 .. Len(s)
           /\ \A i \in 1 .. Len(s) : s[i] \in Nodes
           /\ \A i, j \in 1 .. Len(s) : s[i] = s[j] => i = j
           /\ ToSet(s) = {s[i] : i \in 1 .. Len(s)}
<1>1. s \in Seq(Nodes) /\ IsInjective(s)
  BY DEF Elements
<1>2. Len(s) \in Nat /\ DOMAIN s = 1 .. Len(s)
  BY <1>1, LenProperties
<1>3. \A i \in 1 .. Len(s) : s[i] \in Nodes
  BY <1>1, ElementOfSeq
<1> QED BY <1>1, <1>2, <1>3 DEF IsInjective, ToSet

LEMMA PositionIs ==
    ASSUME NEW s, Elements(s)
    PROVE  /\ \A n \in ToSet(s) : Position(s, n) \in 1 .. Len(s) /\ s[Position(s, n)] = n
           /\ \A i \in 1 .. Len(s) : s[i] \in ToSet(s) /\ Position(s, s[i]) = i
<1>1. \A n \in ToSet(s) : Position(s, n) \in 1 .. Len(s) /\ s[Position(s, n)] = n
  BY ElementsAre DEF Position
<1>2. ASSUME NEW i \in 1 .. Len(s) PROVE s[i] \in ToSet(s) /\ Position(s, s[i]) = i
  <2>1. s[i] \in ToSet(s)
    BY ElementsAre
  <2>2. Position(s, s[i]) \in 1 .. Len(s) /\ s[Position(s, s[i])] = s[i]
    BY <1>1, <2>1
  <2> QED BY <2>1, <2>2, ElementsAre
<1> QED BY <1>1, <1>2

(* t is s with n put in at k.                                               *)
Grown(s, k, n, t) ==
    /\ t \in Seq(Nodes) /\ Len(t) = Len(s) + 1
    /\ \A i \in 1 .. k - 1 : t[i] = s[i]
    /\ t[k] = n
    /\ \A i \in k + 1 .. Len(s) + 1 : t[i] = s[i - 1]

(* t is s without what it has at k.                                         *)
Shrunk(s, k, t) ==
    /\ t \in Seq(Nodes) /\ Len(t) = Len(s) - 1
    /\ \A i \in 1 .. k - 1 : t[i] = s[i]
    /\ \A i \in k .. Len(s) - 1 : t[i] = s[i + 1]

LEMMA Slice ==
    ASSUME NEW s \in Seq(Nodes), NEW lo \in Nat, NEW hi \in Nat,
           1 <= lo, hi <= Len(s), lo <= hi + 1
    PROVE  /\ SubSeq(s, lo, hi) \in Seq(Nodes) /\ Len(SubSeq(s, lo, hi)) = hi - lo + 1
           /\ \A i \in 1 .. hi - lo + 1 : SubSeq(s, lo, hi)[i] = s[lo + i - 1]
<1>1. \A i \in lo .. hi : s[i] \in Nodes
  BY ElementOfSeq
<1>2. lo \in Int /\ hi \in Int
  OBVIOUS
<1>3. /\ SubSeq(s, lo, hi) \in Seq(Nodes)
      /\ Len(SubSeq(s, lo, hi)) = IF lo <= hi THEN hi - lo + 1 ELSE 0
      /\ \A i \in 1 .. hi - lo + 1 : SubSeq(s, lo, hi)[i] = s[lo + i - 1]
  BY <1>1, <1>2, SubSeqProperties
<1> QED BY <1>3

LEMMA InsertAtGrows ==
    ASSUME NEW s \in Seq(Nodes), NEW n \in Nodes, NEW k \in 1 .. Len(s) + 1
    PROVE  Grown(s, k, n, InsertAt(s, k, n))
<1> DEFINE a == SubSeq(s, 1, k - 1)
           b == SubSeq(s, k, Len(s))
           t == a \o <<n>> \o b
<1>1. Len(s) \in Nat /\ k \in Nat /\ 1 <= k /\ k <= Len(s) + 1 /\ k - 1 \in Nat
  OBVIOUS
<1>2. a \in Seq(Nodes) /\ Len(a) = k - 1 /\ \A i \in 1 .. k - 1 : a[i] = s[i]
  <2>1. /\ a \in Seq(Nodes) /\ Len(a) = k - 1 - 1 + 1
        /\ \A i \in 1 .. k - 1 - 1 + 1 : a[i] = s[1 + i - 1]
    BY <1>1, Slice
  <2> HIDE DEF a
  <2>2. k - 1 - 1 + 1 = k - 1 /\ \A i \in 1 .. k - 1 : 1 + i - 1 = i
    BY <1>1
  <2> QED BY <2>1, <2>2
<1>3. b \in Seq(Nodes) /\ Len(b) = Len(s) - k + 1
      /\ \A i \in 1 .. Len(s) - k + 1 : b[i] = s[k + i - 1]
  BY <1>1, Slice
<1> HIDE DEF a, b
<1>4. <<n>> \in Seq(Nodes) /\ Len(<<n>>) = 1 /\ <<n>>[1] = n
  OBVIOUS
<1>5. /\ a \o <<n>> \in Seq(Nodes) /\ Len(a \o <<n>>) = k
      /\ \A i \in 1 .. k : (a \o <<n>>)[i] = IF i <= k - 1 THEN s[i] ELSE n
  <2>1. /\ a \o <<n>> \in Seq(Nodes) /\ Len(a \o <<n>>) = Len(a) + Len(<<n>>)
        /\ \A i \in 1 .. Len(a) + Len(<<n>>) :
              (a \o <<n>>)[i] = IF i <= Len(a) THEN a[i] ELSE <<n>>[i - Len(a)]
    BY <1>2, <1>4, ConcatProperties
  <2>2. Len(a) + Len(<<n>>) = k
    BY <1>1, <1>2, <1>4
  <2>3. ASSUME NEW i \in 1 .. k PROVE (a \o <<n>>)[i] = IF i <= k - 1 THEN s[i] ELSE n
    <3>1. CASE i <= k - 1
      BY <1>1, <1>2, <2>1, <2>2, <3>1
    <3>2. CASE ~(i <= k - 1)
      <4>1. i = k /\ i - Len(a) = 1
        BY <1>1, <1>2, <3>2
      <4> QED BY <1>2, <1>4, <2>1, <2>2, <3>2, <4>1
    <3> QED BY <3>1, <3>2
  <2> QED BY <2>1, <2>2, <2>3
<1>6. /\ t \in Seq(Nodes) /\ Len(t) = k + Len(b)
      /\ \A i \in 1 .. k + Len(b) :
            t[i] = IF i <= k THEN (a \o <<n>>)[i] ELSE b[i - k]
  <2>1. PICK c : c = a \o <<n>>
    OBVIOUS
  <2>2. /\ c \o b \in Seq(Nodes) /\ Len(c \o b) = Len(c) + Len(b)
        /\ \A i \in 1 .. Len(c) + Len(b) :
              (c \o b)[i] = IF i <= Len(c) THEN c[i] ELSE b[i - Len(c)]
    <3>1. c \in Seq(Nodes) /\ b \in Seq(Nodes)
      BY <1>3, <1>5, <2>1
    <3> QED BY <3>1, ConcatProperties
  <2>3. Len(c) = k /\ t = c \o b
    BY <1>5, <2>1
  <2> HIDE DEF t
  <2> QED BY <2>1, <2>2, <2>3
<1> HIDE DEF t
<1>7. k + Len(b) = Len(s) + 1
  BY <1>1, <1>3
<1>8. ASSUME NEW i \in 1 .. k - 1 PROVE t[i] = s[i]
  <2>1. i \in 1 .. k /\ i \in 1 .. k + Len(b)
    BY <1>1, <1>7
  <2> QED BY <1>5, <1>6, <2>1, <1>1
<1>9. t[k] = n
  <2>1. k \in 1 .. k /\ k \in 1 .. k + Len(b) /\ ~(k <= k - 1)
    BY <1>1, <1>7
  <2> QED BY <1>5, <1>6, <2>1, <1>1
<1>10. ASSUME NEW i \in k + 1 .. Len(s) + 1 PROVE t[i] = s[i - 1]
  <2>1. /\ i \in 1 .. k + Len(b) /\ ~(i <= k)
        /\ i - k \in 1 .. Len(s) - k + 1 /\ k + (i - k) - 1 = i - 1
    BY <1>1, <1>7
  <2>2. PICK j : j = i - k
    OBVIOUS
  <2>3. t[i] = b[j]
    BY <1>6, <2>1, <2>2
  <2>4. b[j] = s[k + j - 1]
    BY <1>3, <2>1, <2>2
  <2> QED BY <2>1, <2>2, <2>3, <2>4
<1> QED BY <1>6, <1>7, <1>8, <1>9, <1>10 DEF Grown, InsertAt, t, a, b

LEMMA ConsGrows ==
    ASSUME NEW s \in Seq(Nodes), NEW n \in Nodes
    PROVE  Grown(s, 1, n, <<n>> \o s)
<1>1. <<n>> \in Seq(Nodes) /\ Len(<<n>>) = 1 /\ <<n>>[1] = n /\ Len(s) \in Nat
  OBVIOUS
<1> DEFINE t == <<n>> \o s
<1>2. /\ t \in Seq(Nodes) /\ Len(t) = Len(<<n>>) + Len(s)
      /\ \A i \in 1 .. Len(<<n>>) + Len(s) :
            t[i] = IF i <= Len(<<n>>) THEN <<n>>[i] ELSE s[i - Len(<<n>>)]
  BY <1>1, ConcatProperties
<1> HIDE DEF t
<1>3. t[1] = n /\ \A i \in 1 + 1 .. Len(s) + 1 : t[i] = s[i - 1]
  BY <1>1, <1>2
<1> QED BY <1>1, <1>2, <1>3 DEF Grown, t

LEMMA AppendGrows ==
    ASSUME NEW s \in Seq(Nodes), NEW n \in Nodes
    PROVE  Grown(s, Len(s) + 1, n, Append(s, n))
BY AppendProperties DEF Grown

LEMMA RemoveAtShrinks ==
    ASSUME NEW s \in Seq(Nodes), NEW k \in 1 .. Len(s)
    PROVE  Shrunk(s, k, RemoveAt(s, k))
<1> DEFINE a == SubSeq(s, 1, k - 1)
           b == SubSeq(s, k + 1, Len(s))
           t == a \o b
<1>1. Len(s) \in Nat /\ k \in Nat /\ 1 <= k /\ k <= Len(s) /\ k - 1 \in Nat
  OBVIOUS
<1>2. a \in Seq(Nodes) /\ Len(a) = k - 1 /\ \A i \in 1 .. k - 1 : a[i] = s[i]
  <2>1. /\ a \in Seq(Nodes) /\ Len(a) = k - 1 - 1 + 1
        /\ \A i \in 1 .. k - 1 - 1 + 1 : a[i] = s[1 + i - 1]
    BY <1>1, Slice
  <2> HIDE DEF a
  <2>2. k - 1 - 1 + 1 = k - 1 /\ \A i \in 1 .. k - 1 : 1 + i - 1 = i
    BY <1>1
  <2> QED BY <2>1, <2>2
<1>3. b \in Seq(Nodes) /\ Len(b) = Len(s) - k
      /\ \A i \in 1 .. Len(s) - k : b[i] = s[k + i]
  <2>1. /\ b \in Seq(Nodes) /\ Len(b) = Len(s) - (k + 1) + 1
        /\ \A i \in 1 .. Len(s) - (k + 1) + 1 : b[i] = s[k + 1 + i - 1]
    BY <1>1, Slice
  <2> HIDE DEF b
  <2>2. Len(s) - (k + 1) + 1 = Len(s) - k /\ \A i \in 1 .. Len(s) - k : k + 1 + i - 1 = k + i
    BY <1>1
  <2> QED BY <2>1, <2>2
<1> HIDE DEF a, b
<1>4. /\ t \in Seq(Nodes) /\ Len(t) = Len(a) + Len(b)
      /\ \A i \in 1 .. Len(a) + Len(b) : t[i] = IF i <= Len(a) THEN a[i] ELSE b[i - Len(a)]
  BY <1>2, <1>3, ConcatProperties
<1> HIDE DEF t
<1>5. Len(a) + Len(b) = Len(s) - 1
  BY <1>1, <1>2, <1>3
<1>6. ASSUME NEW i \in 1 .. k - 1 PROVE t[i] = s[i]
  <2>1. i \in 1 .. Len(a) + Len(b) /\ i <= Len(a)
    BY <1>1, <1>2, <1>5
  <2> QED BY <1>2, <1>4, <2>1
<1>7. ASSUME NEW i \in k .. Len(s) - 1 PROVE t[i] = s[i + 1]
  <2>1. PICK j : j = i - Len(a)
    OBVIOUS
  <2>2. i \in 1 .. Len(a) + Len(b) /\ ~(i <= Len(a)) /\ j \in 1 .. Len(s) - k /\ k + j = i + 1
    BY <1>1, <1>2, <1>5, <2>1
  <2>3. t[i] = b[j]
    BY <1>4, <2>1, <2>2
  <2>4. b[j] = s[k + j]
    BY <1>3, <2>2
  <2> QED BY <2>2, <2>3, <2>4
<1> QED BY <1>4, <1>5, <1>6, <1>7 DEF Shrunk, RemoveAt, t, a, b

LEMMA GrownElements ==
    ASSUME NEW s, Elements(s), NEW n \in Nodes, n \notin ToSet(s),
           NEW k \in 1 .. Len(s) + 1, NEW t, Grown(s, k, n, t)
    PROVE  /\ Elements(t) /\ ToSet(t) = ToSet(s) \cup {n}
           /\ \A x \in ToSet(s) : Position(t, x) =
                 IF Position(s, x) < k THEN Position(s, x) ELSE Position(s, x) + 1
<1>1. /\ Len(s) \in Nat /\ \A i, j \in 1 .. Len(s) : s[i] = s[j] => i = j
      /\ ToSet(s) = {s[i] : i \in 1 .. Len(s)}
      /\ t \in Seq(Nodes) /\ Len(t) = Len(s) + 1 /\ DOMAIN t = 1 .. Len(t)
      /\ k \in Nat /\ 1 <= k /\ k <= Len(s) + 1
  BY ElementsAre, LenProperties DEF Grown
(* Where what is in t comes from.                                           *)
<1>2. \A i \in 1 .. Len(t) :
          \/ i < k /\ i \in 1 .. Len(s) /\ t[i] = s[i]
          \/ i = k /\ t[i] = n
          \/ i > k /\ i - 1 \in 1 .. Len(s) /\ t[i] = s[i - 1]
  <2> TAKE i \in 1 .. Len(t)
  <2>1. CASE i < k
    BY <1>1, <2>1 DEF Grown
  <2>2. CASE i = k
    BY <2>2 DEF Grown
  <2>3. CASE i > k
    BY <1>1, <2>3 DEF Grown
  <2> QED BY <1>1, <2>1, <2>2, <2>3
<1>3. \A i \in 1 .. Len(s) : s[i] # n
  BY <1>1
<1>4. ASSUME NEW i \in 1 .. Len(t), NEW j \in 1 .. Len(t), t[i] = t[j] PROVE i = j
  <2> DEFINE from(m) == IF m < k THEN m ELSE m - 1
  <2>1. CASE i = k \/ j = k
    BY <1>1, <1>2, <1>3, <1>4, <2>1
  <2>2. CASE i # k /\ j # k
    <3>1. /\ from(i) \in 1 .. Len(s) /\ t[i] = s[from(i)]
          /\ from(j) \in 1 .. Len(s) /\ t[j] = s[from(j)]
      BY <1>1, <1>2, <2>2
    <3>2. from(i) = from(j)
      <4> HIDE DEF from
      <4> QED BY <1>1, <1>4, <3>1
    <3> QED BY <1>1, <2>2, <3>2
  <2> QED BY <2>1, <2>2
<1>5. Elements(t)
  BY <1>1, <1>4 DEF Elements, IsInjective
<1>6. ToSet(t) = ToSet(s) \cup {n}
  <2>1. ToSet(t) = {t[i] : i \in 1 .. Len(t)}
    BY <1>5, ElementsAre
  <2>2. ASSUME NEW i \in 1 .. Len(t) PROVE t[i] \in ToSet(s) \cup {n}
    BY <1>1, <1>2
  <2>3. ASSUME NEW i \in 1 .. Len(s) PROVE s[i] \in ToSet(t)
    <3>1. CASE i < k
      <4>1. i \in 1 .. Len(t) /\ t[i] = s[i]
        BY <1>1, <3>1 DEF Grown
      <4> QED BY <2>1, <4>1
    <3>2. CASE ~(i < k)
      <4>1. i + 1 \in k + 1 .. Len(s) + 1 /\ i + 1 \in 1 .. Len(t) /\ i + 1 - 1 = i
        BY <1>1, <3>2
      <4>2. t[i + 1] = s[i]
        BY <4>1 DEF Grown
      <4> QED BY <2>1, <4>1, <4>2
    <3> QED BY <3>1, <3>2
  <2>4. n \in ToSet(t)
    BY <1>1, <2>1 DEF Grown
  <2> QED BY <1>1, <2>1, <2>2, <2>3, <2>4
<1>7. ASSUME NEW x \in ToSet(s)
      PROVE  Position(t, x) = IF Position(s, x) < k THEN Position(s, x) ELSE Position(s, x) + 1
  <2>1. PICK p : p = Position(s, x)
    OBVIOUS
  <2>2. p \in 1 .. Len(s) /\ s[p] = x
    BY <2>1, PositionIs
  <2>3. CASE p < k
    <3>1. p \in 1 .. Len(t) /\ t[p] = x
      BY <1>1, <2>2, <2>3 DEF Grown
    <3> QED BY <1>5, <2>1, <2>3, <3>1, PositionIs
  <2>4. CASE ~(p < k)
    <3>1. p + 1 \in k + 1 .. Len(s) + 1 /\ p + 1 \in 1 .. Len(t) /\ p + 1 - 1 = p
      BY <1>1, <2>2, <2>4
    <3>2. t[p + 1] = x
      BY <2>2, <3>1 DEF Grown
    <3> QED BY <1>5, <2>1, <2>4, <3>1, <3>2, PositionIs
  <2> QED BY <2>3, <2>4
<1> QED BY <1>5, <1>6, <1>7

LEMMA ShrunkElements ==
    ASSUME NEW s, Elements(s), NEW k \in 1 .. Len(s), NEW t, Shrunk(s, k, t)
    PROVE  /\ Elements(t) /\ ToSet(t) = ToSet(s) \ {s[k]}
           /\ \A x \in ToSet(t) : Position(t, x) =
                 IF Position(s, x) < k THEN Position(s, x) ELSE Position(s, x) - 1
<1>1. /\ Len(s) \in Nat /\ \A i, j \in 1 .. Len(s) : s[i] = s[j] => i = j
      /\ ToSet(s) = {s[i] : i \in 1 .. Len(s)}
      /\ t \in Seq(Nodes) /\ Len(t) = Len(s) - 1 /\ DOMAIN t = 1 .. Len(t)
      /\ k \in Nat /\ 1 <= k /\ k <= Len(s)
  BY ElementsAre, LenProperties DEF Shrunk
<1> DEFINE from(m) == IF m < k THEN m ELSE m + 1
<1>2. \A i \in 1 .. Len(t) : from(i) \in 1 .. Len(s) /\ from(i) # k /\ t[i] = s[from(i)]
  <2> TAKE i \in 1 .. Len(t)
  <2>1. CASE i < k
    BY <1>1, <2>1 DEF Shrunk
  <2>2. CASE ~(i < k)
    <3>1. i \in k .. Len(s) - 1 /\ i + 1 \in 1 .. Len(s) /\ i + 1 # k
      BY <1>1, <2>2
    <3> QED BY <2>2, <3>1 DEF Shrunk
  <2> QED BY <2>1, <2>2
<1>3. \A i, j \in 1 .. Len(t) : from(i) = from(j) => i = j
  BY <1>1
<1> HIDE DEF from
<1>4. Elements(t)
  <2>1. \A i, j \in 1 .. Len(t) : t[i] = t[j] => i = j
    BY <1>1, <1>2, <1>3
  <2> QED BY <1>1, <2>1 DEF Elements, IsInjective
<1>5. \A j \in 1 .. Len(s) : j # k => \E i \in 1 .. Len(t) : from(i) = j
  <2> TAKE j \in 1 .. Len(s)
  <2> HAVE j # k
  <2>1. CASE j < k
    <3>1. j \in 1 .. Len(t) /\ from(j) = j
      BY <1>1, <2>1 DEF from
    <3> QED BY <3>1
  <2>2. CASE ~(j < k)
    <3>1. j - 1 \in 1 .. Len(t) /\ from(j - 1) = j
      BY <1>1, <2>2 DEF from
    <3> QED BY <3>1
  <2> QED BY <2>1, <2>2
<1>6. ToSet(t) = ToSet(s) \ {s[k]}
  <2>1. ToSet(t) = {t[i] : i \in 1 .. Len(t)}
    BY <1>4, ElementsAre
  <2>2. ASSUME NEW i \in 1 .. Len(t) PROVE t[i] \in ToSet(s) \ {s[k]}
    BY <1>1, <1>2
  <2>3. ASSUME NEW j \in 1 .. Len(s), s[j] # s[k] PROVE s[j] \in ToSet(t)
    BY <1>2, <1>5, <2>1, <2>3
  <2>4. ASSUME NEW x \in ToSet(t) PROVE x \in ToSet(s) \ {s[k]}
    BY <2>1, <2>2
  <2>5. ASSUME NEW x \in ToSet(s) \ {s[k]} PROVE x \in ToSet(t)
    <3>1. PICK j \in 1 .. Len(s) : x = s[j]
      BY <1>1
    <3> QED BY <2>3, <3>1
  <2> QED BY <2>4, <2>5
<1>7. ASSUME NEW x \in ToSet(t)
      PROVE  Position(t, x) = IF Position(s, x) < k THEN Position(s, x) ELSE Position(s, x) - 1
  <2>1. PICK p : p = Position(t, x)
    OBVIOUS
  <2>2. p \in 1 .. Len(t) /\ t[p] = x
    BY <1>4, <2>1, PositionIs
  <2>3. from(p) \in 1 .. Len(s) /\ s[from(p)] = x
    BY <1>2, <2>2
  <2>4. Position(s, x) = from(p)
    BY <2>3, PositionIs
  <2> QED BY <1>1, <2>1, <2>2, <2>4 DEF from
<1> QED BY <1>4, <1>6, <1>7

-----------------------------------------------------------------------------
(* Following links. *)

Unfolds(f, next, K, S) ==
    \A left \in 0 .. K, n \in S :
        f[left][n] = IF n \notin Nodes \/ left = 0 THEN <<>> ELSE <<n>> \o f[left - 1][next[n]]

(* The definition of Chain is one by recursion on how many nodes are left:  *)
(* there is a function of that kind for every number, by taking one that    *)
(* is one shorter and adding a line.                                        *)
LEMMA ChainUnfolds ==
    ASSUME NEW next, NEW p, NEW K \in Nat, K = Cardinality(Nodes),
           NEW S, S = {next[q] : q \in DOMAIN next}
    PROVE  \E f : Chain(next, p) = f[K][next[p]] /\ Unfolds(f, next, K, S)
<1> DEFINE Line(f, left) == [n \in S |-> IF n \notin Nodes \/ left = 0 THEN <<>> ELSE <<n>> \o f[left - 1][next[n]]]
           Works(m, f) == f = [left \in 0 .. m |-> Line(f, left)]
           Missing == {m \in Nat : ~\E f : Works(m, f)}
           F == CHOOSE f : Works(K, f)
<1>1. Chain(next, p) = F[K][next[p]]
  BY DEF Chain
<1>2. \E f : Works(0, f)
  <2> DEFINE zero == [n \in S |-> <<>>]
             f == [left \in 0 .. 0 |-> zero]
  <2> HIDE DEF f
  <2>1. ASSUME NEW left \in 0 .. 0 PROVE Line(f, left) = zero
    <3>1. left = 0
      OBVIOUS
    <3>2. \A n \in S :
             (IF n \notin Nodes \/ left = 0 THEN <<>> ELSE <<n>> \o f[left - 1][next[n]]) = <<>>
      BY <3>1
    <3> QED BY <3>2
  <2> HIDE DEF zero, Line
  <2>2. f = [left \in 0 .. 0 |-> Line(f, left)]
    BY <2>1 DEF f
  <2> QED BY <2>2
<1>3. ASSUME NEW m \in Nat, NEW f, Works(m, f) PROVE \E g : Works(m + 1, g)
  <2> DEFINE g == [left \in 0 .. m + 1 |-> IF left <= m THEN Line(f, left) ELSE Line(f, m + 1)]
  <2>1. \A left \in 0 .. m + 1 : left # 0 => g[left - 1] = f[left - 1]
    <3> TAKE left \in 0 .. m + 1
    <3> HAVE left # 0
    <3>1. left - 1 \in 0 .. m + 1 /\ left - 1 <= m /\ left - 1 \in 0 .. m
      BY <1>3
    <3> HIDE DEF Line
    <3>2. g[left - 1] = Line(f, left - 1)
      BY <3>1
    <3>3. f[left - 1] = Line(f, left - 1)
      BY <1>3, <3>1
    <3> QED BY <3>2, <3>3
  <2> HIDE DEF g
  <2>2. \A left \in 0 .. m + 1 : Line(g, left) = Line(f, left)
    BY <2>1
  <2>3. g = [left \in 0 .. m + 1 |-> Line(f, left)]
    <3> HIDE DEF Line
    <3>1. \A left \in 0 .. m + 1 : left <= m \/ left = m + 1
      BY <1>3
    <3> QED BY <3>1 DEF g
  <2>4. g = [left \in 0 .. m + 1 |-> Line(g, left)]
    <3> HIDE DEF Line
    <3> QED BY <2>2, <2>3
  <2> QED BY <2>4
<1> HIDE DEF Works
<1>4. Missing = {}
  <2> SUFFICES ASSUME Missing # {} PROVE FALSE
    OBVIOUS
  <2>1. PICK m \in Missing : \A k \in Missing : m <= k
    <3>1. Missing \subseteq Nat
      OBVIOUS
    <3> HIDE DEF Missing
    <3> QED BY <3>1, LeastNumber
  <2>2. m \in Nat /\ m # 0
    BY <1>2
  <2>3. PICK k \in Nat : m = k + 1
    <3>1. m - 1 \in Nat /\ m = m - 1 + 1
      BY <2>2
    <3> QED BY <3>1
  <2>4. \E f : Works(k, f)
    BY <2>1, <2>3
  <2>5. \E f : Works(k + 1, f)
    BY <1>3, <2>4
  <2> QED BY <2>3, <2>5
<1>5. Works(K, F)
  <2>1. \E f : Works(K, f)
    BY <1>4
  <2> QED BY <2>1
<1>6. \A left \in 0 .. K, n \in S :
         F[left][n] = IF n \notin Nodes \/ left = 0 THEN <<>> ELSE <<n>> \o F[left - 1][next[n]]
  <2> HIDE DEF F
  <2> TAKE left \in 0 .. K, n \in S
  <2>1. F[left] = Line(F, left)
    <3> HIDE DEF Line
    <3> QED BY <1>5 DEF Works
  <2>2. Line(F, left)[n] = IF n \notin Nodes \/ left = 0 THEN <<>> ELSE <<n>> \o F[left - 1][next[n]]
    OBVIOUS
  <2> QED BY <2>1, <2>2
<1> HIDE DEF F
<1> QED BY <1>1, <1>6 DEF Unfolds

(* The place met i links after p, when c is what one meets.                 *)
Reached(p, c, i) == IF i = 0 THEN p ELSE c[i]

(* The links from p on spell c and then end.                                *)
Spells(next, p, c) ==
    /\ Elements(c)
    /\ \A i \in 0 .. Len(c) - 1 : next[Reached(p, c, i)] = c[i + 1]
    /\ next[Reached(p, c, Len(c))] \notin Nodes

LEMMA ConsSlice ==
    ASSUME NEW c \in Seq(Nodes), NEW k \in 1 .. Len(c)
    PROVE  <<c[k]>> \o SubSeq(c, k + 1, Len(c)) = SubSeq(c, k, Len(c))
<1> DEFINE a == SubSeq(c, k + 1, Len(c))
           b == SubSeq(c, k, Len(c))
           t == <<c[k]>> \o a
<1>1. Len(c) \in Nat /\ k \in Nat /\ 1 <= k /\ k <= Len(c) /\ c[k] \in Nodes
  BY ElementOfSeq
<1>2. /\ a \in Seq(Nodes) /\ Len(a) = Len(c) - (k + 1) + 1
      /\ \A i \in 1 .. Len(c) - (k + 1) + 1 : a[i] = c[k + 1 + i - 1]
  BY <1>1, Slice
<1>3. /\ b \in Seq(Nodes) /\ Len(b) = Len(c) - k + 1
      /\ \A i \in 1 .. Len(c) - k + 1 : b[i] = c[k + i - 1]
  BY <1>1, Slice
<1> HIDE DEF a, b
<1>4. Grown(a, 1, c[k], t)
  BY <1>1, <1>2, ConsGrows
<1> HIDE DEF t
<1>5. t \in Seq(Nodes) /\ Len(t) = Len(b) /\ t[1] = c[k]
  BY <1>1, <1>2, <1>3, <1>4 DEF Grown
<1>6. ASSUME NEW i \in 1 .. Len(t) PROVE t[i] = b[i]
  <2>1. CASE i = 1
    <3>1. b[1] = c[k + 1 - 1] /\ k + 1 - 1 = k
      BY <1>1, <1>3
    <3> QED BY <1>5, <2>1, <3>1
  <2>2. CASE i # 1
    <3>1. /\ i \in 1 + 1 .. Len(a) + 1 /\ i - 1 \in 1 .. Len(c) - (k + 1) + 1
          /\ i \in 1 .. Len(c) - k + 1 /\ k + 1 + (i - 1) - 1 = k + i - 1
      BY <1>1, <1>2, <1>3, <1>5, <2>2
    <3>2. PICK j : j = i - 1
      OBVIOUS
    <3>3. t[i] = a[j]
      BY <1>4, <3>1, <3>2 DEF Grown
    <3>4. a[j] = c[k + 1 + j - 1]
      BY <1>2, <3>1, <3>2
    <3>5. b[i] = c[k + i - 1]
      BY <1>3, <3>1
    <3> QED BY <3>1, <3>2, <3>3, <3>4, <3>5
  <2> QED BY <2>1, <2>2
<1>7. t = b
  BY <1>3, <1>5, <1>6, SeqEqual
<1> QED BY <1>7 DEF t, a, b

LEMMA NoMoreThanNodes ==
    ASSUME NEW c, Elements(c)
    PROVE  Cardinality(Nodes) \in Nat /\ Len(c) <= Cardinality(Nodes)
<1>1. IsFiniteSet(Nodes) /\ Cardinality(Nodes) \in Nat
  BY NodesAssumption, FS_CardinalityType
<1>2. c \in [1 .. Len(c) -> Nodes] /\ IsInjective(c) /\ Len(c) \in Nat
  BY LenProperties DEF Elements
<1>3. c \in Injection(1 .. Len(c), Nodes)
  BY <1>2 DEF Injection
<1>4. Cardinality(1 .. Len(c)) <= Cardinality(Nodes)
  BY <1>1, <1>3, FS_Injection
<1>5. Cardinality(1 .. Len(c)) = IF 1 > Len(c) THEN 0 ELSE Len(c) - 1 + 1
  BY <1>2, FS_Interval
<1> QED BY <1>1, <1>2, <1>4, <1>5

LEMMA ReachedIs ==
    ASSUME NEW c, Elements(c), NEW p
    PROVE  /\ Reached(p, c, 0) = p
           /\ \A i \in 1 .. Len(c) : Reached(p, c, i) = c[i]
           /\ \A i \in 0 .. Len(c) : Reached(p, c, i) \in Nodes \cup {p}
BY ElementsAre DEF Reached

LEMMA ChainIs ==
    ASSUME NEW next, Nodes \subseteq DOMAIN next, NEW p \in DOMAIN next,
           NEW c, Spells(next, p, c)
    PROVE  Chain(next, p) = c
<1>0. PICK S, K : S = {next[q] : q \in DOMAIN next} /\ K = Cardinality(Nodes)
  OBVIOUS
<1> DEFINE L == Len(c)
           at(i) == Reached(p, c, i)
<1>1. K \in Nat /\ L \in Nat /\ L <= K /\ Elements(c) /\ c \in Seq(Nodes)
  BY <1>0, NoMoreThanNodes, ElementsAre DEF Spells, Elements
<1>2. PICK f : Chain(next, p) = f[K][next[p]] /\ Unfolds(f, next, K, S)
  <2>1. K \in Nat /\ K = Cardinality(Nodes) /\ S = {next[q] : q \in DOMAIN next}
    BY <1>0, <1>1
  <2> QED BY <2>1, ChainUnfolds
<1>3. /\ \A i \in 0 .. L : next[at(i)] \in S
      /\ \A i \in 0 .. L - 1 : next[at(i)] = c[i + 1] /\ c[i + 1] \in Nodes /\ c[i + 1] = at(i + 1)
      /\ next[at(L)] \notin Nodes
      /\ at(0) = p
  <2>1. \A i \in 0 .. L : at(i) \in DOMAIN next
    <3> TAKE i \in 0 .. L
    <3>1. Reached(p, c, i) \in Nodes \cup {p}
      BY <1>1, ReachedIs
    <3> QED BY <3>1
  <2>2. \A i \in 0 .. L : next[at(i)] \in S
    <3> HIDE DEF at
    <3> QED BY <1>0, <2>1
  <2>3. \A i \in 0 .. L - 1 : i + 1 \in 1 .. L
    BY <1>1
  <2>4. \A i \in 0 .. L - 1 : next[at(i)] = c[i + 1]
    BY DEF Spells
  <2>5. \A i \in 1 .. L : c[i] \in Nodes /\ c[i] = at(i)
    BY <1>1, ReachedIs, ElementsAre
  <2>6. next[at(L)] \notin Nodes /\ at(0) = p
    BY <1>1, ReachedIs DEF Spells
  <2> HIDE DEF at
  <2> QED BY <2>2, <2>3, <2>4, <2>5, <2>6
<1> HIDE DEF at
(* What is met from j places before the last one on.                        *)
<1> DEFINE Fits(j) == \A left \in 0 .. K : left >= j => f[left][next[at(L - j)]] = SubSeq(c, L - j + 1, L)
           Bad == {j \in 0 .. L : ~Fits(j)}
<1>4. Fits(0)
  <2>1. SubSeq(c, L - 0 + 1, L) = <<>>
    <3>1. SubSeq(c, L + 1, L) \in Seq(Nodes) /\ Len(SubSeq(c, L + 1, L)) = L - (L + 1) + 1
      BY <1>1, Slice
    <3>2. SubSeq(c, L + 1, L) = <<>>
      <4>1. L - (L + 1) + 1 = 0
        BY <1>1
      <4> QED BY <3>1, <4>1, EmptySeq
    <3>3. L - 0 + 1 = L + 1
      BY <1>1
    <3> QED BY <3>2, <3>3
  <2>2. ASSUME NEW left \in 0 .. K PROVE f[left][next[at(L)]] = <<>>
    <3>1. next[at(L)] \in S /\ next[at(L)] \notin Nodes
      BY <1>1, <1>3
    <3> QED BY <1>2, <3>1 DEF Unfolds
  <2>3. L - 0 = L
    BY <1>1
  <2> QED BY <2>1, <2>2, <2>3
<1>5. ASSUME NEW j \in 0 .. L - 1, Fits(j) PROVE Fits(j + 1)
  <2>1. PICK i : i = L - (j + 1)
    OBVIOUS
  <2>2. i \in 0 .. L - 1 /\ i \in 0 .. L /\ L - j = i + 1 /\ i + 1 \in 1 .. L /\ L - (j + 1) + 1 = i + 1
    BY <1>1, <2>1
  <2>3. ASSUME NEW left \in 0 .. K, left >= j + 1
        PROVE  f[left][next[at(i)]] = SubSeq(c, i + 1, L)
    <3>1. left # 0 /\ left - 1 \in 0 .. K /\ left - 1 >= j
      BY <1>1, <2>3
    <3>2. next[at(i)] = c[i + 1] /\ c[i + 1] \in Nodes /\ next[at(i)] \in S /\ c[i + 1] = at(i + 1)
      BY <1>3, <2>2
    <3>3. f[left][c[i + 1]] = <<c[i + 1]>> \o f[left - 1][next[c[i + 1]]]
      BY <1>2, <3>1, <3>2 DEF Unfolds
    <3>4. f[left - 1][next[c[i + 1]]] = SubSeq(c, i + 1 + 1, L)
      BY <1>5, <2>2, <3>1, <3>2
    <3>5. <<c[i + 1]>> \o SubSeq(c, i + 1 + 1, L) = SubSeq(c, i + 1, L)
      BY <1>1, <2>2, ConsSlice
    <3> QED BY <3>2, <3>3, <3>4, <3>5
  <2> QED BY <2>1, <2>2, <2>3
<1> HIDE DEF Fits
<1>6. Bad = {}
  <2> SUFFICES ASSUME Bad # {} PROVE FALSE
    OBVIOUS
  <2>1. PICK m \in Bad : \A k \in Bad : m <= k
    <3>1. Bad \subseteq Nat
      BY <1>1
    <3> HIDE DEF Bad
    <3> QED BY <3>1, LeastNumber
  <2>2. m \in 0 .. L /\ m # 0
    BY <1>4
  <2>3. PICK k : k = m - 1
    OBVIOUS
  <2>4. k \in 0 .. L - 1 /\ k \in 0 .. L /\ k + 1 = m /\ ~(m <= k)
    BY <1>1, <2>2, <2>3
  <2>5. Fits(k)
    BY <2>1, <2>4
  <2>6. Fits(k + 1)
    BY <1>5, <2>4, <2>5
  <2> QED BY <2>4, <2>6
<1>7. f[K][next[p]] = SubSeq(c, 1, L)
  <2>1. L \in 0 .. L /\ K \in 0 .. K /\ K >= L /\ L - L = 0 /\ L - L + 1 = 1
    BY <1>1
  <2>2. Fits(L)
    BY <1>6, <2>1
  <2>3. f[K][next[at(L - L)]] = SubSeq(c, L - L + 1, L)
    BY <2>1, <2>2 DEF Fits
  <2> QED BY <1>3, <2>1, <2>3
<1>8. SubSeq(c, 1, L) = c
  <2>1. /\ SubSeq(c, 1, L) \in Seq(Nodes) /\ Len(SubSeq(c, 1, L)) = L - 1 + 1
        /\ \A i \in 1 .. L - 1 + 1 : SubSeq(c, 1, L)[i] = c[1 + i - 1]
    BY <1>1, Slice
  <2>2. L - 1 + 1 = L /\ \A i \in 1 .. L : 1 + i - 1 = i
    BY <1>1
  <2>3. \A i \in 1 .. L : SubSeq(c, 1, L)[i] = c[i]
    BY <2>1, <2>2
  <2> QED BY <1>1, <2>1, <2>2, <2>3, SeqEqual
<1> QED BY <1>2, <1>7, <1>8

(* Wherever links lead, only nodes are met.                                 *)
LEMMA ChainTyped ==
    ASSUME NEW next, Nodes \subseteq DOMAIN next, NEW p \in DOMAIN next
    PROVE  Chain(next, p) \in Seq(Nodes)
<1>0. PICK S, K : S = {next[q] : q \in DOMAIN next} /\ K = Cardinality(Nodes)
  OBVIOUS
<1>1. K \in Nat
  BY <1>0, NodesAssumption, FS_CardinalityType
<1>2. PICK f : Chain(next, p) = f[K][next[p]] /\ Unfolds(f, next, K, S)
  BY <1>0, <1>1, ChainUnfolds
<1>3. next[p] \in S /\ \A n \in Nodes : next[n] \in S
  BY <1>0
<1> DEFINE Typed(left) == \A n \in S : f[left][n] \in Seq(Nodes)
           Bad == {left \in 0 .. K : ~Typed(left)}
<1>4. ASSUME NEW left \in 0 .. K, left # 0 => Typed(left - 1) PROVE Typed(left)
  <2> SUFFICES ASSUME NEW n \in S PROVE f[left][n] \in Seq(Nodes)
    OBVIOUS
  <2>1. f[left][n] = IF n \notin Nodes \/ left = 0 THEN <<>> ELSE <<n>> \o f[left - 1][next[n]]
    BY <1>2 DEF Unfolds
  <2>2. CASE n \notin Nodes \/ left = 0
    BY <2>1, <2>2, EmptySeq
  <2>3. CASE n \in Nodes /\ left # 0
    <3>1. f[left - 1][next[n]] \in Seq(Nodes)
      BY <1>3, <1>4, <2>3
    <3>2. <<n>> \in Seq(Nodes)
      BY <2>3
    <3>3. <<n>> \o f[left - 1][next[n]] \in Seq(Nodes)
      BY <3>1, <3>2, ConcatProperties
    <3> QED BY <2>1, <2>3, <3>3
  <2> QED BY <2>2, <2>3
<1> HIDE DEF Typed
<1>5. Bad = {}
  <2> SUFFICES ASSUME Bad # {} PROVE FALSE
    OBVIOUS
  <2>1. PICK m \in Bad : \A k \in Bad : m <= k
    <3>1. Bad \subseteq Nat
      BY <1>1
    <3> HIDE DEF Bad
    <3> QED BY <3>1, LeastNumber
  <2>2. m \in 0 .. K
    BY <2>1
  <2>3. m # 0 => Typed(m - 1)
    <3> SUFFICES ASSUME m # 0 PROVE Typed(m - 1)
      OBVIOUS
    <3>1. m - 1 \in 0 .. K /\ ~(m <= m - 1)
      BY <1>1, <2>2
    <3> QED BY <2>1, <3>1
  <2> QED BY <1>4, <2>1, <2>2, <2>3
<1>6. K \in 0 .. K
  BY <1>1
<1>7. Typed(K)
  BY <1>5, <1>6
<1> QED BY <1>2, <1>3, <1>7 DEF Typed

LEMMA LastPlaceTyped ==
    ASSUME NEW next, Nodes \subseteq DOMAIN next, NEW p \in DOMAIN next
    PROVE  LastPlace(next, p) \in Nodes \cup {p}
<1>1. PICK c : c = Chain(next, p) /\ c \in Seq(Nodes)
  BY ChainTyped
<1>2. c # <<>> => c[Len(c)] \in Nodes
  <2> SUFFICES ASSUME c # <<>> PROVE c[Len(c)] \in Nodes
    OBVIOUS
  <2>1. Len(c) \in Nat /\ Len(c) # 0
    BY <1>1, EmptySeq, LenProperties
  <2>2. Len(c) \in 1 .. Len(c)
    BY <2>1
  <2> QED BY <1>1, <2>2, ElementOfSeq
<1> QED BY <1>1, <1>2 DEF LastPlace, Last

LEMMA LastPlaceIs ==
    ASSUME NEW next, Nodes \subseteq DOMAIN next, NEW p \in DOMAIN next,
           NEW c, Spells(next, p, c)
    PROVE  LastPlace(next, p) = Reached(p, c, Len(c))
<1>1. Chain(next, p) = c /\ c \in Seq(Nodes)
  BY ChainIs DEF Spells, Elements
<1>2. c = <<>> <=> Len(c) = 0
  BY <1>1, EmptySeq
<1> QED BY <1>1, <1>2 DEF LastPlace, Reached, Last

LEMMA ConsSpells ==
    ASSUME NEW next, NEW x, NEW y \in Nodes, next[x] = y,
           NEW c, Spells(next, y, c), y \notin ToSet(c)
    PROVE  \E d : /\ Spells(next, x, d) /\ ToSet(d) = ToSet(c) \cup {y}
                  /\ Reached(x, d, Len(d)) = Reached(y, c, Len(c))
<1> DEFINE d == <<y>> \o c
<1>1. Elements(c) /\ c \in Seq(Nodes) /\ Len(c) \in Nat
  BY ElementsAre DEF Spells, Elements
<1>2. Grown(c, 1, y, d)
  BY <1>1, ConsGrows
<1> HIDE DEF d
<1>3. Elements(d) /\ ToSet(d) = ToSet(c) \cup {y}
  BY <1>1, <1>2, GrownElements
<1>4. Len(d) = Len(c) + 1 /\ d[1] = y /\ \A i \in 1 + 1 .. Len(c) + 1 : d[i] = c[i - 1]
  BY <1>2 DEF Grown
<1>5. \A i \in 0 .. Len(c) : Reached(x, d, i + 1) = Reached(y, c, i)
  <2> TAKE i \in 0 .. Len(c)
  <2>1. CASE i = 0
    BY <1>4, <2>1 DEF Reached
  <2>2. CASE i # 0
    <3>1. i + 1 \in 1 + 1 .. Len(c) + 1 /\ i + 1 - 1 = i /\ i + 1 # 0
      BY <1>1, <2>2
    <3> QED BY <1>4, <2>2, <3>1 DEF Reached
  <2> QED BY <2>1, <2>2
<1>6. ASSUME NEW i \in 0 .. Len(d) - 1 PROVE next[Reached(x, d, i)] = d[i + 1]
  <2>1. CASE i = 0
    BY <1>4, <2>1 DEF Reached
  <2>2. CASE i # 0
    <3>1. PICK j : j = i - 1
      OBVIOUS
    <3>2. j \in 0 .. Len(c) - 1 /\ j \in 0 .. Len(c) /\ j + 1 = i /\ i + 1 \in 1 + 1 .. Len(c) + 1 /\ i + 1 - 1 = j + 1
      BY <1>1, <1>4, <2>2, <3>1
    <3>3. Reached(x, d, i) = Reached(y, c, j)
      BY <1>5, <3>2
    <3>4. next[Reached(y, c, j)] = c[j + 1]
      BY <3>2 DEF Spells
    <3>5. d[i + 1] = c[j + 1]
      BY <1>4, <3>2
    <3> QED BY <3>3, <3>4, <3>5
  <2> QED BY <2>1, <2>2
<1>7. Reached(x, d, Len(d)) = Reached(y, c, Len(c))
  <2>1. Len(c) \in 0 .. Len(c)
    BY <1>1
  <2> QED BY <1>4, <1>5, <2>1
<1>8. next[Reached(x, d, Len(d))] \notin Nodes
  BY <1>7 DEF Spells
<1> QED BY <1>3, <1>6, <1>7, <1>8 DEF Spells

(* Where each link leads to a place of a lower rank, or is that of last,    *)
(* the links spell a sequence that ends at last.                            *)
LEMMA RankedSpells ==
    ASSUME NEW next, NEW last, next[last] \notin Nodes,
           NEW D, NEW g \in [D -> Nat],
           \A x \in D : x = last \/ (next[x] \in D /\ next[x] \in Nodes /\ g[next[x]] < g[x])
    PROVE  \A x \in D : \E c : Spells(next, x, c) /\ Reached(x, c, Len(c)) = last
<1> DEFINE Fine(x, c) == /\ Spells(next, x, c) /\ Reached(x, c, Len(c)) = last
                         /\ \A e \in ToSet(c) : e \in D /\ g[e] < g[x]
           Bad == {x \in D : ~\E c : Fine(x, c)}
           Ranks == {g[x] : x \in Bad}
<1>1. Fine(last, <<>>)
  <2>1. <<>> \in Seq(Nodes) /\ Len(<<>>) = 0
    BY EmptySeq
  <2>2. Elements(<<>>) /\ ToSet(<<>>) = {}
    BY <2>1, LenProperties DEF Elements, IsInjective, ToSet
  <2> QED BY <2>1, <2>2 DEF Spells, Reached
<1>2. ASSUME NEW x \in D, NEW y \in D, NEW c, Fine(y, c), y \in Nodes, next[x] = y, g[y] < g[x]
      PROVE  \E d : Fine(x, d)
  <2>1. y \notin ToSet(c)
    BY <1>2
  <2>2. PICK d : /\ Spells(next, x, d) /\ ToSet(d) = ToSet(c) \cup {y}
                 /\ Reached(x, d, Len(d)) = Reached(y, c, Len(c))
    BY <1>2, <2>1, ConsSpells
  <2>3. ASSUME NEW e \in ToSet(d) PROVE e \in D /\ g[e] < g[x]
    <3>1. CASE e = y
      BY <1>2, <3>1
    <3>2. CASE e \in ToSet(c)
      <4>1. e \in D /\ g[e] < g[y] /\ g[e] \in Nat /\ g[y] \in Nat /\ g[x] \in Nat
        BY <1>2, <3>2
      <4> QED BY <1>2, <4>1
    <3> QED BY <2>2, <3>1, <3>2
  <2>4. Fine(x, d)
    BY <1>2, <2>2, <2>3
  <2> QED BY <2>4
<1> HIDE DEF Fine
<1>3. Bad = {}
  <2> SUFFICES ASSUME Bad # {} PROVE FALSE
    OBVIOUS
  <2>1. Ranks \subseteq Nat /\ Ranks # {}
    OBVIOUS
  <2>2. PICK r \in Ranks : \A q \in Ranks : r <= q
    <3> HIDE DEF Ranks
    <3> QED BY <2>1, LeastNumber
  <2>3. PICK x \in Bad : r = g[x]
    BY <2>2
  <2>4. x # last
    BY <1>1
  <2>5. PICK y : y = next[x]
    OBVIOUS
  <2>6. y \in D /\ y \in Nodes /\ g[y] < g[x] /\ g[y] \in Nat /\ g[x] \in Nat
    BY <2>4, <2>5
  <2>7. y \notin Bad
    <3> SUFFICES ASSUME y \in Bad PROVE FALSE
      OBVIOUS
    <3>1. g[x] <= g[y]
      BY <2>2, <2>3
    <3> QED BY <2>6, <3>1
  <2>8. PICK c : Fine(y, c)
    BY <2>6, <2>7
  <2> QED BY <1>2, <2>5, <2>6, <2>8
<1> QED BY <1>3 DEF Fine

(* The places a list goes through are all different.                        *)
LEMMA ReachedApart ==
    ASSUME NEW s, Elements(s), NEW p, p \notin Nodes
    PROVE  /\ \A i, j \in 0 .. Len(s) : Reached(p, s, i) = Reached(p, s, j) => i = j
           /\ \A i \in 0 .. Len(s), n \in Nodes \ ToSet(s) : Reached(p, s, i) # n
<1>1. /\ Len(s) \in Nat /\ \A i \in 1 .. Len(s) : s[i] \in Nodes /\ s[i] \in ToSet(s)
      /\ \A i, j \in 1 .. Len(s) : s[i] = s[j] => i = j
  BY ElementsAre
<1>2. Reached(p, s, 0) = p /\ \A i \in 1 .. Len(s) : Reached(p, s, i) = s[i]
  BY ReachedIs
<1>3. \A i \in 0 .. Len(s) : i = 0 \/ i \in 1 .. Len(s)
  BY <1>1
<1> QED BY <1>1, <1>2, <1>3

LEMMA InsertedSpells ==
    ASSUME NEW s, NEW p, p \notin Nodes, NEW next, Spells(next, p, s),
           NEW n \in Nodes \ ToSet(s), NEW k \in 1 .. Len(s) + 1, NEW t, Grown(s, k, n, t),
           NEW next2, next2[Reached(p, s, k - 1)] = n, next2[n] = next[Reached(p, s, k - 1)],
           \A q \in Nodes \cup {p} : q # n /\ q # Reached(p, s, k - 1) => next2[q] = next[q]
    PROVE  Spells(next2, p, t)
<1>1. /\ Elements(s) /\ Len(s) \in Nat /\ k \in Nat /\ 1 <= k /\ k <= Len(s) + 1
      /\ Len(t) = Len(s) + 1 /\ t[k] = n /\ n \in Nodes /\ n \notin ToSet(s)
  BY ElementsAre DEF Spells, Grown
<1>2. Elements(t)
  BY <1>1, GrownElements
<1>3. \A i \in 0 .. Len(t) :
         Reached(p, t, i) = IF i < k THEN Reached(p, s, i) ELSE IF i = k THEN n ELSE Reached(p, s, i - 1)
  <2> TAKE i \in 0 .. Len(t)
  <2>1. CASE i = 0
    BY <1>1, <2>1 DEF Reached
  <2>2. CASE 0 < i /\ i < k
    <3>1. i \in 1 .. k - 1
      BY <1>1, <2>2
    <3> QED BY <2>2, <3>1 DEF Reached, Grown
  <2>3. CASE i = k
    BY <1>1, <2>3 DEF Reached
  <2>4. CASE i > k
    <3>1. i \in k + 1 .. Len(s) + 1 /\ i - 1 # 0 /\ i # 0 /\ ~(i < k) /\ i # k
      BY <1>1, <2>4
    <3> QED BY <2>4, <3>1 DEF Reached, Grown
  <2> QED BY <1>1, <2>1, <2>2, <2>3, <2>4
<1>4. /\ \A i \in 0 .. Len(s) : Reached(p, s, i) \in Nodes \cup {p} /\ Reached(p, s, i) # n
      /\ \A i, j \in 0 .. Len(s) : Reached(p, s, i) = Reached(p, s, j) => i = j
  BY <1>1, ReachedIs, ReachedApart
<1>5. k - 1 \in 0 .. Len(s)
  BY <1>1
<1>6. \A i \in 0 .. Len(s) : i # k - 1 => next2[Reached(p, s, i)] = next[Reached(p, s, i)]
  BY <1>4, <1>5
<1>7. \A i \in 0 .. Len(s) - 1 : next[Reached(p, s, i)] = s[i + 1]
  BY DEF Spells
<1>8. ASSUME NEW i \in 0 .. Len(t) - 1 PROVE next2[Reached(p, t, i)] = t[i + 1]
  <2>1. i \in 0 .. Len(t) /\ i + 1 \in 1 .. Len(s) + 1
    BY <1>1
  <2>2. CASE i < k - 1
    <3>1. i < k /\ i + 1 \in 1 .. k - 1 /\ i \in 0 .. Len(s) - 1 /\ i \in 0 .. Len(s) /\ i # k - 1
      BY <1>1, <2>2
    <3>2. Reached(p, t, i) = Reached(p, s, i) /\ t[i + 1] = s[i + 1]
      BY <1>3, <2>1, <3>1 DEF Grown
    <3> QED BY <1>6, <1>7, <3>1, <3>2
  <2>3. CASE i = k - 1
    <3>1. i < k /\ i + 1 = k
      BY <1>1, <2>3
    <3> QED BY <1>1, <1>3, <2>1, <2>3, <3>1
  <2>4. CASE i = k
    <3>1. k - 1 \in 0 .. Len(s) - 1 /\ k - 1 + 1 = k /\ i + 1 \in k + 1 .. Len(s) + 1 /\ i + 1 - 1 = k /\ ~(i < k)
      BY <1>1, <2>4
    <3>2. next[Reached(p, s, k - 1)] = s[k]
      BY <1>7, <3>1
    <3>3. t[i + 1] = s[k]
      BY <3>1 DEF Grown
    <3> QED BY <1>3, <2>1, <2>4, <3>1, <3>2, <3>3
  <2>5. CASE i > k
    <3>1. PICK j : j = i - 1
      OBVIOUS
    <3>2. /\ j \in 0 .. Len(s) - 1 /\ j \in 0 .. Len(s) /\ j # k - 1 /\ ~(i < k) /\ i # k
          /\ i + 1 \in k + 1 .. Len(s) + 1 /\ i + 1 - 1 = j + 1
      BY <1>1, <2>5, <3>1
    <3>3. Reached(p, t, i) = Reached(p, s, j) /\ t[i + 1] = s[j + 1]
      <4>1. Reached(p, t, i) = Reached(p, s, j)
        BY <1>3, <2>1, <3>1, <3>2
      <4>2. t[i + 1] = s[i + 1 - 1]
        BY <3>2 DEF Grown
      <4> QED BY <3>2, <4>1, <4>2
    <3> QED BY <1>6, <1>7, <3>2, <3>3
  <2> QED BY <1>1, <2>2, <2>3, <2>4, <2>5
<1>9. next2[Reached(p, t, Len(t))] \notin Nodes
  <2>1. Len(t) \in 0 .. Len(t) /\ Len(t) - 1 = Len(s) /\ Len(s) \in 0 .. Len(s)
    BY <1>1
  <2>2. next[Reached(p, s, Len(s))] \notin Nodes
    BY DEF Spells
  <2>3. CASE k = Len(s) + 1
    <3>1. Reached(p, t, Len(t)) = n /\ k - 1 = Len(s)
      BY <1>1, <1>3, <2>1, <2>3
    <3> QED BY <2>2, <3>1
  <2>4. CASE k # Len(s) + 1
    <3>1. ~(Len(t) < k) /\ Len(t) # k /\ Len(s) # k - 1
      BY <1>1, <2>4
    <3>2. Reached(p, t, Len(t)) = Reached(p, s, Len(s))
      BY <1>3, <2>1, <3>1
    <3> QED BY <1>6, <2>1, <2>2, <3>1, <3>2
  <2> QED BY <2>3, <2>4
<1> QED BY <1>2, <1>8, <1>9 DEF Spells

LEMMA RemovedSpells ==
    ASSUME NEW s, NEW p, p \notin Nodes, NEW next, Spells(next, p, s),
           NEW k \in 1 .. Len(s), NEW t, Shrunk(s, k, t),
           NEW next2, next2[Reached(p, s, k - 1)] = next[s[k]],
           \A q \in Nodes \cup {p} : q # Reached(p, s, k - 1) /\ q # s[k] => next2[q] = next[q]
    PROVE  Spells(next2, p, t)
<1>1. /\ Elements(s) /\ Len(s) \in Nat /\ k \in Nat /\ 1 <= k /\ k <= Len(s)
      /\ Len(t) = Len(s) - 1
  BY ElementsAre DEF Spells, Shrunk
<1>2. Elements(t)
  BY <1>1, ShrunkElements
<1>3. \A i \in 0 .. Len(t) :
         Reached(p, t, i) = IF i < k THEN Reached(p, s, i) ELSE Reached(p, s, i + 1)
  <2> TAKE i \in 0 .. Len(t)
  <2>1. CASE i = 0
    BY <1>1, <2>1 DEF Reached
  <2>2. CASE 0 < i /\ i < k
    <3>1. i \in 1 .. k - 1
      BY <1>1, <2>2
    <3> QED BY <2>2, <3>1 DEF Reached, Shrunk
  <2>3. CASE i >= k
    <3>1. i \in k .. Len(s) - 1 /\ i + 1 # 0 /\ i # 0 /\ ~(i < k)
      BY <1>1, <2>3
    <3> QED BY <2>3, <3>1 DEF Reached, Shrunk
  <2> QED BY <1>1, <2>1, <2>2, <2>3
<1>4. /\ \A i \in 0 .. Len(s) : Reached(p, s, i) \in Nodes \cup {p}
      /\ \A i, j \in 0 .. Len(s) : Reached(p, s, i) = Reached(p, s, j) => i = j
      /\ Reached(p, s, k) = s[k]
  BY <1>1, ReachedIs, ReachedApart
<1>5. k - 1 \in 0 .. Len(s)
  BY <1>1
<1>6. \A i \in 0 .. Len(s) : i # k - 1 /\ i # k => next2[Reached(p, s, i)] = next[Reached(p, s, i)]
  <2>1. k \in 0 .. Len(s)
    BY <1>1
  <2> QED BY <1>4, <1>5, <2>1
<1>7. \A i \in 0 .. Len(s) - 1 : next[Reached(p, s, i)] = s[i + 1]
  BY DEF Spells
<1>8. ASSUME NEW i \in 0 .. Len(t) - 1 PROVE next2[Reached(p, t, i)] = t[i + 1]
  <2>1. i \in 0 .. Len(t)
    BY <1>1
  <2>2. CASE i < k - 1
    <3>1. i < k /\ i + 1 \in 1 .. k - 1 /\ i \in 0 .. Len(s) - 1 /\ i \in 0 .. Len(s) /\ i # k - 1 /\ i # k
      BY <1>1, <2>2
    <3>2. Reached(p, t, i) = Reached(p, s, i) /\ t[i + 1] = s[i + 1]
      BY <1>3, <2>1, <3>1 DEF Shrunk
    <3> QED BY <1>6, <1>7, <3>1, <3>2
  <2>3. CASE i = k - 1
    <3>1. i < k /\ i + 1 = k /\ k \in 0 .. Len(s) - 1 /\ k \in k .. Len(s) - 1
      BY <1>1, <2>3
    <3>2. next[s[k]] = s[k + 1]
      BY <1>4, <1>7, <3>1
    <3>3. t[k] = s[k + 1]
      BY <3>1 DEF Shrunk
    <3> QED BY <1>3, <2>1, <2>3, <3>1, <3>2, <3>3
  <2>4. CASE i >= k
    <3>1. PICK j : j = i + 1
      OBVIOUS
    <3>2. /\ j \in 0 .. Len(s) - 1 /\ j \in 0 .. Len(s) /\ j # k - 1 /\ j # k /\ ~(i < k)
          /\ j \in k .. Len(s) - 1
      BY <1>1, <2>4, <3>1
    <3>3. Reached(p, t, i) = Reached(p, s, j) /\ t[i + 1] = s[j + 1]
      BY <1>3, <2>1, <3>1, <3>2 DEF Shrunk
    <3> QED BY <1>6, <1>7, <3>2, <3>3
  <2> QED BY <1>1, <2>2, <2>3, <2>4
<1>9. next2[Reached(p, t, Len(t))] \notin Nodes
  <2>1. Len(t) \in 0 .. Len(t) /\ Len(t) + 1 = Len(s) /\ Len(s) \in 0 .. Len(s)
    BY <1>1
  <2>2. next[Reached(p, s, Len(s))] \notin Nodes
    BY DEF Spells
  <2>3. CASE k = Len(s)
    <3>1. Len(t) < k /\ Len(t) = k - 1
      BY <1>1, <2>3
    <3>2. Reached(p, t, Len(t)) = Reached(p, s, k - 1)
      BY <1>3, <2>1, <3>1
    <3> QED BY <1>4, <2>2, <2>3, <3>2
  <2>4. CASE k # Len(s)
    <3>1. ~(Len(t) < k) /\ Len(s) # k - 1 /\ Len(s) # k
      BY <1>1, <2>4
    <3>2. Reached(p, t, Len(t)) = Reached(p, s, Len(s))
      BY <1>3, <2>1, <3>1
    <3> QED BY <1>6, <2>1, <2>2, <3>1, <3>2
  <2> QED BY <2>3, <2>4
<1> QED BY <1>2, <1>8, <1>9 DEF Spells

-----------------------------------------------------------------------------
(* A loop over a list. *)

At(s, i) == IF i \in 1 .. Len(s) THEN s[i] ELSE NULL

(* What is due lies ahead: not before next, or not behind it going back.    *)
InOrder(s, next, due, back) ==
    /\ next # NULL => next \in ToSet(s)
    /\ due \subseteq ToSet(s)
    /\ \A n \in due :
          /\ next \in ToSet(s)
          /\ IF back THEN Position(s, n) <= Position(s, next) ELSE Position(s, next) <= Position(s, n)

LEMMA InsertKeepsOrder ==
    ASSUME NEW s, Elements(s), NEW n \in Nodes, n \notin ToSet(s),
           NEW k \in 1 .. Len(s) + 1, NEW t, Grown(s, k, n, t),
           NEW next, NEW due, NEW back, InOrder(s, next, due, back)
    PROVE  InOrder(t, next, due, back)
<1>1. /\ Elements(t) /\ ToSet(t) = ToSet(s) \cup {n}
      /\ \A x \in ToSet(s) : Position(t, x) =
            IF Position(s, x) < k THEN Position(s, x) ELSE Position(s, x) + 1
  BY GrownElements
<1>2. \A x \in ToSet(s) : Position(s, x) \in Int
  BY PositionIs
<1>3. \A x, y \in ToSet(s) : Position(s, x) <= Position(s, y) => Position(t, x) <= Position(t, y)
  BY <1>1, <1>2
<1> QED BY <1>1, <1>3 DEF InOrder

LEMMA RemoveKeepsOrder ==
    ASSUME NEW s, Elements(s), NEW k \in 1 .. Len(s), NEW t, Shrunk(s, k, t),
           NEW next, NEW due, NEW back, InOrder(s, next, due, back), next # s[k]
    PROVE  InOrder(t, next, due \ {s[k]}, back)
<1>1. /\ Elements(t) /\ ToSet(t) = ToSet(s) \ {s[k]}
      /\ \A x \in ToSet(t) : Position(t, x) =
            IF Position(s, x) < k THEN Position(s, x) ELSE Position(s, x) - 1
  BY ShrunkElements
<1>2. /\ \A x \in ToSet(s) : Position(s, x) \in Int /\ s[Position(s, x)] = x
      /\ k \in Int
  BY PositionIs, ElementsAre
<1>3. \A x \in ToSet(t) : Position(s, x) # k
  BY <1>1, <1>2
<1>4. \A x, y \in ToSet(t) : Position(s, x) <= Position(s, y) => Position(t, x) <= Position(t, y)
  BY <1>1, <1>2, <1>3
<1> QED BY <1>1, <1>4 DEF InOrder

LEMMA TurnKeepsOrder ==
    ASSUME NEW s, Elements(s), NEW i \in 1 .. Len(s), NULL \notin ToSet(s),
           NEW due, NEW back, InOrder(s, s[i], due, back)
    PROVE  InOrder(s, IF back THEN At(s, i - 1) ELSE At(s, i + 1), due \ {s[i]}, back)
<1> DEFINE next == IF back THEN At(s, i - 1) ELSE At(s, i + 1)
           j == IF back THEN i - 1 ELSE i + 1
<1>1. i \in Int /\ Len(s) \in Nat /\ j \in Int
  BY ElementsAre
<1>2. next = At(s, j)
  OBVIOUS
<1>3. /\ \A m \in 1 .. Len(s) : s[m] \in ToSet(s) /\ Position(s, s[m]) = m
      /\ \A x \in ToSet(s) : Position(s, x) \in 1 .. Len(s) /\ s[Position(s, x)] = x
  BY PositionIs
<1>4. next # NULL => next \in ToSet(s)
  BY <1>2, <1>3 DEF At
<1>5. ASSUME NEW n \in due \ {s[i]}
      PROVE  /\ next \in ToSet(s)
             /\ IF back THEN Position(s, n) <= Position(s, next) ELSE Position(s, next) <= Position(s, n)
  <2>1. PICK p : p = Position(s, n)
    OBVIOUS
  <2>2. n \in ToSet(s) /\ p \in 1 .. Len(s) /\ s[p] = n /\ p # i
    BY <1>3, <2>1 DEF InOrder
  <2>3. IF back THEN p <= i ELSE i <= p
    BY <1>3, <2>1 DEF InOrder
  <2>4. j \in 1 .. Len(s) /\ (IF back THEN p <= j ELSE j <= p)
    BY <1>1, <2>2, <2>3
  <2>5. next = s[j]
    BY <1>2, <2>4 DEF At
  <2>6. next \in ToSet(s) /\ Position(s, next) = j
    <3> HIDE DEF next, j
    <3> QED BY <1>3, <2>4, <2>5
  <2> HIDE DEF next, j
  <2> QED BY <2>1, <2>4, <2>6
<1> QED BY <1>4, <1>5 DEF InOrder

LEMMA WholeIsInOrder ==
    ASSUME NEW s, Elements(s), Len(s) > 0, NEW back \in BOOLEAN
    PROVE  InOrder(s, IF back THEN s[Len(s)] ELSE s[1], ToSet(s), back)
<1>1. 1 \in 1 .. Len(s) /\ Len(s) \in 1 .. Len(s) /\ Len(s) \in Nat
  BY ElementsAre
<1>2. /\ \A m \in 1 .. Len(s) : s[m] \in ToSet(s) /\ Position(s, s[m]) = m
      /\ \A x \in ToSet(s) : Position(s, x) \in 1 .. Len(s)
  BY PositionIs
<1> QED BY <1>1, <1>2 DEF InOrder
=============================================================================
