---------------------------- MODULE StringProofs ----------------------------
(***************************************************************************)
(* What the calls of the strings do to their bytes, for any texts, numbers *)
(* and sizes.                                                              *)
(*                                                                         *)
(* The strings keep to their block, the calls write to what they are       *)
(* given, concat leaves what fits, the searches and comparisons agree, and *)
(* the digits of itoa_into make the number.                                *)
(***************************************************************************)
EXTENDS Strings, SequenceTheorems, WellFoundedInduction, TLAPS

(* Every set of numbers that is not empty has a least element.              *)
LEMMA LeastNumber ==
    ASSUME NEW S, S \subseteq Nat, S # {}
    PROVE  \E x \in S : \A y \in S : x <= y
<1>1. PICK x \in S : \A y \in S : ~(<<y, x>> \in OpToRel(<, Nat))
  BY NatLessThanWellFounded, WFMin
<1>2. \A y \in S : ~(y < x)
  BY <1>1 DEF OpToRel
<1> QED BY <1>2

(* A set with 0, and with the next number for each of its numbers below n,  *)
(* has all the numbers up to n.                                             *)
LEMMA UpTo ==
    ASSUME NEW n \in Nat, NEW T, 0 \in T, \A k \in 0 .. n - 1 : k \in T => k + 1 \in T
    PROVE  \A k \in 0 .. n : k \in T
<1>1. PICK S : S = {k \in 0 .. n : k \notin T}
  OBVIOUS
<1>2. S \subseteq Nat
  BY <1>1
<1>3. S = {}
  <2> SUFFICES ASSUME S # {} PROVE FALSE
    OBVIOUS
  <2>1. PICK k \in S : \A e \in S : k <= e
    BY <1>2, LeastNumber
  <2>2. k \in 0 .. n /\ k \notin T /\ k # 0
    BY <1>1, <2>1
  <2>3. PICK j : j = k - 1
    OBVIOUS
  <2>4. j \in 0 .. n - 1 /\ j \in 0 .. n /\ j + 1 = k /\ ~(k <= j)
    BY <2>2, <2>3
  <2>5. j \in T
    BY <1>1, <2>1, <2>4
  <2> QED BY <2>2, <2>4, <2>5
<1> QED BY <1>1, <1>3

Cells == Byte \cup {Neighbour}

LEMMA BytesAreCells ==
    /\ \A b : b \in Byte => b \in Cells /\ b \in Nat /\ b # Neighbour
    /\ Neighbour \in Cells /\ Nul \in Byte /\ Nul \in Cells
BY DEF Byte, Cells, Neighbour, Nul

(* Which bytes a call writes: bytes, and from place lo on n of them.        *)
Writes(m, w, lo, n) ==
    /\ w \in Seq(Cells) /\ Len(w) = Len(m)
    /\ \A i \in 1 .. Len(m) : IF lo <= i /\ i < lo + n THEN w[i] \in Byte ELSE w[i] = m[i]

LEMMA MinIs ==
    ASSUME NEW S, S \subseteq Nat, S # {}
    PROVE  Min(S) \in S /\ \A y \in S : Min(S) <= y
BY LeastNumber DEF Min

(* A set of numbers up to n that is not empty has a greatest.               *)
LEMMA MaxIs ==
    ASSUME NEW n \in Nat, NEW S, S \subseteq 0 .. n, S # {}
    PROVE  Max(S) \in S /\ \A y \in S : y <= Max(S)
<1>1. PICK T : T = {k \in Nat : \E x \in S : k = n - x}
  OBVIOUS
<1>2. T \subseteq Nat /\ T # {}
  <2>1. PICK x : x \in S
    OBVIOUS
  <2>2. x \in 0 .. n /\ n - x \in Nat
    BY <2>1
  <2> QED BY <1>1, <2>1, <2>2
<1>3. PICK k \in T : \A y \in T : k <= y
  BY <1>2, LeastNumber
<1>4. PICK x \in S : k = n - x
  BY <1>1, <1>3
<1>5. \A y \in S : x >= y
  <2> TAKE y \in S
  <2>1. PICK j : j = n - y
    OBVIOUS
  <2>2. x \in 0 .. n /\ y \in 0 .. n /\ j \in Nat
    BY <2>1
  <2>3. k <= j
    BY <1>1, <1>3, <2>1, <2>2
  <2> QED BY <1>4, <2>1, <2>2, <2>3
<1>6. Max(S) \in S /\ \A y \in S : Max(S) >= y
  BY <1>4, <1>5 DEF Max
<1>7. PICK m : m = Max(S)
  OBVIOUS
<1>8. \A y \in S : y <= m
  <2> TAKE y \in S
  <2>1. m \in 0 .. n /\ y \in 0 .. n /\ m >= y
    BY <1>6, <1>7
  <2> QED BY <2>1
<1> QED BY <1>6, <1>7, <1>8

(* Of a string, the first p bytes.                                          *)
LEMMA PrefixIs ==
    ASSUME NEW a \in Seq(Byte), NEW p \in 0 .. Len(a)
    PROVE  /\ SubSeq(a, 1, p) \in Seq(Byte) /\ Len(SubSeq(a, 1, p)) = p
           /\ \A i \in 1 .. p : SubSeq(a, 1, p)[i] = a[i]
<1>1. PICK n \in Nat : n = Len(a)
  BY LenProperties
<1>2. p \in Int /\ \A i \in 1 .. p : i \in 1 .. n
  BY <1>1
<1>3. \A i \in 1 .. p : a[i] \in Byte
  BY <1>1, <1>2, ElementOfSeq
<1>4. PICK s : s = SubSeq(a, 1, p)
  OBVIOUS
<1>5. /\ s \in Seq(Byte) /\ Len(s) = IF 1 <= p THEN p - 1 + 1 ELSE 0
      /\ \A i \in 1 .. p - 1 + 1 : s[i] = a[1 + i - 1]
  BY <1>2, <1>3, <1>4, SubSeqProperties
<1>6. p - 1 + 1 = p /\ (~(1 <= p) => p = 0) /\ \A i \in 1 .. p : 1 + i - 1 = i
  BY <1>1
<1> QED BY <1>4, <1>5, <1>6

(* Of a string, the bytes of some places.                                   *)
LEMMA SliceIs ==
    ASSUME NEW a \in Seq(Byte), NEW lo \in Nat, NEW hi \in Nat, 1 <= lo, lo <= hi, hi <= Len(a)
    PROVE  /\ SubSeq(a, lo, hi) \in Seq(Byte) /\ Len(SubSeq(a, lo, hi)) = hi - lo + 1
           /\ \A j \in 1 .. hi - lo + 1 : SubSeq(a, lo, hi)[j] = a[lo + j - 1]
<1>1. PICK n \in Nat : n = Len(a)
  BY LenProperties
<1>2. lo \in Int /\ hi \in Int /\ \A j \in lo .. hi : j \in 1 .. n
  BY <1>1
<1>3. \A j \in lo .. hi : a[j] \in Byte
  BY <1>1, <1>2, ElementOfSeq
<1>4. /\ SubSeq(a, lo, hi) \in Seq(Byte)
      /\ Len(SubSeq(a, lo, hi)) = IF lo <= hi THEN hi - lo + 1 ELSE 0
      /\ \A j \in 1 .. hi - lo + 1 : SubSeq(a, lo, hi)[j] = a[lo + j - 1]
  BY <1>2, <1>3, SubSeqProperties
<1> QED BY <1>4

LEMMA PutIs ==
    ASSUME NEW m \in Seq(Cells), NEW lo \in Nat, NEW b \in Seq(Byte)
    PROVE  /\ Writes(m, Memcpy(m, lo, b), lo, Len(b))
           /\ \A i \in 1 .. Len(m) :
                 Memcpy(m, lo, b)[i] = IF lo <= i /\ i < lo + Len(b) THEN b[i - lo + 1] ELSE m[i]
<1>1. PICK n, k : n = Len(m) /\ k = Len(b)
  OBVIOUS
<1>2. n \in Nat /\ k \in Nat /\ DOMAIN m = 1 .. n /\ DOMAIN b = 1 .. k
  BY <1>1, LenProperties
<1>3. Memcpy(m, lo, b) = [i \in 1 .. n |-> IF i - lo + 1 \in 1 .. k THEN b[i - lo + 1] ELSE m[i]]
  BY <1>2 DEF Memcpy
<1>4. PICK w : w = Memcpy(m, lo, b)
  OBVIOUS
<1>5. ASSUME NEW i \in 1 .. n
      PROVE  /\ w[i] = IF lo <= i /\ i < lo + k THEN b[i - lo + 1] ELSE m[i]
             /\ IF lo <= i /\ i < lo + k THEN w[i] \in Byte ELSE w[i] = m[i]
             /\ w[i] \in Cells
  <2>1. i - lo + 1 \in 1 .. k <=> lo <= i /\ i < lo + k
    BY <1>2
  <2>2. w[i] = IF lo <= i /\ i < lo + k THEN b[i - lo + 1] ELSE m[i]
    BY <1>3, <1>4, <2>1
  <2>3. lo <= i /\ i < lo + k => b[i - lo + 1] \in Byte
    BY <1>1, <2>1, ElementOfSeq
  <2>4. m[i] \in Cells
    BY <1>1, ElementOfSeq
  <2> QED BY <2>2, <2>3, <2>4, BytesAreCells
<1>6. w \in Seq(Cells) /\ Len(w) = n
  <2>1. w \in [1 .. n -> Cells]
    BY <1>3, <1>4, <1>5
  <2>2. w \in Seq(Cells)
    BY <1>2, <2>1, SeqDef
  <2>3. Len(w) \in Nat /\ 1 .. Len(w) = 1 .. n
    BY <2>1, <2>2, LenProperties
  <2> QED BY <1>2, <2>2, <2>3
<1> QED BY <1>1, <1>4, <1>5, <1>6 DEF Writes

-----------------------------------------------------------------------------
(* The invariant. *)

Base(m, s) ==
    /\ m \in Seq(Cells) /\ s \in [at : Nat, len : Nat]
    /\ m = <<>> => s = NullView
    /\ m # <<>> =>
          /\ Len(m) >= 2 /\ 1 <= s.at /\ s.at + s.len <= Len(m) + 1
          /\ \A i \in 1 .. Len(m) - 1 : m[i] \in Byte
          /\ m[Len(m)] = Neighbour => s.at + s.len <= Len(m)

(* As long as itoa_into has not overwritten it, the NUL is there.           *)
Ended(m, s) ==
    m # <<>> =>
        s.at + s.len < Len(m) /\ m[Len(m) - 1] = Nul /\ m[Len(m)] = Neighbour

StrInv ==
    /\ cut \in BOOLEAN
    /\ Base(mem, str)
    /\ ~cut => Ended(mem, str)
    /\ mem = <<>> => ~cut

LEMMA FreshString ==
    ASSUME NEW n \in Nat, NEW g \in Seq(Byte), Len(g) = n + 1, g[n + 1] = Nul
    PROVE  /\ Base(g \o <<Neighbour>>, View(1, n)) /\ Ended(g \o <<Neighbour>>, View(1, n))
           /\ g \o <<Neighbour>> # <<>>
<1>1. PICK m, s : m = g \o <<Neighbour>> /\ s = View(1, n)
  OBVIOUS
<1>2. g \in Seq(Cells) /\ <<Neighbour>> \in Seq(Cells) /\ Len(<<Neighbour>>) = 1
      /\ <<Neighbour>>[1] = Neighbour
  <2>1. \A i \in 1 .. Len(g) : g[i] \in Cells
    BY ElementOfSeq, BytesAreCells
  <2>2. DOMAIN g = 1 .. Len(g) /\ Len(g) \in Nat /\ g \in [1 .. Len(g) -> Byte]
    BY LenProperties
  <2>3. g \in [1 .. Len(g) -> Cells]
    BY <2>1, <2>2
  <2>4. g \in Seq(Cells)
    BY <2>2, <2>3, SeqDef
  <2> QED BY <2>4, BytesAreCells
<1>3. m \in Seq(Cells) /\ Len(m) = n + 2
      /\ \A i \in 1 .. n + 2 : m[i] = IF i <= n + 1 THEN g[i] ELSE <<Neighbour>>[i - (n + 1)]
  BY <1>1, <1>2, ConcatProperties
<1>4. \A i \in 1 .. n + 1 : m[i] = g[i] /\ m[i] \in Byte
  BY <1>3, ElementOfSeq
<1>5. m[n + 2] = Neighbour /\ m[n + 1] = Nul
  BY <1>2, <1>3, <1>4
<1>6. s \in [at : Nat, len : Nat] /\ s.at = 1 /\ s.len = n
  BY <1>1 DEF View
<1>7. m # <<>>
  BY <1>3, EmptySeq
<1>8. Len(m) - 1 = n + 1
  BY <1>3
<1> QED BY <1>1, <1>3, <1>4, <1>5, <1>6, <1>7, <1>8 DEF Base, Ended

(* A call that writes no more than the bytes of the string keeps all that.  *)
LEMMA WriteInView ==
    ASSUME NEW m, NEW s, Base(m, s), m # <<>>, NEW w, w \in Seq(Cells), Len(w) = Len(m),
           \A i \in 1 .. Len(m) : w[i] # m[i] => s.at <= i /\ i < s.at + s.len /\ w[i] \in Byte
    PROVE  Base(w, s) /\ (Ended(m, s) => Ended(w, s)) /\ w # <<>>
<1>1. PICK n, at, len : n = Len(m) /\ at = s.at /\ len = s.len
  OBVIOUS
<1>2. /\ n \in Nat /\ n >= 2 /\ at \in Nat /\ len \in Nat /\ at >= 1 /\ at + len <= n + 1
      /\ s \in [at : Nat, len : Nat]
      /\ \A i \in 1 .. n - 1 : m[i] \in Byte
      /\ m[n] = Neighbour => at + len <= n
  BY <1>1, LenProperties DEF Base
<1>3. w # <<>>
  BY <1>1, <1>2, EmptySeq
<1>4. \A i \in 1 .. n - 1 : w[i] \in Byte
  BY <1>1, <1>2
<1>5. w[n] = Neighbour => at + len <= n
  <2>1. w[n] = Neighbour => w[n] = m[n]
    BY <1>1, <1>2, BytesAreCells
  <2> QED BY <1>2, <2>1
<1>6. Base(w, s)
  BY <1>1, <1>2, <1>3, <1>4, <1>5 DEF Base
<1>7. Ended(m, s) => Ended(w, s)
  <2>1. Ended(m, s) => at + len < n /\ m[n - 1] = Nul /\ m[n] = Neighbour
    BY <1>1 DEF Ended
  <2>2. at + len < n => w[n - 1] = m[n - 1] /\ w[n] = m[n]
    BY <1>1, <1>2
  <2> QED BY <1>1, <2>1, <2>2 DEF Ended
<1> QED BY <1>3, <1>6, <1>7

-----------------------------------------------------------------------------
(* What the calls write. *)

LEMMA TextIsBytes ==
    ASSUME NEW m, NEW s, Base(m, s), m # <<>>
    PROVE  /\ BytesOf(m, s) \in Seq(Byte) /\ Len(BytesOf(m, s)) = s.len
           /\ \A i \in 1 .. s.len : BytesOf(m, s)[i] = m[s.at + i - 1]
<1>1. PICK n, at, len : n = Len(m) /\ at = s.at /\ len = s.len
  OBVIOUS
<1>2. /\ n \in Nat /\ at \in Nat /\ len \in Nat /\ at >= 1 /\ at + len <= n + 1
      /\ \A i \in 1 .. n - 1 : m[i] \in Byte
      /\ m[n] = Neighbour => at + len <= n
      /\ m \in Seq(Cells) /\ n >= 2
  BY <1>1, LenProperties DEF Base
<1>3. m[n] \in Cells
  BY <1>1, <1>2, ElementOfSeq
<1>4. \A i \in at .. at + len - 1 : m[i] \in Byte
  <2> TAKE i \in at .. at + len - 1
  <2>1. i \in 1 .. n - 1 \/ (i = n /\ ~(at + len <= n))
    BY <1>2
  <2>2. i = n /\ ~(at + len <= n) => m[i] \in Byte
    BY <1>2, <1>3 DEF Cells
  <2> QED BY <1>2, <2>1, <2>2
<1>5. PICK hi : hi = at + len - 1
  OBVIOUS
<1>6. at \in Int /\ hi \in Int /\ hi - at + 1 = len /\ (at <= hi <=> len > 0)
  BY <1>2, <1>5
<1>7. /\ SubSeq(m, at, hi) \in Seq(Byte)
      /\ Len(SubSeq(m, at, hi)) = IF at <= hi THEN hi - at + 1 ELSE 0
      /\ \A i \in 1 .. hi - at + 1 : SubSeq(m, at, hi)[i] = m[at + i - 1]
  BY <1>4, <1>5, <1>6, SubSeqProperties
<1>8. BytesOf(m, s) = SubSeq(m, at, hi)
  BY <1>1, <1>5 DEF BytesOf
<1> QED BY <1>1, <1>2, <1>6, <1>7, <1>8

LEMMA ReversedIs ==
    ASSUME NEW b \in Seq(Byte)
    PROVE  /\ Reversed(b) \in Seq(Byte) /\ Len(Reversed(b)) = Len(b)
           /\ \A i \in 1 .. Len(b) : Reversed(b)[i] = b[Len(b) + 1 - i]
<1>1. PICK n, half : n = Len(b) /\ half = n \div 2
  OBVIOUS
<1>2. n \in Nat /\ half \in Nat /\ 2 * half <= n /\ n <= 2 * half + 1
  BY <1>1, LenProperties
<1>3. PICK r : r = [i \in 1 .. n |-> IF i <= half \/ i > n - half THEN b[n + 1 - i] ELSE b[i]]
  OBVIOUS
<1>4. Reversed(b) = r
  BY <1>1, <1>3 DEF Reversed
<1>5. ASSUME NEW i \in 1 .. n PROVE r[i] = b[n + 1 - i] /\ r[i] \in Byte
  <2>1. i <= half \/ i > n - half \/ n + 1 - i = i
    BY <1>2
  <2>2. r[i] = b[n + 1 - i]
    BY <1>3, <2>1
  <2>3. n + 1 - i \in 1 .. Len(b)
    BY <1>1, <1>2
  <2> QED BY <2>2, <2>3, ElementOfSeq
<1>6. r \in [1 .. n -> Byte]
  BY <1>3, <1>5
<1>7. r \in Seq(Byte) /\ Len(r) = n
  <2>1. r \in Seq(Byte)
    BY <1>2, <1>6, SeqDef
  <2>2. Len(r) \in Nat /\ 1 .. Len(r) = 1 .. n
    BY <1>6, <2>1, LenProperties
  <2> QED BY <1>2, <2>1, <2>2
<1> QED BY <1>1, <1>4, <1>5, <1>7

(* strlen: as many bytes as there are before the first NUL.                 *)
LEMMA UpToNulIs ==
    ASSUME NEW b \in Seq(Byte)
    PROVE  /\ UpToNul(b) \in 0 .. Len(b)
           /\ \A i \in 1 .. UpToNul(b) : b[i] # Nul
           /\ UpToNul(b) < Len(b) => b[UpToNul(b) + 1] = Nul
           /\ (\E i \in 1 .. Len(b) : b[i] = Nul) => UpToNul(b) < Len(b)
<1>1. PICK n, S : n = Len(b) /\ S = {i \in 1 .. n : b[i] = Nul}
  OBVIOUS
<1>2. n \in Nat
  BY <1>1, LenProperties
<1>3. CASE S = {}
  <2>1. ~Contains(b, Nul) /\ \A i \in 1 .. n : b[i] # Nul
    BY <1>1, <1>3 DEF Contains
  <2>2. UpToNul(b) = n
    BY <1>1, <2>1 DEF UpToNul
  <2> QED BY <1>1, <1>2, <2>1, <2>2
<1>4. CASE S # {}
  <2>1. Contains(b, Nul)
    BY <1>1, <1>4 DEF Contains
  <2>2. SelectInSeq(b, LAMBDA c : c = Nul) = Min(S)
    BY <1>1, <1>4 DEF SelectInSeq
  <2>3. UpToNul(b) = Min(S) - 1
    BY <2>1, <2>2 DEF UpToNul
  <2>4. PICK k : k = Min(S)
    OBVIOUS
  <2>5. k \in S /\ \A i \in S : k <= i
    <3>1. S \subseteq Nat
      BY <1>1
    <3> QED BY <1>4, <2>4, <3>1, MinIs
  <2>6. k \in 1 .. n /\ b[k] = Nul /\ \A i \in 1 .. k - 1 : b[i] # Nul
    BY <1>1, <1>2, <2>5
  <2>7. UpToNul(b) = k - 1 /\ k - 1 \in 0 .. n /\ k - 1 < n /\ k - 1 + 1 = k
    BY <1>2, <2>3, <2>4, <2>6
  <2> QED BY <1>1, <2>6, <2>7
<1> QED BY <1>3, <1>4

LEMMA LowercaseIs ==
    ASSUME NEW b \in Seq(Byte)
    PROVE  /\ Lowercase(b) \in Seq(Byte) /\ Len(Lowercase(b)) = Len(b)
           /\ \A i \in 1 .. Len(b) :
                 Lowercase(b)[i] = IF i <= UpToNul(b) THEN ToLower(b[i]) ELSE b[i]
<1>1. PICK n, u : n = Len(b) /\ u = UpToNul(b)
  OBVIOUS
<1>2. n \in Nat /\ DOMAIN b = 1 .. n
  BY <1>1, LenProperties
<1>3. PICK r : r = [i \in 1 .. n |-> IF i <= u THEN ToLower(b[i]) ELSE b[i]]
  OBVIOUS
<1>4. Lowercase(b) = r
  BY <1>1, <1>2, <1>3 DEF Lowercase
<1>5. ASSUME NEW i \in 1 .. n PROVE r[i] \in Byte
  <2>1. b[i] \in Byte
    BY <1>1, ElementOfSeq
  <2>2. ToLower(b[i]) \in Byte
    <3>1. PICK c : c = b[i]
      OBVIOUS
    <3>2. c \in 0 .. 255 /\ ToLower(b[i]) = IF c \in 65 .. 90 THEN c + 32 ELSE c
      BY <2>1, <3>1 DEF ToLower, Byte
    <3>3. (IF c \in 65 .. 90 THEN c + 32 ELSE c) \in 0 .. 255
      BY <3>2
    <3> QED BY <3>2, <3>3 DEF Byte
  <2> QED BY <1>3, <2>1, <2>2
<1>6. r \in [1 .. n -> Byte]
  BY <1>3, <1>5
<1>7. r \in Seq(Byte) /\ Len(r) = n
  <2>1. r \in Seq(Byte)
    BY <1>2, <1>6, SeqDef
  <2>2. Len(r) \in Nat /\ 1 .. Len(r) = 1 .. n
    BY <1>6, <2>1, LenProperties
  <2> QED BY <1>2, <2>1, <2>2
<1> QED BY <1>1, <1>3, <1>4, <1>7

(* memcpy of as much as there is room for.                                  *)
LEMMA CopyIs ==
    ASSUME NEW m \in Seq(Cells), NEW s \in [at : Nat, len : Nat], NEW t \in Seq(Byte)
    PROVE  \E k \in Nat :
              /\ k <= s.len /\ k <= Len(t) /\ (k = s.len \/ k = Len(t))
              /\ Writes(m, Copy(m, s, t), s.at, k)
              /\ \A i \in 1 .. Len(m) :
                    Copy(m, s, t)[i] =
                        IF s.at <= i /\ i < s.at + k THEN t[i - s.at + 1] ELSE m[i]
<1>1. PICK k : k = Min({s.len, Len(t)})
  OBVIOUS
<1>2. Len(t) \in Nat /\ s.len \in Nat /\ s.at \in Nat
  BY LenProperties
<1>3. k \in {s.len, Len(t)} /\ \A y \in {s.len, Len(t)} : k <= y
  BY <1>1, <1>2, MinIs
<1>4. k \in Nat /\ k <= s.len /\ k <= Len(t) /\ (k = s.len \/ k = Len(t))
  BY <1>2, <1>3
<1>5. PICK b : b = SubSeq(t, 1, k)
  OBVIOUS
<1>6. b \in Seq(Byte) /\ Len(b) = k /\ \A i \in 1 .. k : b[i] = t[i]
  <2>1. k \in 0 .. Len(t)
    BY <1>2, <1>4
  <2> QED BY <1>5, <2>1, PrefixIs
<1>7. Copy(m, s, t) = Memcpy(m, s.at, b)
  BY <1>1, <1>5 DEF Copy
<1>8. /\ Writes(m, Memcpy(m, s.at, b), s.at, k)
      /\ \A i \in 1 .. Len(m) :
            Memcpy(m, s.at, b)[i] = IF s.at <= i /\ i < s.at + k THEN b[i - s.at + 1] ELSE m[i]
  BY <1>2, <1>6, PutIs
<1>9. \A i \in 1 .. Len(m) : s.at <= i /\ i < s.at + k => b[i - s.at + 1] = t[i - s.at + 1]
  BY <1>2, <1>4, <1>6, LenProperties
<1> QED BY <1>4, <1>7, <1>8, <1>9

(* Two arguments of concat: the fold takes them in turn.                    *)
LEMMA ConcatIs ==
    ASSUME NEW m, NEW s, NEW t, NEW u
    PROVE  LET Add(acc, x) == IF acc.off < s.len
                              THEN [m |-> Copy(acc.m, Offset(s, acc.off), x), off |-> acc.off + Len(x)]
                              ELSE acc
           IN  Concat(m, s, <<t, u>>) = Add(Add([m |-> m, off |-> 0], t), u).m
<1> DEFINE Add(acc, x) == IF acc.off < s.len
                          THEN [m |-> Copy(acc.m, Offset(s, acc.off), x), off |-> acc.off + Len(x)]
                          ELSE acc
           base == [m |-> m, off |-> 0]
           seq == <<t, u>>
           F(g) == g = [S \in SUBSET {1, 2} |->
                           IF S = {} THEN base
                           ELSE Add(g[S \ {Max(S)}], seq[Max(S)])]
           iter == CHOOSE g : F(g)
           h == [S \in SUBSET {1, 2} |->
                    IF S = {} THEN base
                    ELSE IF S = {1} THEN Add(base, t)
                    ELSE IF S = {2} THEN Add(base, u)
                    ELSE Add(Add(base, t), u)]
<1>1. DOMAIN seq = {1, 2} /\ seq[1] = t /\ seq[2] = u
  OBVIOUS
<1>2. Concat(m, s, <<t, u>>) = iter[DOMAIN seq].m
  BY <1>1 DEF Concat, FoldLeft, MapThenFoldSet
<1>3. /\ Max({1}) = 1 /\ {1} \ {1} = {} /\ Max({2}) = 2 /\ {2} \ {2} = {}
      /\ Max({1, 2}) = 2 /\ {1, 2} \ {2} = {1}
  BY DEF Max
<1>4. \A S \in SUBSET {1, 2} : S = {} \/ S = {1} \/ S = {2} \/ S = {1, 2}
  OBVIOUS
<1>5. /\ {} # {1} /\ {} # {2} /\ {} # {1, 2} /\ {1} # {2} /\ {1} # {1, 2} /\ {2} # {1, 2}
      /\ {} \in SUBSET {1, 2} /\ {1} \in SUBSET {1, 2} /\ {2} \in SUBSET {1, 2}
      /\ {1, 2} \in SUBSET {1, 2}
  OBVIOUS
<1> HIDE DEF Add, base, seq
<1>6. /\ h[{}] = base /\ h[{1}] = Add(base, t) /\ h[{2}] = Add(base, u)
      /\ h[{1, 2}] = Add(Add(base, t), u)
  BY <1>5
<1>7. \A S \in SUBSET {1, 2} :
          h[S] = IF S = {} THEN base ELSE Add(h[S \ {Max(S)}], seq[Max(S)])
  <2> HIDE DEF h
  <2> TAKE S \in SUBSET {1, 2}
  <2>1. CASE S = {}
    BY <1>6, <2>1
  <2>2. CASE S = {1}
    BY <1>1, <1>3, <1>5, <1>6, <2>2
  <2>3. CASE S = {2}
    BY <1>1, <1>3, <1>5, <1>6, <2>3
  <2>4. CASE S = {1, 2}
    BY <1>1, <1>3, <1>5, <1>6, <2>4
  <2> QED BY <1>4, <2>1, <2>2, <2>3, <2>4
<1>8. F(h)
  <2>1. PICK g : g = h
    OBVIOUS
  <2>2. g = [S \in SUBSET {1, 2} |-> g[S]]
    BY <2>1
  <2>3. \A S \in SUBSET {1, 2} :
            g[S] = IF S = {} THEN base ELSE Add(g[S \ {Max(S)}], seq[Max(S)])
    <3> HIDE DEF h
    <3> QED BY <1>7, <2>1
  <2>4. F(g)
    <3> HIDE DEF h
    <3> QED BY <2>2, <2>3
  <2> HIDE DEF h, F
  <2> QED BY <2>1, <2>4
<1>9. F(iter)
  <2> HIDE DEF F, h
  <2> QED BY <1>8
<1> HIDE DEF iter
<1>10. \A S \in SUBSET {1, 2} :
           iter[S] = IF S = {} THEN base ELSE Add(iter[S \ {Max(S)}], seq[Max(S)])
  <2>1. PICK g : g = iter
    OBVIOUS
  <2>2. g = [S \in SUBSET {1, 2} |->
                IF S = {} THEN base ELSE Add(g[S \ {Max(S)}], seq[Max(S)])]
    BY <1>9, <2>1
  <2>3. \A S \in SUBSET {1, 2} :
            g[S] = IF S = {} THEN base ELSE Add(g[S \ {Max(S)}], seq[Max(S)])
    BY <2>2
  <2> QED BY <2>1, <2>3
<1>11. iter[{}] = base
  BY <1>5, <1>10
<1>12. iter[{1}] = Add(base, t)
  <2>1. iter[{1}] = Add(iter[{1} \ {Max({1})}], seq[Max({1})])
    BY <1>5, <1>10
  <2> QED BY <1>1, <1>3, <1>11, <2>1
<1>13. iter[{1, 2}] = Add(Add(base, t), u)
  <2>1. iter[{1, 2}] = Add(iter[{1, 2} \ {Max({1, 2})}], seq[Max({1, 2})])
    BY <1>5, <1>10
  <2> QED BY <1>1, <1>3, <1>12, <2>1
<1> QED BY <1>1, <1>2, <1>13 DEF Add, base

(* What fits of both arguments, one after the other.                        *)
LEMMA ConcatWrites ==
    ASSUME NEW m \in Seq(Cells), NEW s \in [at : Nat, len : Nat], NEW t \in Seq(Byte), NEW u \in Seq(Byte)
    PROVE  /\ Concat(m, s, <<t, u>>) \in Seq(Cells) /\ Len(Concat(m, s, <<t, u>>)) = Len(m)
           /\ \A i \in 1 .. Len(m) :
                 Concat(m, s, <<t, u>>)[i] =
                    IF s.at <= i /\ i < s.at + s.len /\ i - s.at + 1 <= Len(t \o u)
                    THEN (t \o u)[i - s.at + 1] ELSE m[i]
<1>1. PICK n, at, len, a, b, w, x :
          /\ n = Len(m) /\ at = s.at /\ len = s.len /\ a = Len(t) /\ b = Len(u) /\ w = t \o u
          /\ x = Concat(m, s, <<t, u>>)
  OBVIOUS
<1>2. n \in Nat /\ at \in Nat /\ len \in Nat /\ a \in Nat /\ b \in Nat
  BY <1>1, LenProperties
<1>3. /\ w \in Seq(Byte) /\ Len(w) = a + b
      /\ \A j \in 1 .. a + b : w[j] = IF j <= a THEN t[j] ELSE u[j - a]
  BY <1>1, ConcatProperties
<1> DEFINE Add(acc, y) == IF acc.off < len
                          THEN [m |-> Copy(acc.m, Offset(s, acc.off), y), off |-> acc.off + Len(y)]
                          ELSE acc
<1>4. x = Add(Add([m |-> m, off |-> 0], t), u).m
  BY <1>1, ConcatIs
<1> DEFINE Right == /\ x \in Seq(Cells) /\ Len(x) = n
                    /\ \A i \in 1 .. n :
                          x[i] = IF at <= i /\ i < at + len /\ i - at + 1 <= a + b
                                 THEN w[i - at + 1] ELSE m[i]
<1>5. ASSUME NEW k \in Nat, k <= len
      PROVE  Offset(s, k) \in [at : Nat, len : Nat] /\ Offset(s, k).at = at + k /\ Offset(s, k).len = len - k
  BY <1>1, <1>2, <1>5 DEF Offset, View
<1>6. ASSUME len = 0 PROVE Right
  <2>1. x = m
    BY <1>4, <1>6
  <2>2. \A i \in 1 .. n : ~(at <= i /\ i < at + len)
    BY <1>2, <1>6
  <2> QED BY <1>1, <2>1, <2>2 DEF Right
<1>7. ASSUME len > 0 PROVE Right
  <2>1. PICK m1, v : v = Offset(s, 0) /\ m1 = Copy(m, v, t)
    OBVIOUS
  <2>2. Add([m |-> m, off |-> 0], t) = [m |-> m1, off |-> a]
    BY <1>1, <1>2, <1>7, <2>1
  <2>3. v \in [at : Nat, len : Nat] /\ v.at = at /\ v.len = len
    BY <1>2, <1>5, <2>1
  <2>4. PICK k \in Nat :
            /\ k <= len /\ k <= a /\ (k = len \/ k = a)
            /\ Writes(m, m1, at, k)
            /\ \A i \in 1 .. n : m1[i] = IF at <= i /\ i < at + k THEN t[i - at + 1] ELSE m[i]
    <3>1. \E k \in Nat :
             /\ k <= v.len /\ k <= Len(t) /\ (k = v.len \/ k = Len(t))
             /\ Writes(m, Copy(m, v, t), v.at, k)
             /\ \A i \in 1 .. Len(m) :
                   Copy(m, v, t)[i] = IF v.at <= i /\ i < v.at + k THEN t[i - v.at + 1] ELSE m[i]
      BY <2>3, CopyIs
    <3> QED BY <1>1, <2>1, <2>3, <3>1
  <2>5. m1 \in Seq(Cells) /\ Len(m1) = n
    BY <1>1, <2>4 DEF Writes
  <2>6. CASE ~(a < len)
    <3>1. x = m1
      BY <1>4, <2>2, <2>6
    <3>2. k = len
      BY <1>2, <2>4, <2>6
    <3>3. ASSUME NEW i \in 1 .. n
          PROVE  m1[i] = IF at <= i /\ i < at + len /\ i - at + 1 <= a + b THEN w[i - at + 1] ELSE m[i]
      <4>1. CASE at <= i /\ i < at + len
        <5>1. PICK j : j = i - at + 1
          OBVIOUS
        <5>2. j \in 1 .. a + b /\ j <= a
          BY <1>2, <2>6, <4>1, <5>1
        <5> QED BY <1>3, <2>4, <3>2, <4>1, <5>1, <5>2
      <4>2. CASE ~(at <= i /\ i < at + len)
        BY <2>4, <3>2, <4>2
      <4> QED BY <4>1, <4>2
    <3> QED BY <2>5, <3>1, <3>3 DEF Right
  <2>7. CASE a < len
    <3>1. PICK z : z = Offset(s, a)
      OBVIOUS
    <3>8. x = Copy(m1, z, u)
      BY <1>4, <2>2, <2>7, <3>1
    <3>2. z \in [at : Nat, len : Nat] /\ z.at = at + a /\ z.len = len - a
      <4>1. a \in Nat /\ a <= len
        BY <1>2, <2>7
      <4> HIDE DEF Right, Add
      <4> QED BY <1>5, <3>1, <4>1
    <3>3. PICK q \in Nat :
              /\ q <= len - a /\ q <= b /\ (q = len - a \/ q = b)
              /\ Writes(m1, x, at + a, q)
              /\ \A i \in 1 .. n :
                    x[i] = IF at + a <= i /\ i < at + a + q THEN u[i - (at + a) + 1] ELSE m1[i]
      <4>1. \E q \in Nat :
               /\ q <= z.len /\ q <= Len(u) /\ (q = z.len \/ q = Len(u))
               /\ Writes(m1, Copy(m1, z, u), z.at, q)
               /\ \A i \in 1 .. Len(m1) :
                     Copy(m1, z, u)[i] = IF z.at <= i /\ i < z.at + q THEN u[i - z.at + 1] ELSE m1[i]
        BY <2>5, <3>2, CopyIs
      <4> QED BY <1>1, <2>5, <3>2, <3>8, <4>1
    <3>4. x \in Seq(Cells) /\ Len(x) = n
      BY <2>5, <3>3 DEF Writes
    <3>5. k = a
      BY <1>2, <2>4, <2>7
    <3>6. ASSUME NEW i \in 1 .. n
          PROVE  x[i] = IF at <= i /\ i < at + len /\ i - at + 1 <= a + b THEN w[i - at + 1] ELSE m[i]
      <4>1. PICK j : j = i - at + 1
        OBVIOUS
      <4>2. j \in Int /\ i - (at + a) + 1 = j - a
        BY <1>2, <4>1
      <4>3. CASE at <= i /\ i < at + a
        <5>1. j \in 1 .. a + b /\ j <= a /\ i < at + len /\ ~(at + a <= i)
          BY <1>2, <2>7, <4>1, <4>3
        <5> QED BY <1>3, <2>4, <3>3, <3>5, <4>1, <4>3, <5>1
      <4>4. CASE at + a <= i /\ i < at + a + q
        <5>1. q \in Nat /\ q <= len - a /\ q <= b /\ i \in Int
          BY <3>3
        <5>2. i < at + len /\ at <= i
          BY <1>2, <4>4, <5>1
        <5>3. j \in 1 .. a + b /\ ~(j <= a)
          BY <1>2, <4>1, <4>4, <5>1
        <5> QED BY <1>3, <3>3, <4>1, <4>2, <4>4, <5>2, <5>3
      <4>5. CASE ~(at <= i /\ i < at + a) /\ ~(at + a <= i /\ i < at + a + q)
        <5>1. ~(at <= i /\ i < at + len /\ i - at + 1 <= a + b)
          BY <1>2, <2>7, <3>3, <4>5
        <5>2. x[i] = m1[i] /\ m1[i] = m[i]
          BY <2>4, <3>3, <3>5, <4>5
        <5> QED BY <5>1, <5>2
      <4> QED BY <4>3, <4>4, <4>5
    <3> QED BY <3>4, <3>6 DEF Right
  <2> QED BY <1>2, <2>6, <2>7
<1>8. Right
  <2> HIDE DEF Right
  <2> QED BY <1>2, <1>6, <1>7
<1> QED BY <1>1, <1>3, <1>8

-----------------------------------------------------------------------------
(* The numbers. *)

(* What a recursive function on the numbers up to n is: x, and then what a  *)
(* step makes of the one before.                                            *)
Follows(g, n, x, step) ==
    /\ DOMAIN g = 0 .. n
    /\ \A i \in 0 .. n : g[i] = IF i = 0 THEN x ELSE step[i][g[i - 1]]

LEMMA Recursion ==
    ASSUME NEW n \in Nat, NEW S, NEW x \in S, NEW step \in [1 .. n -> [S -> S]]
    PROVE  \E g \in [0 .. n -> S] : Follows(g, n, x, step)
<1>1. PICK T : T = {k \in 0 .. n : \E g \in [0 .. k -> S] : Follows(g, k, x, step)}
  OBVIOUS
<1>2. 0 \in T
  <2>1. PICK g : g = [i \in 0 .. 0 |-> x]
    OBVIOUS
  <2>2. g \in [0 .. 0 -> S] /\ DOMAIN g = 0 .. 0 /\ \A i \in 0 .. 0 : i = 0 /\ g[i] = x
    BY <2>1
  <2>3. Follows(g, 0, x, step)
    BY <2>2 DEF Follows
  <2> QED BY <1>1, <2>2, <2>3
<1>3. ASSUME NEW j \in 0 .. n - 1, j \in T PROVE j + 1 \in T
  <2>1. PICK k : k = j + 1
    OBVIOUS
  <2>2. k \in 1 .. n /\ k \in 0 .. n /\ j \in 0 .. n /\ k - 1 = j
    BY <2>1
  <2>3. PICK g \in [0 .. j -> S] : Follows(g, j, x, step)
    BY <1>1, <1>3
  <2>4. PICK h : h = [i \in 0 .. k |-> IF i = k THEN step[k][g[j]] ELSE g[i]]
    OBVIOUS
  <2>5. step[k][g[j]] \in S
    BY <2>2, <2>3
  <2>6. h \in [0 .. k -> S]
    BY <2>1, <2>2, <2>4, <2>5
  <2>7. DOMAIN h = 0 .. k /\ \A i \in 0 .. k : h[i] = IF i = k THEN step[k][g[j]] ELSE g[i]
    BY <2>4
  <2>8. \A i \in 0 .. j : g[i] = IF i = 0 THEN x ELSE step[i][g[i - 1]]
    BY <2>3 DEF Follows
  <2>9. ASSUME NEW i \in 0 .. k PROVE h[i] = IF i = 0 THEN x ELSE step[i][h[i - 1]]
    <3>1. CASE i = k
      <4>1. i - 1 = j /\ i # 0 /\ j \in 0 .. k /\ j # k
        BY <2>2, <3>1
      <4> QED BY <2>7, <3>1, <4>1
    <3>2. CASE i # k
      <4>1. i \in 0 .. j /\ (i # 0 => i - 1 \in 0 .. k /\ i - 1 # k)
        BY <2>1, <2>2, <3>2
      <4> QED BY <2>7, <2>8, <3>2, <4>1
    <3> QED BY <3>1, <3>2
  <2>10. Follows(h, k, x, step)
    BY <2>7, <2>9 DEF Follows
  <2> QED BY <1>1, <2>1, <2>2, <2>6, <2>10
<1>4. \A k \in 0 .. n : k \in T
  BY <1>2, <1>3, UpTo
<1> QED BY <1>1, <1>4

LEMMA RestsAre ==
    ASSUME NEW v \in Nat, NEW n \in Nat
    PROVE  /\ Rests(n, v)[0] = v
           /\ \A i \in 1 .. n : Rests(n, v)[i] = Rests(n, v)[i - 1] \div 10
           /\ \A i \in 0 .. n : Rests(n, v)[i] \in Nat
<1> DEFINE G(g) == g = [i \in 0 .. n |-> IF i = 0 THEN v ELSE g[i - 1] \div 10]
           rest == CHOOSE g : G(g)
<1>1. \E g : G(g)
  <2>1. PICK step : step = [i \in 1 .. n |-> [y \in Nat |-> y \div 10]]
    OBVIOUS
  <2>2. step \in [1 .. n -> [Nat -> Nat]]
    BY <2>1
  <2>3. PICK g \in [0 .. n -> Nat] : Follows(g, n, v, step)
    BY <2>2, Recursion
  <2>4. ASSUME NEW i \in 0 .. n PROVE g[i] = IF i = 0 THEN v ELSE g[i - 1] \div 10
    <3>1. i # 0 => i - 1 \in 0 .. n /\ i \in 1 .. n
      OBVIOUS
    <3>2. i # 0 => step[i][g[i - 1]] = g[i - 1] \div 10
      BY <2>1, <2>3, <3>1
    <3> QED BY <2>3, <3>2 DEF Follows
  <2> QED BY <2>4
<1>2. G(rest)
  <2> HIDE DEF G
  <2> QED BY <1>1
<1>3. Rests(n, v) = rest
  BY DEF Rests
<1> HIDE DEF rest
<1>4. PICK g : g = rest
  OBVIOUS
<1>5. \A i \in 0 .. n : g[i] = IF i = 0 THEN v ELSE g[i - 1] \div 10
  BY <1>2, <1>4
<1>6. g[0] = v /\ \A i \in 1 .. n : g[i] = g[i - 1] \div 10
  <2>1. 0 \in 0 .. n /\ \A i \in 1 .. n : i \in 0 .. n /\ i # 0
    OBVIOUS
  <2> QED BY <1>5, <2>1
<1>7. \A i \in 0 .. n : g[i] \in Nat
  <2>1. PICK T : T = {i \in 0 .. n : g[i] \in Nat}
    OBVIOUS
  <2>2. 0 \in T
    BY <1>6, <2>1
  <2>3. ASSUME NEW j \in 0 .. n - 1, j \in T PROVE j + 1 \in T
    <3>1. PICK y \in Nat : y = g[j]
      BY <2>1, <2>3
    <3>2. j + 1 \in 1 .. n /\ j + 1 \in 0 .. n /\ (j + 1) - 1 = j /\ y \div 10 \in Nat
      OBVIOUS
    <3>3. g[j + 1] = y \div 10
      BY <1>6, <3>1, <3>2
    <3> QED BY <2>1, <3>2, <3>3
  <2>4. \A i \in 0 .. n : i \in T
    BY <2>2, <2>3, UpTo
  <2> QED BY <2>1, <2>4
<1> QED BY <1>3, <1>4, <1>6, <1>7

(* What is left after i rounds does not depend on how many follow.          *)
LEMMA RestsAgree ==
    ASSUME NEW v \in Nat, NEW n \in Nat, NEW m \in Nat, n <= m
    PROVE  \A i \in 0 .. n : Rests(n, v)[i] = Rests(m, v)[i]
<1>1. PICK g, h : g = Rests(n, v) /\ h = Rests(m, v)
  OBVIOUS
<1>2. /\ g[0] = v /\ \A i \in 1 .. n : g[i] = g[i - 1] \div 10
      /\ h[0] = v /\ \A i \in 1 .. m : h[i] = h[i - 1] \div 10
  BY <1>1, RestsAre
<1>3. PICK T : T = {i \in 0 .. n : g[i] = h[i]}
  OBVIOUS
<1>4. 0 \in T
  BY <1>2, <1>3
<1>5. ASSUME NEW j \in 0 .. n - 1, j \in T PROVE j + 1 \in T
  <2>1. j + 1 \in 1 .. n /\ j + 1 \in 1 .. m /\ j + 1 \in 0 .. n /\ (j + 1) - 1 = j
    OBVIOUS
  <2>2. g[j + 1] = g[j] \div 10 /\ h[j + 1] = h[j] \div 10
    BY <1>2, <2>1
  <2> QED BY <1>3, <1>5, <2>1, <2>2
<1>6. \A i \in 0 .. n : i \in T
  BY <1>4, <1>5, UpTo
<1> QED BY <1>1, <1>3, <1>6

LEMMA LoopsOfItoa ==
    ASSUME NEW len \in Nat, NEW v \in Nat
    PROVE  LET n == ItoaLoops(len, v)
           IN  /\ n \in 1 .. len + 1
               /\ n = len + 1 \/ Rests(len + 1, v)[n] = 0
               /\ \A i \in 1 .. n - 1 : Rests(len + 1, v)[i] # 0
<1>1. PICK S : S = {i \in 1 .. len + 1 : i = len + 1 \/ Rests(len + 1, v)[i] = 0}
  OBVIOUS
<1>2. ItoaLoops(len, v) = Min(S)
  BY <1>1 DEF ItoaLoops
<1>3. S \subseteq Nat /\ len + 1 \in S
  BY <1>1
<1>4. PICK n : n = Min(S)
  OBVIOUS
<1>5. n \in S /\ \A i \in S : n <= i
  BY <1>3, <1>4, MinIs
<1>6. n \in 1 .. len + 1 /\ (n = len + 1 \/ Rests(len + 1, v)[n] = 0)
  BY <1>1, <1>5
<1>7. \A i \in 1 .. n - 1 : Rests(len + 1, v)[i] # 0
  <2> TAKE i \in 1 .. n - 1
  <2>1. i \in 1 .. len + 1 /\ ~(n <= i)
    BY <1>6
  <2> QED BY <1>1, <1>5, <2>1
<1> QED BY <1>2, <1>4, <1>6, <1>7

LEMMA DigitsAre ==
    ASSUME NEW n \in Nat, NEW v \in Nat
    PROVE  /\ Digits(n, v) \in Seq(Byte) /\ Len(Digits(n, v)) = n
           /\ \A i \in 1 .. n : Digits(n, v)[i] = 48 + (Rests(n, v)[n - i] % 10)
<1>1. PICK b : b = [i \in 1 .. n |-> 48 + (Rests(n, v)[i - 1] % 10)]
  OBVIOUS
<1>2. ASSUME NEW i \in 1 .. n PROVE b[i] \in Byte
  <2>1. i - 1 \in 0 .. n
    OBVIOUS
  <2>2. PICK x \in Nat : x = Rests(n, v)[i - 1]
    BY <2>1, RestsAre
  <2>3. x % 10 \in 0 .. 9
    OBVIOUS
  <2>4. 48 + (x % 10) \in 0 .. 255
    BY <2>3
  <2>5. b[i] = 48 + (x % 10)
    BY <1>1, <2>2
  <2> QED BY <2>4, <2>5 DEF Byte
<1>3. b \in Seq(Byte) /\ Len(b) = n
  <2>1. b \in [1 .. n -> Byte]
    BY <1>1, <1>2
  <2>2. b \in Seq(Byte)
    BY <2>1, SeqDef
  <2>3. Len(b) \in Nat /\ 1 .. Len(b) = 1 .. n
    BY <2>1, <2>2, LenProperties
  <2> QED BY <2>2, <2>3
<1>4. Digits(n, v) = Reversed(b)
  BY <1>1 DEF Digits
<1>5. /\ Reversed(b) \in Seq(Byte) /\ Len(Reversed(b)) = n
      /\ \A i \in 1 .. n : Reversed(b)[i] = b[n + 1 - i]
  BY <1>3, ReversedIs
<1>6. ASSUME NEW i \in 1 .. n PROVE Reversed(b)[i] = 48 + (Rests(n, v)[n - i] % 10)
  <2>1. PICK j : j = n + 1 - i
    OBVIOUS
  <2>2. j \in 1 .. n /\ j - 1 = n - i
    BY <2>1
  <2>3. b[j] = 48 + (Rests(n, v)[j - 1] % 10)
    BY <1>1, <2>2
  <2> QED BY <1>5, <2>1, <2>2, <2>3
<1> QED BY <1>4, <1>5, <1>6

(* The powers of ten.                                                       *)
LEMMA TensChosen ==
    ASSUME NEW n \in Nat
    PROVE  \E t \in [0 .. n -> Nat \ {0}] :
               /\ t[0] = 1 /\ \A k \in 1 .. n : t[k] = 10 * t[k - 1]
               /\ Tens(n) = t[n]
<1> DEFINE G(g) == g = [k \in 0 .. n |-> IF k = 0 THEN 1 ELSE 10 * g[k - 1]]
           tens == CHOOSE g : G(g)
<1>1. \E g : G(g)
  <2>1. PICK step : step = [i \in 1 .. n |-> [y \in Nat |-> 10 * y]]
    OBVIOUS
  <2>2. step \in [1 .. n -> [Nat -> Nat]]
    BY <2>1
  <2>3. PICK g \in [0 .. n -> Nat] : Follows(g, n, 1, step)
    BY <2>2, Recursion
  <2>4. ASSUME NEW i \in 0 .. n PROVE g[i] = IF i = 0 THEN 1 ELSE 10 * g[i - 1]
    <3>1. i # 0 => i - 1 \in 0 .. n /\ i \in 1 .. n
      OBVIOUS
    <3>2. i # 0 => step[i][g[i - 1]] = 10 * g[i - 1]
      BY <2>1, <2>3, <3>1
    <3> QED BY <2>3, <3>2 DEF Follows
  <2> QED BY <2>4
<1>2. G(tens)
  <2> HIDE DEF G
  <2> QED BY <1>1
<1>3. Tens(n) = tens[n]
  BY DEF Tens
<1> HIDE DEF tens
<1>4. PICK g : g = tens
  OBVIOUS
<1>5. DOMAIN g = 0 .. n /\ \A i \in 0 .. n : g[i] = IF i = 0 THEN 1 ELSE 10 * g[i - 1]
  BY <1>2, <1>4
<1>6. g[0] = 1 /\ \A i \in 1 .. n : g[i] = 10 * g[i - 1]
  <2>1. 0 \in 0 .. n /\ \A i \in 1 .. n : i \in 0 .. n /\ i # 0
    OBVIOUS
  <2> QED BY <1>5, <2>1
<1>7. \A i \in 0 .. n : g[i] \in Nat \ {0}
  <2>1. PICK T : T = {i \in 0 .. n : g[i] \in Nat \ {0}}
    OBVIOUS
  <2>2. 0 \in T
    BY <1>6, <2>1
  <2>3. ASSUME NEW j \in 0 .. n - 1, j \in T PROVE j + 1 \in T
    <3>1. PICK y \in Nat : y = g[j] /\ y # 0
      BY <2>1, <2>3
    <3>2. j + 1 \in 1 .. n /\ j + 1 \in 0 .. n /\ (j + 1) - 1 = j /\ 10 * y \in Nat \ {0}
      BY <3>1
    <3>3. g[j + 1] = 10 * y
      BY <1>6, <3>1, <3>2
    <3> QED BY <2>1, <3>2, <3>3
  <2>4. \A i \in 0 .. n : i \in T
    BY <2>2, <2>3, UpTo
  <2> QED BY <2>1, <2>4
<1>8. g \in [0 .. n -> Nat \ {0}]
  <2>1. g = [i \in 0 .. n |-> g[i]]
    BY <1>2, <1>4
  <2> QED BY <1>7, <2>1
<1> QED BY <1>3, <1>4, <1>6, <1>8

(* What digits mean: each adds its number to ten times what is before it.   *)
LEMMA ReadingChosen ==
    ASSUME NEW digits \in Seq(Byte)
    PROVE  \E r \in [0 .. Len(digits) -> Int] :
               /\ r[0] = 0
               /\ \A k \in 1 .. Len(digits) : r[k] = 10 * r[k - 1] + digits[k] - 48
               /\ Reading(digits) = r[Len(digits)]
<1>0. PICK n \in Nat : n = Len(digits)
  BY LenProperties
<1>a. \A k \in 1 .. n : digits[k] \in Int
  <2>1. \A b \in Byte : b \in Int
    BY DEF Byte
  <2> QED BY <1>0, <2>1, ElementOfSeq
<1> DEFINE G(g) == g = [k \in 0 .. n |-> IF k = 0 THEN 0 ELSE 10 * g[k - 1] + digits[k] - 48]
           read == CHOOSE g : G(g)
<1>1. \E g : G(g)
  <2>1. PICK step : step = [i \in 1 .. n |-> [y \in Int |-> 10 * y + digits[i] - 48]]
    OBVIOUS
  <2>2. step \in [1 .. n -> [Int -> Int]]
    <3>1. ASSUME NEW i \in 1 .. n, NEW y \in Int PROVE 10 * y + digits[i] - 48 \in Int
      BY <1>a
    <3> QED BY <2>1, <3>1
  <2>3. PICK g \in [0 .. n -> Int] : Follows(g, n, 0, step)
    <3>1. PICK z \in Int : z = 0
      OBVIOUS
    <3>2. \E g \in [0 .. n -> Int] : Follows(g, n, z, step)
      BY <2>2, Recursion
    <3> QED BY <3>1, <3>2
  <2>4. ASSUME NEW i \in 0 .. n
        PROVE  g[i] = IF i = 0 THEN 0 ELSE 10 * g[i - 1] + digits[i] - 48
    <3>1. i # 0 => i - 1 \in 0 .. n /\ i \in 1 .. n
      OBVIOUS
    <3>2. i # 0 => step[i][g[i - 1]] = 10 * g[i - 1] + digits[i] - 48
      BY <2>1, <2>3, <3>1
    <3> QED BY <2>3, <3>2 DEF Follows
  <2> QED BY <2>4
<1>2. G(read)
  <2> HIDE DEF G
  <2> QED BY <1>1
<1>3. Reading(digits) = read[n]
  BY <1>0 DEF Reading
<1> HIDE DEF read
<1>4. PICK g : g = read
  OBVIOUS
<1>5. \A i \in 0 .. n : g[i] = IF i = 0 THEN 0 ELSE 10 * g[i - 1] + digits[i] - 48
  BY <1>2, <1>4
<1>6. g[0] = 0 /\ \A i \in 1 .. n : g[i] = 10 * g[i - 1] + digits[i] - 48
  <2>1. 0 \in 0 .. n /\ \A i \in 1 .. n : i \in 0 .. n /\ i # 0
    OBVIOUS
  <2> QED BY <1>5, <2>1
<1>7. \A i \in 0 .. n : g[i] \in Int
  <2>1. PICK T : T = {i \in 0 .. n : g[i] \in Int}
    OBVIOUS
  <2>2. 0 \in T
    BY <1>6, <2>1
  <2>3. ASSUME NEW j \in 0 .. n - 1, j \in T PROVE j + 1 \in T
    <3>1. PICK y \in Int : y = g[j]
      BY <2>1, <2>3
    <3>2. j + 1 \in 1 .. n /\ j + 1 \in 0 .. n /\ (j + 1) - 1 = j
      OBVIOUS
    <3>3. PICK d \in Int : d = digits[j + 1]
      BY <1>a, <3>2
    <3>4. g[j + 1] = 10 * y + d - 48
      BY <1>6, <3>1, <3>2, <3>3
    <3>5. 10 * y + d - 48 \in Int
      OBVIOUS
    <3> QED BY <2>1, <3>2, <3>4, <3>5
  <2>4. \A i \in 0 .. n : i \in T
    BY <2>2, <2>3, UpTo
  <2> QED BY <2>1, <2>4
<1>8. g \in [0 .. n -> Int]
  <2>1. g = [i \in 0 .. n |-> g[i]]
    BY <1>2, <1>4
  <2> QED BY <1>7, <2>1
<1> QED BY <1>0, <1>3, <1>4, <1>6, <1>8

(* There is one quotient and one remainder.                                 *)
LEMMA RemainderIs ==
    ASSUME NEW a \in Nat, NEW t \in Nat, t > 0, NEW q \in Nat, NEW r \in Nat, r < t, a = t * q + r
    PROVE  a % t = r
<1>1. PICK d \in Nat, m \in Nat : d = a \div t /\ m = a % t
  OBVIOUS
<1>2. a = t * d + m /\ m < t
  BY <1>1
<1>3. CASE d < q
  <2>1. PICK e \in Nat : q = d + 1 + e
    <3>1. q - d - 1 \in Nat /\ q = d + 1 + (q - d - 1)
      BY <1>3
    <3> QED BY <3>1
  <2>2. t * q = t * d + t + t * e /\ t * e \in Nat
    BY <2>1
  <2> QED BY <1>2, <2>2
<1>4. CASE q < d
  <2>1. PICK e \in Nat : d = q + 1 + e
    <3>1. d - q - 1 \in Nat /\ d = q + 1 + (d - q - 1)
      BY <1>4
    <3> QED BY <3>1
  <2>2. t * d = t * q + t + t * e /\ t * e \in Nat
    BY <2>1
  <2> QED BY <1>2, <2>2
<1>5. CASE q = d
  BY <1>1, <1>2, <1>5
<1> QED BY <1>3, <1>4, <1>5

(* Each digit is what one round takes off, so that the digits of k rounds   *)
(* and what is left make the number.                                        *)
LEMMA DigitsMakeNumber ==
    ASSUME NEW n \in Nat, NEW v \in Nat
    PROVE  Reading(Digits(n, v)) = v % Tens(n)
<1>1. PICK rest, d : rest = Rests(n, v) /\ d = Digits(n, v)
  OBVIOUS
<1>2. /\ rest[0] = v /\ \A i \in 1 .. n : rest[i] = rest[i - 1] \div 10
      /\ \A i \in 0 .. n : rest[i] \in Nat
  BY <1>1, RestsAre
<1>3. d \in Seq(Byte) /\ Len(d) = n /\ \A i \in 1 .. n : d[i] = 48 + (rest[n - i] % 10)
  BY <1>1, DigitsAre
<1>4. PICK read \in [0 .. n -> Int] :
          /\ read[0] = 0 /\ \A k \in 1 .. n : read[k] = 10 * read[k - 1] + d[k] - 48
          /\ Reading(d) = read[n]
  BY <1>3, ReadingChosen
<1>5. PICK tens \in [0 .. n -> Nat \ {0}] :
          /\ tens[0] = 1 /\ \A k \in 1 .. n : tens[k] = 10 * tens[k - 1]
          /\ Tens(n) = tens[n]
  BY TensChosen
<1>6. PICK R \in Nat : R = rest[n]
  <2>1. n \in 0 .. n
    OBVIOUS
  <2> QED BY <1>2, <2>1
<1>7. PICK T : T = {k \in 0 .. n : /\ rest[n - k] = tens[k] * R + read[k]
                                   /\ 0 <= read[k] /\ read[k] < tens[k]}
  OBVIOUS
<1>8. 0 \in T
  <2>1. 0 \in 0 .. n /\ n - 0 = n /\ 1 * R + 0 = R
    OBVIOUS
  <2> QED BY <1>4, <1>5, <1>6, <1>7, <2>1
<1>9. ASSUME NEW j \in 0 .. n - 1, j \in T PROVE j + 1 \in T
  <2>1. PICK k, i : k = j + 1 /\ i = n - k
    OBVIOUS
  <2>2. /\ k \in 1 .. n /\ k \in 0 .. n /\ k - 1 = j /\ j \in 0 .. n
        /\ i \in 0 .. n /\ i + 1 \in 1 .. n /\ (i + 1) - 1 = i /\ n - j = i + 1 /\ n - k = i
    BY <2>1
  <2>3. PICK x \in Nat, y \in Nat : x = rest[i] /\ y = rest[i + 1]
    <3>1. i + 1 \in 0 .. n
      BY <2>2
    <3> QED BY <1>2, <2>2, <3>1
  <2>4. PICK t \in Nat, q \in Int : t = tens[j] /\ q = read[j]
    BY <1>4, <1>5, <2>2
  <2>5. y = t * R + q /\ 0 <= q /\ q < t
    BY <1>7, <1>9, <2>2, <2>3, <2>4
  <2>6. y = x \div 10
    BY <1>2, <2>2, <2>3
  <2>7. PICK c \in 0 .. 9 : c = x % 10
    <3>1. x % 10 \in 0 .. 9
      OBVIOUS
    <3> QED BY <3>1
  <2>8. x = 10 * y + c
    BY <2>6, <2>7
  <2>9. PICK p \in Nat : p = t * R
    OBVIOUS
  <2>10. (10 * t) * R = 10 * p
    BY <2>9
  <2>11. d[k] = 48 + c
    BY <1>3, <2>2, <2>3, <2>7
  <2>12. read[k] = 10 * q + c
    <3>1. read[k] = 10 * q + (48 + c) - 48
      BY <1>4, <2>2, <2>4, <2>11
    <3>2. 10 * q + (48 + c) - 48 = 10 * q + c
      OBVIOUS
    <3> QED BY <3>1, <3>2
  <2>13. tens[k] = 10 * t
    BY <1>5, <2>2, <2>4
  <2>14. x = 10 * p + (10 * q + c) /\ 0 <= 10 * q + c /\ 10 * q + c < 10 * t
    BY <2>5, <2>7, <2>8, <2>9
  <2>15. rest[n - k] = tens[k] * R + read[k] /\ 0 <= read[k] /\ read[k] < tens[k]
    BY <2>2, <2>3, <2>10, <2>12, <2>13, <2>14
  <2> QED BY <1>7, <2>1, <2>2, <2>15
<1>10. \A k \in 0 .. n : k \in T
  BY <1>8, <1>9, UpTo
<1>11. n \in T /\ n \in 0 .. n /\ n - n = 0
  BY <1>10
<1>12. PICK t \in Nat, r \in Int : t = tens[n] /\ r = read[n] /\ t > 0
  BY <1>4, <1>5, <1>11
<1>13. v = t * R + r /\ 0 <= r /\ r < t
  BY <1>2, <1>7, <1>11, <1>12
<1>14. v % t = r
  <2>1. r \in Nat
    BY <1>13
  <2> QED BY <1>12, <1>13, <2>1, RemainderIs
<1> QED BY <1>1, <1>4, <1>5, <1>12, <1>14

(* A number of v has fewer digits than a tenth of v has room for.           *)
LEMMA DigitsEnd ==
    ASSUME NEW v \in Nat
    PROVE  Rests((v \div 10) + 1, v)[(v \div 10) + 1] = 0
<1>1. PICK n \in Nat : n = v \div 10
  OBVIOUS
<1>2. PICK m \in Nat : m = n + 1
  OBVIOUS
<1>3. PICK rest : rest = Rests(m, v)
  OBVIOUS
<1>4. /\ rest[0] = v /\ \A i \in 1 .. m : rest[i] = rest[i - 1] \div 10
      /\ \A i \in 0 .. m : rest[i] \in Nat
  BY <1>3, RestsAre
<1>5. PICK T : T = {i \in 0 .. n : rest[i + 1] <= n - i}
  OBVIOUS
<1>6. 0 \in T
  <2>1. 1 \in 1 .. m /\ 1 - 1 = 0 /\ 0 + 1 = 1 /\ 0 \in 0 .. n
    BY <1>2
  <2>2. rest[1] = n
    BY <1>1, <1>4, <2>1
  <2> QED BY <1>5, <2>1, <2>2
<1>7. ASSUME NEW j \in 0 .. n - 1, j \in T PROVE j + 1 \in T
  <2>1. PICK x \in Nat : x = rest[j + 1]
    <3>1. j + 1 \in 0 .. m
      BY <1>2
    <3> QED BY <1>4, <3>1
  <2>2. x <= n - j
    BY <1>5, <1>7, <2>1
  <2>3. (j + 1) + 1 \in 1 .. m /\ ((j + 1) + 1) - 1 = j + 1 /\ j + 1 \in 0 .. n
    BY <1>2
  <2>4. rest[(j + 1) + 1] = x \div 10
    BY <1>4, <2>1, <2>3
  <2>5. x \div 10 <= n - (j + 1)
    BY <2>2
  <2> QED BY <1>5, <2>3, <2>4, <2>5
<1>8. \A i \in 0 .. n : i \in T
  BY <1>6, <1>7, UpTo
<1>9. n \in T /\ n - n = 0
  BY <1>8
<1>10. rest[n + 1] <= 0 /\ n + 1 \in 0 .. m
  BY <1>2, <1>5, <1>9
<1>11. rest[n + 1] = 0
  BY <1>4, <1>10
<1> QED BY <1>1, <1>2, <1>3, <1>11

(* The loop is cut short exactly when even the byte after the string is not *)
(* room enough.                                                             *)
LEMMA LoopIsCutShort ==
    ASSUME NEW len \in Nat, NEW v \in Nat
    PROVE  /\ ItoaLoops(len, v) < NumDigits(v) <=> len + 1 < NumDigits(v)
           /\ ItoaLoops(len, v) <= NumDigits(v)
<1>1. PICK k \in Nat : k = v \div 10
  OBVIOUS
<1>2. PICK n, m, f, g :
          /\ n = ItoaLoops(len, v) /\ m = ItoaLoops(k, v)
          /\ f = Rests(len + 1, v) /\ g = Rests(k + 1, v)
  OBVIOUS
<1>3. n \in 1 .. len + 1 /\ (n = len + 1 \/ f[n] = 0) /\ \A i \in 1 .. n - 1 : f[i] # 0
  BY <1>2, LoopsOfItoa
<1>4. m \in 1 .. k + 1 /\ (m = k + 1 \/ g[m] = 0) /\ \A i \in 1 .. m - 1 : g[i] # 0
  BY <1>2, LoopsOfItoa
<1>5. g[k + 1] = 0
  BY <1>1, <1>2, DigitsEnd
<1>6. g[m] = 0
  BY <1>4, <1>5
<1>7. NumDigits(v) = m
  BY <1>1, <1>2 DEF NumDigits
<1>8. \A i \in 0 .. len + 1 : i <= k + 1 => f[i] = g[i]
  <2>1. len + 1 \in Nat /\ k + 1 \in Nat
    OBVIOUS
  <2>2. CASE len + 1 <= k + 1
    BY <1>2, <2>1, <2>2, RestsAgree
  <2>3. CASE k + 1 <= len + 1
    BY <1>2, <2>1, <2>3, RestsAgree
  <2> QED BY <2>1, <2>2, <2>3
<1>9. CASE m <= len + 1
  <2>1. ~(n < m)
    <3> SUFFICES ASSUME n < m PROVE FALSE
      OBVIOUS
    <3>1. n \in 1 .. m - 1 /\ n # len + 1
      BY <1>3, <1>4, <1>9
    <3>2. f[n] = g[n]
      BY <1>3, <1>4, <1>8, <3>1
    <3> QED BY <1>3, <1>4, <3>1, <3>2
  <2>2. ~(m < n)
    <3> SUFFICES ASSUME m < n PROVE FALSE
      OBVIOUS
    <3>1. m \in 1 .. n - 1 /\ m \in 0 .. len + 1 /\ m <= k + 1
      BY <1>3, <1>4, <1>9
    <3>2. f[m] = g[m]
      BY <1>8, <3>1
    <3> QED BY <1>3, <1>6, <3>1, <3>2
  <2> QED BY <1>2, <1>3, <1>4, <1>7, <1>9, <2>1, <2>2
<1>10. CASE ~(m <= len + 1)
  BY <1>2, <1>3, <1>4, <1>7, <1>10
<1> QED BY <1>9, <1>10

-----------------------------------------------------------------------------
(* The calls. *)

Untouched ==
    block' = block /\ mem' # <<>> =>
        \A i \in DOMAIN mem : mem'[i] # mem[i] =>
            \/ str.at <= i /\ i < str.at + str.len
            \/ i = str.at + str.len /\ str' = View(str.at, str.len + 1)

LEMMA StrStarts == StrInit => StrInv
<1> SUFFICES ASSUME StrInit PROVE StrInv
  OBVIOUS
<1>1. mem = <<>> /\ str = NullView /\ cut = FALSE
  BY DEF StrInit
<1>2. <<>> \in Seq(Cells) /\ NullView \in [at : Nat, len : Nat]
  BY EmptySeq DEF NullView, View
<1>3. Base(mem, str) /\ Ended(mem, str)
  BY <1>1, <1>2 DEF Base, Ended
<1> QED BY <1>1, <1>3 DEF StrInv

LEMMA NewKeeps ==
    ASSUME NEW m, NEW s, Base(m, s), Ended(m, s), m # <<>>, NewBlock(m, s)
    PROVE  StrInv' /\ Untouched
<1>1. mem' = m /\ str' = s /\ cut' = FALSE
  BY DEF NewBlock
<1>2. block' # block
  BY DEF NewBlock
<1>3. Base(mem', str') /\ Ended(mem', str') /\ mem' # <<>>
  BY <1>1
<1>4. StrInv'
  BY <1>1, <1>3 DEF StrInv
<1> QED BY <1>2, <1>4 DEF Untouched

LEMMA WriteKeeps ==
    ASSUME StrInv, mem # <<>>, NEW w, Write(w), w \in Seq(Cells), Len(w) = Len(mem),
           \A i \in 1 .. Len(mem) :
               w[i] # mem[i] => str.at <= i /\ i < str.at + str.len /\ w[i] \in Byte
    PROVE  StrInv' /\ Untouched
<1>1. mem' = w /\ str' = str /\ cut' = cut
  BY DEF Write
<1>2. Base(mem, str) /\ (~cut => Ended(mem, str)) /\ cut \in BOOLEAN
  BY DEF StrInv
<1>3. Base(w, str) /\ (Ended(mem, str) => Ended(w, str)) /\ w # <<>>
  BY <1>2, WriteInView
<1>4. Base(mem', str') /\ mem' # <<>> /\ (~cut => Ended(mem', str'))
  BY <1>1, <1>2, <1>3
<1>5. StrInv'
  BY <1>1, <1>2, <1>4 DEF StrInv
<1>6. DOMAIN mem = 1 .. Len(mem)
  BY <1>2, LenProperties DEF Base
<1>7. Untouched
  BY <1>1, <1>6 DEF Untouched
<1> QED BY <1>5, <1>7

LEMMA InBlock ==
    ASSUME StrInv, str.at > 0
    PROVE  /\ mem # <<>> /\ Base(mem, str) /\ mem \in Seq(Cells) /\ str \in [at : Nat, len : Nat]
           /\ Len(mem) \in Nat /\ Text \in Seq(Byte) /\ Len(Text) = str.len
<1>1. Base(mem, str)
  BY DEF StrInv
<1>2. mem # <<>>
  <2>1. NullView.at = 0
    BY DEF NullView, View
  <2> QED BY <1>1, <2>1 DEF Base
<1> QED BY <1>1, <1>2, TextIsBytes, LenProperties DEF Base, Text

(* Bytes put in the place of those of the string.                           *)
LEMMA RewriteKeeps ==
    ASSUME StrInv, str.at > 0, NEW b \in Seq(Byte), Len(b) = Len(Text),
           Write(Memcpy(mem, str.at, b))
    PROVE  StrInv' /\ Untouched
<1>1. PICK w, at, len : w = Memcpy(mem, str.at, b) /\ at = str.at /\ len = str.len
  OBVIOUS
<1>2. at \in Nat /\ len \in Nat /\ Len(b) = len
  BY <1>1, InBlock
<1>3. Writes(mem, w, at, len)
  BY <1>1, <1>2, InBlock, PutIs
<1>4. w \in Seq(Cells) /\ Len(w) = Len(mem)
      /\ \A i \in 1 .. Len(mem) : w[i] # mem[i] => at <= i /\ i < at + len /\ w[i] \in Byte
  BY <1>3 DEF Writes
<1> QED BY <1>1, <1>4, InBlock, WriteKeeps

LEMMA ZeroedIs ==
    ASSUME NEW n \in Nat
    PROVE  /\ Base(Calloc(n), View(1, n)) /\ Ended(Calloc(n), View(1, n)) /\ Calloc(n) # <<>>
           /\ Calloc(n) \in Seq(Cells)
           /\ View(1, n) \in [at : Nat, len : Nat] /\ View(1, n).at = 1 /\ View(1, n).len = n
<1>1. PICK g : g = [i \in 1 .. n + 1 |-> Nul]
  OBVIOUS
<1>2. g \in Seq(Byte) /\ Len(g) = n + 1 /\ g[n + 1] = Nul
  <2>1. g \in [1 .. n + 1 -> Byte]
    BY <1>1, BytesAreCells
  <2>2. g \in Seq(Byte)
    BY <2>1, SeqDef
  <2>3. Len(g) \in Nat /\ 1 .. Len(g) = 1 .. n + 1
    BY <2>1, <2>2, LenProperties
  <2> QED BY <1>1, <2>2, <2>3
<1>3. Calloc(n) = g \o <<Neighbour>>
  BY <1>1 DEF Calloc
<1>4. Base(Calloc(n), View(1, n)) /\ Ended(Calloc(n), View(1, n)) /\ Calloc(n) # <<>>
  BY <1>2, <1>3, FreshString
<1> QED BY <1>4 DEF Base, View

LEMMA AllocKeeps ==
    ASSUME NEW n \in Nat, StrAlloc(n)
    PROVE  StrInv' /\ Untouched
BY ZeroedIs, NewKeeps DEF StrAlloc

LEMMA CloneKeeps ==
    ASSUME NEW text \in Texts, StrClone(text) \/ StrToLowercase(text)
    PROVE  StrInv' /\ Untouched
<1>1. PICK n, s, z, m : n = Len(text) /\ s = View(1, n) /\ z = Calloc(s.len) /\ m = Copy(z, s, text)
  OBVIOUS
<1>2. text \in Seq(Byte) /\ n \in Nat
  BY <1>1, TextsAssumption, LenProperties
<1>3. s.len = n /\ s.at = 1 /\ s \in [at : Nat, len : Nat] /\ z = Calloc(n) /\ z \in Seq(Cells)
      /\ Base(z, s) /\ Ended(z, s) /\ z # <<>>
  BY <1>1, <1>2, ZeroedIs
<1>4. PICK k \in Nat : k <= s.len /\ Writes(z, Copy(z, s, text), s.at, k)
  BY <1>2, <1>3, CopyIs
<1>5. m \in Seq(Cells) /\ Len(m) = Len(z)
      /\ \A i \in 1 .. Len(z) : m[i] # z[i] => s.at <= i /\ i < s.at + s.len /\ m[i] \in Byte
  <2>1. Len(z) \in Nat /\ s.at \in Nat /\ s.len \in Nat
    BY <1>3, LenProperties
  <2> QED BY <1>1, <1>4, <2>1 DEF Writes
<1>6. Base(m, s) /\ Ended(m, s) /\ m # <<>>
  BY <1>3, <1>5, WriteInView
<1>7. PICK b, w : b = Lowercase(BytesOf(m, s)) /\ w = Memcpy(m, 1, b)
  OBVIOUS
<1>8. b \in Seq(Byte) /\ Len(b) = n
  BY <1>3, <1>6, <1>7, TextIsBytes, LowercaseIs
<1>9. Writes(m, w, s.at, n)
  BY <1>3, <1>5, <1>7, <1>8, PutIs
<1>10. w \in Seq(Cells) /\ Len(w) = Len(m)
       /\ \A i \in 1 .. Len(m) : w[i] # m[i] => s.at <= i /\ i < s.at + s.len /\ w[i] \in Byte
  BY <1>3, <1>9 DEF Writes
<1>11. Base(w, s) /\ Ended(w, s) /\ w # <<>>
  BY <1>6, <1>10, WriteInView
<1>12. NewBlock(m, s) \/ NewBlock(w, s)
  <2>1. m = Cloned(text)
    BY <1>1, <1>3 DEF Cloned
  <2> QED BY <1>1, <1>7, <2>1 DEF StrClone, StrToLowercase
<1> QED BY <1>6, <1>11, <1>12, NewKeeps

LEMMA ReallocKeeps ==
    ASSUME StrInv, NEW n \in Nat, StrRealloc(n)
    PROVE  StrInv' /\ Untouched
<1>1. PICK g \in Garbage :
          LET grown == [i \in 1 .. n + 1 |-> IF i \in DOMAIN OldBytes THEN OldBytes[i] ELSE g]
          IN  NewBlock([grown EXCEPT ![n + 1] = Nul] \o <<Neighbour>>, View(1, n))
  BY DEF StrRealloc
<1>2. PICK old : old = OldBytes
  OBVIOUS
<1>3. old \in Seq(Byte)
  <2>1. CASE mem = <<>>
    BY <1>2, <2>1, EmptySeq DEF OldBytes
  <2>2. CASE mem # <<>>
    <3>1. Base(mem, str)
      BY DEF StrInv
    <3>2. PICK k : k = Len(mem) - 1
      OBVIOUS
    <3>3. k \in Nat /\ \A i \in 1 .. k : mem[i] \in Byte
      BY <2>2, <3>1, <3>2, LenProperties DEF Base
    <3>4. SubSeq(mem, 1, k) \in Seq(Byte)
      <4>1. 1 \in Int /\ k \in Int
        BY <3>3
      <4> QED BY <3>3, <4>1, SubSeqProperties
    <3>5. old = SubSeq(mem, 1, k)
      BY <1>2, <2>2, <3>2 DEF OldBytes, Front
    <3> QED BY <3>4, <3>5
  <2> QED BY <2>1, <2>2
<1>4. PICK grown : grown = [i \in 1 .. n + 1 |-> IF i \in DOMAIN old THEN old[i] ELSE g]
  OBVIOUS
<1>5. ASSUME NEW i \in 1 .. n + 1 PROVE grown[i] \in Byte
  <2>1. DOMAIN old = 1 .. Len(old)
    BY <1>3, LenProperties
  <2>2. i \in DOMAIN old => old[i] \in Byte
    BY <1>3, <2>1, ElementOfSeq
  <2>3. g \in Byte
    BY TextsAssumption
  <2> QED BY <1>4, <2>2, <2>3
<1>6. grown \in Seq(Byte) /\ Len(grown) = n + 1
  <2>1. grown \in [1 .. n + 1 -> Byte]
    BY <1>4, <1>5
  <2>2. grown \in Seq(Byte)
    BY <2>1, SeqDef
  <2>3. Len(grown) \in Nat /\ 1 .. Len(grown) = 1 .. n + 1
    BY <2>1, <2>2, LenProperties
  <2> QED BY <2>2, <2>3
<1>7. PICK b, p : p = n + 1 /\ b = [grown EXCEPT ![p] = Nul]
  OBVIOUS
<1>8. b \in Seq(Byte) /\ Len(b) = n + 1 /\ b[n + 1] = Nul
  <2>1. p \in 1 .. Len(grown) /\ Nul \in Byte
    BY <1>6, <1>7, BytesAreCells
  <2>2. /\ [grown EXCEPT ![p] = Nul] \in Seq(Byte)
        /\ Len([grown EXCEPT ![p] = Nul]) = Len(grown)
        /\ \A j \in 1 .. Len(grown) : [grown EXCEPT ![p] = Nul][j] = IF j = p THEN Nul ELSE grown[j]
    BY <1>6, <2>1, ExceptSeq
  <2> QED BY <1>6, <1>7, <2>1, <2>2
<1>9. NewBlock(b \o <<Neighbour>>, View(1, n))
  BY <1>1, <1>2, <1>4, <1>7
<1> QED BY <1>8, <1>9, FreshString, NewKeeps

LEMMA FreeKeeps ==
    ASSUME StrInv, StrFree
    PROVE  StrInv' /\ Untouched
<1>1. mem' = <<>> /\ str' = NullView /\ cut' = FALSE
  BY DEF StrFree
<1>2. <<>> \in Seq(Cells) /\ NullView \in [at : Nat, len : Nat]
  BY EmptySeq DEF NullView, View
<1>3. Base(mem', str') /\ Ended(mem', str')
  BY <1>1, <1>2 DEF Base, Ended
<1>4. StrInv'
  BY <1>1, <1>3 DEF StrInv
<1> QED BY <1>1, <1>4 DEF Untouched

(* Another view of the block that ends where the string does, or before.    *)
LEMMA ViewKeeps ==
    ASSUME StrInv, str.at > 0, NEW s \in [at : Nat, len : Nat], s.at >= 1,
           s.at + s.len <= str.at + str.len, str' = s, UNCHANGED <<block, mem, cut>>
    PROVE  StrInv' /\ Untouched
<1>1. Base(mem, str) /\ mem # <<>> /\ (~cut => Ended(mem, str)) /\ cut \in BOOLEAN /\ Len(mem) \in Nat
      /\ str \in [at : Nat, len : Nat]
  BY InBlock DEF StrInv
<1>2. Base(mem, s)
  BY <1>1 DEF Base
<1>3. Ended(mem, str) => Ended(mem, s)
  BY <1>1 DEF Ended
<1>4. mem' = mem /\ cut' = cut
  OBVIOUS
<1>5. Base(mem', str') /\ (~cut => Ended(mem', str'))
  BY <1>1, <1>2, <1>3, <1>4
<1>6. StrInv'
  BY <1>1, <1>4, <1>5 DEF StrInv
<1> QED BY <1>4, <1>6 DEF Untouched

LEMMA MoveKeeps ==
    ASSUME StrInv, StrMove
    PROVE  StrInv' /\ Untouched
<1>1. str.at > 0 /\ UNCHANGED <<block, mem, cut>> /\ str.at \in Nat /\ str.len \in Nat
  BY InBlock DEF StrMove
<1>2. PICK k \in 1 .. MaxSize : \/ k <= str.len /\ str' = Offset(str, k)
                                \/ k < str.at /\ str' = OffsetBack(str, k)
  BY DEF StrMove
<1>3. k \in Nat
  BY TextsAssumption
<1>4. CASE k <= str.len /\ str' = Offset(str, k)
  <2>1. PICK s : s = Offset(str, k)
    OBVIOUS
  <2>2. s \in [at : Nat, len : Nat] /\ s.at >= 1 /\ s.at + s.len <= str.at + str.len
    BY <1>1, <1>3, <1>4, <2>1 DEF Offset, View
  <2> QED BY <1>1, <1>4, <2>1, <2>2, ViewKeeps
<1>5. CASE k < str.at /\ str' = OffsetBack(str, k)
  <2>1. PICK s : s = OffsetBack(str, k)
    OBVIOUS
  <2>2. s \in [at : Nat, len : Nat] /\ s.at >= 1 /\ s.at + s.len <= str.at + str.len
    BY <1>1, <1>3, <1>5, <2>1 DEF OffsetBack, View
  <2> QED BY <1>1, <1>5, <2>1, <2>2, ViewKeeps
<1> QED BY <1>2, <1>4, <1>5

(* The NUL of the block ends the new string at the latest.                  *)
LEMMA FromKeeps ==
    ASSUME StrInv, StrFrom
    PROVE  StrInv' /\ Untouched
<1>1. PICK n, at, k, q, u : /\ n = Len(mem) /\ at = str.at /\ k = n - 1
                            /\ q = SubSeq(mem, at, k) /\ u = UpToNul(q)
  OBVIOUS
<1>2. str.at > 0 /\ ~cut /\ str' = View(at, u) /\ UNCHANGED <<block, mem, cut>>
  BY <1>1 DEF StrFrom
<1>3. Base(mem, str) /\ mem # <<>> /\ Ended(mem, str) /\ cut \in BOOLEAN /\ n \in Nat
      /\ str \in [at : Nat, len : Nat]
  BY <1>1, <1>2, InBlock DEF StrInv
<1>4. /\ at \in Nat /\ at >= 1 /\ at < n /\ mem[k] = Nul /\ k \in Nat /\ at <= k
      /\ \A i \in 1 .. k : mem[i] \in Byte
  BY <1>1, <1>2, <1>3 DEF Base, Ended
<1>5. q \in Seq(Byte) /\ Len(q) = k - at + 1 /\ q[k - at + 1] = Nul
  <2>1. at \in Int /\ k \in Int /\ \A i \in at .. k : mem[i] \in Byte
    BY <1>4
  <2>2. /\ q \in Seq(Byte)
        /\ Len(q) = IF at <= k THEN k - at + 1 ELSE 0
        /\ \A i \in 1 .. k - at + 1 : q[i] = mem[at + i - 1]
    BY <1>1, <2>1, SubSeqProperties
  <2>3. PICK j : j = k - at + 1
    OBVIOUS
  <2>4. j \in 1 .. k - at + 1 /\ at + j - 1 = k
    BY <1>4, <2>3
  <2>5. q[j] = mem[k]
    BY <2>2, <2>4
  <2> QED BY <1>4, <2>2, <2>3, <2>5
<1>6. u \in Nat /\ u < k - at + 1
  <2>1. k - at + 1 \in 1 .. Len(q)
    BY <1>4, <1>5
  <2>2. UpToNul(q) \in 0 .. Len(q) /\ UpToNul(q) < Len(q)
    BY <1>5, <2>1, UpToNulIs
  <2> QED BY <1>1, <1>5, <2>2
<1>7. PICK s : s = View(at, u)
  OBVIOUS
<1>8. s \in [at : Nat, len : Nat] /\ s.at = at /\ s.len = u /\ at + u < n
  BY <1>1, <1>4, <1>6, <1>7 DEF View
<1>9. Base(mem, s) /\ Ended(mem, s)
  BY <1>1, <1>3, <1>4, <1>8 DEF Base, Ended
<1>10. StrInv'
  BY <1>2, <1>3, <1>7, <1>9 DEF StrInv
<1> QED BY <1>2, <1>10 DEF Untouched

LEMMA CopyKeeps ==
    ASSUME StrInv, NEW text \in Texts, StrCopy(text)
    PROVE  StrInv' /\ Untouched
<1>1. PICK w : w = Copy(mem, str, text)
  OBVIOUS
<1>2. str.at > 0 /\ Write(w) /\ text \in Seq(Byte)
  BY <1>1, TextsAssumption DEF StrCopy
<1>3. PICK k \in Nat : k <= str.len /\ Writes(mem, w, str.at, k)
  BY <1>1, <1>2, InBlock, CopyIs
<1>4. w \in Seq(Cells) /\ Len(w) = Len(mem)
      /\ \A i \in 1 .. Len(mem) : w[i] # mem[i] => str.at <= i /\ i < str.at + str.len /\ w[i] \in Byte
  <2>1. Len(mem) \in Nat /\ str.at \in Nat /\ str.len \in Nat
    BY <1>2, InBlock
  <2> QED BY <1>3, <2>1 DEF Writes
<1> QED BY <1>2, <1>4, InBlock, WriteKeeps

LEMMA ConcatKeeps ==
    ASSUME StrInv, NEW t \in Texts, NEW u \in Texts, StrConcat(<<t, u>>)
    PROVE  StrInv' /\ Untouched
<1>1. PICK w, all : w = Concat(mem, str, <<t, u>>) /\ all = t \o u
  OBVIOUS
<1>2. str.at > 0 /\ Write(w) /\ t \in Seq(Byte) /\ u \in Seq(Byte)
  BY <1>1, TextsAssumption DEF StrConcat
<1>3. /\ w \in Seq(Cells) /\ Len(w) = Len(mem)
      /\ \A i \in 1 .. Len(mem) :
            w[i] = IF str.at <= i /\ i < str.at + str.len /\ i - str.at + 1 <= Len(all)
                   THEN all[i - str.at + 1] ELSE mem[i]
  BY <1>1, <1>2, InBlock, ConcatWrites
<1>4. all \in Seq(Byte) /\ Len(all) \in Nat
  BY <1>1, <1>2, ConcatProperties, LenProperties
<1>5. ASSUME NEW i \in 1 .. Len(mem), w[i] # mem[i]
      PROVE  str.at <= i /\ i < str.at + str.len /\ w[i] \in Byte
  <2>1. PICK j : j = i - str.at + 1
    OBVIOUS
  <2>2. str.at <= i /\ i < str.at + str.len /\ j <= Len(all) /\ w[i] = all[j]
    BY <1>3, <1>5, <2>1
  <2>3. j \in 1 .. Len(all)
    <3>1. str.at \in Nat
      BY <1>2, InBlock
    <3> QED BY <1>4, <2>1, <2>2, <3>1
  <2> QED BY <1>4, <2>2, <2>3, ElementOfSeq
<1> QED BY <1>2, <1>3, <1>5, InBlock, WriteKeeps

LEMMA ReverseKeeps ==
    ASSUME StrInv, StrReverse
    PROVE  StrInv' /\ Untouched
BY InBlock, ReversedIs, RewriteKeeps DEF StrReverse

LEMMA LowercaseKeeps ==
    ASSUME StrInv, StrLowercase
    PROVE  StrInv' /\ Untouched
BY InBlock, LowercaseIs, RewriteKeeps DEF StrLowercase

(* One byte too many is the NUL, or, when that has gone already, the byte   *)
(* after the block.                                                         *)
LEMMA ItoaIntoKeeps ==
    ASSUME StrInv, NEW v \in Numbers, StrItoaInto(v)
    PROVE  StrInv' /\ Untouched
<1>1. PICK size, at, len, n, b, w, s :
          /\ size = Len(mem) /\ at = str.at /\ len = str.len /\ n = ItoaLoops(len, v)
          /\ b = Digits(n, v) /\ w = Memcpy(mem, at, b) /\ s = View(at, n)
  OBVIOUS
<1>2. /\ str.at > 0 /\ mem[size] = Neighbour
      /\ mem' = w /\ str' = s /\ (cut' <=> cut \/ n > len) /\ cut' \in BOOLEAN
      /\ block' = block
  BY <1>1 DEF StrItoaInto, Last, StrInv
<1>3. /\ Base(mem, str) /\ mem # <<>> /\ (~cut => Ended(mem, str)) /\ cut \in BOOLEAN
      /\ size \in Nat /\ at \in Nat /\ len \in Nat /\ mem \in Seq(Cells) /\ v \in Nat
  BY <1>1, <1>2, InBlock, TextsAssumption DEF StrInv
<1>4. n \in 1 .. len + 1
  BY <1>1, <1>3, LoopsOfItoa
<1>5. b \in Seq(Byte) /\ Len(b) = n
  BY <1>1, <1>3, <1>4, DigitsAre
<1>6. Writes(mem, w, at, n)
  BY <1>1, <1>3, <1>5, PutIs
<1>7. /\ w \in Seq(Cells) /\ Len(w) = size
      /\ \A i \in 1 .. size : IF at <= i /\ i < at + n THEN w[i] \in Byte ELSE w[i] = mem[i]
  BY <1>1, <1>6 DEF Writes
<1>8. /\ size >= 2 /\ at >= 1 /\ at + len <= size
      /\ \A i \in 1 .. size - 1 : mem[i] \in Byte
  BY <1>1, <1>2, <1>3 DEF Base
<1>9. s \in [at : Nat, len : Nat] /\ s.at = at /\ s.len = n
  BY <1>1, <1>3, <1>4 DEF View
<1>10. w # <<>>
  BY <1>7, <1>8, EmptySeq
<1>11. at + n <= size + 1
  BY <1>3, <1>4, <1>8
<1>12. \A i \in 1 .. size - 1 : w[i] \in Byte
  <2> TAKE i \in 1 .. size - 1
  <2>1. i \in 1 .. size
    BY <1>3
  <2> QED BY <1>7, <1>8, <2>1
<1>13. w[size] = Neighbour => at + n <= size
  <2>1. size \in 1 .. size /\ (at <= size /\ size < at + n => w[size] \in Byte)
    BY <1>3, <1>7, <1>8
  <2>2. w[size] = Neighbour => w[size] \notin Byte
    BY BytesAreCells
  <2> QED BY <1>3, <1>4, <1>8, <2>1, <2>2
<1>14. Base(w, s)
  BY <1>7, <1>8, <1>9, <1>10, <1>11, <1>12, <1>13 DEF Base
<1>15. ~cut /\ n <= len => Ended(w, s)
  <2> SUFFICES ASSUME ~cut, n <= len PROVE Ended(w, s)
    OBVIOUS
  <2>1. at + len < size /\ mem[size - 1] = Nul /\ mem[size] = Neighbour
    BY <1>1, <1>3 DEF Ended
  <2>2. size - 1 \in 1 .. size /\ size \in 1 .. size /\ ~(size - 1 < at + n) /\ ~(size < at + n)
    BY <1>3, <1>4, <1>8, <2>1
  <2>3. w[size - 1] = Nul /\ w[size] = Neighbour
    BY <1>7, <2>1, <2>2
  <2>4. at + n < size
    BY <1>3, <1>4, <2>1
  <2> QED BY <1>7, <1>9, <2>3, <2>4 DEF Ended
<1>16. ~cut' => ~cut /\ n <= len
  BY <1>2, <1>3, <1>4
<1>17. StrInv'
  BY <1>2, <1>10, <1>14, <1>15, <1>16 DEF StrInv
<1>18. Untouched
  <2>1. ASSUME NEW i \in DOMAIN mem, w[i] # mem[i]
        PROVE  \/ at <= i /\ i < at + len
               \/ i = at + len /\ str' = View(at, len + 1)
    <3>1. i \in 1 .. size
      BY <1>1, <1>3, LenProperties
    <3>2. at <= i /\ i < at + n
      BY <1>7, <2>1, <3>1
    <3>3. i < at + len \/ (i = at + len /\ n = len + 1)
      BY <1>3, <1>4, <3>1, <3>2
    <3> QED BY <1>1, <1>2, <3>2, <3>3
  <2> QED BY <1>1, <1>2, <2>1 DEF Untouched
<1> QED BY <1>17, <1>18

LEMMA ItoaKeeps ==
    ASSUME NEW v \in Numbers, StrItoa(v)
    PROVE  StrInv' /\ Untouched
<1>1. PICK size, n, z, s, b, w :
          /\ size = Log10Digits(v) /\ n = ItoaLoops(size, v) /\ z = Calloc(size)
          /\ s = View(1, n) /\ b = Digits(n, v) /\ w = Memcpy(z, 1, b)
  OBVIOUS
<1>2. v \in Nat
  BY TextsAssumption
<1>3. size \in Nat /\ n \in Nat /\ n <= size
  <2>0. PICK d \in Nat : d = v \div 10
    BY <1>2
  <2>1. PICK m : d = v \div 10 /\ m = NumDigits(v)
    BY <2>0
  <2>2. m = ItoaLoops(d, v)
    BY <2>1 DEF NumDigits
  <2>3. ItoaLoops(d, v) \in 1 .. d + 1
    BY <1>2, LoopsOfItoa
  <2>4. m \in Nat
    BY <2>2, <2>3
  <2>5. size = m \/ size = m + 1
    BY <1>1, <2>1, <2>4 DEF Log10Digits
  <2>6. size \in Nat /\ m <= size
    BY <2>4, <2>5
  <2>7. n \in 1 .. size + 1
    BY <1>1, <1>2, <2>6, LoopsOfItoa
  <2>8. n <= m
    BY <1>1, <1>2, <2>1, <2>6, LoopIsCutShort
  <2> QED BY <2>4, <2>6, <2>7, <2>8
<1>4. PICK y : y = View(1, size)
  OBVIOUS
<1>5. Base(z, y) /\ Ended(z, y) /\ z # <<>> /\ z \in Seq(Cells) /\ y.at = 1 /\ y.len = size
  BY <1>1, <1>3, <1>4, ZeroedIs
<1>6. s \in [at : Nat, len : Nat] /\ s.at = 1 /\ s.len = n
  BY <1>1, <1>3 DEF View
<1>7. Base(z, s) /\ Ended(z, s)
  <2>1. Len(z) \in Nat
    BY <1>5, LenProperties
  <2> QED BY <1>3, <1>5, <1>6, <2>1 DEF Base, Ended
<1>8. b \in Seq(Byte) /\ Len(b) = n
  BY <1>1, <1>2, <1>3, DigitsAre
<1>9. Writes(z, w, s.at, n)
  BY <1>1, <1>5, <1>6, <1>8, PutIs
<1>10. w \in Seq(Cells) /\ Len(w) = Len(z)
       /\ \A i \in 1 .. Len(z) : w[i] # z[i] => s.at <= i /\ i < s.at + s.len /\ w[i] \in Byte
  BY <1>6, <1>9 DEF Writes
<1>11. Base(w, s) /\ Ended(w, s) /\ w # <<>>
  BY <1>5, <1>7, <1>10, WriteInView
<1>12. NewBlock(w, s)
  BY <1>1 DEF StrItoa
<1> QED BY <1>11, <1>12, NewKeeps

LEMMA StrStays == StrInv /\ [StrNext]_strvars => StrInv' /\ [Untouched]_strvars
<1> SUFFICES ASSUME StrInv, [StrNext]_strvars PROVE StrInv' /\ [Untouched]_strvars
  OBVIOUS
<1>1. ASSUME NEW n \in 0 .. MaxSize, StrAlloc(n) PROVE StrInv' /\ Untouched
  BY <1>1, TextsAssumption, AllocKeeps
<1>2. ASSUME NEW n \in 0 .. MaxSize, StrRealloc(n) PROVE StrInv' /\ Untouched
  BY <1>2, TextsAssumption, ReallocKeeps
<1>3. ASSUME NEW t \in Texts, StrClone(t) \/ StrToLowercase(t) PROVE StrInv' /\ Untouched
  BY <1>3, CloneKeeps
<1>4. ASSUME NEW t \in Texts, StrCopy(t) PROVE StrInv' /\ Untouched
  BY <1>4, CopyKeeps
<1>5. ASSUME NEW t \in Texts, NEW u \in Texts, StrConcat(<<t, u>>) PROVE StrInv' /\ Untouched
  BY <1>5, ConcatKeeps
<1>6. ASSUME NEW v \in Numbers, StrItoaInto(v) PROVE StrInv' /\ Untouched
  BY <1>6, ItoaIntoKeeps
<1>7. ASSUME NEW v \in Numbers, StrItoa(v) PROVE StrInv' /\ Untouched
  BY <1>7, ItoaKeeps
<1>8. CASE StrFree
  BY <1>8, FreeKeeps
<1>9. CASE StrMove
  BY <1>9, MoveKeeps
<1>10. CASE StrFrom
  BY <1>10, FromKeeps
<1>11. CASE StrReverse
  BY <1>11, ReverseKeeps
<1>12. CASE StrLowercase
  BY <1>12, LowercaseKeeps
<1>13. CASE UNCHANGED strvars
  BY <1>13 DEF strvars, StrInv
<1> QED
  BY <1>1, <1>2, <1>3, <1>4, <1>5, <1>6, <1>7, <1>8, <1>9, <1>10, <1>11, <1>12, <1>13 DEF StrNext

-----------------------------------------------------------------------------
(* The answers. *)

(* The place that decides a comparison: the first difference, if no NUL     *)
(* comes before it.                                                         *)
Decides(a, b, k) ==
    /\ k \in 1 .. Len(a) /\ a[k] # b[k]
    /\ \A j \in 1 .. k - 1 : a[j] = b[j] /\ a[j] # Nul

LEMMA StrNCmpIs ==
    ASSUME NEW a \in Seq(Byte), NEW b \in Seq(Byte), Len(a) = Len(b)
    PROVE  /\ \A k : Decides(a, b, k) => StrNCmp(a, b) = a[k] - b[k] /\ StrNCmp(a, b) # 0
           /\ (\A k : ~Decides(a, b, k)) => StrNCmp(a, b) = 0
<1>1. PICK n \in Nat : n = Len(a)
  BY LenProperties
<1>2. PICK S : S = {i \in 1 .. n : a[i] # b[i] /\ \A j \in 1 .. i - 1 : a[j] # Nul}
  OBVIOUS
<1>3. DOMAIN a = 1 .. n /\ S \subseteq Nat
  BY <1>1, <1>2, LenProperties
<1>4. StrNCmp(a, b) = IF S = {} THEN 0 ELSE a[Min(S)] - b[Min(S)]
  BY <1>2, <1>3 DEF StrNCmp
<1>5. ASSUME NEW k, Decides(a, b, k)
      PROVE  StrNCmp(a, b) = a[k] - b[k] /\ StrNCmp(a, b) # 0
  <2>1. k \in 1 .. n /\ a[k] # b[k] /\ \A j \in 1 .. k - 1 : a[j] = b[j] /\ a[j] # Nul
    BY <1>1, <1>5 DEF Decides
  <2>2. k \in S
    BY <1>2, <2>1
  <2>3. PICK m : m = Min(S)
    OBVIOUS
  <2>4. m \in S /\ m <= k
    BY <1>3, <2>2, <2>3, MinIs
  <2>5. m = k
    <3> SUFFICES ASSUME m # k PROVE FALSE
      OBVIOUS
    <3>1. m \in 1 .. k - 1 /\ a[m] # b[m]
      BY <1>2, <2>1, <2>4
    <3> QED BY <2>1, <3>1
  <2>6. PICK x \in Nat, y \in Nat : x = a[k] /\ y = b[k]
    <3>1. a[k] \in Byte /\ b[k] \in Byte
      BY <1>1, <2>1, ElementOfSeq
    <3>2. \A c \in Byte : c \in Nat
      BY DEF Byte
    <3> QED BY <3>1, <3>2
  <2>7. x - y # 0
    BY <2>1, <2>6
  <2> QED BY <1>4, <2>2, <2>3, <2>5, <2>6, <2>7
<1>6. ASSUME S # {} PROVE \E k : Decides(a, b, k)
  <2>1. PICK k : k = Min(S)
    OBVIOUS
  <2>2. k \in S /\ \A i \in S : k <= i
    BY <1>3, <1>6, <2>1, MinIs
  <2>3. k \in 1 .. n /\ a[k] # b[k] /\ \A j \in 1 .. k - 1 : a[j] # Nul
    BY <1>2, <2>2
  <2>4. ASSUME NEW j \in 1 .. k - 1 PROVE a[j] = b[j]
    <3>1. j \in 1 .. n /\ ~(k <= j) /\ \A i \in 1 .. j - 1 : a[i] # Nul
      BY <2>3
    <3> QED BY <1>2, <2>2, <3>1
  <2> QED BY <1>1, <2>3, <2>4 DEF Decides
<1> QED BY <1>4, <1>5, <1>6

(* The same place decides whichever string comes first.                     *)
LEMMA DecidesBoth ==
    ASSUME NEW a \in Seq(Byte), NEW b \in Seq(Byte), Len(a) = Len(b), NEW k
    PROVE  Decides(a, b, k) <=> Decides(b, a, k)
BY DEF Decides

(* Strings of one length are equal for cmp exactly if they are the same as  *)
(* far as their first NUL.                                                  *)
LEMMA EqualUpToNul ==
    ASSUME NEW a \in Seq(Byte), NEW b \in Seq(Byte)
    PROVE  Cmp(a, b) = 0 <=>
              /\ Len(a) = Len(b)
              /\ SubSeq(a, 1, UpToNul(a)) = SubSeq(b, 1, UpToNul(b))
<1>1. CASE Len(a) # Len(b)
  BY <1>1 DEF Cmp
<1>2. CASE Len(a) = Len(b)
  <2>1. PICK n \in Nat : n = Len(a) /\ n = Len(b)
    BY <1>2, LenProperties
  <2>2. PICK p, q : p = UpToNul(a) /\ q = UpToNul(b)
    OBVIOUS
  <2>3. /\ p \in 0 .. n /\ \A i \in 1 .. p : a[i] # Nul
        /\ p < n => a[p + 1] = Nul
    BY <2>1, <2>2, UpToNulIs
  <2>4. /\ q \in 0 .. n /\ \A i \in 1 .. q : b[i] # Nul
        /\ q < n => b[q + 1] = Nul
    BY <2>1, <2>2, UpToNulIs
  <2>5. PICK s, t : s = SubSeq(a, 1, p) /\ t = SubSeq(b, 1, q)
    OBVIOUS
  <2>6. s \in Seq(Byte) /\ Len(s) = p /\ \A i \in 1 .. p : s[i] = a[i]
    BY <2>1, <2>3, <2>5, PrefixIs
  <2>7. t \in Seq(Byte) /\ Len(t) = q /\ \A i \in 1 .. q : t[i] = b[i]
    BY <2>1, <2>4, <2>5, PrefixIs
  <2>8. Cmp(a, b) = StrNCmp(a, b)
    BY <1>2 DEF Cmp
  <2>9. ASSUME Cmp(a, b) = 0 PROVE s = t
    <3>1. \A k : ~Decides(a, b, k)
      BY <1>2, <2>8, <2>9, StrNCmpIs
    <3>2. \A k \in 1 .. n : a[k] = b[k] \/ \E j \in 1 .. k - 1 : a[j] # b[j] \/ a[j] = Nul
      BY <2>1, <3>1 DEF Decides
    <3>3. PICK T : T = {k \in 1 .. n : a[k] # b[k]}
      OBVIOUS
    <3>4. \A k \in 1 .. n : k <= p + 1 => a[k] = b[k]
      <4> SUFFICES ASSUME NEW k \in 1 .. n, k <= p + 1, a[k] # b[k] PROVE FALSE
        OBVIOUS
      <4>1. T \subseteq Nat /\ k \in T
        BY <3>3
      <4>2. PICK i \in T : \A e \in T : i <= e
        BY <4>1, LeastNumber
      <4>3. i \in 1 .. n /\ a[i] # b[i] /\ i <= k
        BY <3>3, <4>1, <4>2
      <4>4. PICK j \in 1 .. i - 1 : a[j] # b[j] \/ a[j] = Nul
        BY <3>2, <4>3
      <4>5. j \in 1 .. n /\ ~(i <= j) /\ j \in 1 .. p
        BY <2>3, <4>3
      <4>6. j \in T
        BY <2>3, <3>3, <4>4, <4>5
      <4> QED BY <4>2, <4>5, <4>6
    <3>5. p = q
      <4>1. CASE p < q
        <5>1. p + 1 \in 1 .. n /\ p + 1 \in 1 .. q /\ p < n
          BY <2>3, <2>4, <4>1
        <5> QED BY <2>3, <2>4, <3>4, <5>1
      <4>2. CASE q < p
        <5>1. q + 1 \in 1 .. n /\ q + 1 \in 1 .. p /\ q < n /\ q + 1 <= p + 1
          BY <2>3, <2>4, <4>2
        <5> QED BY <2>3, <2>4, <3>4, <5>1
      <4> QED BY <2>3, <2>4, <4>1, <4>2
    <3>6. \A i \in 1 .. p : s[i] = t[i]
      <4> TAKE i \in 1 .. p
      <4>1. i \in 1 .. n /\ i <= p + 1 /\ i \in 1 .. q
        BY <2>3, <3>5
      <4> QED BY <2>6, <2>7, <3>4, <4>1
    <3> QED BY <2>6, <2>7, <3>5, <3>6, SeqEqual
  <2>10. ASSUME s = t PROVE Cmp(a, b) = 0
    <3>1. p = q /\ \A i \in 1 .. p : a[i] = b[i]
      BY <2>6, <2>7, <2>10
    <3>2. ASSUME NEW k, Decides(a, b, k) PROVE FALSE
      <4>1. k \in 1 .. n /\ a[k] # b[k] /\ \A j \in 1 .. k - 1 : a[j] # Nul
        BY <2>1, <3>2 DEF Decides
      <4>2. p < k
        BY <2>3, <3>1, <4>1
      <4>3. p < n /\ (k = p + 1 \/ p + 1 \in 1 .. k - 1)
        BY <2>3, <4>1, <4>2
      <4>4. k = p + 1
        BY <2>3, <4>1, <4>3
      <4> QED BY <2>3, <2>4, <3>1, <4>1, <4>3, <4>4
    <3> QED BY <1>2, <2>8, <3>2, StrNCmpIs
  <2> QED BY <1>2, <2>2, <2>5, <2>9, <2>10
<1> QED BY <1>1, <1>2

(* Whichever string comes first, cmp orders them the same way.              *)
LEMMA OrderTurns ==
    ASSUME NEW a \in Seq(Byte), NEW b \in Seq(Byte), Len(a) = Len(b)
    PROVE  Cmp(a, b) < 0 <=> Cmp(b, a) > 0
<1>1. Cmp(a, b) = StrNCmp(a, b) /\ Cmp(b, a) = StrNCmp(b, a)
  BY DEF Cmp
<1>2. CASE \E k : Decides(a, b, k)
  <2>1. PICK k : Decides(a, b, k)
    BY <1>2
  <2>2. Decides(b, a, k)
    BY <2>1, DecidesBoth
  <2>3. StrNCmp(a, b) = a[k] - b[k] /\ StrNCmp(b, a) = b[k] - a[k]
    BY <2>1, <2>2, StrNCmpIs
  <2>4. PICK x \in Nat, y \in Nat : x = a[k] /\ y = b[k]
    <3>1. k \in 1 .. Len(a) /\ k \in 1 .. Len(b)
      BY <2>1 DEF Decides
    <3>2. a[k] \in Byte /\ b[k] \in Byte
      BY <3>1, ElementOfSeq
    <3>3. \A c \in Byte : c \in Nat
      BY DEF Byte
    <3> QED BY <3>2, <3>3
  <2>5. x - y < 0 <=> y - x > 0
    OBVIOUS
  <2> QED BY <1>1, <2>3, <2>4, <2>5
<1>3. CASE \A k : ~Decides(a, b, k)
  <2>1. \A k : ~Decides(b, a, k)
    BY <1>3, DecidesBoth
  <2>2. StrNCmp(a, b) = 0 /\ StrNCmp(b, a) = 0
    BY <1>3, <2>1, StrNCmpIs
  <2> QED BY <1>1, <2>2
<1> QED BY <1>2, <1>3

(* Strings without NUL are equal for cmp only if they are the same.         *)
LEMMA SameWithoutNul ==
    ASSUME NEW a \in Seq(Byte), NEW b \in Seq(Byte), Nul \notin ToSet(b), Cmp(a, b) = 0
    PROVE  a = b
<1>1. Len(a) = Len(b) /\ StrNCmp(a, b) = 0
  BY DEF Cmp
<1>2. PICK n \in Nat : n = Len(a) /\ n = Len(b)
  BY <1>1, LenProperties
<1>3. \A k \in 1 .. n : b[k] # Nul
  <2>1. DOMAIN b = 1 .. n
    BY <1>2, LenProperties
  <2> QED BY <2>1 DEF ToSet
<1>4. PICK T : T = {k \in 1 .. n : a[k] # b[k]}
  OBVIOUS
<1>5. T = {}
  <2> SUFFICES ASSUME T # {} PROVE FALSE
    OBVIOUS
  <2>1. T \subseteq Nat
    BY <1>4
  <2>2. PICK k \in T : \A e \in T : k <= e
    BY <2>1, LeastNumber
  <2>3. k \in 1 .. n /\ a[k] # b[k]
    BY <1>4, <2>2
  <2>4. ASSUME NEW j \in 1 .. k - 1 PROVE a[j] = b[j] /\ a[j] # Nul
    <3>1. j \in 1 .. n /\ ~(k <= j)
      BY <2>3
    <3> QED BY <1>3, <1>4, <2>2, <3>1
  <2>5. Decides(a, b, k)
    BY <1>2, <2>3, <2>4 DEF Decides
  <2> QED BY <1>1, <2>5, StrNCmpIs
<1> QED BY <1>2, <1>4, <1>5, SeqEqual

(* Lowercase letters are bytes; none is a NUL or leaves ASCII.              *)
LEMMA ToLowerIs ==
    ASSUME NEW c \in Byte
    PROVE  /\ ToLower(c) \in Byte /\ (ToLower(c) = Nul <=> c = Nul)
           /\ ToLower(c) < 128 <=> c < 128
<1>1. c \in 0 .. 255
  BY DEF Byte
<1>2. CASE c \in 65 .. 90
  <2>1. ToLower(c) = c + 32
    BY <1>2 DEF ToLower
  <2> QED BY <1>2, <2>1 DEF Byte, Nul
<1>3. CASE c \notin 65 .. 90
  <2>1. ToLower(c) = c
    BY <1>3 DEF ToLower
  <2> QED BY <1>1, <2>1
<1> QED BY <1>2, <1>3

LEMMA LoweredIs ==
    ASSUME NEW a \in Seq(Byte)
    PROVE  /\ Lowered(a) \in Seq(Byte) /\ Len(Lowered(a)) = Len(a)
           /\ \A i \in 1 .. Len(a) : Lowered(a)[i] = ToLower(a[i])
<1>1. PICK n \in Nat : n = Len(a) /\ DOMAIN a = 1 .. n
  BY LenProperties
<1>2. PICK r : r = [i \in 1 .. n |-> ToLower(a[i])]
  OBVIOUS
<1>3. Lowered(a) = r
  BY <1>1, <1>2 DEF Lowered
<1>4. r \in [1 .. n -> Byte]
  <2>1. \A i \in 1 .. n : ToLower(a[i]) \in Byte
    BY <1>1, ElementOfSeq, ToLowerIs
  <2> QED BY <1>2, <2>1
<1>5. r \in Seq(Byte)
  BY <1>1, <1>4, SeqDef
<1>6. Len(r) \in Nat /\ 1 .. Len(r) = 1 .. n
  BY <1>4, <1>5, LenProperties
<1> QED BY <1>1, <1>2, <1>3, <1>5, <1>6

(* As long as no NUL came before, lowercase makes a byte lowercase.         *)
LEMMA LowercaseLowers ==
    ASSUME NEW a \in Seq(Byte), NEW i \in 1 .. Len(a), \A j \in 1 .. i - 1 : a[j] # Nul
    PROVE  Lowercase(a)[i] = ToLower(a[i])
<1>1. PICK n \in Nat : n = Len(a)
  BY LenProperties
<1>2. PICK u : u = UpToNul(a)
  OBVIOUS
<1>3. u \in 0 .. n /\ (u < n => a[u + 1] = Nul)
  BY <1>1, <1>2, UpToNulIs
<1>4. Lowercase(a)[i] = IF i <= u THEN ToLower(a[i]) ELSE a[i]
  BY <1>2, LowercaseIs
<1>5. CASE i <= u
  BY <1>4, <1>5
<1>6. CASE ~(i <= u)
  <2>1. u < n /\ (u + 1 = i \/ u + 1 \in 1 .. i - 1)
    BY <1>1, <1>3, <1>6
  <2>2. a[i] = Nul
    BY <1>3, <2>1
  <2>3. ToLower(Nul) = Nul
    BY DEF ToLower, Nul
  <2> QED BY <1>4, <1>6, <2>2, <2>3
<1> QED BY <1>5, <1>6

(* Of two strings, and of the strings that lowercase makes of them, the     *)
(* same place decides.                                                      *)
LEMMA SameDecides ==
    ASSUME NEW a \in Seq(Byte), NEW b \in Seq(Byte), Len(a) = Len(b), NEW k
    PROVE  Decides(Lowered(a), Lowered(b), k) <=> Decides(Lowercase(a), Lowercase(b), k)
<1>1. PICK n \in Nat : n = Len(a) /\ n = Len(b)
  BY LenProperties
<1>2. PICK c, d, e, f : /\ c = Lowered(a) /\ d = Lowered(b)
                        /\ e = Lowercase(a) /\ f = Lowercase(b)
  OBVIOUS
<1>3. /\ Len(c) = n /\ Len(d) = n /\ Len(e) = n /\ Len(f) = n
      /\ \A i \in 1 .. n : c[i] = ToLower(a[i]) /\ d[i] = ToLower(b[i])
  BY <1>1, <1>2, LoweredIs, LowercaseIs
<1>4. \A i \in 1 .. n : (c[i] = Nul <=> a[i] = Nul) /\ (d[i] = Nul <=> b[i] = Nul)
  <2> TAKE i \in 1 .. n
  <2>1. a[i] \in Byte /\ b[i] \in Byte
    BY <1>1, ElementOfSeq
  <2> QED BY <1>3, <2>1, ToLowerIs
<1>5. \A i \in 1 .. n : (e[i] = Nul <=> a[i] = Nul) /\ (f[i] = Nul <=> b[i] = Nul)
  <2> TAKE i \in 1 .. n
  <2>1. a[i] \in Byte /\ b[i] \in Byte
    BY <1>1, ElementOfSeq
  <2>2. (e[i] = a[i] \/ e[i] = ToLower(a[i])) /\ (f[i] = b[i] \/ f[i] = ToLower(b[i]))
    BY <1>1, <1>2, LowercaseIs
  <2> QED BY <2>1, <2>2, ToLowerIs
<1>6. \A i \in 1 .. n : (\A j \in 1 .. i - 1 : a[j] # Nul) => e[i] = c[i]
  BY <1>1, <1>2, <1>3, LowercaseLowers
<1>7. \A i \in 1 .. n : (\A j \in 1 .. i - 1 : b[j] # Nul) => f[i] = d[i]
  BY <1>1, <1>2, <1>3, LowercaseLowers
<1>8. ASSUME Decides(c, d, k) PROVE Decides(e, f, k)
  <2>1. k \in 1 .. n /\ c[k] # d[k] /\ \A j \in 1 .. k - 1 : c[j] = d[j] /\ c[j] # Nul
    BY <1>3, <1>8 DEF Decides
  <2>2. \A j \in 1 .. k - 1 : j \in 1 .. n /\ a[j] # Nul /\ b[j] # Nul
    BY <1>4, <2>1
  <2>3. \A i \in 1 .. k : e[i] = c[i] /\ f[i] = d[i]
    <3> TAKE i \in 1 .. k
    <3>1. i \in 1 .. n /\ \A j \in 1 .. i - 1 : a[j] # Nul /\ b[j] # Nul
      BY <2>1, <2>2
    <3> QED BY <1>6, <1>7, <3>1
  <2>4. k \in 1 .. k /\ \A j \in 1 .. k - 1 : j \in 1 .. k
    BY <2>1
  <2> QED BY <1>3, <2>1, <2>3, <2>4 DEF Decides
<1>9. ASSUME Decides(e, f, k) PROVE Decides(c, d, k)
  <2>1. k \in 1 .. n /\ e[k] # f[k] /\ \A j \in 1 .. k - 1 : e[j] = f[j] /\ e[j] # Nul
    BY <1>3, <1>9 DEF Decides
  <2>2. \A j \in 1 .. k - 1 : j \in 1 .. n /\ a[j] # Nul /\ b[j] # Nul
    BY <1>5, <2>1
  <2>3. \A i \in 1 .. k : e[i] = c[i] /\ f[i] = d[i]
    <3> TAKE i \in 1 .. k
    <3>1. i \in 1 .. n /\ \A j \in 1 .. i - 1 : a[j] # Nul /\ b[j] # Nul
      BY <2>1, <2>2
    <3> QED BY <1>6, <1>7, <3>1
  <2>4. k \in 1 .. k /\ \A j \in 1 .. k - 1 : j \in 1 .. k
    BY <2>1
  <2> QED BY <1>3, <2>1, <2>3, <2>4 DEF Decides
<1> QED BY <1>2, <1>8, <1>9

(* cmpi is 0 exactly when cmp is, of what lowercase makes of the strings.   *)
LEMMA CmpiIs ==
    ASSUME NEW a \in Seq(Byte), NEW b \in Seq(Byte)
    PROVE  Cmpi(a, b) = 0 <=> Cmp(Lowercase(a), Lowercase(b)) = 0
<1>1. PICK c, d, e, f : /\ c = Lowered(a) /\ d = Lowered(b)
                        /\ e = Lowercase(a) /\ f = Lowercase(b)
  OBVIOUS
<1>2. /\ c \in Seq(Byte) /\ d \in Seq(Byte) /\ e \in Seq(Byte) /\ f \in Seq(Byte)
      /\ Len(c) = Len(a) /\ Len(d) = Len(b) /\ Len(e) = Len(a) /\ Len(f) = Len(b)
  BY <1>1, LoweredIs, LowercaseIs
<1>3. CASE Len(a) # Len(b)
  BY <1>1, <1>2, <1>3 DEF Cmp, Cmpi
<1>4. CASE Len(a) = Len(b)
  <2>1. Cmpi(a, b) = StrNCmp(c, d) /\ Cmp(e, f) = StrNCmp(e, f)
    BY <1>1, <1>2, <1>4 DEF Cmp, Cmpi
  <2>2. \A k : Decides(c, d, k) <=> Decides(e, f, k)
    BY <1>1, <1>4, SameDecides
  <2>3. StrNCmp(c, d) = 0 <=> \A k : ~Decides(c, d, k)
    BY <1>2, <1>4, StrNCmpIs
  <2>4. StrNCmp(e, f) = 0 <=> \A k : ~Decides(e, f, k)
    BY <1>2, <1>4, StrNCmpIs
  <2> QED BY <1>1, <2>1, <2>2, <2>3, <2>4
<1> QED BY <1>3, <1>4

(* lowercase neither makes a string ASCII nor the opposite.                 *)
LEMMA AsciiStays ==
    ASSUME NEW a \in Seq(Byte)
    PROVE  IsAscii(a) <=> IsAscii(Lowercase(a))
<1>1. PICK n \in Nat : n = Len(a) /\ DOMAIN a = 1 .. n
  BY LenProperties
<1>2. PICK e : e = Lowercase(a)
  OBVIOUS
<1>3. e \in Seq(Byte) /\ DOMAIN e = 1 .. n
  BY <1>1, <1>2, LowercaseIs, LenProperties
<1>4. \A i \in 1 .. n : a[i] < 128 <=> e[i] < 128
  <2> TAKE i \in 1 .. n
  <2>1. a[i] \in Byte
    BY <1>1, ElementOfSeq
  <2>2. e[i] = a[i] \/ e[i] = ToLower(a[i])
    BY <1>1, <1>2, LowercaseIs
  <2> QED BY <2>1, <2>2, ToLowerIs
<1> QED BY <1>1, <1>2, <1>3, <1>4 DEF IsAscii

LEMMA EqualToItself ==
    ASSUME NEW a \in Seq(Byte)
    PROVE  Cmp(a, a) = 0
<1>1. \A k : ~Decides(a, a, k)
  BY DEF Decides
<1>2. StrNCmp(a, a) = 0
  BY <1>1, StrNCmpIs
<1> QED BY <1>2 DEF Cmp

LEMMA ComparisonsAgree ==
    ASSUME Text \in Seq(Byte)
    PROVE  CompareAgrees
<1> SUFFICES ASSUME NEW t \in Texts
             PROVE  /\ Cmp(Text, t) = 0 <=>
                          /\ Len(Text) = Len(t)
                          /\ SubSeq(Text, 1, UpToNul(Text)) = SubSeq(t, 1, UpToNul(t))
                    /\ Len(Text) = Len(t) => (Cmp(Text, t) < 0 <=> Cmp(t, Text) > 0)
                    /\ Cmpi(Text, t) = 0 <=> Cmp(Lowercase(Text), Lowercase(t)) = 0
                    /\ IsAscii(Text) <=> IsAscii(Lowercase(Text))
                    /\ HashedBytes(Text) = HashedBytes(t) => Equal(Text, t)
                    /\ Nul \notin ToSet(t) /\ Equal(Text, t) => HashedBytes(Text) = HashedBytes(t)
  BY DEF CompareAgrees
<1>1. PICK a : a = Text
  OBVIOUS
<1>2. a \in Seq(Byte) /\ t \in Seq(Byte)
  BY <1>1, TextsAssumption
<1>3. /\ Cmp(a, t) = 0 <=>
            Len(a) = Len(t) /\ SubSeq(a, 1, UpToNul(a)) = SubSeq(t, 1, UpToNul(t))
      /\ Cmpi(a, t) = 0 <=> Cmp(Lowercase(a), Lowercase(t)) = 0
      /\ IsAscii(a) <=> IsAscii(Lowercase(a))
  BY <1>2, EqualUpToNul, CmpiIs, AsciiStays
<1>4. Len(a) = Len(t) => (Cmp(a, t) < 0 <=> Cmp(t, a) > 0)
  BY <1>2, OrderTurns
<1>5. HashedBytes(a) = HashedBytes(t) => Equal(a, t)
  BY <1>2, EqualToItself DEF HashedBytes, Equal
<1>6. Nul \notin ToSet(t) /\ Equal(a, t) => HashedBytes(a) = HashedBytes(t)
  BY <1>2, SameWithoutNul DEF HashedBytes, Equal
<1> QED BY <1>1, <1>3, <1>4, <1>5, <1>6

LastPlace(b, c) ==
    LET places == {i \in 1 .. Len(b) : b[i] = c} IN IF places # {} THEN Max(places) ELSE 0

(* rchr in the memory and the last place in the text are the same place.    *)
LEMMA RchrIs ==
    ASSUME NEW m \in Seq(Cells), NEW s \in [at : Nat, len : Nat], NEW b \in Seq(Byte), NEW c,
           s.at > 0, s.len > 0, Len(b) = s.len, \A i \in 1 .. s.len : b[i] = m[s.at + i - 1]
    PROVE  Rchr(m, s, c) = IF LastPlace(b, c) = 0 THEN 0 ELSE s.at + LastPlace(b, c) - 1
<1>0. PICK at \in Nat, len \in Nat : at = s.at /\ len = s.len /\ at > 0 /\ len > 0
  OBVIOUS
<1>1. PICK hi : hi = at + len - 1
  OBVIOUS
<1>2. hi \in Nat /\ hi >= at
  BY <1>0, <1>1
<1>3. PICK I, W : I = {i \in 1 .. len : b[i] = c} /\ W = {i \in at .. hi : m[i] = c}
  OBVIOUS
<1>4. Rchr(m, s, c) = Max(W \cup {0})
  BY <1>0, <1>1, <1>3 DEF Rchr
<1>5. LastPlace(b, c) = IF I # {} THEN Max(I) ELSE 0
  BY <1>0, <1>3 DEF LastPlace
<1>6. W \cup {0} \subseteq 0 .. hi /\ W \cup {0} # {} /\ I \subseteq 0 .. len
  BY <1>2, <1>3
<1>7. PICK w : w = Max(W \cup {0})
  OBVIOUS
<1>8. w \in W \cup {0} /\ \A y \in W \cup {0} : y <= w
  BY <1>2, <1>6, <1>7, MaxIs
<1>9. \A i \in I : at + i - 1 \in W
  <2> TAKE i \in I
  <2>1. i \in 1 .. len /\ b[i] = c
    BY <1>3
  <2>2. at + i - 1 \in at .. hi /\ b[i] = m[at + i - 1]
    BY <1>0, <1>1, <2>1
  <2> QED BY <1>3, <2>1, <2>2
<1>10. \A j \in W : j - at + 1 \in I
  <2> TAKE j \in W
  <2>1. PICK i : i = j - at + 1
    OBVIOUS
  <2>2. j \in at .. hi /\ m[j] = c
    BY <1>3
  <2>3. i \in 1 .. len /\ at + i - 1 = j
    BY <1>0, <1>1, <2>1, <2>2
  <2>4. b[i] = m[j]
    BY <1>0, <2>3
  <2> QED BY <1>3, <2>1, <2>2, <2>3, <2>4
<1>11. CASE I = {}
  <2>1. w = 0
    BY <1>8, <1>10, <1>11
  <2> QED BY <1>0, <1>4, <1>5, <1>7, <1>11, <2>1
<1>12. CASE I # {}
  <2>1. PICK l : l = Max(I)
    OBVIOUS
  <2>2. l \in I /\ \A i \in I : i <= l
    BY <1>6, <1>12, <2>1, MaxIs
  <2>3. PICK k : k = at + l - 1
    OBVIOUS
  <2>4. l \in 1 .. len /\ k \in W /\ k \in at .. hi
    BY <1>3, <1>9, <2>2, <2>3
  <2>5. w # 0
    <3>1. k <= w
      BY <1>8, <2>4
    <3>2. k > 0 /\ k \in Nat
      BY <1>0, <1>2, <2>4
    <3> QED BY <3>1, <3>2
  <2>6. PICK i : i = w - at + 1
    OBVIOUS
  <2>7. i \in I /\ w \in at .. hi
    BY <1>3, <1>8, <1>10, <2>5, <2>6
  <2>8. k <= w
    BY <1>8, <2>4
  <2>9. i \in 1 .. len /\ i <= l
    BY <1>3, <2>2, <2>7
  <2>10. w = k /\ l # 0
    BY <1>2, <2>3, <2>4, <2>6, <2>7, <2>8, <2>9
  <2> QED BY <1>0, <1>4, <1>5, <1>7, <1>12, <2>1, <2>3, <2>10
<1> QED BY <1>11, <1>12

(* A needle is a prefix of what begins at a place exactly if the place is   *)
(* one at which memmem looks and finds it.                                  *)
LEMMA PlaceIs ==
    ASSUME NEW hay \in Seq(Byte), NEW t \in Seq(Byte), t # <<>>, NEW i \in 1 .. Len(hay)
    PROVE  IsPrefix(t, SubSeq(hay, i, Len(hay))) <=>
              /\ i <= Len(hay) - Len(t) + 1
              /\ SubSeq(hay, i, i + Len(t) - 1) = t
<1>1. PICK n, k : n = Len(hay) /\ k = Len(t)
  OBVIOUS
<1>2. n \in Nat /\ k \in Nat /\ k > 0 /\ i \in 1 .. n
  BY <1>1, LenProperties, EmptySeq
<1>3. PICK s : s = SubSeq(hay, i, n)
  OBVIOUS
<1>4. s \in Seq(Byte) /\ Len(s) = n - i + 1 /\ \A j \in 1 .. n - i + 1 : s[j] = hay[i + j - 1]
  <2>1. i \in Nat /\ 1 <= i /\ i <= n /\ n <= Len(hay)
    BY <1>1, <1>2
  <2> QED BY <1>2, <1>3, <2>1, SliceIs
<1>5. SubSeq(t, 1, k) = t
  <2>1. k \in 0 .. Len(t)
    BY <1>1, <1>2
  <2>2. PICK u : u = SubSeq(t, 1, k)
    OBVIOUS
  <2>3. u \in Seq(Byte) /\ Len(u) = k /\ \A j \in 1 .. k : u[j] = t[j]
    BY <2>1, <2>2, PrefixIs
  <2> QED BY <1>1, <2>2, <2>3, SeqEqual
<1>6. IsPrefix(t, s) <=> k <= n - i + 1 /\ t = SubSeq(s, 1, k)
  BY <1>1, <1>4, <1>5 DEF IsPrefix
<1>7. k <= n - i + 1 <=> i <= n - k + 1
  BY <1>2
<1>8. ASSUME k <= n - i + 1 PROVE SubSeq(s, 1, k) = SubSeq(hay, i, i + k - 1)
  <2>1. PICK u, w, hi : u = SubSeq(s, 1, k) /\ w = SubSeq(hay, i, hi) /\ hi = i + k - 1
    OBVIOUS
  <2>2. k \in 0 .. Len(s)
    BY <1>2, <1>4, <1>8
  <2>3. u \in Seq(Byte) /\ Len(u) = k /\ \A j \in 1 .. k : u[j] = s[j]
    BY <1>4, <2>1, <2>2, PrefixIs
  <2>4. w \in Seq(Byte) /\ Len(w) = k /\ \A j \in 1 .. k : w[j] = hay[i + j - 1]
    <3>1. i \in Nat /\ hi \in Nat /\ 1 <= i /\ i <= hi /\ hi <= Len(hay) /\ hi - i + 1 = k
      BY <1>1, <1>2, <1>8, <2>1
    <3>2. /\ w \in Seq(Byte) /\ Len(w) = hi - i + 1
          /\ \A j \in 1 .. hi - i + 1 : w[j] = hay[i + j - 1]
      BY <2>1, <3>1, SliceIs
    <3> QED BY <3>1, <3>2
  <2>5. \A j \in 1 .. k : u[j] = w[j]
    <3> TAKE j \in 1 .. k
    <3>1. j \in 1 .. n - i + 1
      BY <1>2, <1>8
    <3> QED BY <1>4, <2>3, <2>4, <3>1
  <2>6. u = w
    BY <2>3, <2>4, <2>5, SeqEqual
  <2> QED BY <2>1, <2>6
<1> QED BY <1>1, <1>3, <1>6, <1>7, <1>8

(* memmem returns the first place at which the needle is.                   *)
LEMMA MemmemIs ==
    ASSUME NEW hay \in Seq(Byte), NEW t \in Seq(Byte), t # <<>>
    PROVE  LET p == MemmemPresent(hay, t)
           IN  /\ p = 0 <=> ~\E i \in DOMAIN hay : IsPrefix(t, SubSeq(hay, i, Len(hay)))
               /\ p > 0 => /\ IsPrefix(t, SubSeq(hay, p, Len(hay)))
                           /\ ~\E i \in 1 .. p - 1 : IsPrefix(t, SubSeq(hay, i, Len(hay)))
<1>1. PICK n \in Nat, k \in Nat : n = Len(hay) /\ k = Len(t) /\ k > 0
  BY LenProperties, EmptySeq
<1>2. PICK p, last : p = MemmemPresent(hay, t) /\ last = n - k + 1
  OBVIOUS
<1>3. PICK A : A = {i \in 1 .. last : SubSeq(hay, i, i + k - 1) = t}
  OBVIOUS
<1>4. p = IF A = {} THEN 0 ELSE Min(A)
  BY <1>1, <1>2, <1>3 DEF MemmemPresent, FirstPlace
<1>5. DOMAIN hay = 1 .. n /\ A \subseteq Nat /\ last \in Int /\ last <= n
  BY <1>1, <1>2, <1>3, LenProperties
<1>6. \A i \in 1 .. n : IsPrefix(t, SubSeq(hay, i, n)) <=> i \in A
  <2> TAKE i \in 1 .. n
  <2>1. IsPrefix(t, SubSeq(hay, i, n)) <=> i <= last /\ SubSeq(hay, i, i + k - 1) = t
    BY <1>1, <1>2, PlaceIs
  <2>2. i <= last <=> i \in 1 .. last
    BY <1>5
  <2> QED BY <1>3, <2>1, <2>2
<1>7. CASE A = {}
  <2>1. p = 0
    BY <1>4, <1>7
  <2> QED BY <1>1, <1>2, <1>5, <1>6, <1>7, <2>1
<1>8. CASE A # {}
  <2>1. p \in A /\ \A i \in A : p <= i
    BY <1>4, <1>5, <1>8, MinIs
  <2>2. p \in 1 .. n /\ p \in Nat /\ p # 0
    BY <1>3, <1>5, <2>1
  <2>3. \A i \in 1 .. p - 1 : i \in 1 .. n /\ ~(p <= i)
    BY <2>2
  <2>4. \A i \in 1 .. p - 1 : ~IsPrefix(t, SubSeq(hay, i, n))
    BY <1>6, <2>1, <2>3
  <2> QED BY <1>1, <1>2, <1>5, <1>6, <2>1, <2>2, <2>4
<1> QED BY <1>7, <1>8

(* The bytes of the string, whether it is NULL or not.                      *)
LEMMA TextIs ==
    ASSUME StrInv
    PROVE  /\ Text \in Seq(Byte) /\ Len(Text) = str.len
           /\ str \in [at : Nat, len : Nat] /\ mem \in Seq(Cells)
           /\ str.at > 0 => \A i \in 1 .. str.len : Text[i] = mem[str.at + i - 1]
           /\ str.len > 0 => str.at > 0
<1>1. Base(mem, str)
  BY DEF StrInv
<1>2. str \in [at : Nat, len : Nat] /\ mem \in Seq(Cells)
  BY <1>1 DEF Base
<1>3. CASE mem = <<>>
  <2>1. str.at = 0 /\ str.len = 0
    BY <1>1, <1>3 DEF Base, NullView, View
  <2>2. PICK lo, hi : lo = str.at /\ hi = str.at + str.len - 1
    OBVIOUS
  <2>3. lo = 0 /\ hi = -1
    BY <2>1, <2>2
  <2>4. lo \in Int /\ hi \in Int /\ ~(lo <= hi) /\ \A i \in lo .. hi : mem[i] \in Byte
    BY <2>3
  <2>5. SubSeq(mem, lo, hi) \in Seq(Byte) /\ Len(SubSeq(mem, lo, hi)) = 0
    BY <2>4, SubSeqProperties
  <2>6. Text = SubSeq(mem, lo, hi)
    BY <2>2 DEF Text, BytesOf
  <2> QED BY <1>2, <2>1, <2>5, <2>6
<1>4. CASE mem # <<>>
  <2>1. str.at >= 1 /\ str.at \in Nat
    BY <1>1, <1>4 DEF Base
  <2>2. /\ BytesOf(mem, str) \in Seq(Byte) /\ Len(BytesOf(mem, str)) = str.len
        /\ \A i \in 1 .. str.len : BytesOf(mem, str)[i] = mem[str.at + i - 1]
    BY <1>1, <1>4, TextIsBytes
  <2> QED BY <1>2, <2>1, <2>2 DEF Text
<1> QED BY <1>3, <1>4

(* The bytes of a sequence of bytes.                                        *)
LEMMA RangeOfBytes ==
    ASSUME NEW b \in Seq(Byte)
    PROVE  ToSet(b) \subseteq Byte
<1>1. DOMAIN b = 1 .. Len(b)
  BY LenProperties
<1>2. \A i \in 1 .. Len(b) : b[i] \in Byte
  BY ElementOfSeq
<1> QED BY <1>1, <1>2 DEF ToSet

(* memmem finds a byte exactly when there is a last place of it, and not    *)
(* after that.                                                              *)
LEMMA FirstIsNotAfterLast ==
    ASSUME NEW b \in Seq(Byte), NEW c \in Byte
    PROVE  /\ MemmemPresent(b, <<c>>) = 0 => LastPlace(b, c) = 0
           /\ MemmemPresent(b, <<c>>) # 0 =>
                 /\ MemmemPresent(b, <<c>>) \in Nat /\ LastPlace(b, c) \in Nat
                 /\ LastPlace(b, c) >= MemmemPresent(b, <<c>>)
                 /\ MemmemPresent(b, <<c>>) > 0
<1>1. PICK n \in Nat : n = Len(b)
  BY LenProperties
<1>2. PICK t : t = <<c>>
  OBVIOUS
<1>3. t \in Seq(Byte) /\ Len(t) = 1 /\ t[1] = c
  BY <1>2
<1>4. PICK A : A = {i \in 1 .. n : b[i] = c}
  OBVIOUS
<1>5. PICK p, l, last : p = MemmemPresent(b, t) /\ l = LastPlace(b, c) /\ last = n - 1 + 1
  OBVIOUS
<1>6. l = IF A # {} THEN Max(A) ELSE 0
  BY <1>1, <1>4, <1>5 DEF LastPlace
<1>7. last = n
  BY <1>5
<1>8. ASSUME NEW i \in 1 .. n PROVE SubSeq(b, i, i + 1 - 1) = t <=> b[i] = c
  <2>1. PICK u : u = SubSeq(b, i, i)
    OBVIOUS
  <2>2. i \in Nat /\ 1 <= i /\ i <= i /\ i <= Len(b) /\ i - i + 1 = 1 /\ i + 1 - 1 = i
    BY <1>1
  <2>3. u \in Seq(Byte) /\ Len(u) = i - i + 1 /\ \A j \in 1 .. i - i + 1 : u[j] = b[i + j - 1]
    BY <2>1, <2>2, SliceIs
  <2>4. Len(u) = 1 /\ u[1] = b[i]
    <3>1. 1 \in 1 .. i - i + 1
      BY <2>2
    <3> QED BY <2>2, <2>3, <3>1
  <2>5. u = t <=> b[i] = c
    <3>1. b[i] = c => u = t
      <4> SUFFICES ASSUME b[i] = c PROVE u = t
        OBVIOUS
      <4>1. \A j \in 1 .. 1 : u[j] = t[j]
        BY <1>3, <2>4
      <4> QED BY <1>3, <2>3, <2>4, <4>1, SeqEqual
    <3> QED BY <1>3, <2>4, <3>1
  <2> QED BY <2>1, <2>2, <2>5
<1>9. {i \in 1 .. last : SubSeq(b, i, i + 1 - 1) = t} = A
  BY <1>4, <1>7, <1>8
<1>10. p = IF A = {} THEN 0 ELSE Min(A)
  BY <1>1, <1>3, <1>5, <1>9 DEF MemmemPresent, FirstPlace
<1>11. A \subseteq Nat /\ A \subseteq 0 .. n
  BY <1>4
<1>12. CASE A = {}
  BY <1>2, <1>5, <1>6, <1>10, <1>12
<1>13. CASE A # {}
  <2>1. p \in A
    BY <1>10, <1>11, <1>13, MinIs
  <2>2. l \in A /\ p <= l
    BY <1>6, <1>11, <1>13, <2>1, MaxIs
  <2>3. p \in 1 .. n /\ l \in 1 .. n
    BY <1>4, <2>1, <2>2
  <2> QED BY <1>2, <1>5, <2>2, <2>3
<1> QED BY <1>12, <1>13

LEMMA SearchesAgree ==
    ASSUME StrInv
    PROVE  SearchAgrees
<1>1. PICK b : b = Text
  OBVIOUS
<1>2. /\ b \in Seq(Byte) /\ Len(b) = str.len /\ mem \in Seq(Cells)
      /\ str \in [at : Nat, len : Nat]
      /\ str.at > 0 => \A i \in 1 .. str.len : b[i] = mem[str.at + i - 1]
      /\ str.len > 0 => str.at > 0
  BY <1>1, TextIs
<1>3. str.len > 0 => \A c \in ToSet(b) \cup Garbage :
          LET last == SelectLastInSeq(b, LAMBDA x : x = c)
          IN  Rchr(mem, str, c) = IF last = 0 THEN 0 ELSE str.at + last - 1
  <2> SUFFICES ASSUME str.len > 0, NEW c \in ToSet(b) \cup Garbage
               PROVE  LET last == SelectLastInSeq(b, LAMBDA x : x = c)
                      IN  Rchr(mem, str, c) = IF last = 0 THEN 0 ELSE str.at + last - 1
    OBVIOUS
  <2>1. str.at > 0 /\ \A i \in 1 .. str.len : b[i] = mem[str.at + i - 1]
    BY <1>2
  <2>2. Rchr(mem, str, c) = IF LastPlace(b, c) = 0 THEN 0 ELSE str.at + LastPlace(b, c) - 1
    BY <1>2, <2>1, RchrIs
  <2>3. LastPlace(b, c) = SelectLastInSeq(b, LAMBDA x : x = c)
    BY DEF LastPlace, SelectLastInSeq
  <2> QED BY <2>2, <2>3
<1>4. ASSUME NEW t \in Texts \ {<<>>}
      PROVE  LET p == MemmemPresent(b, t)
             IN  /\ p = 0 <=> ~\E i \in DOMAIN b : IsPrefix(t, SubSeq(b, i, Len(b)))
                 /\ p > 0 => /\ IsPrefix(t, SubSeq(b, p, Len(b)))
                             /\ ~\E i \in 1 .. p - 1 : IsPrefix(t, SubSeq(b, i, Len(b)))
  <2>1. t \in Seq(Byte) /\ t # <<>>
    BY TextsAssumption
  <2> QED BY <1>2, <2>1, MemmemIs
<1>5. str.len > 0 => \A c \in ToSet(b) \cup Garbage :
          LET p == MemmemPresent(b, <<c>>)
          IN  IF p = 0 THEN Rchr(mem, str, c) = 0 ELSE Rchr(mem, str, c) >= str.at + p - 1
  <2> SUFFICES ASSUME str.len > 0, NEW c \in ToSet(b) \cup Garbage
               PROVE  LET p == MemmemPresent(b, <<c>>)
                      IN  IF p = 0 THEN Rchr(mem, str, c) = 0
                          ELSE Rchr(mem, str, c) >= str.at + p - 1
    OBVIOUS
  <2>1. str.at > 0 /\ \A i \in 1 .. str.len : b[i] = mem[str.at + i - 1]
    BY <1>2
  <2>2. PICK r, p, l, at : /\ r = Rchr(mem, str, c) /\ p = MemmemPresent(b, <<c>>)
                           /\ l = LastPlace(b, c) /\ at = str.at
    OBVIOUS
  <2>3. r = IF l = 0 THEN 0 ELSE at + l - 1
    BY <1>2, <2>1, <2>2, RchrIs
  <2>4. c \in Byte
    BY <1>2, TextsAssumption, RangeOfBytes
  <2>5. /\ p = 0 => l = 0
        /\ p # 0 => p \in Nat /\ l \in Nat /\ l >= p /\ p > 0
    BY <1>2, <2>2, <2>4, FirstIsNotAfterLast
  <2>6. at \in Nat
    BY <1>2, <2>2
  <2>7. CASE p = 0
    BY <2>2, <2>3, <2>5, <2>7
  <2>8. CASE p # 0
    <3>1. r = at + l - 1
      BY <2>3, <2>5, <2>8
    <3>2. r >= at + p - 1
      BY <2>5, <2>6, <2>8, <3>1
    <3> QED BY <2>2, <2>8, <3>2
  <2> QED BY <2>7, <2>8
<1> QED BY <1>1, <1>3, <1>4, <1>5, Zenon DEF SearchAgrees

-----------------------------------------------------------------------------
(* The theorems. *)

(* After any sequence of calls of str.c the string is in its block, which   *)
(* ends with a NUL and with the neighbour's byte as long as itoa_into has   *)
(* not cut them; and then the string does not reach beyond what it cut.     *)
THEOREM StringInvariant == StrSpec => []StrInv
BY StrStarts, StrStays, PTL DEF StrSpec

(* Every view lies in the block and, but for those of itoa_into that are    *)
(* too long (str.c:100), is followed by a NUL (str.c:25, 30).               *)
THEOREM StringsInTheirBlock == StrSpec => []StrInBlock
<1>1. StrInv => StrInBlock
  <2> SUFFICES ASSUME StrInv PROVE StrInBlock
    OBVIOUS
  <2>1. Base(mem, str) /\ (~cut => Ended(mem, str)) /\ cut \in BOOLEAN
    BY DEF StrInv
  <2>2. CASE mem = <<>>
    BY <2>1, <2>2 DEF Base, StrInBlock
  <2>3. CASE mem # <<>>
    <3>1. PICK n, at, len : n = Len(mem) /\ at = str.at /\ len = str.len
      OBVIOUS
    <3>2. n \in Nat /\ at \in Nat /\ len \in Nat /\ at >= 1 /\ at + len <= n + 1
      BY <2>1, <2>3, <3>1, LenProperties DEF Base
    <3>3. at \in 1 .. n + 1 /\ len \in 0 .. n
      BY <3>2
    <3>4. ~cut => at + len < n /\ mem[n - 1] = Nul /\ mem[n] = Neighbour
      BY <2>1, <2>3, <3>1 DEF Ended
    <3> QED BY <2>3, <3>1, <3>3, <3>4 DEF StrInBlock, Last
  <2> QED BY <2>2, <2>3
<1> QED BY <1>1, StringInvariant, PTL

(* Whatever calls came before, copy, concat, reverse, lowercase and         *)
(* itoa_into write to the bytes of the string they are given and no others, *)
(* except that itoa_into may take one more (str.c:56, 66, 100).             *)
THEOREM WritesKeepToTheView == StrSpec => WritesStayInView
<1>1. StrInv /\ [StrNext]_strvars =>
          [block' = block /\ mem' # <<>> =>
              \A i \in DOMAIN mem : mem'[i] # mem[i] =>
                  \/ str.at <= i /\ i < str.at + str.len
                  \/ i = str.at + str.len /\ str' = View(str.at, str.len + 1)]_strvars
  BY StrStays DEF Untouched
<1> QED BY <1>1, StringInvariant, PTL DEF StrSpec, WritesStayInView

(* concat leaves as much of its arguments, one after the other, as there is *)
(* space for, and the rest as it was (str.h:193-195).                       *)
THEOREM ConcatFits == StrSpec => []ConcatTakesWhatFits
<1>1. StrInv => ConcatTakesWhatFits
  <2> SUFFICES ASSUME StrInv, str.at > 0, NEW t \in Texts, NEW u \in Texts
               PROVE  Concat(mem, str, <<t, u>>) =
                          Memcpy(mem, str.at,
                              [i \in 1 .. str.len |-> IF i <= Len(t \o u) THEN (t \o u)[i] ELSE Text[i]])
    BY DEF ConcatTakesWhatFits
  <2>1. PICK n, at, len, all, text, b, w, p :
            /\ n = Len(mem) /\ at = str.at /\ len = str.len /\ all = t \o u /\ text = Text
            /\ b = [i \in 1 .. len |-> IF i <= Len(all) THEN all[i] ELSE text[i]]
            /\ w = Concat(mem, str, <<t, u>>) /\ p = Memcpy(mem, at, b)
    OBVIOUS
  <2>2. /\ Base(mem, str) /\ mem \in Seq(Cells) /\ mem # <<>> /\ str \in [at : Nat, len : Nat]
        /\ n \in Nat /\ at \in Nat /\ len \in Nat
        /\ t \in Seq(Byte) /\ u \in Seq(Byte)
    BY <2>1, InBlock, TextsAssumption
  <2>3. all \in Seq(Byte) /\ Len(all) \in Nat
    BY <2>1, <2>2, ConcatProperties, LenProperties
  <2>4. /\ text \in Seq(Byte) /\ Len(text) = len
        /\ \A i \in 1 .. len : text[i] = mem[at + i - 1]
    BY <2>1, <2>2, TextIsBytes DEF Text
  <2>5. ASSUME NEW i \in 1 .. len PROVE b[i] \in Byte
    <3>1. i <= Len(all) => all[i] \in Byte
      BY <2>3, ElementOfSeq
    <3>2. text[i] \in Byte
      BY <2>4, ElementOfSeq
    <3> QED BY <2>1, <3>1, <3>2
  <2>6. b \in Seq(Byte) /\ Len(b) = len
    <3>1. b \in [1 .. len -> Byte]
      BY <2>1, <2>5
    <3>2. b \in Seq(Byte)
      BY <2>2, <3>1, SeqDef
    <3>3. Len(b) \in Nat /\ 1 .. Len(b) = 1 .. len
      BY <3>1, <3>2, LenProperties
    <3> QED BY <2>2, <3>2, <3>3
  <2>7. /\ p \in Seq(Cells) /\ Len(p) = n
        /\ \A i \in 1 .. n : p[i] = IF at <= i /\ i < at + len THEN b[i - at + 1] ELSE mem[i]
    <3>1. /\ Writes(mem, Memcpy(mem, at, b), at, Len(b))
          /\ \A i \in 1 .. Len(mem) :
                Memcpy(mem, at, b)[i] = IF at <= i /\ i < at + Len(b) THEN b[i - at + 1] ELSE mem[i]
      BY <2>2, <2>6, PutIs
    <3>2. Memcpy(mem, at, b) \in Seq(Cells) /\ Len(Memcpy(mem, at, b)) = Len(mem)
      BY <3>1 DEF Writes
    <3> QED BY <2>1, <2>6, <3>1, <3>2
  <2>8. /\ w \in Seq(Cells) /\ Len(w) = n
        /\ \A i \in 1 .. n :
              w[i] = IF at <= i /\ i < at + len /\ i - at + 1 <= Len(all) THEN all[i - at + 1] ELSE mem[i]
    BY <2>1, <2>2, ConcatWrites
  <2>9. ASSUME NEW i \in 1 .. n PROVE w[i] = p[i]
    <3>1. CASE at <= i /\ i < at + len
      <4>1. PICK j : j = i - at + 1
        OBVIOUS
      <4>2. j \in 1 .. len /\ at + j - 1 = i
        BY <2>2, <3>1, <4>1
      <4>3. b[j] = IF j <= Len(all) THEN all[j] ELSE mem[i]
        BY <2>1, <2>4, <4>2
      <4> QED BY <2>7, <2>8, <3>1, <4>1, <4>3
    <3>2. CASE ~(at <= i /\ i < at + len)
      BY <2>7, <2>8, <3>2
    <3> QED BY <3>1, <3>2
  <2>10. w = p
    BY <2>7, <2>8, <2>9, SeqEqual
  <2> QED BY <2>1, <2>10
<1> QED BY <1>1, StringInvariant, PTL

(* Whatever calls led to the string: if it is not empty, rchr finds the     *)
(* last place of a byte (str.c:138); the memmem of a platform that has one  *)
(* finds the first place of a needle, a single byte exactly when rchr finds *)
(* it and not after; cmp and cmpi compare strings of one length as far as   *)
(* their first NUL (str.c:112, 121); strings of the same bytes are equal,   *)
(* equal ones of which one is without NUL have the same bytes to hash       *)
(* (str.h:275, 286), and the lowercase string is ASCII exactly when the     *)
(* string is (str.c:83, 128).                                               *)
THEOREM AnswersAlwaysAgree == StrSpec => []AnswersAgree
<1>1. StrInv => AnswersAgree
  BY TextIs, ComparisonsAgree, SearchesAgree DEF AnswersAgree
<1> QED BY <1>1, StringInvariant, PTL

(* itoa_into writes the digits of its number: all of them, or as many low   *)
(* ones as there is room for, and that is one byte more than the string     *)
(* has (str.c:94-104).                                                      *)
THEOREM NumbersReadBack == StrSpec => []ItoaReadsBack
<1>1. StrInv => ItoaReadsBack
  <2> SUFFICES ASSUME StrInv, NEW v \in Numbers
               PROVE  /\ Reading(Digits(ItoaLoops(str.len, v), v)) = v % Tens(ItoaLoops(str.len, v))
                      /\ ItoaLoops(str.len, v) < NumDigits(v) <=> str.len + 1 < NumDigits(v)
    BY DEF ItoaReadsBack
  <2>1. PICK len, n : len = str.len /\ n = ItoaLoops(len, v)
    OBVIOUS
  <2>2. len \in Nat /\ v \in Nat
    BY <2>1, TextIs, TextsAssumption
  <2>3. n \in Nat
    <3>1. n \in 1 .. len + 1
      BY <2>1, <2>2, LoopsOfItoa
    <3> QED BY <2>2, <3>1
  <2>4. Reading(Digits(n, v)) = v % Tens(n)
    BY <2>2, <2>3, DigitsMakeNumber
  <2>5. ItoaLoops(len, v) < NumDigits(v) <=> len + 1 < NumDigits(v)
    BY <2>2, LoopIsCutShort
  <2> QED BY <2>1, <2>4, <2>5
<1> QED BY <1>1, StringInvariant, PTL

=============================================================================
