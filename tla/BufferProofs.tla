---------------------------- MODULE BufferProofs ----------------------------
(***************************************************************************)
(* Proofs of the properties of Buffer.  The helpers of buffer.h are        *)
(* functions from buffer to buffer, so that most is said by lemmas about   *)
(* them: what each leaves of the contents and of the order of the indices. *)
(* The steps compose the helpers, and their proofs compose the lemmas.     *)
(***************************************************************************)
EXTENDS Buffer, SequenceTheorems, WellFoundedInduction, TLAPS

Mem == Bytes \cup {NUL, Junk}

(* A buffer whose indices are in order and inside its memory.               *)
Sound(b) ==
    /\ b \in [mem : Seq(Mem), head : Nat, tail : Nat]
    /\ b.head <= b.tail /\ b.tail <= Len(b.mem)

(* A memory is a function on its addresses.                                 *)
LEMMA MemOf ==
    ASSUME NEW n \in Nat, NEW m \in [1 .. n -> Mem]
    PROVE  m \in Seq(Mem) /\ Len(m) = n
<1> HIDE DEF Mem
<1>1. m \in Seq(Mem)
  BY SeqDef
<1>2. DOMAIN m = 1 .. Len(m) /\ Len(m) \in Nat
  BY <1>1, LenProperties
<1> QED BY <1>1, <1>2

-----------------------------------------------------------------------------
(* The contents, byte by byte. *)

LEMMA ContentsBytes ==
    ASSUME NEW b, Sound(b)
    PROVE  /\ Length(b) \in Nat
           /\ Contents(b) \in Seq(Mem)
           /\ Len(Contents(b)) = Length(b)
           /\ \A j \in 1 .. Length(b) : Contents(b)[j] = b.mem[b.head + j]
<1>1. /\ b.mem \in Seq(Mem) /\ b.head \in Nat /\ b.tail \in Nat
      /\ b.head <= b.tail /\ b.tail <= Len(b.mem) /\ Len(b.mem) \in Nat
  BY DEF Sound
<1>2. \A i \in b.head + 1 .. b.tail : b.mem[i] \in Mem
  BY <1>1, ElementOfSeq
<1>3. /\ SubSeq(b.mem, b.head + 1, b.tail) \in Seq(Mem)
      /\ Len(SubSeq(b.mem, b.head + 1, b.tail)) =
             IF b.head + 1 <= b.tail THEN b.tail - (b.head + 1) + 1 ELSE 0
      /\ \A i \in 1 .. b.tail - (b.head + 1) + 1 :
             SubSeq(b.mem, b.head + 1, b.tail)[i] = b.mem[b.head + 1 + i - 1]
  <2>1. b.head + 1 \in Int /\ b.tail \in Int
    BY <1>1
  <2> HIDE DEF Mem
  <2> QED BY <1>2, <2>1, SubSeqProperties
<1>4. \A i \in 1 .. Length(b) : b.head + 1 + i - 1 = b.head + i
  BY <1>1 DEF Length
<1>5. Length(b) \in Nat /\ Length(b) = b.tail - (b.head + 1) + 1
  BY <1>1 DEF Length
<1>6. Len(Contents(b)) = Length(b)
  BY <1>1, <1>3 DEF Contents, Length
<1>7. \A j \in 1 .. Length(b) : Contents(b)[j] = b.mem[b.head + j]
  BY <1>3, <1>4, <1>5 DEF Contents
<1> QED BY <1>3, <1>5, <1>6, <1>7 DEF Contents

(* Two buffers that hold the same bytes.                                    *)
LEMMA SameContents ==
    ASSUME NEW b, NEW c, Sound(b), Sound(c), Length(b) = Length(c),
           \A j \in 1 .. Length(b) : c.mem[c.head + j] = b.mem[b.head + j]
    PROVE  Contents(c) = Contents(b)
<1> HIDE DEF Mem
<1>1. /\ Contents(b) \in Seq(Mem) /\ Contents(c) \in Seq(Mem)
      /\ Len(Contents(c)) = Len(Contents(b))
      /\ \A j \in 1 .. Len(Contents(c)) : Contents(c)[j] = Contents(b)[j]
  BY ContentsBytes
<1> QED BY <1>1, SeqEqual

-----------------------------------------------------------------------------
(* Making room leaves the contents alone. *)

LEMMA ResetIfEmptyKeeps ==
    ASSUME NEW b, Sound(b)
    PROVE  LET r == ResetIfEmpty(b)
           IN  /\ Sound(r) /\ r.mem = b.mem
               /\ Length(r) = Length(b) /\ Contents(r) = Contents(b)
               /\ r.head = r.tail => r.head = 0
<1> DEFINE r == ResetIfEmpty(b)
<1>1. /\ Sound(r) /\ r.mem = b.mem /\ Length(r) = Length(b)
      /\ r.head = r.tail => r.head = 0
      /\ b.head # b.tail => r = b
  <2>1. CASE b.head = b.tail
    <3>1. r = [mem |-> b.mem, head |-> 0, tail |-> 0]
      BY <2>1 DEF Sound, ResetIfEmpty, Reset
    <3>2. Len(b.mem) \in Nat
      BY DEF Sound
    <3> QED BY <2>1, <3>1, <3>2 DEF Sound, Length
  <2>2. CASE b.head # b.tail
    BY <2>2 DEF ResetIfEmpty
  <2> QED BY <2>1, <2>2
<1>2. b.head = b.tail => Length(b) = 0
  BY DEF Sound, Length
<1>3. \A j \in 1 .. Length(b) : r.mem[r.head + j] = b.mem[b.head + j]
  BY <1>1, <1>2
<1> HIDE DEF r
<1> QED BY <1>1, <1>3, SameContents DEF r

LEMMA CompactKeeps ==
    ASSUME NEW b, Sound(b)
    PROVE  LET c == Compact(b)
           IN  /\ Sound(c) /\ Len(c.mem) = Len(b.mem)
               /\ c.head = 0 /\ c.tail = Length(b)
               /\ Length(c) = Length(b) /\ Contents(c) = Contents(b)
<1> DEFINE rest == SubSeq(b.mem, Length(b) + 1, Len(b.mem))
           c == Compact(b)
<1>1. /\ b.mem \in Seq(Mem) /\ b.head \in Nat /\ b.tail \in Nat
      /\ b.head <= b.tail /\ b.tail <= Len(b.mem) /\ Len(b.mem) \in Nat
      /\ Length(b) \in Nat /\ Length(b) <= Len(b.mem)
  BY DEF Sound, Length
<1>2. /\ Contents(b) \in Seq(Mem) /\ Len(Contents(b)) = Length(b)
      /\ \A j \in 1 .. Length(b) : Contents(b)[j] = b.mem[b.head + j]
  BY ContentsBytes
<1>3. rest \in Seq(Mem) /\ Len(rest) = Len(b.mem) - Length(b)
  <2>1. \A i \in Length(b) + 1 .. Len(b.mem) : b.mem[i] \in Mem
    BY <1>1, ElementOfSeq
  <2>2. Length(b) + 1 \in Int /\ Len(b.mem) \in Int
    BY <1>1
  <2>3. /\ rest \in Seq(Mem)
        /\ Len(rest) = IF Length(b) + 1 <= Len(b.mem) THEN Len(b.mem) - (Length(b) + 1) + 1 ELSE 0
    <3> HIDE DEF Mem
    <3> QED BY <2>1, <2>2, SubSeqProperties
  <2> QED BY <2>3, <1>1
<1> HIDE DEF Mem, rest
<1>4. /\ Contents(b) \o rest \in Seq(Mem)
      /\ Len(Contents(b) \o rest) = Len(b.mem)
      /\ \A j \in 1 .. Length(b) : (Contents(b) \o rest)[j] = Contents(b)[j]
  <2>1. /\ Contents(b) \o rest \in Seq(Mem)
        /\ Len(Contents(b) \o rest) = Len(Contents(b)) + Len(rest)
        /\ \A i \in 1 .. Len(Contents(b)) + Len(rest) : (Contents(b) \o rest)[i] =
              IF i <= Len(Contents(b)) THEN Contents(b)[i] ELSE rest[i - Len(Contents(b))]
    BY <1>2, <1>3, ConcatProperties
  <2>2. \A j \in 1 .. Length(b) : j \in 1 .. Length(b) + Len(rest) /\ j <= Length(b)
    BY <1>1, <1>3
  <2> QED BY <2>1, <2>2, <1>1, <1>2, <1>3
<1>5. c = [mem |-> Contents(b) \o rest, head |-> 0, tail |-> Length(b)]
  BY DEF Compact, rest
<1>6. Sound(c) /\ Length(c) = Length(b)
  BY <1>1, <1>4, <1>5 DEF Sound, Length
<1>7. \A j \in 1 .. Length(b) : c.mem[c.head + j] = b.mem[b.head + j]
  BY <1>2, <1>4, <1>5
<1>8. Contents(c) = Contents(b)
  <2> HIDE DEF c
  <2> QED BY <1>6, <1>7, SameContents
<1> QED BY <1>4, <1>5, <1>6, <1>8

LEMMA GrowKeeps ==
    ASSUME NEW b, Sound(b), Len(b.mem) <= MaxCap
    PROVE  LET c == Grow(b)
           IN  /\ Sound(c) /\ Len(c.mem) = MaxCap
               /\ c.head = b.head /\ c.tail = b.tail
               /\ Length(c) = Length(b) /\ Contents(c) = Contents(b)
<1> DEFINE more == [n \in 1 .. MaxCap - Len(b.mem) |-> Junk]
           c == Grow(b)
<1>1. /\ b.mem \in Seq(Mem) /\ b.head \in Nat /\ b.tail \in Nat
      /\ b.head <= b.tail /\ b.tail <= Len(b.mem) /\ Len(b.mem) \in Nat
      /\ Length(b) \in Nat /\ MaxCap \in Nat
  BY CapAssumption DEF Sound, Length
<1>2. more \in Seq(Mem) /\ Len(more) = MaxCap - Len(b.mem)
  <2>1. MaxCap - Len(b.mem) \in Nat
    BY <1>1
  <2>2. more \in [1 .. MaxCap - Len(b.mem) -> Mem]
    BY DEF Mem
  <2> HIDE DEF more
  <2> QED BY <2>1, <2>2, MemOf
<1> HIDE DEF Mem, more
<1>3. /\ b.mem \o more \in Seq(Mem)
      /\ Len(b.mem \o more) = MaxCap
      /\ \A i \in 1 .. Len(b.mem) : (b.mem \o more)[i] = b.mem[i]
  <2>1. /\ b.mem \o more \in Seq(Mem)
        /\ Len(b.mem \o more) = Len(b.mem) + Len(more)
        /\ \A i \in 1 .. Len(b.mem) + Len(more) : (b.mem \o more)[i] =
              IF i <= Len(b.mem) THEN b.mem[i] ELSE more[i - Len(b.mem)]
    BY <1>1, <1>2, ConcatProperties
  <2>2. \A i \in 1 .. Len(b.mem) : i \in 1 .. Len(b.mem) + Len(more) /\ i <= Len(b.mem)
    BY <1>1, <1>2
  <2> QED BY <2>1, <2>2, <1>1, <1>2
<1>4. c = [mem |-> b.mem \o more, head |-> b.head, tail |-> b.tail]
  <2>1. c = [b EXCEPT !.mem = b.mem \o more]
    BY DEF Grow, more
  <2> QED BY <2>1 DEF Sound
<1>5. Sound(c) /\ Length(c) = Length(b)
  BY <1>1, <1>3, <1>4 DEF Sound, Length
<1>6. \A j \in 1 .. Length(b) : c.mem[c.head + j] = b.mem[b.head + j]
  BY <1>1, <1>3, <1>4 DEF Length
<1>7. Contents(c) = Contents(b)
  <2> HIDE DEF c
  <2> QED BY <1>5, <1>6, SameContents
<1> QED BY <1>3, <1>4, <1>5, <1>7

LEMMA EnsureCapKeeps ==
    ASSUME NEW b, Sound(b), Len(b.mem) <= MaxCap, NEW n \in Nat
    PROVE  LET e == EnsureCap(b, n)
           IN  /\ Sound(e) /\ Len(b.mem) <= Len(e.mem) /\ Len(e.mem) <= MaxCap
               /\ Length(e) = Length(b) /\ Contents(e) = Contents(b)
<1> DEFINE r == ResetIfEmpty(b)
<1>1. Sound(r) /\ r.mem = b.mem /\ Length(r) = Length(b) /\ Contents(r) = Contents(b)
  BY ResetIfEmptyKeeps
<1>2. MaxCap \in Nat /\ Len(b.mem) \in Nat
  BY CapAssumption DEF Sound
<1> DEFINE c == Compact(r)
           g == Grow(r)
<1>3. /\ Sound(c) /\ Len(c.mem) = Len(r.mem)
      /\ Length(c) = Length(r) /\ Contents(c) = Contents(r)
  <2> HIDE DEF r
  <2> QED BY <1>1, CompactKeeps
<1>4. /\ Sound(g) /\ Len(g.mem) = MaxCap
      /\ Length(g) = Length(r) /\ Contents(g) = Contents(r)
  <2>1. Len(r.mem) <= MaxCap
    BY <1>1
  <2> HIDE DEF r
  <2> QED BY <1>1, <2>1, GrowKeeps
<1>5. EnsureCap(b, n) \in {r, c, g}
  BY DEF EnsureCap
<1> HIDE DEF r, c, g
<1>6. CASE EnsureCap(b, n) = r
  BY <1>1, <1>2, <1>6
<1>7. CASE EnsureCap(b, n) = c
  BY <1>1, <1>2, <1>3, <1>7
<1>8. CASE EnsureCap(b, n) = g
  BY <1>1, <1>2, <1>4, <1>8
<1> QED BY <1>5, <1>6, <1>7, <1>8

(* It refuses for want of MaxCap alone.                                     *)
LEMMA RefusesWhenFull ==
    ASSUME NEW b, Sound(b), NEW n \in Nat
    PROVE  Refuses(b, n) => Length(b) + n > MaxCap
BY ResetIfEmptyKeeps DEF Refuses

(* And it refuses whenever they would.                                      *)
LEMMA RefusesExactly ==
    ASSUME NEW b, Sound(b), Len(b.mem) <= MaxCap, NEW n \in Nat
    PROVE  Refuses(b, n) <=> Length(b) + n > MaxCap
<1> DEFINE r == ResetIfEmpty(b)
<1>1. Sound(b) /\ Sound(r) /\ r.mem = b.mem /\ Length(r) = Length(b)
  BY ResetIfEmptyKeeps
<1>2. /\ MaxCap \in Nat /\ Len(r.mem) \in Nat /\ Len(r.mem) <= MaxCap
      /\ r.head \in Nat /\ r.tail \in Nat /\ r.head <= r.tail
      /\ Length(r) = r.tail - r.head /\ Space(r) = Len(r.mem) - r.tail
  BY <1>1, CapAssumption DEF Sound, Length, Space
<1>3. Refuses(b, n) <=> Space(r) < n /\ Length(r) + n > MaxCap
  BY DEF Refuses
<1> HIDE DEF r
<1> QED BY <1>1, <1>2, <1>3

(* Room for one byte is room where it is needed: what is left over is in    *)
(* front of head, and is moved, or there is none, and the memory grows.     *)
LEMMA EnsureCapOne ==
    ASSUME NEW b, Sound(b), Len(b.mem) <= MaxCap, ~Refuses(b, 1)
    PROVE  /\ Space(EnsureCap(b, 1)) >= 1
           /\ Length(b) + 1 <= MaxCap
<1> DEFINE r == ResetIfEmpty(b)
<1>1. Sound(r) /\ r.mem = b.mem /\ Length(r) = Length(b)
  BY ResetIfEmptyKeeps
<1>2. /\ MaxCap \in Nat /\ Len(r.mem) \in Nat /\ Length(r) \in Nat
      /\ r.head \in Nat /\ r.tail \in Nat /\ r.head <= r.tail /\ r.tail <= Len(r.mem)
      /\ Length(r) = r.tail - r.head /\ Len(r.mem) <= MaxCap
  BY <1>1, CapAssumption DEF Sound, Length
<1>3. Space(r) \in Int /\ Space(r) = Len(r.mem) - r.tail
  BY <1>2 DEF Space
<1>4. Length(r) + 1 <= MaxCap
  <2>1. Space(r) >= 1 \/ Length(r) + 1 <= MaxCap
    BY <1>2, <1>3 DEF Refuses
  <2> HIDE DEF r
  <2> QED BY <2>1, <1>2, <1>3
<1>5. CASE Space(r) >= 1
  BY <1>1, <1>4, <1>5 DEF EnsureCap
<1>6. CASE ~(Space(r) >= 1) /\ Cap(r) >= 1
  <2>1. EnsureCap(b, 1) = Compact(r)
    BY <1>6 DEF EnsureCap
  <2> HIDE DEF r
  <2>2. Compact(r).tail = Length(r) /\ Len(Compact(r).mem) = Len(r.mem)
    BY <1>1, CompactKeeps
  <2> QED BY <2>1, <2>2, <1>1, <1>2, <1>4, <1>6 DEF Space, Cap
<1>7. CASE ~(Space(r) >= 1) /\ ~(Cap(r) >= 1)
  <2>1. EnsureCap(b, 1) = Grow(r)
    BY <1>7 DEF EnsureCap
  <2> HIDE DEF r
  <2>2. Grow(r).tail = r.tail /\ Len(Grow(r).mem) = MaxCap
    BY <1>1, <1>2, GrowKeeps
  <2>3. r.head = 0
    BY <1>2, <1>3, <1>7 DEF Cap
  <2> QED BY <2>1, <2>2, <2>3, <1>1, <1>2, <1>4 DEF Space
<1> QED BY <1>5, <1>6, <1>7

-----------------------------------------------------------------------------
(* What is put at the tail follows the contents. *)

LEMMA PutPart ==
    ASSUME NEW b, Sound(b), NEW s \in Seq(Mem), NEW k \in 0 .. Len(s), Len(s) <= Space(b)
    PROVE  LET c == [Put(b, s) EXCEPT !.tail = b.tail + k]
           IN  /\ Sound(c) /\ Len(c.mem) = Len(b.mem) /\ c.head = b.head
               /\ Length(c) = Length(b) + k
               /\ \A j \in 1 .. Length(b) + k :
                     Contents(c)[j] = IF j <= Length(b) THEN Contents(b)[j] ELSE s[j - Length(b)]
<1> DEFINE m == [n \in DOMAIN b.mem |->
                    IF n - b.tail \in DOMAIN s THEN s[n - b.tail] ELSE b.mem[n]]
           c == [Put(b, s) EXCEPT !.tail = b.tail + k]
<1>1. /\ b.mem \in Seq(Mem) /\ b.head \in Nat /\ b.tail \in Nat
      /\ b.head <= b.tail /\ b.tail <= Len(b.mem) /\ Len(b.mem) \in Nat
      /\ Length(b) \in Nat /\ Length(b) = b.tail - b.head
      /\ Len(s) \in Nat /\ b.tail + Len(s) <= Len(b.mem)
  BY DEF Sound, Length, Space
<1>2. DOMAIN b.mem = 1 .. Len(b.mem) /\ DOMAIN s = 1 .. Len(s)
  BY <1>1, LenProperties
<1>3. m \in Seq(Mem) /\ Len(m) = Len(b.mem)
  <2>1. ASSUME NEW n \in 1 .. Len(b.mem)
        PROVE  (IF n - b.tail \in DOMAIN s THEN s[n - b.tail] ELSE b.mem[n]) \in Mem
    <3> HIDE DEF Mem
    <3>1. CASE n - b.tail \in 1 .. Len(s)
      BY <1>2, <3>1, ElementOfSeq
    <3>2. CASE n - b.tail \notin 1 .. Len(s)
      BY <1>1, <1>2, <3>2, ElementOfSeq
    <3> QED BY <3>1, <3>2
  <2>2. m \in [1 .. Len(b.mem) -> Mem]
    BY <1>2, <2>1
  <2> HIDE DEF m
  <2> QED BY <1>1, <2>2, MemOf
<1>10. \A n \in 1 .. Len(b.mem) :
          m[n] = IF n - b.tail \in 1 .. Len(s) THEN s[n - b.tail] ELSE b.mem[n]
  BY <1>2
<1>4. c = [mem |-> m, head |-> b.head, tail |-> b.tail + k]
  <2>1. Put(b, s) = [b EXCEPT !.mem = m, !.tail = b.tail + Len(s)]
    BY DEF Put
  <2>2. b = [mem |-> b.mem, head |-> b.head, tail |-> b.tail]
    BY DEF Sound
  <2> HIDE DEF m
  <2>3. Put(b, s) = [mem |-> m, head |-> b.head, tail |-> b.tail + Len(s)]
    BY <2>1, <2>2
  <2> QED BY <2>3
<1> HIDE DEF m, c, Mem
<1>5. /\ \A j \in 1 .. Length(b) : m[b.head + j] = b.mem[b.head + j]
      /\ \A j \in Length(b) + 1 .. Length(b) + k : m[b.head + j] = s[j - Length(b)]
  <2>1. ASSUME NEW j \in 1 .. Length(b)
        PROVE  m[b.head + j] = b.mem[b.head + j]
    <3>1. b.head + j \in 1 .. Len(b.mem) /\ b.head + j - b.tail \notin 1 .. Len(s)
      BY <1>1
    <3>2. PICK n : n = b.head + j
      OBVIOUS
    <3>3. n \in 1 .. Len(b.mem) /\ n - b.tail \notin 1 .. Len(s)
      BY <1>1, <3>1, <3>2
    <3>4. m[n] = b.mem[n]
      BY <3>3, <1>10
    <3> QED BY <3>2, <3>4
  <2>2. ASSUME NEW j \in Length(b) + 1 .. Length(b) + k
        PROVE  m[b.head + j] = s[j - Length(b)]
    <3>1. j \in Int /\ Length(b) + 1 <= j /\ j <= Length(b) + Len(s)
      BY <1>1
    <3>2. b.head + j - b.tail = j - Length(b)
      BY <1>1, <3>1
    <3>3. b.head + j \in 1 .. Len(b.mem)
      <4>1. b.head + j <= b.tail + Len(s)
        BY <1>1, <3>1
      <4>2. b.tail + Len(s) <= Len(b.mem)
        BY <1>1
      <4>3. b.head + j \in Int /\ 1 <= b.head + j
        BY <1>1, <3>1
      <4>4. b.tail + Len(s) \in Int /\ Len(b.mem) \in Int
        BY <1>1
      <4> QED BY <4>1, <4>2, <4>3, <4>4
    <3>4. j - Length(b) \in 1 .. Len(s)
      BY <1>1, <3>1
    <3>5. PICK n : n = b.head + j
      OBVIOUS
    <3>6. PICK p : p = j - Length(b)
      OBVIOUS
    <3>7. n \in 1 .. Len(b.mem) /\ p \in 1 .. Len(s)
      BY <3>3, <3>4, <3>5, <3>6
    <3>9. n - b.tail = p
      BY <1>1, <3>1, <3>5, <3>6
    <3>8. m[n] = s[p]
      BY <3>7, <3>9, <1>10
    <3> QED BY <3>5, <3>6, <3>8
  <2> QED BY <2>1, <2>2
<1>6. Sound(c) /\ Length(c) = Length(b) + k
  BY <1>1, <1>3, <1>4 DEF Sound, Length
<1>7. \A j \in 1 .. Length(b) + k : Contents(c)[j] = m[b.head + j]
  <2>1. \A j \in 1 .. Length(c) : Contents(c)[j] = c.mem[c.head + j]
    BY <1>6, ContentsBytes
  <2> QED BY <2>1, <1>4, <1>6
<1>8. \A j \in 1 .. Length(b) : Contents(b)[j] = b.mem[b.head + j]
  BY ContentsBytes
<1>9. \A j \in 1 .. Length(b) + k :
          Contents(c)[j] = IF j <= Length(b) THEN Contents(b)[j] ELSE s[j - Length(b)]
  <2> TAKE j \in 1 .. Length(b) + k
  <2>1. CASE j <= Length(b)
    BY <2>1, <1>1, <1>5, <1>7, <1>8
  <2>2. CASE ~(j <= Length(b))
    <3>1. j \in Length(b) + 1 .. Length(b) + k
      BY <2>2, <1>1
    <3> QED BY <2>2, <3>1, <1>5, <1>7
  <2> QED BY <2>1, <2>2
<1> QED BY <1>3, <1>4, <1>6, <1>9 DEF c

(* Of what is put there, the part that is reported follows the contents.    *)
LEMMA PutPrefix ==
    ASSUME NEW b, Sound(b), NEW s \in Seq(Mem), Len(s) <= Space(b),
           NEW t \in Seq(Mem), Len(t) <= Len(s), \A j \in 1 .. Len(t) : s[j] = t[j]
    PROVE  LET c == [Put(b, s) EXCEPT !.tail = b.tail + Len(t)]
           IN  /\ Sound(c) /\ Len(c.mem) = Len(b.mem)
               /\ Length(c) = Length(b) + Len(t) /\ Contents(c) = Contents(b) \o t
<1> HIDE DEF Mem
<1> DEFINE c == [Put(b, s) EXCEPT !.tail = b.tail + Len(t)]
<1>1. Len(t) \in Nat /\ Len(s) \in Nat /\ Length(b) \in Nat
  BY ContentsBytes
<1>2. /\ Sound(c) /\ Len(c.mem) = Len(b.mem) /\ Length(c) = Length(b) + Len(t)
      /\ \A j \in 1 .. Length(b) + Len(t) :
            Contents(c)[j] = IF j <= Length(b) THEN Contents(b)[j] ELSE s[j - Length(b)]
  <2>1. Len(t) \in 0 .. Len(s)
    BY <1>1
  <2> QED BY <2>1, PutPart
<1> HIDE DEF c
<1>3. /\ Contents(c) \in Seq(Mem) /\ Len(Contents(c)) = Length(c)
      /\ Contents(b) \in Seq(Mem) /\ Len(Contents(b)) = Length(b)
  BY <1>2, ContentsBytes
<1>4. /\ Contents(b) \o t \in Seq(Mem)
      /\ Len(Contents(b) \o t) = Len(Contents(b)) + Len(t)
      /\ \A i \in 1 .. Len(Contents(b)) + Len(t) : (Contents(b) \o t)[i] =
            IF i <= Len(Contents(b)) THEN Contents(b)[i] ELSE t[i - Len(Contents(b))]
  BY <1>3, ConcatProperties
<1>5. ASSUME NEW j \in 1 .. Length(b) + Len(t)
      PROVE  Contents(c)[j] = (Contents(b) \o t)[j]
  <2>1. CASE j <= Length(b)
    BY <2>1, <1>2, <1>3, <1>4
  <2>2. CASE ~(j <= Length(b))
    <3>1. PICK k : k = j - Length(b)
      OBVIOUS
    <3>2. k \in 1 .. Len(t)
      BY <1>1, <2>2, <3>1
    <3>3. Contents(c)[j] = s[k]
      BY <1>2, <2>2, <3>1
    <3>4. (Contents(b) \o t)[j] = t[k]
      BY <1>3, <1>4, <2>2, <3>1
    <3> QED BY <3>2, <3>3, <3>4
  <2> QED BY <2>1, <2>2
<1>6. Contents(c) = Contents(b) \o t
  BY <1>2, <1>3, <1>4, <1>5, SeqEqual
<1> QED BY <1>2, <1>6 DEF c

LEMMA PutAppends ==
    ASSUME NEW b, Sound(b), NEW s \in Seq(Mem), Len(s) <= Space(b)
    PROVE  LET c == Put(b, s)
           IN  /\ Sound(c) /\ Len(c.mem) = Len(b.mem)
               /\ Length(c) = Length(b) + Len(s) /\ Contents(c) = Contents(b) \o s
<1> DEFINE c == [Put(b, s) EXCEPT !.tail = b.tail + Len(s)]
<1>1. c = Put(b, s)
  BY DEF Put, Sound
<1>2. /\ Sound(c) /\ Len(c.mem) = Len(b.mem)
      /\ Length(c) = Length(b) + Len(s) /\ Contents(c) = Contents(b) \o s
  <2>1. Len(s) <= Len(s) /\ \A j \in 1 .. Len(s) : s[j] = s[j]
    OBVIOUS
  <2> HIDE DEF Mem
  <2> QED BY <2>1, PutPrefix
<1> HIDE DEF c
<1> QED BY <1>1, <1>2

-----------------------------------------------------------------------------
(* Reading. *)

(* A buffer that holds the last bytes of another.                           *)
LEMMA RestOf ==
    ASSUME NEW b, Sound(b), NEW d, Sound(d), NEW n \in 0 .. Length(b),
           Length(d) = Length(b) - n,
           \A j \in 1 .. Length(d) : Contents(d)[j] = Contents(b)[n + j]
    PROVE  Contents(d) = SubSeq(Contents(b), n + 1, Length(b))
<1> HIDE DEF Mem
<1>1. /\ Contents(b) \in Seq(Mem) /\ Len(Contents(b)) = Length(b)
      /\ Contents(d) \in Seq(Mem) /\ Len(Contents(d)) = Length(d)
      /\ Length(b) \in Nat /\ Length(d) \in Nat /\ n \in Nat /\ n <= Length(b)
  BY ContentsBytes
<1>2. \A i \in n + 1 .. Length(b) : Contents(b)[i] \in Mem
  BY <1>1, ElementOfSeq
<1>3. n + 1 \in Int /\ Length(b) \in Int
  BY <1>1
<1> DEFINE rest == SubSeq(Contents(b), n + 1, Length(b))
<1>4. /\ rest \in Seq(Mem)
      /\ Len(rest) = IF n + 1 <= Length(b) THEN Length(b) - (n + 1) + 1 ELSE 0
      /\ \A i \in 1 .. Length(b) - (n + 1) + 1 : rest[i] = Contents(b)[n + 1 + i - 1]
  BY <1>2, <1>3, SubSeqProperties
<1> HIDE DEF rest
<1>5. Len(rest) = Length(d)
  BY <1>1, <1>4
<1>6. \A i \in 1 .. Length(d) : n + 1 + i - 1 = n + i /\ i \in 1 .. Length(b) - (n + 1) + 1
  BY <1>1
<1>7. \A i \in 1 .. Length(d) : rest[i] = Contents(d)[i]
  BY <1>4, <1>6
<1>8. rest = Contents(d)
  BY <1>1, <1>4, <1>5, <1>7, SeqEqual
<1> QED BY <1>8 DEF rest

LEMMA TookKeeps ==
    ASSUME NEW b, Sound(b), NEW n \in 0 .. Length(b)
    PROVE  LET t == Took(b, n)
           IN  /\ Sound(t) /\ t.mem = b.mem
               /\ Length(t) = Length(b) - n
               /\ \A j \in 1 .. Length(t) : Contents(t)[j] = Contents(b)[n + j]
               /\ Contents(t) = SubSeq(Contents(b), n + 1, Length(b))
               /\ t.head = t.tail \/ (t.head = b.head + n /\ t.tail = b.tail)
<1> DEFINE d == [b EXCEPT !.head = @ + n]
           t == Took(b, n)
<1>1. /\ b.mem \in Seq(Mem) /\ b.head \in Nat /\ b.tail \in Nat
      /\ b.head <= b.tail /\ b.tail <= Len(b.mem) /\ Len(b.mem) \in Nat
      /\ Length(b) \in Nat /\ Length(b) = b.tail - b.head
      /\ n \in Nat /\ n <= Length(b)
  BY DEF Sound, Length
<1>2. d = [mem |-> b.mem, head |-> b.head + n, tail |-> b.tail]
  BY DEF Sound
<1>3. Sound(d) /\ Length(d) = Length(b) - n
  BY <1>1, <1>2 DEF Sound, Length
<1>4. /\ Sound(t) /\ t.mem = d.mem /\ Length(t) = Length(d) /\ Contents(t) = Contents(d)
  <2> HIDE DEF d
  <2> QED BY <1>3, ResetIfEmptyKeeps DEF Took, d
<1>5. t.head = t.tail \/ t = d
  BY <1>2 DEF Took, ResetIfEmpty, Reset
<1> HIDE DEF t, d
<1>6. \A j \in 1 .. Length(d) : Contents(d)[j] = Contents(b)[n + j]
  <2> TAKE j \in 1 .. Length(d)
  <2>1. n + j \in 1 .. Length(b) /\ b.head + (n + j) = d.head + j
    BY <1>1, <1>2, <1>3
  <2>2. Contents(d)[j] = d.mem[d.head + j]
    BY <1>3, ContentsBytes
  <2>3. Contents(b)[n + j] = b.mem[b.head + (n + j)]
    BY <2>1, ContentsBytes
  <2> QED BY <2>1, <2>2, <2>3, <1>2
<1>7. Contents(d) = SubSeq(Contents(b), n + 1, Length(b))
  BY <1>3, <1>6, RestOf
<1>8. t.head = t.tail \/ (t.head = b.head + n /\ t.tail = b.tail)
  BY <1>2, <1>5
<1>9. t.mem = b.mem
  BY <1>2, <1>4
<1>10. \A j \in 1 .. Length(t) : Contents(t)[j] = Contents(b)[n + j]
  BY <1>4, <1>6
<1> QED BY <1>3, <1>4, <1>7, <1>8, <1>9, <1>10 DEF t

(* Every set of numbers that is not empty has a least element, and Min is   *)
(* it.                                                                      *)
LEMMA MinIsLeast ==
    ASSUME NEW S, S \subseteq Nat, S # {}
    PROVE  Min(S) \in S /\ \A y \in S : Min(S) <= y
<1>1. PICK x \in S : \A y \in S : ~(<<y, x>> \in OpToRel(<, Nat))
  BY NatLessThanWellFounded, WFMin
<1>2. \A y \in S : ~(y < x)
  BY <1>1 DEF OpToRel
<1>3. \A y \in S : x <= y
  BY <1>2
<1> QED BY <1>3 DEF Min

(* Where the search for the next delimiter stops, and that of the next byte *)
(* that is none.                                                            *)
LEMMA NextDelimIs ==
    ASSUME NEW b, Sound(b), NEW n \in b.head .. b.tail
    PROVE  LET d == NextDelim(b, n)
           IN  /\ d \in n .. b.tail
               /\ d = b.tail \/ b.mem[d + 1] \in Delims
               /\ \A j \in n .. d - 1 : b.mem[j + 1] \notin Delims
<1> DEFINE S == {j \in n .. b.tail : j = b.tail \/ b.mem[j + 1] \in Delims}
           d == NextDelim(b, n)
<1>1. b.head \in Nat /\ b.tail \in Nat /\ n \in Nat /\ n <= b.tail
  BY DEF Sound
<1>2. S \subseteq Nat /\ b.tail \in S
  BY <1>1
<1>3. d \in S /\ \A y \in S : d <= y
  <2>1. d = Min(S)
    BY DEF NextDelim
  <2> HIDE DEF S, d
  <2> QED BY <1>2, <2>1, MinIsLeast
<1>4. d \in n .. b.tail /\ (d = b.tail \/ b.mem[d + 1] \in Delims)
  BY <1>3
<1>5. ASSUME NEW j \in n .. d - 1 PROVE b.mem[j + 1] \notin Delims
  <2> HIDE DEF d
  <2>1. j \in n .. b.tail /\ ~(d <= j)
    BY <1>1, <1>4
  <2> QED BY <2>1, <1>3
<1> QED BY <1>4, <1>5

LEMMA NextOtherIs ==
    ASSUME NEW b, Sound(b), NEW n \in b.head .. b.tail
    PROVE  LET d == NextOther(b, n)
           IN  /\ d \in n .. b.tail
               /\ d = b.tail \/ b.mem[d + 1] \notin Delims
               /\ \A j \in n .. d - 1 : b.mem[j + 1] \in Delims
<1> DEFINE S == {j \in n .. b.tail : j = b.tail \/ b.mem[j + 1] \notin Delims}
           d == NextOther(b, n)
<1>1. b.head \in Nat /\ b.tail \in Nat /\ n \in Nat /\ n <= b.tail
  BY DEF Sound
<1>2. S \subseteq Nat /\ b.tail \in S
  BY <1>1
<1>3. d \in S /\ \A y \in S : d <= y
  <2>1. d = Min(S)
    BY DEF NextOther
  <2> HIDE DEF S, d
  <2> QED BY <1>2, <2>1, MinIsLeast
<1>4. d \in n .. b.tail /\ (d = b.tail \/ b.mem[d + 1] \notin Delims)
  BY <1>3
<1>5. ASSUME NEW j \in n .. d - 1 PROVE b.mem[j + 1] \in Delims
  <2> HIDE DEF d
  <2>1. j \in n .. b.tail /\ ~(d <= j)
    BY <1>1, <1>4
  <2> QED BY <2>1, <1>3
<1> QED BY <1>4, <1>5

(* Zeroing changes the bytes it is asked to and no other.                   *)
LEMMA ZeroedKeeps ==
    ASSUME NEW b, Sound(b), NEW from \in Nat, NEW to \in Nat
    PROVE  LET z == Zeroed(b, from, to)
           IN  /\ z = [mem |-> z.mem, head |-> b.head, tail |-> b.tail]
               /\ z.mem \in Seq(Mem) /\ Len(z.mem) = Len(b.mem)
               /\ \A j \in 1 .. Len(b.mem) : j - 1 \notin from .. to - 1 => z.mem[j] = b.mem[j]
<1> DEFINE m == [n \in DOMAIN b.mem |-> IF n - 1 \in from .. to - 1 THEN NUL ELSE b.mem[n]]
<1>1. b.mem \in Seq(Mem) /\ Len(b.mem) \in Nat
  BY DEF Sound
<1>2. DOMAIN b.mem = 1 .. Len(b.mem)
  BY <1>1, LenProperties
<1>3. \A n \in 1 .. Len(b.mem) : b.mem[n] \in Mem
  BY <1>1, ElementOfSeq
<1>4. m \in [1 .. Len(b.mem) -> Mem]
  BY <1>2, <1>3 DEF Mem
<1>5. \A n \in 1 .. Len(b.mem) : n - 1 \notin from .. to - 1 => m[n] = b.mem[n]
  BY <1>2
<1>6. Zeroed(b, from, to) = [b EXCEPT !.mem = m]
  BY DEF Zeroed
<1>7. b = [mem |-> b.mem, head |-> b.head, tail |-> b.tail]
  BY DEF Sound
<1> HIDE DEF m, Mem
<1>8. m \in Seq(Mem) /\ Len(m) = Len(b.mem)
  BY <1>1, <1>4, MemOf
<1>9. Zeroed(b, from, to) = [mem |-> m, head |-> b.head, tail |-> b.tail]
  BY <1>6, <1>7
<1> QED BY <1>5, <1>8, <1>9

(* Bytes that did not change read the same.                                 *)
LEMMA SameBytes ==
    ASSUME NEW m \in Seq(Mem), NEW w \in Seq(Mem), NEW lo \in Nat, NEW hi \in Nat,
           lo <= hi, hi <= Len(m), hi <= Len(w), \A j \in lo + 1 .. hi : w[j] = m[j]
    PROVE  /\ SubSeq(w, lo + 1, hi) = SubSeq(m, lo + 1, hi)
           /\ SubSeq(m, lo + 1, hi) \in Seq(Mem)
           /\ Len(SubSeq(m, lo + 1, hi)) = hi - lo
<1> HIDE DEF Mem
<1>1. lo + 1 \in Int /\ hi \in Int /\ Len(m) \in Nat /\ Len(w) \in Nat
  OBVIOUS
<1>2. \A i \in lo + 1 .. hi : m[i] \in Mem /\ w[i] \in Mem
  BY <1>1, ElementOfSeq
<1> DEFINE p == SubSeq(m, lo + 1, hi)
           q == SubSeq(w, lo + 1, hi)
<1>3. /\ p \in Seq(Mem) /\ Len(p) = IF lo + 1 <= hi THEN hi - (lo + 1) + 1 ELSE 0
      /\ \A i \in 1 .. hi - (lo + 1) + 1 : p[i] = m[lo + 1 + i - 1]
  BY <1>1, <1>2, SubSeqProperties
<1>4. /\ q \in Seq(Mem) /\ Len(q) = IF lo + 1 <= hi THEN hi - (lo + 1) + 1 ELSE 0
      /\ \A i \in 1 .. hi - (lo + 1) + 1 : q[i] = w[lo + 1 + i - 1]
  BY <1>1, <1>2, SubSeqProperties
<1> HIDE DEF p, q
<1>5. Len(p) = hi - lo /\ Len(q) = hi - lo
  BY <1>1, <1>3, <1>4
<1>6. \A i \in 1 .. hi - lo : i \in 1 .. hi - (lo + 1) + 1 /\ lo + 1 + i - 1 \in lo + 1 .. hi
  BY <1>1
<1>7. \A i \in 1 .. hi - lo : q[i] = p[i]
  BY <1>3, <1>4, <1>6
<1>8. q = p
  BY <1>3, <1>4, <1>5, <1>7, SeqEqual
<1> QED BY <1>3, <1>5, <1>8 DEF p, q

-----------------------------------------------------------------------------
(* The call of token_next: the delimiters it reads, the buffer at the       *)
(* token, where the token ends, where the search ends, and what is left.    *)

Skip(b) == IF Length(b) = 0 THEN 0 ELSE NextOther(b, b.head) - b.head
AtToken(b) == IF Length(b) = 0 THEN b ELSE Took(b, NextOther(b, b.head) - b.head)
TokenEnd(b) == NextDelim(AtToken(b), AtToken(b).head)
TokenLast(b, preserveEnd) ==
    IF preserveEnd THEN TokenEnd(b) ELSE NextOther(AtToken(b), TokenEnd(b))
AfterToken(b, preserveEnd) ==
    [Zeroed(AtToken(b), TokenEnd(b), TokenLast(b, preserveEnd))
        EXCEPT !.head = TokenLast(b, preserveEnd)]

LEMMA AtTokenIs ==
    ASSUME NEW b, Sound(b)
    PROVE  /\ Skip(b) \in 0 .. Length(b)
           /\ Sound(AtToken(b)) /\ AtToken(b).mem = b.mem
           /\ Length(AtToken(b)) = Length(b) - Skip(b)
           /\ \A j \in 1 .. Length(AtToken(b)) :
                 Contents(b)[Skip(b) + j] = b.mem[AtToken(b).head + j]
           /\ \A j \in 1 .. Skip(b) : Contents(b)[j] \in Delims
           /\ Length(AtToken(b)) # 0 => b.mem[AtToken(b).head + 1] \notin Delims
           /\ AtToken(b).head = AtToken(b).tail \/ AtToken(b).head >= b.head
           /\ b.head = b.tail => AtToken(b).head = AtToken(b).tail
<1>1. /\ b.mem \in Seq(Mem) /\ b.head \in Nat /\ b.tail \in Nat
      /\ b.head <= b.tail /\ Length(b) \in Nat /\ Length(b) = b.tail - b.head
  BY DEF Sound, Length
<1>2. \A j \in 1 .. Length(b) : Contents(b)[j] = b.mem[b.head + j]
  BY ContentsBytes
<1>3. CASE Length(b) = 0
  <2>1. Skip(b) = 0 /\ AtToken(b) = b /\ b.head = b.tail
    BY <1>1, <1>3 DEF Skip, AtToken
  <2> QED BY <2>1, <1>1, <1>3
<1>4. CASE Length(b) # 0
  <2> DEFINE o == NextOther(b, b.head)
             n == o - b.head
             a == AtToken(b)
  <2>1. /\ o \in b.head .. b.tail
        /\ o = b.tail \/ b.mem[o + 1] \notin Delims
        /\ \A j \in b.head .. o - 1 : b.mem[j + 1] \in Delims
    <3>1. b.head \in b.head .. b.tail
      BY <1>1
    <3> QED BY <3>1, NextOtherIs
  <2>2. Skip(b) = n /\ a = Took(b, n)
    BY <1>4 DEF Skip, AtToken
  <2> HIDE DEF o, a
  <2>3. n \in 0 .. Length(b)
    BY <1>1, <2>1
  <2>4. /\ Sound(a) /\ a.mem = b.mem
        /\ Length(a) = Length(b) - n
        /\ \A j \in 1 .. Length(a) : Contents(a)[j] = Contents(b)[n + j]
        /\ a.head = a.tail \/ (a.head = b.head + n /\ a.tail = b.tail)
    <3> HIDE DEF n
    <3> QED BY <2>2, <2>3, TookKeeps
  <2>5. \A j \in 1 .. Length(a) : Contents(b)[n + j] = b.mem[a.head + j]
    <3>1. \A j \in 1 .. Length(a) : Contents(a)[j] = a.mem[a.head + j]
      BY <2>4, ContentsBytes
    <3> QED BY <3>1, <2>4
  <2>6. ASSUME NEW j \in 1 .. n PROVE Contents(b)[j] \in Delims
    <3>1. j \in 1 .. Length(b)
      BY <1>1, <2>3
    <3>2. PICK i : i = b.head + j - 1
      OBVIOUS
    <3>3. i \in b.head .. o - 1 /\ i + 1 = b.head + j
      BY <1>1, <2>1, <3>1, <3>2
    <3>4. b.mem[i + 1] \in Delims
      BY <2>1, <3>3
    <3> QED BY <1>2, <3>1, <3>3, <3>4
  <2>7. Length(a) # 0 => b.mem[a.head + 1] \notin Delims
    <3> SUFFICES ASSUME Length(a) # 0 PROVE b.mem[a.head + 1] \notin Delims
      OBVIOUS
    <3>1. a.head # a.tail
      BY <2>4 DEF Sound, Length
    <3>2. a.head = o /\ o # b.tail
      BY <1>1, <2>1, <2>4, <3>1
    <3> QED BY <2>1, <3>2
  <2>8. a.head = a.tail \/ a.head >= b.head
    BY <1>1, <2>3, <2>4
  <2>9. b.head # b.tail
    BY <1>1, <1>4
  <2> QED BY <2>2, <2>3, <2>4, <2>5, <2>6, <2>7, <2>8, <2>9 DEF a
<1> QED BY <1>3, <1>4

LEMMA TokenEndIs ==
    ASSUME NEW b, Sound(b), NEW p \in BOOLEAN
    PROVE  LET a    == AtToken(b)
               end  == TokenEnd(b)
               last == TokenLast(b, p)
           IN  /\ end \in a.head .. a.tail /\ last \in end .. a.tail
               /\ end = a.tail \/ b.mem[end + 1] \in Delims
               /\ \A j \in a.head .. end - 1 : b.mem[j + 1] \notin Delims
               /\ \A j \in end .. last - 1 : b.mem[j + 1] \in Delims
               /\ last \in {end, a.tail} \/ b.mem[last + 1] \notin Delims
<1> DEFINE a    == AtToken(b)
           end  == TokenEnd(b)
           last == TokenLast(b, p)
<1>1. Sound(a) /\ a.mem = b.mem /\ a.head \in Nat /\ a.tail \in Nat /\ a.head <= a.tail
  BY AtTokenIs DEF Sound
<1>2. /\ end \in a.head .. a.tail
      /\ end = a.tail \/ b.mem[end + 1] \in Delims
      /\ \A j \in a.head .. end - 1 : b.mem[j + 1] \notin Delims
  <2>1. end = NextDelim(a, a.head) /\ a.head \in a.head .. a.tail
    BY <1>1 DEF TokenEnd
  <2> HIDE DEF a, end
  <2> QED BY <1>1, <2>1, NextDelimIs
<1>3. /\ last \in end .. a.tail
      /\ \A j \in end .. last - 1 : b.mem[j + 1] \in Delims
      /\ last \in {end, a.tail} \/ b.mem[last + 1] \notin Delims
  <2>1. last = end \/ last = NextOther(a, end)
    BY DEF TokenLast
  <2> HIDE DEF a, end, last
  <2>2. CASE last = end
    BY <2>2, <1>1, <1>2
  <2>3. CASE last = NextOther(a, end)
    BY <2>3, <1>1, <1>2, NextOtherIs
  <2> QED BY <2>1, <2>2, <2>3
<1> QED BY <1>2, <1>3

(* What the call leaves: a buffer whose contents are those behind the       *)
(* token, and memory that is as it was, the delimiters after the token      *)
(* apart.                                                                   *)
LEMMA AfterTokenIs ==
    ASSUME NEW b, Sound(b), NEW p \in BOOLEAN
    PROVE  LET a    == AtToken(b)
               last == TokenLast(b, p)
               c    == AfterToken(b, p)
           IN  /\ Sound(c) /\ c.head = last /\ c.tail = a.tail /\ Len(c.mem) = Len(b.mem)
               /\ \A j \in 1 .. Len(b.mem) : j <= TokenEnd(b) \/ j > last => c.mem[j] = b.mem[j]
               /\ Length(c) = Length(a) - (last - a.head)
               /\ \A j \in 1 .. Length(c) : Contents(c)[j] = b.mem[last + j]
<1> DEFINE a    == AtToken(b)
           end  == TokenEnd(b)
           last == TokenLast(b, p)
           z    == Zeroed(a, end, last)
           c    == AfterToken(b, p)
<1>1. /\ Sound(a) /\ a.mem = b.mem /\ a.head \in Nat /\ a.tail \in Nat
      /\ a.head <= a.tail /\ a.tail <= Len(b.mem) /\ Len(b.mem) \in Nat
      /\ Length(a) = a.tail - a.head
  BY AtTokenIs DEF Sound, Length
<1>2. end \in a.head .. a.tail /\ last \in end .. a.tail
  BY TokenEndIs
<1>3. end \in Nat /\ last \in Nat /\ end <= last /\ last <= a.tail
  BY <1>1, <1>2
<1>4. c = [z EXCEPT !.head = last]
  BY DEF AfterToken
<1> HIDE DEF a, end, last, c
<1>5. /\ z = [mem |-> z.mem, head |-> a.head, tail |-> a.tail]
      /\ z.mem \in Seq(Mem) /\ Len(z.mem) = Len(b.mem)
      /\ \A j \in 1 .. Len(b.mem) : j - 1 \notin end .. last - 1 => z.mem[j] = b.mem[j]
  <2>1. /\ z = [mem |-> z.mem, head |-> a.head, tail |-> a.tail]
        /\ z.mem \in Seq(Mem) /\ Len(z.mem) = Len(a.mem)
        /\ \A j \in 1 .. Len(a.mem) : j - 1 \notin end .. last - 1 => z.mem[j] = a.mem[j]
    <3> HIDE DEF Mem
    <3> QED BY <1>1, <1>3, ZeroedKeeps
  <2> HIDE DEF z
  <2> QED BY <1>1, <2>1
<1> HIDE DEF z
<1>6. c = [mem |-> z.mem, head |-> last, tail |-> a.tail]
  BY <1>4, <1>5
<1>7. Sound(c) /\ Length(c) = Length(a) - (last - a.head) /\ Length(c) = a.tail - last
  BY <1>1, <1>3, <1>5, <1>6 DEF Sound, Length
<1>8. \A j \in 1 .. Len(b.mem) : j <= end \/ j > last => c.mem[j] = b.mem[j]
  BY <1>3, <1>5, <1>6
<1>9. ASSUME NEW j \in 1 .. Length(c) PROVE Contents(c)[j] = b.mem[last + j]
  <2>1. Contents(c)[j] = c.mem[last + j]
    BY <1>6, <1>7, ContentsBytes
  <2>2. last + j \in 1 .. Len(b.mem) /\ last + j > last
    BY <1>1, <1>3, <1>7
  <2> QED BY <1>8, <2>1, <2>2
<1> QED BY <1>5, <1>6, <1>7, <1>8, <1>9 DEF a, end, last, c

(* The contents before and after the call are related as the stream asks    *)
(* for.                                                                     *)
LEMMA TokenFromStream ==
    ASSUME NEW b, Sound(b), NEW p \in BOOLEAN
    PROVE  LET st == Contents(b)
           IN  \E skip \in 0 .. Len(st), end \in 0 .. Len(st), last \in 0 .. Len(st) :
                  /\ skip <= end /\ end <= last
                  /\ \A j \in 1 .. skip : st[j] \in Delims
                  /\ \A j \in skip + 1 .. end : st[j] \notin Delims
                  /\ \A j \in end + 1 .. last : st[j] \in Delims
                  /\ end < Len(st) => st[end + 1] \in Delims
                  /\ skip = end => end = Len(st)
                  /\ last \in {end, Len(st)} \/ st[last + 1] \notin Delims
                  /\ Contents(AfterToken(b, p)) = SubSeq(st, last + 1, Len(st))
<1> DEFINE a    == AtToken(b)
           c    == AfterToken(b, p)
           st   == Contents(b)
           skip == Skip(b)
           end  == skip + (TokenEnd(b) - a.head)
           last == skip + (TokenLast(b, p) - a.head)
<1>1. /\ skip \in 0 .. Length(b)
      /\ Sound(a) /\ a.mem = b.mem
      /\ Length(a) = Length(b) - skip
      /\ \A j \in 1 .. Length(a) : st[skip + j] = b.mem[a.head + j]
      /\ \A j \in 1 .. skip : st[j] \in Delims
      /\ Length(a) # 0 => b.mem[a.head + 1] \notin Delims
  BY AtTokenIs
<1>2. /\ TokenEnd(b) \in a.head .. a.tail /\ TokenLast(b, p) \in TokenEnd(b) .. a.tail
      /\ TokenEnd(b) = a.tail \/ b.mem[TokenEnd(b) + 1] \in Delims
      /\ \A j \in a.head .. TokenEnd(b) - 1 : b.mem[j + 1] \notin Delims
      /\ \A j \in TokenEnd(b) .. TokenLast(b, p) - 1 : b.mem[j + 1] \in Delims
      /\ TokenLast(b, p) \in {TokenEnd(b), a.tail} \/ b.mem[TokenLast(b, p) + 1] \notin Delims
  BY TokenEndIs
<1>3. /\ Sound(c) /\ c.head = TokenLast(b, p)
      /\ Length(c) = Length(a) - (TokenLast(b, p) - a.head)
      /\ \A j \in 1 .. Length(c) : Contents(c)[j] = b.mem[TokenLast(b, p) + j]
  BY AfterTokenIs
<1>4. Len(st) = Length(b) /\ Length(b) \in Nat
  BY ContentsBytes
<1>5. /\ a.head \in Nat /\ a.tail \in Nat /\ a.head <= a.tail /\ Length(a) = a.tail - a.head
      /\ Length(a) \in Nat
  BY <1>1 DEF Sound, Length
<1> HIDE DEF a, c, st, skip
<1> DEFINE e == TokenEnd(b)
           l == TokenLast(b, p)
<1>6. /\ e \in Nat /\ l \in Nat /\ a.head <= e /\ e <= l /\ l <= a.tail
      /\ skip \in Nat /\ skip <= Length(b)
  BY <1>1, <1>2, <1>4, <1>5
<1>18. end = skip + (e - a.head) /\ last = skip + (l - a.head)
  OBVIOUS
<1>19. Length(b) = skip + (a.tail - a.head) /\ Length(c) = (a.tail - a.head) - (l - a.head)
  BY <1>1, <1>3, <1>4, <1>5, <1>6
<1> HIDE DEF e, l, end, last
<1>7. /\ end \in Nat /\ last \in Nat /\ skip <= end /\ end <= last /\ last <= Length(b)
      /\ e = end - skip + a.head /\ l = last - skip + a.head
      /\ a.tail = Length(b) - skip + a.head /\ Length(c) = Length(b) - last
  <2>1. end \in Nat /\ last \in Nat /\ skip <= end /\ end <= last
    BY <1>5, <1>6, <1>18
  <2>2. last <= Length(b)
    BY <1>5, <1>6, <1>18, <1>19
  <2>3. e = end - skip + a.head /\ l = last - skip + a.head
    BY <1>5, <1>6, <1>18, <2>1
  <2>4. a.tail = Length(b) - skip + a.head
    BY <1>5, <1>6, <1>19
  <2>5. Length(c) = Length(b) - last
    BY <1>5, <1>6, <1>18, <1>19
  <2> QED BY <2>1, <2>2, <2>3, <2>4, <2>5
(* The byte of the stream at j is that of the memory at i.                  *)
<1>8. ASSUME NEW j \in skip + 1 .. Length(b), NEW i, i = a.head + (j - skip) - 1
      PROVE  st[j] = b.mem[i + 1] /\ i \in Nat /\ i >= a.head /\ i < a.tail
  <2>1. PICK k : k = j - skip
    OBVIOUS
  <2>2. k \in 1 .. Length(a) /\ skip + k = j /\ a.head + k = i + 1
    BY <1>1, <1>4, <1>5, <1>6, <1>8, <2>1
  <2>3. st[skip + k] = b.mem[a.head + k]
    BY <1>1, <2>2
  <2>4. i \in Nat /\ i >= a.head /\ i < a.tail
    BY <1>4, <1>5, <1>6, <1>8, <1>1
  <2> QED BY <2>2, <2>3, <2>4
<1>9. ASSUME NEW j \in skip + 1 .. end PROVE st[j] \notin Delims
  <2>1. PICK i : i = a.head + (j - skip) - 1
    OBVIOUS
  <2>2. j \in skip + 1 .. Length(b) /\ i \in a.head .. e - 1
    <3>1. j \in Int /\ skip + 1 <= j /\ j <= end
      BY <1>6, <1>7
    <3>2. j \in skip + 1 .. Length(b)
      BY <1>4, <1>6, <1>7, <3>1
    <3>3. i \in Int
      BY <1>5, <1>6, <2>1, <3>1
    <3>4. a.head <= i
      BY <1>5, <1>6, <1>7, <2>1, <3>1
    <3>5. i <= e - 1
      BY <1>5, <1>6, <1>7, <2>1, <3>1
    <3> QED BY <1>5, <1>6, <3>2, <3>3, <3>4, <3>5
  <2>3. st[j] = b.mem[i + 1]
    BY <1>8, <2>1, <2>2
  <2> QED BY <1>2, <2>2, <2>3 DEF e
<1>10. ASSUME NEW j \in end + 1 .. last PROVE st[j] \in Delims
  <2>1. PICK i : i = a.head + (j - skip) - 1
    OBVIOUS
  <2>2. j \in skip + 1 .. Length(b) /\ i \in e .. l - 1
    <3>1. j \in Int /\ end + 1 <= j /\ j <= last
      BY <1>6, <1>7
    <3>2. j \in skip + 1 .. Length(b)
      BY <1>4, <1>6, <1>7, <3>1
    <3>3. i \in Int
      BY <1>5, <1>6, <2>1, <3>1
    <3>4. e <= i
      BY <1>5, <1>6, <1>7, <2>1, <3>1
    <3>5. i <= l - 1
      BY <1>5, <1>6, <1>7, <2>1, <3>1
    <3> QED BY <1>5, <1>6, <3>2, <3>3, <3>4, <3>5
  <2>3. st[j] = b.mem[i + 1]
    BY <1>8, <2>1, <2>2
  <2> QED BY <1>2, <2>2, <2>3 DEF e, l
<1>11. ASSUME end < Length(b) PROVE st[end + 1] \in Delims
  <2>1. end + 1 \in skip + 1 .. Length(b) /\ e = a.head + ((end + 1) - skip) - 1
    BY <1>4, <1>5, <1>6, <1>7, <1>11
  <2>2. st[end + 1] = b.mem[e + 1]
    BY <1>8, <2>1
  <2>3. e # a.tail
    <3> SUFFICES ASSUME e = a.tail PROVE FALSE
      OBVIOUS
    <3>1. end - skip + a.head = Length(b) - skip + a.head
      BY <1>7
    <3>2. end = Length(b)
      BY <3>1, <1>4, <1>5, <1>6, <1>7
    <3> QED BY <3>2, <1>4, <1>11
  <2> QED BY <1>2, <2>2, <2>3 DEF e
<1>12. ASSUME skip = end PROVE end = Length(b)
  <2>1. e = a.head
    BY <1>5, <1>6, <1>7, <1>12
  <2>2. CASE Length(a) = 0
    BY <1>1, <1>4, <1>6, <1>12, <2>2
  <2>3. CASE Length(a) # 0
    <3>1. b.mem[e + 1] \notin Delims
      BY <1>1, <2>1, <2>3
    <3>2. e = a.tail
      BY <1>2, <3>1 DEF e
    <3> QED BY <1>5, <1>6, <1>7, <3>2, <1>4
  <2> QED BY <2>2, <2>3
<1>13. last \in {end, Length(b)} \/ st[last + 1] \notin Delims
  <2>1. CASE l \in {e, a.tail}
    <3>1. CASE l = e
      BY <1>18, <3>1
    <3>2. CASE l = a.tail
      BY <1>4, <1>5, <1>6, <1>18, <1>19, <3>2
    <3> QED BY <2>1, <3>1, <3>2
  <2>2. CASE l \notin {e, a.tail}
    <3>1. last + 1 \in skip + 1 .. Length(b) /\ l = a.head + ((last + 1) - skip) - 1
      <4>1. l < a.tail
        BY <1>5, <1>6, <2>2
      <4>2. last + 1 <= Length(b)
        BY <4>1, <1>4, <1>5, <1>6, <1>7
      <4>3. skip + 1 <= last + 1 /\ last + 1 \in Int
        BY <1>6, <1>7
      <4>4. l = a.head + ((last + 1) - skip) - 1
        BY <1>5, <1>6, <1>7
      <4> QED BY <4>2, <4>3, <4>4, <1>4, <1>6
    <3>2. st[last + 1] = b.mem[l + 1]
      BY <1>8, <3>1
    <3> QED BY <1>2, <2>2, <3>2 DEF e, l
  <2> QED BY <2>1, <2>2
<1>14. Contents(c) = SubSeq(st, last + 1, Length(b))
  <2>1. ASSUME NEW j \in 1 .. Length(c) PROVE Contents(c)[j] = st[last + j]
    <3>1. PICK i : i = l + j - 1
      OBVIOUS
    <3>2. /\ last + j \in skip + 1 .. Length(b)
          /\ i = a.head + ((last + j) - skip) - 1 /\ i + 1 = l + j
      <4>1. j \in Int /\ 1 <= j /\ j <= Length(b) - last
        BY <1>4, <1>7
      <4>2. last + j \in Int /\ skip + 1 <= last + j /\ last + j <= Length(b)
        BY <4>1, <1>4, <1>6, <1>7
      <4>3. i + 1 = l + j
        BY <4>1, <1>6, <3>1
      <4>4. i = a.head + ((last + j) - skip) - 1
        BY <4>1, <1>5, <1>6, <1>7, <3>1
      <4> QED BY <4>2, <4>3, <4>4, <1>4, <1>6
    <3>3. st[last + j] = b.mem[i + 1]
      BY <1>8, <3>2
    <3>4. Contents(c)[j] = b.mem[l + j]
      BY <1>3 DEF l
    <3> QED BY <3>2, <3>3, <3>4
  <2>2. last \in 0 .. Length(b)
    BY <1>4, <1>7
  <2> QED BY <1>3, <1>7, <2>1, <2>2, RestOf DEF st
<1>15. /\ skip \in 0 .. Len(st) /\ end \in 0 .. Len(st) /\ last \in 0 .. Len(st)
       /\ skip <= end /\ end <= last
  BY <1>4, <1>6, <1>7
<1> DEFINE P(s, n, m) ==
              /\ s <= n /\ n <= m
              /\ \A j \in 1 .. s : st[j] \in Delims
              /\ \A j \in s + 1 .. n : st[j] \notin Delims
              /\ \A j \in n + 1 .. m : st[j] \in Delims
              /\ n < Len(st) => st[n + 1] \in Delims
              /\ s = n => n = Len(st)
              /\ m \in {n, Len(st)} \/ st[m + 1] \notin Delims
              /\ Contents(c) = SubSeq(st, m + 1, Len(st))
<1>16. P(skip, end, last)
  BY <1>1, <1>4, <1>9, <1>10, <1>11, <1>12, <1>13, <1>14, <1>15
<1> HIDE DEF P
<1>17. \E s \in 0 .. Len(st), n \in 0 .. Len(st), m \in 0 .. Len(st) : P(s, n, m)
  BY <1>15, <1>16
<1> QED BY <1>17 DEF P, st, c

-----------------------------------------------------------------------------
(* What the calls that write leave. *)

(* A buffer that is in use.                                                 *)
Good(b) == Sound(b) /\ InitCap <= Len(b.mem) /\ Len(b.mem) <= MaxCap

LEMMA GoodSizes ==
    ASSUME NEW b, Good(b)
    PROVE  /\ InitCap \in Nat /\ MaxCap \in Nat /\ Len(b.mem) \in Nat
           /\ b.head \in Nat /\ b.tail \in Nat
           /\ Length(b) \in Nat /\ Length(b) <= MaxCap /\ b.tail <= Len(b.mem)
           /\ Length(b) = b.tail - b.head /\ Space(b) = Len(b.mem) - b.tail
           /\ Len(Contents(b)) = Length(b) /\ Contents(b) \in Seq(Mem)
<1>1. Len(Contents(b)) = Length(b) /\ Contents(b) \in Seq(Mem)
  BY ContentsBytes DEF Good
<1> QED BY <1>1, CapAssumption DEF Good, Sound, Length, Space

LEMMA GoodEnsureCap ==
    ASSUME NEW b, Good(b), NEW n \in Nat
    PROVE  LET e == EnsureCap(b, n)
           IN  Good(e) /\ Length(e) = Length(b) /\ Contents(e) = Contents(b)
<1> DEFINE e == EnsureCap(b, n)
<1>1. /\ Sound(e) /\ Len(b.mem) <= Len(e.mem) /\ Len(e.mem) <= MaxCap
      /\ Length(e) = Length(b) /\ Contents(e) = Contents(b)
  BY EnsureCapKeeps DEF Good
<1> HIDE DEF e
<1>2. Len(e.mem) \in Nat
  BY <1>1 DEF Sound
<1> QED BY <1>1, <1>2, GoodSizes DEF Good, e

LEMMA GoodPut ==
    ASSUME NEW b, Good(b), NEW s \in Seq(Mem), Len(s) <= Space(b)
    PROVE  LET c == Put(b, s)
           IN  Good(c) /\ Length(c) = Length(b) + Len(s) /\ Contents(c) = Contents(b) \o s
<1> HIDE DEF Mem
<1> DEFINE c == Put(b, s)
<1>1. /\ Sound(c) /\ Len(c.mem) = Len(b.mem)
      /\ Length(c) = Length(b) + Len(s) /\ Contents(c) = Contents(b) \o s
  BY PutAppends DEF Good
<1> HIDE DEF c
<1> QED BY <1>1 DEF Good, c

LEMMA GoodReset ==
    ASSUME NEW b, Good(b)
    PROVE  LET r == ResetIfEmpty(b)
           IN  Good(r) /\ Length(r) = Length(b) /\ Contents(r) = Contents(b)
BY ResetIfEmptyKeeps DEF Good

(* write_str, once it is known that what is written fits.                   *)
LEMMA WrittenIs ==
    ASSUME NEW b, Good(b), NEW s \in Seq(Mem), ~Overruns(b, Len(s))
    PROVE  LET c == Written(b, s)
           IN  Good(c) /\ Length(c) = Length(b) + Len(s) /\ Contents(c) = Contents(b) \o s
<1> DEFINE e == EnsureCap(b, Len(s))
           r == ResetIfEmpty(e)
<1>1. Len(s) \in Nat
  OBVIOUS
<1>2. Good(e) /\ Length(e) = Length(b) /\ Contents(e) = Contents(b)
  BY <1>1, GoodEnsureCap
<1>3. Good(r) /\ Length(r) = Length(e) /\ Contents(r) = Contents(e)
  <2> HIDE DEF e
  <2> QED BY <1>2, GoodReset
<1>4. Written(b, s) = Put(r, s)
  BY DEF Written
<1>5. ~(Space(r) < Len(s))
  BY DEF Overruns
<1> HIDE DEF e, r
<1>6. Len(s) <= Space(r)
  BY <1>1, <1>3, <1>5, GoodSizes
<1>7. /\ Good(Put(r, s)) /\ Length(Put(r, s)) = Length(r) + Len(s)
      /\ Contents(Put(r, s)) = Contents(r) \o s
  <2> HIDE DEF Mem
  <2> QED BY <1>3, <1>6, GoodPut
<1> QED BY <1>2, <1>3, <1>4, <1>7

(* write_byte, where it is not refused.                                     *)
LEMMA ByteIs ==
    ASSUME NEW b, Good(b), NEW x \in Mem, ~Refuses(b, 1)
    PROVE  LET c == Put(EnsureCap(b, 1), <<x>>)
           IN  /\ Good(c) /\ Contents(c) = Contents(b) \o <<x>>
               /\ Length(b) + 1 <= MaxCap
<1> DEFINE e == EnsureCap(b, 1)
<1>1. Good(e) /\ Length(e) = Length(b) /\ Contents(e) = Contents(b)
  BY GoodEnsureCap
<1>2. Space(e) >= 1 /\ Length(b) + 1 <= MaxCap
  BY EnsureCapOne DEF Good
<1>3. <<x>> \in Seq(Mem) /\ Len(<<x>>) = 1
  OBVIOUS
<1> HIDE DEF e, Mem
<1>4. Len(<<x>>) <= Space(e)
  BY <1>1, <1>2, <1>3, GoodSizes
<1>5. Good(Put(e, <<x>>)) /\ Contents(Put(e, <<x>>)) = Contents(e) \o <<x>>
  BY <1>1, <1>3, <1>4, GoodPut
<1> QED BY <1>1, <1>2, <1>5 DEF e

(* What vsnprintf is given room for and leaves.                             *)
LEMMA CutIs ==
    ASSUME NEW s \in Seq(Bytes), NEW n \in 0 .. Len(s)
    PROVE  /\ Cut(s, n) = IF n = 0 THEN <<>> ELSE SubSeq(s, 1, n - 1) \o <<NUL>>
           /\ Cut(s, n) \in Seq(Mem) /\ Len(Cut(s, n)) = n
<1>1. Cut(s, n) = IF n = 0 THEN <<>> ELSE SubSeq(s, 1, n - 1) \o <<NUL>>
  BY DEF Cut
<1>2. s \in Seq(Mem) /\ NUL \in Mem /\ Len(s) \in Nat
  <2>1. Bytes \subseteq Mem
    BY DEF Mem
  <2> QED BY <2>1, SeqMonotonic DEF Mem
<1> HIDE DEF Mem
<1>3. CASE n = 0
  BY <1>1, <1>3
<1>4. CASE n # 0
  <2> DEFINE p == SubSeq(s, 1, n - 1)
  <2>1. 1 \in Int /\ n - 1 \in Int /\ \A i \in 1 .. n - 1 : s[i] \in Mem
    BY <1>2, ElementOfSeq
  <2>2. p \in Seq(Mem) /\ Len(p) = IF 1 <= n - 1 THEN n - 1 - 1 + 1 ELSE 0
    BY <2>1, SubSeqProperties
  <2>3. <<NUL>> \in Seq(Mem) /\ Len(<<NUL>>) = 1
    BY <1>2
  <2> HIDE DEF p
  <2>4. p \o <<NUL>> \in Seq(Mem) /\ Len(p \o <<NUL>>) = Len(p) + Len(<<NUL>>)
    BY <2>2, <2>3, ConcatProperties
  <2>5. Len(p) + 1 = n
    BY <1>4, <2>2
  <2> QED BY <1>1, <1>4, <2>3, <2>4, <2>5 DEF p
<1> QED BY <1>1, <1>3, <1>4

-----------------------------------------------------------------------------
(* The invariant. *)

(* A token that is in use lies in memory that has been read, or the buffer  *)
(* is empty; in neither case does a call that only reads change it.  Calls  *)
(* that write end its use, and so does the destruction of the buffer.       *)
TokenIsRead ==
    token # NoToken =>
        /\ token.at \in Nat /\ token.bytes \in Seq(Mem)
        /\ token.at + Len(token.bytes) <= Len(buf.mem)
        /\ buf.head = buf.tail \/ token.at + Len(token.bytes) <= buf.head
        /\ fmt = <<>> /\ life # "gone"

BInv == TypeOK /\ Sound(buf) /\ TokenIsRead /\ TokenIntact

LEMMA InUse == BInv /\ life # "gone" => Good(buf)
BY DEF BInv, TypeOK, Good

LEMMA StringsAreBytes ==
    ASSUME NEW s \in Strings
    PROVE  s \in Seq(Bytes) /\ s \in Seq(Mem) /\ Len(s) \in Nat /\ Len(s) > 0
<1>1. s \in Seq(Bytes) /\ s # <<>>
  BY StringsAssumption
<1>2. Bytes \subseteq Mem
  BY DEF Mem
<1>3. s \in Seq(Mem)
  <2> HIDE DEF Mem
  <2> QED BY <1>1, <1>2, SeqMonotonic
<1>4. Len(s) \in Nat \ {0}
  BY <1>1, EmptySeq
<1> QED BY <1>1, <1>3, <1>4

(* The invariant after a step that ends the use of a token.                 *)
LEMMA AfterWrite ==
    ASSUME Good(buf'), token' = NoToken, ok' \in BOOLEAN,
           fmt' = <<>> \/ fmt' \in Strings, life' \in {"live", "aborted"}
    PROVE  BInv'
<1>1. Sound(buf)'
  BY DEF Good
<1>2. /\ buf'.mem \in Seq(Bytes \cup {NUL, Junk}) /\ Len(buf'.mem) \in InitCap .. MaxCap
      /\ buf'.tail \in 0 .. Len(buf'.mem) /\ buf'.head \in 0 .. buf'.tail
  BY CapAssumption DEF Good, Sound, Mem
<1>3. TypeOK'
  BY <1>2 DEF TypeOK
<1> QED BY <1>1, <1>3 DEF BInv, TokenIsRead, TokenIntact

(* And after a step that leaves a token in use, and the bytes in front of   *)
(* head as they are.                                                        *)
LEMMA AfterRead ==
    ASSUME BInv, life = "live", Good(buf'), UNCHANGED <<token, fmt, life>>, ok' \in BOOLEAN,
           Len(buf'.mem) = Len(buf.mem),
           \A j \in 1 .. Len(buf.mem) :
               j <= buf.head \/ buf.head = buf.tail => buf'.mem[j] = buf.mem[j],
           buf.head = buf.tail => buf'.head = buf'.tail,
           buf'.head = buf'.tail \/ buf'.head >= buf.head
    PROVE  BInv'
<1>1. Sound(buf)'
  BY DEF Good
<1>2. /\ buf'.mem \in Seq(Bytes \cup {NUL, Junk}) /\ Len(buf'.mem) \in InitCap .. MaxCap
      /\ buf'.tail \in 0 .. Len(buf'.mem) /\ buf'.head \in 0 .. buf'.tail
  BY CapAssumption DEF Good, Sound, Mem
<1>3. TypeOK'
  BY <1>2 DEF TypeOK, BInv
<1>4. CASE token = NoToken
  BY <1>1, <1>3, <1>4 DEF BInv, TokenIsRead, TokenIntact
<1>5. CASE token # NoToken
  <2> DEFINE n == Len(token.bytes)
             hi == token.at + n
  <2>1. /\ token.at \in Nat /\ n \in Nat /\ hi <= Len(buf.mem)
        /\ buf.head = buf.tail \/ hi <= buf.head
        /\ fmt = <<>>
        /\ SubSeq(buf.mem, token.at + 1, hi) = token.bytes
    BY <1>5 DEF BInv, TokenIsRead, TokenIntact
  <2>2. buf.head \in Nat /\ buf'.head \in Nat /\ hi \in Nat /\ token.at <= hi
    BY <1>1, <2>1 DEF BInv, Sound
  <2> HIDE DEF n, hi
  <2>3. \A j \in token.at + 1 .. hi : buf'.mem[j] = buf.mem[j]
    <3> TAKE j \in token.at + 1 .. hi
    <3>1. j \in 1 .. Len(buf.mem) /\ j <= hi
      BY <2>1, <2>2 DEF BInv, Sound
    <3>2. j <= buf.head \/ buf.head = buf.tail
      BY <2>1, <2>2, <3>1
    <3> QED BY <3>1, <3>2
  <2>4. SubSeq(buf'.mem, token.at + 1, hi) = SubSeq(buf.mem, token.at + 1, hi)
    <3>1. /\ buf.mem \in Seq(Mem) /\ buf'.mem \in Seq(Mem)
          /\ hi <= Len(buf.mem) /\ hi <= Len(buf'.mem)
      BY <1>1, <2>1 DEF BInv, Sound
    <3> HIDE DEF Mem
    <3> QED BY <2>1, <2>2, <2>3, <3>1, SameBytes
  <2>5. buf'.head = buf'.tail \/ hi <= buf'.head
    BY <2>1, <2>2
  <2>6. TokenIntact'
    BY <2>1, <2>4 DEF TokenIntact, hi, n
  <2>7. TokenIsRead'
    BY <1>5, <2>1, <2>5 DEF BInv, TokenIsRead, hi, n
  <2> QED BY <1>1, <1>3, <2>6, <2>7 DEF BInv
<1> QED BY <1>4, <1>5

-----------------------------------------------------------------------------
(* Each step keeps the invariant and is a step of the stream. *)

StreamStays == UNCHANGED <<Contents(buf), ok>>

LEMMA WriteStrStep ==
    ASSUME BInv, NEW s \in Strings, WriteStr(s)
    PROVE  BInv' /\ IF life' = "live" THEN Stream!WriteStr(s) ELSE StreamStays
<1>1. Good(buf) /\ s \in Seq(Mem) /\ Len(s) \in Nat
  BY InUse, StringsAreBytes DEF WriteStr, Idle
<1>2. /\ Len(Contents(buf)) = Length(buf) /\ Length(buf) \in Nat /\ MaxCap \in Nat
  BY <1>1, GoodSizes
<1>3. life = "live" /\ fmt = <<>> /\ token' = NoToken /\ ok \in BOOLEAN
  BY DEF WriteStr, Idle, BInv, TypeOK
<1>4. CASE TooLong(buf, s) /\ Return(buf, FALSE)
  <2>1. BInv'
    BY <1>1, <1>3, <1>4, AfterWrite DEF Return
  <2>2. ~Stream!Fits(s)
    BY <1>1, <1>2, <1>4 DEF TooLong, Stream!Fits
  <2> QED BY <1>3, <1>4, <2>1, <2>2 DEF Return, Stream!WriteStr, Stream!Refuse
<1>5. CASE Abort
  <2>1. BInv'
    BY <1>1, <1>3, <1>5, AfterWrite DEF Abort
  <2> QED BY <1>5, <2>1 DEF Abort, StreamStays
<1>6. CASE ~TooLong(buf, s) /\ ~Overruns(buf, Len(s)) /\ Return(Written(buf, s), TRUE)
  <2>1. Good(Written(buf, s)) /\ Contents(Written(buf, s)) = Contents(buf) \o s
    BY <1>1, <1>6, WrittenIs
  <2>2. buf' = Written(buf, s) /\ ok' = TRUE /\ UNCHANGED <<fmt, life>>
    BY <1>6 DEF Return
  <2>3. BInv'
    BY <1>3, <2>1, <2>2, AfterWrite
  <2>4. Stream!Fits(s)
    BY <1>1, <1>2, <1>6 DEF TooLong, Stream!Fits
  <2> QED BY <1>3, <2>1, <2>2, <2>3, <2>4 DEF Stream!WriteStr, Stream!Add
<1> QED BY <1>4, <1>5, <1>6 DEF WriteStr

LEMMA WriteByteStep ==
    ASSUME BInv, NEW x \in Bytes, WriteByte(x)
    PROVE  BInv' /\ Stream!WriteStr(<<x>>)
<1>1. Good(buf) /\ x \in Mem /\ Len(<<x>>) = 1
  BY InUse DEF WriteByte, Idle, Mem
<1>2. /\ Len(Contents(buf)) = Length(buf) /\ Length(buf) \in Nat /\ MaxCap \in Nat
  BY <1>1, GoodSizes
<1>3. life = "live" /\ fmt = <<>> /\ token' = NoToken
  BY DEF WriteByte, Idle
<1>4. CASE Refuses(buf, 1) /\ Return(EnsureCap(buf, 1), FALSE)
  <2>1. Good(EnsureCap(buf, 1)) /\ Contents(EnsureCap(buf, 1)) = Contents(buf)
    BY <1>1, GoodEnsureCap
  <2>2. buf' = EnsureCap(buf, 1) /\ ok' = FALSE /\ UNCHANGED <<fmt, life>>
    BY <1>4 DEF Return
  <2>3. BInv'
    BY <1>3, <2>1, <2>2, AfterWrite
  <2>4. Length(buf) + 1 > MaxCap
    BY <1>1, <1>4, RefusesWhenFull DEF Good
  <2>5. ~Stream!Fits(<<x>>)
    BY <1>1, <1>2, <2>4 DEF Stream!Fits
  <2> QED BY <2>1, <2>2, <2>3, <2>5 DEF Stream!WriteStr, Stream!Refuse
<1>5. CASE ~Refuses(buf, 1) /\ Return(Put(EnsureCap(buf, 1), <<x>>), TRUE)
  <2> DEFINE c == Put(EnsureCap(buf, 1), <<x>>)
  <2>1. Good(c) /\ Contents(c) = Contents(buf) \o <<x>> /\ Length(buf) + 1 <= MaxCap
    BY <1>1, <1>5, ByteIs
  <2>2. buf' = c /\ ok' = TRUE /\ UNCHANGED <<fmt, life>>
    BY <1>5 DEF Return
  <2> HIDE DEF c
  <2>3. BInv'
    BY <1>3, <2>1, <2>2, AfterWrite
  <2>4. Stream!Fits(<<x>>)
    BY <1>1, <1>2, <2>1 DEF Stream!Fits
  <2> QED BY <2>1, <2>2, <2>3, <2>4 DEF Stream!WriteStr, Stream!Add
<1> QED BY <1>4, <1>5 DEF WriteByte

LEMMA WriteLineStep ==
    ASSUME BInv, NEW s \in Strings, WriteLine(s)
    PROVE  BInv' /\ IF life' = "live" THEN Stream!WriteLine(s) ELSE StreamStays
<1>1. /\ Good(buf) /\ s \in Seq(Mem) /\ Len(s) \in Nat
      /\ NL \in Mem /\ <<NL>> \in Seq(Mem) /\ Len(<<NL>>) = 1
  BY InUse, StringsAreBytes, BytesAssumption DEF WriteLine, Idle, Mem
<1>2. /\ Len(Contents(buf)) = Length(buf) /\ Length(buf) \in Nat /\ MaxCap \in Nat
      /\ Contents(buf) \in Seq(Mem)
  BY <1>1, GoodSizes
<1>3. life = "live" /\ fmt = <<>> /\ token' = NoToken
  BY DEF WriteLine, Idle
<1>4. Len(s \o <<NL>>) = Len(s) + 1
  <2> HIDE DEF Mem
  <2>1. Len(s \o <<NL>>) = Len(s) + Len(<<NL>>)
    BY <1>1, ConcatProperties
  <2> QED BY <1>1, <2>1
<1>5. CASE TooLong(buf, s) /\ Return(buf, FALSE)
  <2>1. BInv'
    BY <1>1, <1>3, <1>5, AfterWrite DEF Return
  <2>2. ~Stream!Fits(s) /\ ~Stream!Fits(s \o <<NL>>)
    BY <1>1, <1>2, <1>4, <1>5 DEF TooLong, Stream!Fits
  <2> QED BY <1>3, <1>5, <2>1, <2>2 DEF Return, Stream!WriteLine, Stream!Refuse
<1>6. CASE Abort
  <2>1. BInv'
    BY <1>1, <1>3, <1>6, AfterWrite DEF Abort, BInv, TypeOK
  <2> QED BY <1>6, <2>1 DEF Abort, StreamStays
<1>7. CASE /\ ~TooLong(buf, s) /\ ~Overruns(buf, Len(s))
           /\ LET b == Written(buf, s)
              IN  IF Refuses(b, 1) THEN Return(EnsureCap(b, 1), FALSE)
                  ELSE Return(Put(EnsureCap(b, 1), <<NL>>), TRUE)
  <2> DEFINE b == Written(buf, s)
  <2>1. Good(b) /\ Length(b) = Length(buf) + Len(s) /\ Contents(b) = Contents(buf) \o s
    BY <1>1, <1>7, WrittenIs
  <2>2. Stream!Fits(s)
    BY <1>1, <1>2, <1>7 DEF TooLong, Stream!Fits
  <2>3. IF Refuses(b, 1) THEN Return(EnsureCap(b, 1), FALSE)
        ELSE Return(Put(EnsureCap(b, 1), <<NL>>), TRUE)
    BY <1>7
  <2> HIDE DEF b
  <2>4. CASE Refuses(b, 1)
    <3>1. Good(EnsureCap(b, 1)) /\ Contents(EnsureCap(b, 1)) = Contents(b)
      BY <2>1, GoodEnsureCap
    <3>2. buf' = EnsureCap(b, 1) /\ ok' = FALSE /\ UNCHANGED <<fmt, life>>
      BY <2>3, <2>4 DEF Return
    <3>3. BInv'
      BY <1>3, <3>1, <3>2, AfterWrite
    <3>4. Length(b) + 1 > MaxCap
      BY <2>1, <2>4, RefusesWhenFull DEF Good
    <3>5. ~Stream!Fits(s \o <<NL>>)
      BY <1>1, <1>2, <1>4, <2>1, <3>4 DEF Stream!Fits
    <3> QED BY <1>3, <2>1, <2>2, <3>1, <3>2, <3>3, <3>5 DEF Stream!WriteLine
  <2>5. CASE ~Refuses(b, 1)
    <3> DEFINE c == Put(EnsureCap(b, 1), <<NL>>)
    <3>1. Good(c) /\ Contents(c) = Contents(b) \o <<NL>> /\ Length(b) + 1 <= MaxCap
      BY <1>1, <2>1, <2>5, ByteIs
    <3>2. buf' = c /\ ok' = TRUE /\ UNCHANGED <<fmt, life>>
      BY <2>3, <2>5 DEF Return
    <3> HIDE DEF c
    <3>3. BInv'
      BY <1>3, <3>1, <3>2, AfterWrite
    <3>4. Stream!Fits(s \o <<NL>>)
      BY <1>1, <1>2, <1>4, <2>1, <3>1 DEF Stream!Fits
    <3>5. Contents(c) = Contents(buf) \o (s \o <<NL>>)
      <4> HIDE DEF Mem
      <4>1. (Contents(buf) \o s) \o <<NL>> = Contents(buf) \o (s \o <<NL>>)
        BY <1>1, <1>2, ConcatAssociative
      <4> QED BY <2>1, <3>1, <4>1
    <3> QED BY <1>3, <3>2, <3>3, <3>4, <3>5 DEF Stream!WriteLine, Stream!Add
  <2> QED BY <2>4, <2>5
<1> QED BY <1>5, <1>6, <1>7 DEF WriteLine

LEMMA WriteFmtStep ==
    ASSUME BInv, NEW s \in Strings, WriteFmt(s)
    PROVE  BInv' /\ StreamStays
<1>1. Good(buf) /\ buf' = buf /\ ok' = ok /\ life' = life /\ life = "live" /\ token' = NoToken
  BY InUse DEF WriteFmt, Idle
<1>2. fmt' \in Strings /\ ok \in BOOLEAN
  BY DEF WriteFmt, BInv, TypeOK
<1>3. BInv'
  BY <1>1, <1>2, AfterWrite
<1> QED BY <1>1, <1>3 DEF StreamStays

(* A round that puts in the output, the output that fits, or nothing yet.   *)
LEMMA FormatRoundStep ==
    ASSUME BInv, FormatRound
    PROVE  BInv' /\ IF fmt' = <<>> THEN Stream!WriteFmt(fmt) ELSE StreamStays
<1> DEFINE r == ResetIfEmpty(buf)
           n == Len(fmt)
           cut == Put(r, Cut(fmt, Space(r)))
<1>1. life = "live" /\ fmt # <<>> /\ fmt \in Strings /\ ok \in BOOLEAN /\ life' = life
  BY DEF FormatRound, BInv, TypeOK
<1>2. token' = NoToken
  BY <1>1 DEF FormatRound, BInv, TokenIsRead
<1>3. /\ Good(buf) /\ fmt \in Seq(Bytes) /\ fmt \in Seq(Mem) /\ n \in Nat
      /\ NUL \in Mem /\ <<NUL>> \in Seq(Mem) /\ Len(<<NUL>>) = 1
  BY <1>1, InUse, StringsAreBytes DEF Mem
<1>4. Good(r) /\ Length(r) = Length(buf) /\ Contents(r) = Contents(buf)
  BY <1>3, GoodReset
<1> HIDE DEF r
<1>5. /\ Len(Contents(buf)) = Length(r) /\ Length(r) \in Nat /\ MaxCap \in Nat
      /\ Space(r) \in Nat /\ Contents(buf) \in Seq(Mem)
  BY <1>4, GoodSizes
<1>6. CASE /\ n < Space(r)
           /\ buf' = [Put(r, fmt \o <<NUL>>) EXCEPT !.tail = r.tail + n]
           /\ fmt' = <<>> /\ ok' = TRUE
  <2>1. /\ fmt \o <<NUL>> \in Seq(Mem) /\ Len(fmt \o <<NUL>>) = n + 1
        /\ \A j \in 1 .. n : (fmt \o <<NUL>>)[j] = fmt[j]
    <3> HIDE DEF Mem
    <3>1. /\ fmt \o <<NUL>> \in Seq(Mem)
          /\ Len(fmt \o <<NUL>>) = n + Len(<<NUL>>)
          /\ \A i \in 1 .. n + Len(<<NUL>>) : (fmt \o <<NUL>>)[i] =
                IF i <= n THEN fmt[i] ELSE <<NUL>>[i - n]
      BY <1>3, ConcatProperties
    <3>2. \A j \in 1 .. n : j \in 1 .. n + Len(<<NUL>>) /\ j <= n
      BY <1>3
    <3> QED BY <1>3, <3>1, <3>2
  <2>2. Len(fmt \o <<NUL>>) <= Space(r) /\ n <= Len(fmt \o <<NUL>>)
    BY <1>3, <1>5, <1>6, <2>1
  <2> DEFINE c == [Put(r, fmt \o <<NUL>>) EXCEPT !.tail = r.tail + Len(fmt)]
  <2>3. /\ Sound(c) /\ Len(c.mem) = Len(r.mem)
        /\ Length(c) = Length(r) + n /\ Contents(c) = Contents(r) \o fmt
    <3> HIDE DEF Mem
    <3> QED BY <1>3, <1>4, <2>1, <2>2, PutPrefix DEF Good
  <2>4. buf' = c
    BY <1>6
  <2> HIDE DEF c
  <2>5. Good(c)
    BY <1>4, <2>3 DEF Good
  <2>6. BInv'
    BY <1>1, <1>2, <1>6, <2>4, <2>5, AfterWrite
  <2>7. Contents(buf)' = Contents(buf) \o fmt
    BY <1>4, <2>3, <2>4
  <2> QED BY <1>6, <2>6, <2>7 DEF Stream!WriteFmt, Stream!Add
<1>7. CASE n >= Space(r)
  <2>1. Space(r) \in 0 .. n
    BY <1>3, <1>5, <1>7
  <2>2. /\ Cut(fmt, Space(r)) =
              IF Space(r) = 0 THEN <<>> ELSE SubSeq(fmt, 1, Space(r) - 1) \o <<NUL>>
        /\ Cut(fmt, Space(r)) \in Seq(Mem) /\ Len(Cut(fmt, Space(r))) = Space(r)
    BY <1>3, <2>1, CutIs
  <2>3. Good(cut) /\ Contents(cut) = Contents(buf) \o Cut(fmt, Space(r))
    <3>1. Len(Cut(fmt, Space(r))) <= Space(r)
      BY <1>5, <2>2
    <3> HIDE DEF Mem
    <3> QED BY <1>4, <2>2, <3>1, GoodPut
  <2>4. CASE Refuses(r, n + 1) /\ buf' = cut /\ fmt' = <<>> /\ ok' = TRUE
    <3> HIDE DEF cut
    <3>1. BInv'
      BY <1>1, <1>2, <2>3, <2>4, AfterWrite
    <3>2. Length(r) + (n + 1) > MaxCap
      <4>1. n + 1 \in Nat
        BY <1>3
      <4> QED BY <1>4, <2>4, <4>1, RefusesWhenFull DEF Good
    <3>3. ~Stream!Fits(fmt \o <<NUL>>)
      <4>1. Len(fmt \o <<NUL>>) = n + Len(<<NUL>>)
        <5> HIDE DEF Mem
        <5> QED BY <1>3, ConcatProperties
      <4> QED BY <1>3, <1>5, <3>2, <4>1 DEF Stream!Fits
    <3>4. Stream!Add(IF Space(r) = 0 THEN <<>> ELSE SubSeq(fmt, 1, Space(r) - 1) \o <<NUL>>)
      BY <2>2, <2>3, <2>4 DEF Stream!Add
    <3> QED BY <2>1, <2>4, <3>1, <3>3, <3>4 DEF Stream!WriteFmt
  <2>5. CASE /\ ~Refuses(r, n + 1)
             /\ buf' = EnsureCap([cut EXCEPT !.tail = r.tail], n + 1)
             /\ UNCHANGED <<fmt, ok>>
    <3> DEFINE c == [Put(r, Cut(fmt, Space(r))) EXCEPT !.tail = r.tail + Len(<<>>)]
    <3>1. /\ Sound(c) /\ Len(c.mem) = Len(r.mem)
          /\ Length(c) = Length(r) + Len(<<>>) /\ Contents(c) = Contents(r) \o <<>>
      <4>1. /\ <<>> \in Seq(Mem) /\ Len(<<>>) <= Len(Cut(fmt, Space(r)))
            /\ \A j \in 1 .. Len(<<>>) : Cut(fmt, Space(r))[j] = <<>>[j]
            /\ Len(Cut(fmt, Space(r))) <= Space(r)
        BY <1>5, <2>2
      <4> HIDE DEF Mem
      <4> QED BY <1>4, <2>2, <4>1, PutPrefix DEF Good
    <3>2. c = [cut EXCEPT !.tail = r.tail]
      BY <1>4 DEF Good, Sound
    <3> HIDE DEF c, cut
    <3>3. Good(c) /\ Contents(c) = Contents(buf)
      <4>1. Contents(r) \o <<>> = Contents(r)
        <5> HIDE DEF Mem
        <5> QED BY <1>4, <1>5, ConcatEmptySeq
      <4> QED BY <1>4, <3>1, <4>1 DEF Good
    <3>4. n + 1 \in Nat /\ buf' = EnsureCap(c, n + 1)
      BY <1>3, <2>5, <3>2
    <3>5. Good(buf') /\ Contents(buf') = Contents(c)
      BY <3>3, <3>4, GoodEnsureCap
    <3>6. BInv'
      BY <1>1, <1>2, <2>5, <3>5, AfterWrite
    <3> QED BY <1>1, <2>5, <3>3, <3>5, <3>6 DEF StreamStays
  <2>6. \/ Refuses(r, n + 1) /\ buf' = cut /\ fmt' = <<>> /\ ok' = TRUE
        \/ /\ ~Refuses(r, n + 1)
           /\ buf' = EnsureCap([cut EXCEPT !.tail = r.tail], n + 1)
           /\ UNCHANGED <<fmt, ok>>
    BY <1>3, <1>5, <1>7 DEF FormatRound, r
  <2> QED BY <2>4, <2>5, <2>6
<1>8. ~(n >= Space(r)) => /\ n < Space(r)
                          /\ buf' = [Put(r, fmt \o <<NUL>>) EXCEPT !.tail = r.tail + n]
                          /\ fmt' = <<>> /\ ok' = TRUE
  BY <1>3, <1>5 DEF FormatRound, r
<1> QED BY <1>6, <1>7, <1>8

LEMMA WriteRawStep ==
    ASSUME BInv, NEW s \in Strings, WriteRaw(s)
    PROVE  BInv' /\ Stream!WriteStr(s)
<1> DEFINE r == ResetIfEmpty(buf)
<1>1. Good(buf) /\ s \in Seq(Mem) /\ Len(s) \in Nat
  BY InUse, StringsAreBytes DEF WriteRaw, Idle
<1>2. Good(r) /\ Length(r) = Length(buf) /\ Contents(r) = Contents(buf)
  BY <1>1, GoodReset
<1>3. /\ life = "live" /\ fmt = <<>> /\ token' = NoToken /\ Len(s) <= Space(r)
      /\ buf' = Put(r, s) /\ ok' = TRUE /\ UNCHANGED <<fmt, life>>
  BY DEF WriteRaw, Idle, Return
<1> HIDE DEF r
<1>4. /\ Good(Put(r, s)) /\ Length(Put(r, s)) = Length(r) + Len(s)
      /\ Contents(Put(r, s)) = Contents(r) \o s
  <2> HIDE DEF Mem
  <2> QED BY <1>1, <1>2, <1>3, GoodPut
<1>5. BInv'
  BY <1>3, <1>4, AfterWrite
<1>6. Stream!Fits(s)
  <2>1. Length(Put(r, s)) <= MaxCap /\ Len(Contents(buf)) = Length(buf)
    BY <1>1, <1>4, GoodSizes
  <2> QED BY <1>1, <1>2, <1>4, <2>1 DEF Stream!Fits
<1> QED BY <1>2, <1>3, <1>4, <1>5, <1>6 DEF Stream!WriteStr, Stream!Add

LEMMA CallEnsureCapStep ==
    ASSUME BInv, NEW n \in 1 .. MaxCap, CallEnsureCap(n)
    PROVE  BInv' /\ Stream!EnsureCap(n)
<1>1. /\ Good(buf) /\ life = "live" /\ fmt = <<>> /\ token' = NoToken /\ n \in Nat
      /\ buf' = EnsureCap(buf, n) /\ ok' = ~Refuses(buf, n) /\ UNCHANGED <<fmt, life>>
  BY InUse DEF CallEnsureCap, Idle, Return
<1>2. Good(buf') /\ Contents(buf') = Contents(buf)
  BY <1>1, GoodEnsureCap
<1>3. ok' \in BOOLEAN
  BY <1>1 DEF Refuses
<1>4. BInv'
  BY <1>1, <1>2, <1>3, AfterWrite
<1>5. Refuses(buf, n) <=> Length(buf) + n > MaxCap
  BY <1>1, RefusesExactly DEF Good
<1>6. /\ Len(Contents(buf)) = Length(buf) /\ Length(buf) \in Nat /\ MaxCap \in Nat
  BY <1>1, GoodSizes
<1>7. ok' = (Len(Contents(buf)) + n <= MaxCap)
  <2>1. Refuses(buf, n) <=> ~(Len(Contents(buf)) + n <= MaxCap)
    <3>1. PICK l \in Nat, m \in Nat : l = Length(buf) /\ m = MaxCap
      BY <1>6
    <3>2. l + n > m <=> ~(l + n <= m)
      BY <1>1, <3>1
    <3> QED BY <1>5, <1>6, <3>1, <3>2
  <2>2. ok' <=> ~Refuses(buf, n)
    BY <1>1
  <2> QED BY <1>3, <2>1, <2>2
<1> QED BY <1>2, <1>4, <1>7 DEF Stream!EnsureCap

LEMMA RoomStep ==
    ASSUME BInv, CallEnsureMaxCap \/ CallCompact
    PROVE  BInv' /\ Stream!Keep
<1>1. Good(buf) /\ life = "live" /\ fmt = <<>> /\ token' = NoToken /\ UNCHANGED <<fmt, life>>
  BY InUse DEF CallEnsureMaxCap, CallCompact, Idle, Return
<1>2. /\ ok' = TRUE
      /\ \/ \E n \in Nat : buf' = EnsureCap(buf, n)
         \/ buf' = buf
         \/ buf' = Compact(buf)
  <2>1. CASE CallEnsureMaxCap
    <3>1. CASE Len(buf.mem) >= MaxCap /\ Return(buf, TRUE)
      BY <3>1 DEF Return
    <3>2. CASE /\ Len(buf.mem) < MaxCap
               /\ LET n == MaxCap - Len(buf.mem)
                  IN  Return(EnsureCap(buf, n), ~Refuses(buf, n))
      <4> DEFINE n == MaxCap - Len(buf.mem)
      <4>1. n \in Nat /\ Length(buf) + n <= MaxCap
        BY <1>1, <3>2, GoodSizes DEF Good, Sound, Length
      <4>2. buf' = EnsureCap(buf, n) /\ ok' = ~Refuses(buf, n)
        BY <3>2 DEF Return
      <4> HIDE DEF n
      <4>3. Length(buf) \in Nat /\ MaxCap \in Nat
        BY <1>1, GoodSizes
      <4>4. ~Refuses(buf, n)
        BY <1>1, <4>1, <4>3, RefusesExactly DEF Good
      <4> QED BY <4>1, <4>2, <4>4
    <3> QED BY <2>1, <3>1, <3>2 DEF CallEnsureMaxCap
  <2>2. CASE CallCompact
    BY <2>2 DEF CallCompact, Return
  <2> QED BY <2>1, <2>2
<1>3. Good(buf') /\ Contents(buf') = Contents(buf)
  <2>1. ASSUME NEW n \in Nat, buf' = EnsureCap(buf, n)
        PROVE  Good(buf') /\ Contents(buf') = Contents(buf)
    BY <1>1, <2>1, GoodEnsureCap
  <2>2. CASE buf' = buf
    BY <1>1, <2>2
  <2>3. CASE buf' = Compact(buf)
    BY <1>1, <2>3, CompactKeeps DEF Good
  <2> QED BY <1>2, <2>1, <2>2, <2>3
<1>4. BInv'
  BY <1>1, <1>2, <1>3, AfterWrite
<1> QED BY <1>2, <1>3, <1>4 DEF Stream!Keep

(* A call that takes n bytes from the front.                                *)
LEMMA TookStep ==
    ASSUME BInv, Idle, NEW n \in 0 .. Length(buf), buf' = Took(buf, n), ok' \in BOOLEAN,
           UNCHANGED <<token, fmt, life>>
    PROVE  BInv' /\ Contents(buf)' = Stream!Rest(n)
<1> DEFINE t == Took(buf, n)
<1>1. Good(buf) /\ life = "live"
  BY InUse DEF Idle
<1>2. /\ buf.head \in Nat /\ buf.tail \in Nat /\ Length(buf) = buf.tail - buf.head
      /\ Len(Contents(buf)) = Length(buf) /\ n \in Nat /\ n <= Length(buf)
  BY <1>1, GoodSizes
<1>3. /\ Sound(t) /\ t.mem = buf.mem
      /\ Length(t) = Length(buf) - n
      /\ Contents(t) = SubSeq(Contents(buf), n + 1, Length(buf))
      /\ t.head = t.tail \/ (t.head = buf.head + n /\ t.tail = buf.tail)
  BY <1>1, TookKeeps DEF Good
<1> HIDE DEF t
<1>4. Good(t)
  BY <1>1, <1>3 DEF Good
<1>5. buf.head = buf.tail => t.head = t.tail
  BY <1>2, <1>3
<1>6. t.head = t.tail \/ t.head >= buf.head
  BY <1>2, <1>3
<1>7. buf' = t
  BY DEF t
<1>8. BInv'
  BY <1>1, <1>3, <1>4, <1>5, <1>6, <1>7, AfterRead
<1> QED BY <1>2, <1>3, <1>7, <1>8 DEF Stream!Rest

LEMMA ReadStep ==
    ASSUME BInv, NEW n \in 1 .. MaxCap, Read(n)
    PROVE  BInv' /\ Stream!Read
<1>1. Good(buf)
  BY InUse DEF Read, Idle
<1>2. n \in 0 .. Length(buf) /\ Len(Contents(buf)) = Length(buf)
  BY <1>1, GoodSizes DEF Read
<1>3. Idle /\ buf' = Took(buf, n) /\ ok' = ok /\ ok \in BOOLEAN /\ UNCHANGED <<token, fmt, life>>
  BY DEF Read, Return, BInv, TypeOK
<1>4. BInv' /\ Contents(buf)' = Stream!Rest(n)
  BY <1>2, <1>3, TookStep
<1> QED BY <1>2, <1>3, <1>4 DEF Stream!Read

LEMMA ConsumeStep ==
    ASSUME BInv, NEW s \in Strings, Consume(s)
    PROVE  BInv' /\ Stream!Consume(s)
<1> DEFINE here == Len(s) <= Length(buf) /\ SubSeq(Contents(buf), 1, Len(s)) = s
<1>1. /\ Good(buf) /\ Len(s) \in Nat /\ Idle /\ life = "live"
      /\ UNCHANGED <<token, fmt, life>>
  BY InUse, StringsAreBytes DEF Consume, Idle, Return
<1>2. /\ Len(Contents(buf)) = Length(buf) /\ Length(buf) \in Nat
  BY <1>1, GoodSizes
<1>3. buf' = (IF here THEN Took(buf, Len(s)) ELSE buf) /\ ok' = here
  BY DEF Consume, Return
<1>4. CASE here
  <2>1. Len(s) \in 0 .. Length(buf) /\ buf' = Took(buf, Len(s)) /\ ok' = TRUE
    <3>1. Len(s) \in 0 .. Length(buf)
      BY <1>1, <1>2, <1>4
    <3> HIDE DEF here
    <3>2. buf' = Took(buf, Len(s))
      BY <1>3, <1>4
    <3>3. ok' = TRUE
      BY <1>3, <1>4
    <3> QED BY <3>1, <3>2, <3>3
  <2>2. BInv' /\ Contents(buf)' = Stream!Rest(Len(s))
    BY <1>1, <2>1, TookStep
  <2> QED BY <1>2, <1>4, <2>1, <2>2 DEF Stream!Consume
<1>5. CASE ~here
  <2>1. buf' = buf /\ ok' = FALSE
    BY <1>3, <1>5
  <2>2. BInv'
    BY <1>1, <2>1 DEF BInv, TypeOK, Sound, TokenIsRead, TokenIntact
  <2> QED BY <1>2, <1>5, <2>1, <2>2 DEF Stream!Consume, Stream!Refuse
<1> QED BY <1>4, <1>5

(* A token that is returned now is what the memory holds, and is behind     *)
(* what is left.                                                            *)
LEMMA TokenNextStep ==
    ASSUME BInv, NEW p \in BOOLEAN, TokenNext(p)
    PROVE  BInv' /\ Stream!Token
<1> DEFINE a    == AtToken(buf)
           end  == TokenEnd(buf)
           last == TokenLast(buf, p)
           c    == AfterToken(buf, p)
           new  == [at |-> a.head, bytes |-> SubSeq(buf.mem, a.head + 1, end)]
<1>1. Good(buf) /\ Sound(buf) /\ Idle /\ life = "live" /\ fmt = <<>>
  BY InUse DEF TokenNext, Idle, BInv
<1>2. /\ Sound(a) /\ a.mem = buf.mem
      /\ a.head = a.tail \/ a.head >= buf.head
      /\ buf.head = buf.tail => a.head = a.tail
  BY <1>1, AtTokenIs
<1>3. end \in a.head .. a.tail /\ last \in end .. a.tail
  BY <1>1, TokenEndIs
<1>4. /\ Sound(c) /\ c.head = last /\ c.tail = a.tail /\ Len(c.mem) = Len(buf.mem)
      /\ \A j \in 1 .. Len(buf.mem) : j <= end \/ j > last => c.mem[j] = buf.mem[j]
  BY <1>1, AfterTokenIs
<1>5. buf' = c /\ ok' = TRUE /\ UNCHANGED <<fmt, life>> /\ (token' = new \/ token' = token)
  BY <1>2 DEF TokenNext, Return, AtToken, TokenEnd, TokenLast, AfterToken
<1>6. /\ a.head \in Nat /\ a.tail \in Nat /\ a.tail <= Len(buf.mem) /\ Len(buf.mem) \in Nat
      /\ end \in Nat /\ last \in Nat /\ a.head <= end /\ end <= last /\ last <= a.tail
      /\ buf.head \in Nat /\ buf.mem \in Seq(Mem) /\ c.mem \in Seq(Mem)
  BY <1>1, <1>2, <1>3, <1>4 DEF Sound
<1>7. Stream!Token
  <2>1. Contents(buf)' = Contents(AfterToken(buf, p)) /\ ok' = TRUE
    BY <1>5
  <2>2. \E skip \in 0 .. Len(Contents(buf)), e \in 0 .. Len(Contents(buf)),
           l \in 0 .. Len(Contents(buf)) :
                  /\ skip <= e /\ e <= l
                  /\ \A j \in 1 .. skip : Contents(buf)[j] \in Delims
                  /\ \A j \in skip + 1 .. e : Contents(buf)[j] \notin Delims
                  /\ \A j \in e + 1 .. l : Contents(buf)[j] \in Delims
                  /\ e < Len(Contents(buf)) => Contents(buf)[e + 1] \in Delims
                  /\ skip = e => e = Len(Contents(buf))
                  /\ l \in {e, Len(Contents(buf))} \/ Contents(buf)[l + 1] \notin Delims
                  /\ Contents(AfterToken(buf, p)) =
                        SubSeq(Contents(buf), l + 1, Len(Contents(buf)))
    BY <1>1, TokenFromStream
  <2> QED BY <2>1, <2>2 DEF Stream!Token, Stream!Rest
<1> HIDE DEF a, end, last, c
<1>8. Good(c)
  BY <1>1, <1>4 DEF Good
<1>9. \A j \in 1 .. Len(buf.mem) : j <= buf.head \/ buf.head = buf.tail => c.mem[j] = buf.mem[j]
  <2> TAKE j \in 1 .. Len(buf.mem)
  <2> HAVE j <= buf.head \/ buf.head = buf.tail
  <2>1. CASE a.head = a.tail
    <3>1. j <= end \/ j > last
      BY <1>6, <2>1
    <3> QED BY <1>4, <3>1
  <2>2. CASE a.head # a.tail
    <3>1. j <= end
      BY <1>2, <1>6, <2>2
    <3> QED BY <1>4, <3>1
  <2> QED BY <2>1, <2>2
<1>10. buf.head = buf.tail => c.head = c.tail
  BY <1>2, <1>4, <1>6
<1>11. c.head = c.tail \/ c.head >= buf.head
  BY <1>2, <1>4, <1>6
<1>12. CASE token' = token
  <2>1. BInv'
    BY <1>1, <1>4, <1>5, <1>8, <1>9, <1>10, <1>11, <1>12, AfterRead
  <2> QED BY <2>1, <1>7
<1>13. CASE token' = new
  <2> DEFINE bytes == SubSeq(buf.mem, a.head + 1, end)
  <2>1. bytes \in Seq(Mem) /\ Len(bytes) = end - a.head /\ SubSeq(c.mem, a.head + 1, end) = bytes
    <3>1. \A j \in a.head + 1 .. end : c.mem[j] = buf.mem[j]
      BY <1>4, <1>6
    <3>2. end <= Len(buf.mem) /\ end <= Len(c.mem)
      BY <1>4, <1>6
    <3>3. /\ SubSeq(c.mem, a.head + 1, end) = SubSeq(buf.mem, a.head + 1, end)
          /\ SubSeq(buf.mem, a.head + 1, end) \in Seq(Mem)
          /\ Len(SubSeq(buf.mem, a.head + 1, end)) = end - a.head
      <4>1. PICK m, w, lo : m = buf.mem /\ w = c.mem /\ lo = a.head
        OBVIOUS
      <4>2. /\ m \in Seq(Mem) /\ w \in Seq(Mem) /\ lo \in Nat /\ end \in Nat
            /\ lo <= end /\ end <= Len(m) /\ end <= Len(w)
            /\ \A j \in lo + 1 .. end : w[j] = m[j]
        BY <1>6, <3>1, <3>2, <4>1
      <4> HIDE DEF Mem
      <4>3. /\ SubSeq(w, lo + 1, end) = SubSeq(m, lo + 1, end)
            /\ SubSeq(m, lo + 1, end) \in Seq(Mem)
            /\ Len(SubSeq(m, lo + 1, end)) = end - lo
        BY <4>2, SameBytes
      <4> QED BY <4>1, <4>3
    <3> QED BY <3>3
  <2>2. token'.at = a.head /\ token'.bytes = bytes
    BY <1>13
  <2> HIDE DEF bytes, new
  <2>3. token'.at + Len(token'.bytes) = end
    BY <1>6, <2>1, <2>2
  <2>4. TokenIntact'
    BY <1>5, <2>1, <2>2, <2>3 DEF TokenIntact
  <2>5. TokenIsRead'
    <3>1. end <= Len(c.mem) /\ end <= c.head
      BY <1>4, <1>6
    <3> QED BY <1>1, <1>5, <1>6, <2>1, <2>2, <2>3, <3>1 DEF TokenIsRead
  <2>6. TypeOK'
    <3>1. /\ c.mem \in Seq(Bytes \cup {NUL, Junk}) /\ Len(c.mem) \in InitCap .. MaxCap
          /\ c.tail \in 0 .. Len(c.mem) /\ c.head \in 0 .. c.tail
      BY <1>8, CapAssumption DEF Good, Sound, Mem
    <3> QED BY <1>1, <1>5, <3>1 DEF TypeOK
  <2> QED BY <1>4, <1>5, <1>7, <2>4, <2>5, <2>6 DEF BInv
<1> QED BY <1>5, <1>12, <1>13

LEMMA CallResetStep ==
    ASSUME BInv, CallReset
    PROVE  BInv' /\ (Stream!Reset \/ Stream!ResetIfEmpty)
<1>1. Good(buf) /\ life = "live" /\ ok \in BOOLEAN /\ UNCHANGED <<fmt, life, token>>
  BY InUse DEF CallReset, Idle, BInv, TypeOK, Return
<1>2. CASE Return(Reset(buf), ok)
  <2>1. buf' = [mem |-> buf.mem, head |-> 0, tail |-> 0] /\ ok' = ok
    BY <1>1, <1>2 DEF Return, Reset, Good, Sound
  <2>2. Good(buf')
    BY <1>1, <2>1 DEF Good, Sound
  <2>3. BInv'
    BY <1>1, <2>1, <2>2, AfterRead
  <2>4. Contents(buf') = <<>>
    BY <2>1 DEF Contents
  <2> QED BY <2>1, <2>3, <2>4 DEF Stream!Reset
<1>3. CASE Return(ResetIfEmpty(buf), buf.head = buf.tail)
  <2> DEFINE r == ResetIfEmpty(buf)
  <2>1. buf' = r /\ ok' \in BOOLEAN /\ ok' = (buf.head = buf.tail)
    BY <1>3 DEF Return
  <2>2. r.head = r.tail \/ r = buf
    BY DEF ResetIfEmpty, Reset
  <2>3. /\ Good(r) /\ r.mem = buf.mem /\ Length(r) = Length(buf) /\ Contents(r) = Contents(buf)
    BY <1>1, GoodReset, ResetIfEmptyKeeps DEF Good
  <2> HIDE DEF r
  <2>4. r.head = r.tail \/ r.head >= buf.head
    BY <1>1, <2>2, GoodSizes
  <2>5. buf.head = buf.tail => r.head = r.tail
    BY <2>2
  <2>6. BInv'
    BY <1>1, <2>1, <2>3, <2>4, <2>5, AfterRead
  <2>7. buf.head = buf.tail <=> Contents(buf) = <<>>
    <3>1. /\ Len(Contents(buf)) = Length(buf) /\ Length(buf) = buf.tail - buf.head
          /\ buf.head \in Nat /\ buf.tail \in Nat
      BY <1>1, GoodSizes
    <3>2. Contents(buf) = <<>> <=> Len(Contents(buf)) = 0
      <4>1. Contents(buf) \in Seq(Mem)
        BY <1>1, GoodSizes
      <4> HIDE DEF Mem
      <4> QED BY <4>1, EmptySeq
    <3> QED BY <3>1, <3>2
  <2> QED BY <2>1, <2>3, <2>6, <2>7 DEF Stream!ResetIfEmpty
<1> QED BY <1>2, <1>3 DEF CallReset

-----------------------------------------------------------------------------
(* The beginning and the end of a buffer. *)

LEMMA FreshIsGood == Good(Fresh) /\ Contents(Fresh) = <<>>
<1> DEFINE m == [n \in 1 .. InitCap |-> NUL]
<1>1. m \in [1 .. InitCap -> Mem] /\ InitCap \in Nat /\ MaxCap \in Nat /\ InitCap <= MaxCap
  BY CapAssumption DEF Mem
<1>2. Fresh = [mem |-> m, head |-> 0, tail |-> 0]
  BY DEF Fresh
<1> HIDE DEF m, Mem
<1>3. m \in Seq(Mem) /\ Len(m) = InitCap
  BY <1>1, MemOf
<1>4. Good(Fresh)
  BY <1>1, <1>2, <1>3 DEF Good, Sound
<1>5. Contents(Fresh) = <<>>
  BY <1>2 DEF Contents
<1> QED BY <1>4, <1>5

LEMMA DestroyStep ==
    ASSUME BInv, Destroy
    PROVE  BInv' /\ Stream!Reset
<1>1. /\ buf' = [mem |-> <<>>, head |-> 0, tail |-> 0] /\ ok' = ok /\ life' = "gone"
      /\ fmt' = fmt /\ token' = NoToken /\ Sound(buf)'
  BY DEF Destroy, Sound
<1>2. TypeOK'
  BY <1>1 DEF BInv, TypeOK
<1>3. Contents(buf') = <<>>
  BY <1>1 DEF Contents
<1> QED BY <1>1, <1>2, <1>3 DEF BInv, TokenIsRead, TokenIntact, Stream!Reset

LEMMA NewStep ==
    ASSUME BInv, New
    PROVE  BInv' /\ Stream!Keep
<1>1. /\ buf' = Fresh /\ life' = "live" /\ ok' = TRUE /\ UNCHANGED <<fmt, token>>
      /\ life = "gone" /\ token = NoToken /\ (fmt = <<>> \/ fmt \in Strings)
  BY DEF New, BInv, TypeOK, TokenIsRead
<1>2. BInv'
  BY <1>1, FreshIsGood, AfterWrite
<1>3. Contents(buf) = <<>>
  <2>1. Len(buf.mem) = 0 /\ buf.tail = 0 /\ buf.head = 0
    BY <1>1 DEF BInv, TypeOK
  <2> QED BY <2>1 DEF Contents
<1> QED BY <1>1, <1>2, <1>3, FreshIsGood DEF Stream!Keep

-----------------------------------------------------------------------------
(* The theorems. *)

LEMMA Start == Init => BInv /\ Stream!Init
<1> SUFFICES ASSUME Init PROVE BInv /\ Stream!Init
  OBVIOUS
<1>1. Good(buf) /\ Contents(buf) = <<>>
  BY FreshIsGood DEF Init
<1>2. /\ buf.mem \in Seq(Bytes \cup {NUL, Junk}) /\ Len(buf.mem) \in InitCap .. MaxCap
      /\ buf.tail \in 0 .. Len(buf.mem) /\ buf.head \in 0 .. buf.tail
  BY <1>1, CapAssumption DEF Good, Sound, Mem
<1>3. TypeOK
  BY <1>2 DEF Init, TypeOK
<1> QED BY <1>1, <1>3 DEF Init, BInv, Good, TokenIsRead, TokenIntact, Stream!Init

LEMMA StepKeepsAndMaps == BInv /\ [Next]_vars => BInv' /\ [Stream!Next]_(Stream!svars)
<1> SUFFICES ASSUME BInv, [Next]_vars
             PROVE  BInv' /\ (Stream!Next \/ StreamStays)
  BY DEF StreamStays, Stream!svars
<1>1. ASSUME NEW s \in Strings,
             WriteStr(s) \/ WriteLine(s) \/ WriteFmt(s) \/ WriteRaw(s) \/ Consume(s)
      PROVE  BInv' /\ (Stream!Next \/ StreamStays)
  <2>1. CASE WriteStr(s)
    BY <2>1, WriteStrStep DEF Stream!Next
  <2>2. CASE WriteLine(s)
    BY <2>2, WriteLineStep DEF Stream!Next
  <2>3. CASE WriteFmt(s)
    BY <2>3, WriteFmtStep
  <2>4. CASE WriteRaw(s)
    BY <2>4, WriteRawStep DEF Stream!Next
  <2>5. CASE Consume(s)
    BY <2>5, ConsumeStep DEF Stream!Next
  <2> QED BY <1>1, <2>1, <2>2, <2>3, <2>4, <2>5
<1>2. ASSUME NEW x \in Bytes, WriteByte(x)
      PROVE  BInv' /\ (Stream!Next \/ StreamStays)
  BY <1>2, WriteByteStep DEF Stream!Next
<1>3. CASE FormatRound
  <2>1. fmt \in Strings
    BY <1>3 DEF FormatRound, BInv, TypeOK
  <2> QED BY <1>3, <2>1, FormatRoundStep DEF Stream!Next
<1>4. ASSUME NEW n \in 1 .. MaxCap, CallEnsureCap(n) \/ Read(n)
      PROVE  BInv' /\ (Stream!Next \/ StreamStays)
  BY <1>4, CallEnsureCapStep, ReadStep DEF Stream!Next
<1>5. CASE CallEnsureMaxCap \/ CallCompact
  BY <1>5, RoomStep DEF Stream!Next
<1>6. ASSUME NEW p \in BOOLEAN, TokenNext(p)
      PROVE  BInv' /\ (Stream!Next \/ StreamStays)
  BY <1>6, TokenNextStep DEF Stream!Next
<1>7. CASE CallReset \/ Destroy \/ New
  BY <1>7, CallResetStep, DestroyStep, NewStep DEF Stream!Next
<1>8. CASE UNCHANGED vars
  <2>1. BInv'
    BY <1>8 DEF vars, BInv, TypeOK, Sound, TokenIsRead, TokenIntact
  <2> QED BY <1>8, <2>1 DEF vars, StreamStays
<1> QED BY <1>1, <1>2, <1>3, <1>4, <1>5, <1>6, <1>7, <1>8 DEF Next

(* What each call does to the stream. *)
LEMMA CallsPromised == BInv /\ [Next]_vars => [CallsAsPromised]_vars
<1> SUFFICES ASSUME BInv PROVE CallsAsPromised
  OBVIOUS
<1>1. ASSUME NEW s \in Strings
      PROVE  /\ WriteStr(s) /\ life' = "live" => Stream!WriteStr(s)
             /\ WriteLine(s) /\ life' = "live" => Stream!WriteLine(s)
             /\ WriteRaw(s) => Stream!WriteStr(s)
             /\ WriteFmt(s) => UNCHANGED Contents(buf)
             /\ Consume(s) => Stream!Consume(s)
  BY WriteStrStep, WriteLineStep, WriteRawStep, WriteFmtStep, ConsumeStep DEF StreamStays
<1>2. ASSUME NEW x \in Bytes PROVE WriteByte(x) => Stream!WriteStr(<<x>>)
  BY WriteByteStep
<1>3. FormatRound => IF fmt' = <<>> THEN Stream!WriteFmt(fmt) ELSE UNCHANGED Contents(buf)
  BY FormatRoundStep DEF StreamStays
<1>4. ASSUME NEW n \in 1 .. MaxCap
      PROVE  (CallEnsureCap(n) => Stream!EnsureCap(n)) /\ (Read(n) => Stream!Read)
  BY CallEnsureCapStep, ReadStep
<1>5. CallEnsureMaxCap \/ CallCompact => Stream!Keep
  BY RoomStep
<1>6. (\E p \in BOOLEAN : TokenNext(p)) => Stream!Token
  BY TokenNextStep
<1>7. CallReset => Stream!Reset \/ Stream!ResetIfEmpty
  BY CallResetStep
<1> QED BY <1>1, <1>2, <1>3, <1>4, <1>5, <1>6, <1>7 DEF CallsAsPromised

(* The invariant holds in every state.                                      *)
THEOREM BufferInvariant == Spec => []BInv
BY Start, StepKeepsAndMaps, PTL DEF Spec

(* head, tail and the capacity stay in order, and no write of the code,     *)
(* vsnprintf's NUL included, leaves the memory (buffer.c, buffer.h).        *)
THEOREM BufferStaysInBounds == Spec => []TypeOK
<1>1. BInv => TypeOK
  BY DEF BInv
<1> QED BY <1>1, BufferInvariant, PTL

(* A token token_next returned (buffer.c:132) is not changed by calls that  *)
(* read, other calls of token_next and their zeroing included.              *)
THEOREM BufferKeepsTokens == Spec => []TokenIntact
<1>1. BInv => TokenIntact
  BY DEF BInv
<1> QED BY <1>1, BufferInvariant, PTL

(* The buffer is a bounded stream of bytes: growth, compaction and reset    *)
(* are invisible, each write stores its bytes, or is refused because they   *)
(* do not fit under max_cap, and never otherwise, and tokens and formatted  *)
(* output are what they should be (buffer.c, buffer.h).                     *)
THEOREM BufferIsAByteStream == Spec => ImplementsByteStream
BY Start, StepKeepsAndMaps, CallsPromised, BufferInvariant, PTL
   DEF Spec, ImplementsByteStream, Stream!Spec

-----------------------------------------------------------------------------
(* How many rounds write_vfmt still makes.  One, if the output fits or      *)
(* there is no more room for it; one more, if the memory has the room but   *)
(* not in one piece; and one more, if the memory has to grow, for the room  *)
(* need not be in one piece then.                                           *)
RoundsFor(b, n) ==
    LET r == ResetIfEmpty(b)
    IN  IF n < Space(r) \/ Refuses(r, n + 1) THEN 1 ELSE IF Cap(r) > n THEN 2 ELSE 3
FormatRoundsLeft == IF fmt = <<>> THEN 0 ELSE RoundsFor(buf, Len(fmt))

LEMMA ResetIs ==
    ASSUME NEW b, Sound(b), b.head = b.tail
    PROVE  ResetIfEmpty(b) = [mem |-> b.mem, head |-> 0, tail |-> 0]
BY DEF Sound, Reset, ResetIfEmpty

(* A reset has nothing left to do on its result.                            *)
LEMMA ResetOnce ==
    ASSUME NEW b, Good(b)
    PROVE  LET r == ResetIfEmpty(b)
           IN  /\ Good(r) /\ r.mem = b.mem /\ Length(r) = Length(b) /\ Cap(r) = Cap(b)
               /\ r.head = r.tail => r.head = 0
               /\ ResetIfEmpty(r) = r
<1> DEFINE r == ResetIfEmpty(b)
<1>1. Good(r) /\ r.mem = b.mem /\ Length(r) = Length(b) /\ (r.head = r.tail => r.head = 0)
  BY GoodReset, ResetIfEmptyKeeps DEF Good
<1> HIDE DEF r
<1>2. Cap(r) = Cap(b)
  BY <1>1 DEF Cap
<1>3. r = [mem |-> r.mem, head |-> r.head, tail |-> r.tail]
  BY <1>1 DEF Good, Sound
<1>4. ResetIfEmpty(r) = r
  <2>1. CASE r.head = r.tail
    <3>1. r.head = 0 /\ r.tail = 0
      BY <1>1, <2>1
    <3>2. ResetIfEmpty(r) = [mem |-> r.mem, head |-> 0, tail |-> 0]
      BY <1>1, <2>1, ResetIs DEF Good
    <3> QED BY <1>3, <3>1, <3>2
  <2>2. CASE r.head # r.tail
    BY <2>2 DEF ResetIfEmpty
  <2> QED BY <2>1, <2>2
<1> QED BY <1>1, <1>2, <1>4 DEF r

(* Compaction puts the room that is left in one piece.                      *)
LEMMA CompactedFits ==
    ASSUME NEW b, Good(b), NEW n \in Nat, Cap(b) > n
    PROVE  RoundsFor(Compact(b), n) = 1
<1> DEFINE c == Compact(b)
<1>1. /\ Sound(c) /\ Len(c.mem) = Len(b.mem)
      /\ Length(c) = Length(b) /\ c.tail = Length(b)
  BY CompactKeeps DEF Good
<1> HIDE DEF c
<1>2. Good(c)
  BY <1>1 DEF Good
<1> DEFINE d == ResetIfEmpty(c)
<1>3. Good(d) /\ d.mem = c.mem /\ Length(d) = Length(c)
  BY <1>2, ResetOnce
<1>4. d.tail <= c.tail
  <2>1. d.tail \in {0, c.tail}
    BY <1>1 DEF ResetIfEmpty, Reset, Sound
  <2>2. c.tail \in Nat
    BY <1>1 DEF Sound
  <2> QED BY <2>1, <2>2
<1> HIDE DEF d
<1>5. /\ Len(b.mem) \in Nat /\ Length(b) \in Nat /\ d.tail \in Nat
      /\ Len(b.mem) - Length(b) > n /\ Len(d.mem) = Len(b.mem) /\ d.tail <= Length(b)
      /\ Space(d) = Len(d.mem) - d.tail
  BY <1>1, <1>3, <1>4, GoodSizes DEF Cap
<1>6. n < Space(d)
  BY <1>5
<1> QED BY <1>6 DEF RoundsFor, c, d

(* Growth leaves no need to grow.                                           *)
LEMMA GrownHasRoom ==
    ASSUME NEW b, Good(b), NEW n \in Nat, Length(b) + n + 1 <= MaxCap
    PROVE  RoundsFor(Grow(b), n) \in {1, 2}
<1> DEFINE g == Grow(b)
<1>1. Sound(g) /\ Len(g.mem) = MaxCap /\ Length(g) = Length(b)
  BY GrowKeeps DEF Good
<1> HIDE DEF g
<1>2. Good(g)
  BY <1>1, CapAssumption DEF Good
<1>3. Cap(ResetIfEmpty(g)) = Cap(g)
  BY <1>2, ResetOnce
<1>4. MaxCap \in Nat /\ Length(b) \in Nat /\ Cap(g) = MaxCap - Length(b)
  BY <1>1, GoodSizes DEF Cap
<1>5. Cap(g) > n
  BY <1>4
<1> QED BY <1>3, <1>5 DEF RoundsFor, g

(* What ensure_cap does for a round that did not fit.                       *)
LEMMA NextRoundIsNearer ==
    ASSUME NEW b, NEW c, Good(b), Good(c), NEW n \in Nat,
           Len(c.mem) = Len(ResetIfEmpty(b).mem),
           c.head = ResetIfEmpty(b).head, c.tail = ResetIfEmpty(b).tail,
           n >= Space(ResetIfEmpty(b)), ~Refuses(ResetIfEmpty(b), n + 1)
    PROVE  RoundsFor(EnsureCap(c, n + 1), n) < RoundsFor(b, n)
<1> DEFINE r == ResetIfEmpty(b)
           q == ResetIfEmpty(c)
           e == EnsureCap(c, n + 1)
<1>1. /\ Good(r) /\ (r.head = r.tail => r.head = 0) /\ ResetIfEmpty(r) = r
      /\ Len(c.mem) = Len(r.mem) /\ c.head = r.head /\ c.tail = r.tail
      /\ n >= Space(r) /\ ~Refuses(r, n + 1)
  BY ResetOnce
<1>2. RoundsFor(b, n) = IF Cap(r) > n THEN 2 ELSE 3
  <2>1. ~(n < Space(r))
    BY <1>1, GoodSizes
  <2> QED BY <1>1, <2>1 DEF RoundsFor
<1> HIDE DEF r
<1>3. /\ Good(q) /\ q.head = r.head /\ q.tail = r.tail /\ Len(q.mem) = Len(r.mem)
  <2>1. Good(q) /\ q.mem = c.mem
    BY ResetOnce
  <2>2. q.head = c.head /\ q.tail = c.tail
    BY <1>1 DEF Good, Sound, ResetIfEmpty, Reset
  <2> HIDE DEF q
  <2> QED BY <1>1, <2>1, <2>2
<1>4. Space(q) = Space(r) /\ Length(q) = Length(r) /\ Cap(q) = Cap(r)
  <2> HIDE DEF q
  <2> QED BY <1>3 DEF Space, Length, Cap
<1>5. /\ Space(r) \in Nat /\ Length(r) \in Nat /\ MaxCap \in Nat /\ Cap(r) \in Int
      /\ ~(Space(r) >= n + 1)
  <2>1. /\ Len(r.mem) \in Nat /\ r.tail \in Nat /\ r.tail <= Len(r.mem)
        /\ Length(r) \in Nat /\ MaxCap \in Nat /\ Space(r) = Len(r.mem) - r.tail
    BY <1>1, GoodSizes
  <2>2. Cap(r) \in Int
    BY <2>1 DEF Cap
  <2> QED BY <1>1, <2>1, <2>2
<1>6. ~Refuses(c, n + 1) /\ Length(r) + n + 1 <= MaxCap
  <2>1. ~(Space(r) < n + 1 /\ Length(r) + (n + 1) > MaxCap)
    BY <1>1 DEF Refuses
  <2>2. Refuses(c, n + 1) <=> Space(q) < n + 1 /\ Length(q) + (n + 1) > MaxCap
    BY DEF Refuses
  <2> HIDE DEF q
  <2>3. Length(r) + n + 1 <= MaxCap
    BY <1>5, <2>1
  <2> QED BY <1>4, <2>1, <2>2, <2>3
<1>7. e = IF Cap(q) >= n + 1 THEN Compact(q) ELSE Grow(q)
  BY <1>4, <1>5, <1>6 DEF EnsureCap
<1> HIDE DEF q, e
<1>8. CASE Cap(r) > n
  <2>1. Cap(q) > n /\ Cap(q) >= n + 1
    BY <1>4, <1>5, <1>8
  <2>2. RoundsFor(e, n) = 1
    BY <1>3, <1>7, <2>1, CompactedFits
  <2> QED BY <1>2, <1>8, <2>2 DEF e
<1>9. CASE ~(Cap(r) > n)
  <2>1. ~(Cap(q) >= n + 1)
    BY <1>4, <1>5, <1>9
  <2>2. RoundsFor(e, n) \in {1, 2}
    BY <1>3, <1>4, <1>6, <1>7, <2>1, GrownHasRoom
  <2> QED BY <1>2, <1>9, <2>2 DEF e
<1> QED BY <1>8, <1>9

LEMMA RoundsAreFew ==
    FormatRoundsLeft \in 0 .. 3 /\ (fmt # <<>> => FormatRoundsLeft >= 1)
BY DEF FormatRoundsLeft, RoundsFor

LEMMA RoundIsNearer ==
    ASSUME BInv, BInv', FormatRound
    PROVE  FormatRoundsLeft' < FormatRoundsLeft
<1> DEFINE r == ResetIfEmpty(buf)
           n == Len(fmt)
           cut == Put(r, Cut(fmt, Space(r)))
<1>1. life = "live" /\ fmt # <<>> /\ fmt \in Strings
  BY DEF FormatRound, BInv, TypeOK
<1>2. Good(buf) /\ n \in Nat /\ fmt \in Seq(Mem)
  BY <1>1, InUse, StringsAreBytes
<1>3. Good(r)
  BY <1>2, ResetOnce
<1>4. CASE fmt' = <<>>
  <2>1. FormatRoundsLeft' = 0
    BY <1>4 DEF FormatRoundsLeft
  <2> QED BY <1>1, <2>1, RoundsAreFew
<1>5. CASE /\ n >= Space(r) /\ ~Refuses(r, n + 1) /\ fmt' = fmt
           /\ buf' = EnsureCap([cut EXCEPT !.tail = r.tail], n + 1)
  <2> DEFINE c == [cut EXCEPT !.tail = r.tail]
  <2> HIDE DEF r
  <2>1. Space(r) \in 0 .. n
    BY <1>2, <1>3, <1>5, GoodSizes DEF Good, Sound
  <2>2. /\ Cut(fmt, Space(r)) \in Seq(Mem) /\ Len(Cut(fmt, Space(r))) = Space(r)
    <3>1. fmt \in Seq(Bytes)
      BY <1>1, StringsAreBytes
    <3> QED BY <1>2, <2>1, <3>1, CutIs
  <2>3. Good(cut) /\ Len(cut.mem) = Len(r.mem) /\ cut.head = r.head
    <3>1. Len(Cut(fmt, Space(r))) <= Space(r)
      BY <2>1, <2>2
    <3>2. Sound(cut) /\ Len(cut.mem) = Len(r.mem) /\ Good(cut)
      <4> HIDE DEF Mem
      <4> QED BY <1>3, <2>2, <3>1, PutAppends, GoodPut DEF Good
    <3>3. cut.head = r.head
      BY <1>3 DEF Put, Good, Sound
    <3> QED BY <3>2, <3>3
  <2>4. /\ c = [mem |-> cut.mem, head |-> r.head, tail |-> r.tail]
        /\ Good(c) /\ Len(c.mem) = Len(r.mem) /\ c.head = r.head /\ c.tail = r.tail
    <3> HIDE DEF cut
    <3>1. c = [mem |-> cut.mem, head |-> r.head, tail |-> r.tail]
      BY <2>3 DEF Good, Sound
    <3> HIDE DEF c
    <3> QED BY <1>3, <2>3, <3>1 DEF Good, Sound
  <2>5. buf' = EnsureCap(c, n + 1)
    BY <1>5
  <2> HIDE DEF c, cut
  <2>6. RoundsFor(EnsureCap(c, n + 1), n) < RoundsFor(buf, n)
    BY <1>2, <1>5, <2>4, NextRoundIsNearer DEF r
  <2>7. FormatRoundsLeft = RoundsFor(buf, n) /\ FormatRoundsLeft' = RoundsFor(buf', n)
    BY <1>1, <1>5 DEF FormatRoundsLeft
  <2> QED BY <2>5, <2>6, <2>7
<1> QED BY <1>4, <1>5 DEF FormatRound

(* The loop of write_vfmt (buffer.c:74-90) has no bound of its own.  It     *)
(* makes three rounds at most: each is nearer to the end, because what      *)
(* ensure_cap makes of the buffer can hold the output, NUL included, or     *)
(* nothing can.                                                             *)
THEOREM BufferFormatShortens ==
    Spec => [][FormatRound => /\ FormatRoundsLeft \in 0 .. 3
                              /\ FormatRoundsLeft' < FormatRoundsLeft]_vars
<1>1. BInv /\ BInv' => [FormatRound => /\ FormatRoundsLeft \in 0 .. 3
                                      /\ FormatRoundsLeft' < FormatRoundsLeft]_vars
  BY RoundIsNearer, RoundsAreFew
<1> QED BY <1>1, BufferInvariant, PTL
=============================================================================
