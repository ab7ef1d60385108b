------------------------------ MODULE Strings ------------------------------
(***************************************************************************)
(* src/str.c and src/include/a3/str.h: byte strings.  An A3String is a     *)
(* pointer and a length.  The model has one block of memory, as            *)
(* a3_string_alloc makes it, followed by a byte that belongs to someone    *)
(* else, and the client's string, which is a view of that block.           *)
(*                                                                         *)
(* Bytes are numbers.  The constant strings that clients pass are members  *)
(* of Texts; nothing in them is NULL, and they are outside the block.      *)
(***************************************************************************)
EXTENDS Integers, SequencesExt

CONSTANTS
    Texts,     \* the constant strings of the clients
    Numbers,   \* the numbers they print
    Rounded,   \* those just below a power of ten whose log10 comes out as its
               \* exponent, a double being too coarse: from 10^15 - 1 on
    MaxSize,   \* bound on the length of what they allocate
    Garbage    \* the bytes that realloc leaves uninitialised

Nul == 0
Neighbour == -1
Byte == 0 .. 255

ASSUME TextsAssumption ==
    /\ Texts \subseteq Seq(Byte) /\ Numbers \subseteq Nat /\ Rounded \subseteq Numbers
    /\ MaxSize \in Nat /\ Garbage \subseteq Byte

VARIABLES
    block,   \* tells one block from the next
    mem,     \* its bytes and the neighbour; empty when there is no block
    str,     \* the client's string: where it begins, 0 for NULL, and its length
    cut      \* history: itoa_into was given too short a string

strvars == <<block, mem, str, cut>>

-----------------------------------------------------------------------------
(* Views. *)

View(at, len) == [at |-> at, len |-> len]   \* a3_string_new
NullView == View(0, 0)
Offset(s, k) == View(s.at + k, s.len - k)
OffsetBack(s, k) == View(s.at - k, s.len + k)
BytesOf(m, s) == SubSeq(m, s.at, s.at + s.len - 1)
Text == BytesOf(mem, str)

(* bytes go to place at. *)
Memcpy(m, at, bytes) ==
    [i \in DOMAIN m |-> IF i - at + 1 \in DOMAIN bytes THEN bytes[i - at + 1] ELSE m[i]]

(* A fresh block of a3_string_alloc. *)
Calloc(n) == [i \in 1 .. n + 1 |-> Nul] \o <<Neighbour>>

-----------------------------------------------------------------------------
(* What the calls write: functions of the memory, of the string given and  *)
(* of the other arguments.                                                 *)

(* Mutant: copies all of the source, whatever the room. *)
Copy_Whole(m, s, text) == Memcpy(m, s.at, text)

Copy(m, s, text) == Memcpy(m, s.at, SubSeq(text, 1, Min({s.len, Len(text)})))

(* Mutant: the room left is taken to be that of the whole string. *)
Concat_SameRoom(m, s, parts) ==
    FoldLeft(LAMBDA acc, t :
                 IF acc.off < s.len
                 THEN [m |-> Copy(acc.m, View(s.at + acc.off, s.len), t), off |-> acc.off + Len(t)]
                 ELSE acc,
             [m |-> m, off |-> 0], parts).m

Concat(m, s, parts) ==
    FoldLeft(LAMBDA acc, t :
                 IF acc.off < s.len
                 THEN [m |-> Copy(acc.m, Offset(s, acc.off), t), off |-> acc.off + Len(t)]
                 ELSE acc,
             [m |-> m, off |-> 0], parts).m

(* The first half is exchanged with the last. *)
Reversed(bytes) ==
    LET n == Len(bytes)
        half == n \div 2
    IN  [i \in 1 .. n |-> IF i <= half \/ i > n - half THEN bytes[n + 1 - i] ELSE bytes[i]]

ToLower(c) == IF c \in 65 .. 90 THEN c + 32 ELSE c

(* How many bytes there are before the first NUL. *)
UpToNul(bytes) ==
    IF Contains(bytes, Nul) THEN SelectInSeq(bytes, LAMBDA c : c = Nul) - 1 ELSE Len(bytes)

(* It stops at a NUL. *)
Lowercase(bytes) ==
    [i \in DOMAIN bytes |-> IF i <= UpToNul(bytes) THEN ToLower(bytes[i]) ELSE bytes[i]]

(* itoa_into: what is left of v after each of n rounds of its loop, how      *)
(* often the loop runs for a string of length len, and the digits it leaves. *)
Rests(n, v) ==
    LET rest[i \in 0 .. n] == IF i = 0 THEN v ELSE rest[i - 1] \div 10 IN rest

ItoaLoops(len, v) ==
    LET rest == Rests(len + 1, v)
    IN  Min({i \in 1 .. len + 1 : i = len + 1 \/ rest[i] = 0})

(* How often the loop runs when there is room for every digit, which a tenth *)
(* of the number has to spare.                                               *)
NumDigits(v) == ItoaLoops(v \div 10, v)

(* floor(log10((double)v)) + 1, or 1 for 0: the number of digits, or one more. *)
Log10Digits(v) == NumDigits(v) + IF v \in Rounded THEN 1 ELSE 0

(* Mutant: the digits are left in the order in which they were written. *)
Digits_Backwards(n, v) ==
    LET rest == Rests(n, v) IN [i \in 1 .. n |-> 48 + (rest[i - 1] % 10)]

Digits(n, v) ==
    LET rest == Rests(n, v) IN Reversed([i \in 1 .. n |-> 48 + (rest[i - 1] % 10)])

-----------------------------------------------------------------------------
(* The queries. *)

IsAscii(bytes) == \A i \in DOMAIN bytes : bytes[i] < 128

(* strncmp on bytes of one length: the first difference decides, unless a   *)
(* NUL comes first.                                                         *)
StrNCmp(a, b) ==
    LET differ == {i \in DOMAIN a : a[i] # b[i] /\ \A j \in 1 .. i - 1 : a[j] # Nul}
    IN  IF differ = {} THEN 0 ELSE a[Min(differ)] - b[Min(differ)]

Lowered(bytes) == [i \in DOMAIN bytes |-> ToLower(bytes[i])]
Cmp(a, b) == IF Len(a) # Len(b) THEN -1 ELSE StrNCmp(a, b)

(* Mutant: the length of the other string does not count. *)
Cmpi_Prefix(a, b) ==
    IF Len(a) > Len(b) THEN -1 ELSE StrNCmp(Lowered(a), Lowered(SubSeq(b, 1, Len(a))))

Cmpi(a, b) == IF Len(a) # Len(b) THEN -1 ELSE StrNCmp(Lowered(a), Lowered(b))

(* operator== of C++, and what its hash is made of: every byte, NUL or not. *)
Equal(a, b) == Cmp(a, b) = 0
HashedBytes(a) == a

(* Where rchr finds c in the string s of memory m, 0 for NULL.  With an     *)
(* empty string the search begins before it and goes down through memory:   *)
(* -1 when it leaves the block.                                             *)
Rchr(m, s, c) ==
    LET before == {i \in 1 .. s.at - 1 : m[i] = c}
        within == {i \in s.at .. s.at + s.len - 1 : m[i] = c}
    IN  IF s.len = 0 THEN Max(before \cup {-1})
        ELSE Max(within \cup {0})

(* The two memmem of the shim: both give the first place that holds the     *)
(* needle, or 0, but the one for platforms without memmem never looks at    *)
(* the last place.                                                          *)
FirstPlace(hay, needle, last) ==
    LET at == {i \in 1 .. last : SubSeq(hay, i, i + Len(needle) - 1) = needle}
    IN  IF at = {} THEN 0 ELSE Min(at)
MemmemPresent(hay, needle) == FirstPlace(hay, needle, Len(hay) - Len(needle) + 1)
MemmemMissing(hay, needle) == FirstPlace(hay, needle, Len(hay) - Len(needle))

-----------------------------------------------------------------------------
(* The calls that change something. *)

StrInit == block = "a" /\ mem = <<>> /\ str = NullView /\ cut = FALSE

NewBlock(m, s) ==
    /\ block' = IF block = "a" THEN "b" ELSE "a"
    /\ mem' = m
    /\ str' = s
    /\ cut' = FALSE

StrAlloc(n) == mem = <<>> /\ NewBlock(Calloc(n), View(1, n))

Cloned(text) == Copy(Calloc(Len(text)), View(1, Len(text)), text)

StrClone(text) == mem = <<>> /\ NewBlock(Cloned(text), View(1, Len(text)))

StrToLowercase(text) ==
    LET s == View(1, Len(text))
    IN  mem = <<>> /\ NewBlock(Memcpy(Cloned(text), 1, Lowercase(BytesOf(Cloned(text), s))), s)

(* What realloc is given: NULL, or the pointer of the allocation, while     *)
(* nothing else was overwritten.                                            *)
Whole == mem = <<>> \/ (str.at = 1 /\ Last(mem) = Neighbour)
OldBytes == IF mem = <<>> THEN <<>> ELSE Front(mem)

(* Mutant: the byte after the string is left as it is. *)
StrRealloc_NoNul(n) ==
    /\ Whole
    /\ \E g \in Garbage :
           LET grown == [i \in 1 .. n + 1 |-> IF i \in DOMAIN OldBytes THEN OldBytes[i] ELSE g]
           IN  NewBlock(grown \o <<Neighbour>>, View(1, n))

StrRealloc(n) ==
    /\ Whole
    /\ \E g \in Garbage :
           LET grown == [i \in 1 .. n + 1 |-> IF i \in DOMAIN OldBytes THEN OldBytes[i] ELSE g]
           IN  NewBlock([grown EXCEPT ![n + 1] = Nul] \o <<Neighbour>>, View(1, n))

StrFree ==
    /\ str.at = 1
    /\ mem' = <<>>
    /\ str' = NullView
    /\ cut' = FALSE
    /\ UNCHANGED block

(* The client goes on with another part of the string: a3_string_offset,    *)
(* which asserts, and a3_string_offset_back, as far as the block goes.      *)
StrMove ==
    /\ str.at > 0
    /\ \E k \in 1 .. MaxSize :
           \/ k <= str.len /\ str' = Offset(str, k)
           \/ k < str.at /\ str' = OffsetBack(str, k)
    /\ UNCHANGED <<block, mem, cut>>

(* a3_string_from the char pointer of the string. *)
StrFrom ==
    /\ str.at > 0 /\ ~cut
    /\ str' = View(str.at, UpToNul(SubSeq(mem, str.at, Len(mem) - 1)))
    /\ UNCHANGED <<block, mem, cut>>

(* The calls that write to the bytes of the string. *)
Write(m) == mem' = m /\ UNCHANGED <<block, str, cut>>

StrCopy(text) == str.at > 0 /\ Write(Copy(mem, str, text))
StrConcat(parts) == str.at > 0 /\ Write(Concat(mem, str, parts))
StrReverse == str.at > 0 /\ Write(Memcpy(mem, str.at, Reversed(Text)))
StrLowercase == str.at > 0 /\ Write(Memcpy(mem, str.at, Lowercase(Text)))

(* The digits may take one byte more than the string has. *)
StrItoaInto(v) ==
    /\ str.at > 0
    /\ Last(mem) = Neighbour
    /\ LET n == ItoaLoops(str.len, v)
       IN  /\ mem' = Memcpy(mem, str.at, Digits(n, v))
           /\ str' = View(str.at, n)
           /\ cut' = (cut \/ n > str.len)
    /\ UNCHANGED block

(* itoa_into a string made for it. *)
StrItoa(v) ==
    LET size == Log10Digits(v)
        n == ItoaLoops(size, v)
    IN  mem = <<>> /\ NewBlock(Memcpy(Calloc(size), 1, Digits(n, v)), View(1, n))

StrNext ==
    \/ \E n \in 0 .. MaxSize : StrAlloc(n) \/ StrRealloc(n)
    \/ \E t \in Texts :
          StrClone(t) \/ StrToLowercase(t) \/ StrCopy(t) \/ \E u \in Texts : StrConcat(<<t, u>>)
    \/ \E v \in Numbers : StrItoaInto(v) \/ StrItoa(v)
    \/ StrFree \/ StrMove \/ StrFrom \/ StrReverse \/ StrLowercase

StrSpec == StrInit /\ [][StrNext]_strvars

-----------------------------------------------------------------------------
(* Properties. *)

(* Every view lies in the block, a NUL follows it there (str.c:25, 30), so  *)
(* that strlen and printing stop, and the bytes after the block are left    *)
(* alone; only a view that itoa_into made too long (str.c:100) can be used  *)
(* to break that.                                                           *)
StrInBlock ==
    IF mem = <<>> THEN str = NullView
    ELSE /\ str.at \in 1 .. Len(mem) + 1 /\ str.len \in 0 .. Len(mem)
         /\ \/ cut
            \/ /\ str.at + str.len < Len(mem)
               /\ mem[Len(mem) - 1] = Nul
               /\ Last(mem) = Neighbour

(* A call writes to the bytes of the string it is given and no others       *)
(* (str.c:56, 66); only itoa_into may take one byte more, which is then the *)
(* last byte of the string it returns (str.c:100).                          *)
WritesStayInView ==
    [][block' = block /\ mem' # <<>> =>
          \A i \in DOMAIN mem : mem'[i] # mem[i] =>
              \/ str.at <= i /\ i < str.at + str.len
              \/ i = str.at + str.len /\ str' = View(str.at, str.len + 1)]_strvars

(* concat leaves as much of its arguments, one after the other, as there is *)
(* space for, and the rest as it was (str.h:193-195).                       *)
ConcatTakesWhatFits ==
    str.at > 0 => \A t, u \in Texts :
        Concat(mem, str, <<t, u>>) =
            LET all == t \o u
            IN  Memcpy(mem, str.at,
                    [i \in 1 .. str.len |-> IF i <= Len(all) THEN all[i] ELSE Text[i]])

(* rchr finds the last place of a byte in a string that is not empty        *)
(* (str.c:138), and memmem, where the platform has it, the first place of a *)
(* needle: for one byte they find it both or neither, rchr not before.      *)
SearchAgrees ==
    /\ str.len > 0 => \A c \in ToSet(Text) \cup Garbage :
           LET last == SelectLastInSeq(Text, LAMBDA b : b = c)
           IN  Rchr(mem, str, c) = IF last = 0 THEN 0 ELSE str.at + last - 1
    /\ \A t \in Texts \ {<<>>} :
           LET p == MemmemPresent(Text, t)
           IN  /\ p = 0 <=> ~\E i \in DOMAIN Text : IsPrefix(t, SubSeq(Text, i, Len(Text)))
               /\ p > 0 => /\ IsPrefix(t, SubSeq(Text, p, Len(Text)))
                           /\ ~\E i \in 1 .. p - 1 : IsPrefix(t, SubSeq(Text, i, Len(Text)))
    /\ str.len > 0 => \A c \in ToSet(Text) \cup Garbage :
           LET p == MemmemPresent(Text, <<c>>)
           IN  IF p = 0 THEN Rchr(mem, str, c) = 0 ELSE Rchr(mem, str, c) >= str.at + p - 1

(* "Find the given substring in the given string, if present." (str.h:268)  *)
(* The memmem of platforms without one (missing.c:22) never looks at the    *)
(* last place.                                                              *)
MemmemFinds ==
    \A t \in Texts \ {<<>>} :
        (\E i \in DOMAIN Text : IsPrefix(t, SubSeq(Text, i, Len(Text)))) =>
            MemmemMissing(Text, t) > 0

(* cmp is 0 exactly for strings of one length that are the same as far as   *)
(* their first NUL; its sign changes with the order of its arguments when   *)
(* they have one length; cmpi is cmp of the lowercase strings, which are    *)
(* ASCII when the strings are (str.c:83, 112, 121, 128).  Strings with the  *)
(* same bytes to hash are equal (str.h:275, 286), and the other way round   *)
(* if they are without NUL.                                                 *)
CompareAgrees ==
    \A t \in Texts :
        /\ Cmp(Text, t) = 0 <=>
              /\ Len(Text) = Len(t)
              /\ SubSeq(Text, 1, UpToNul(Text)) = SubSeq(t, 1, UpToNul(t))
        /\ Len(Text) = Len(t) => (Cmp(Text, t) < 0 <=> Cmp(t, Text) > 0)
        /\ Cmpi(Text, t) = 0 <=> Cmp(Lowercase(Text), Lowercase(t)) = 0
        /\ IsAscii(Text) <=> IsAscii(Lowercase(Text))
        /\ HashedBytes(Text) = HashedBytes(t) => Equal(Text, t)
        /\ Nul \notin ToSet(t) /\ Equal(Text, t) => HashedBytes(Text) = HashedBytes(t)

(* Whatever calls led to the string, the searches of this platform agree    *)
(* with each other, and so do the comparisons of strings of one length, as  *)
(* far as their first NUL.                                                  *)
AnswersAgree == SearchAgrees /\ CompareAgrees

(* What the digits mean, and 10 to the power of n. *)
Reading(digits) ==
    LET read[k \in 0 .. Len(digits)] ==
            IF k = 0 THEN 0 ELSE 10 * read[k - 1] + digits[k] - 48
    IN  read[Len(digits)]
Tens(n) ==
    LET tens[k \in 0 .. n] == IF k = 0 THEN 1 ELSE 10 * tens[k - 1] IN tens[n]

(* Reading the digits of itoa_into gives the number, or its low digits when *)
(* the string is shorter by more than one (str.c:94-104).                   *)
ItoaReadsBack ==
    \A v \in Numbers :
        LET n == ItoaLoops(str.len, v)
        IN  /\ Reading(Digits(n, v)) = v % Tens(n)
            /\ n < NumDigits(v) <=> str.len + 1 < NumDigits(v)
=============================================================================
