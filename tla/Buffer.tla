------------------------------- MODULE Buffer -------------------------------
(***************************************************************************)
(* src/buffer.c and src/include/a3/buffer.h: the growable byte buffer.     *)
(* The contents are the bytes from head to tail; what is before head was   *)
(* read, what is after tail is free.  The helpers are functions from a     *)
(* buffer to a buffer, composed as the code composes them.                 *)
(*                                                                         *)
(* A call is one step, except formatted output, whose loop takes a step    *)
(* for each round.                                                         *)
(***************************************************************************)
EXTENDS Integers, Sequences, FiniteSetsExt

CONSTANTS
    Bytes, NL,   \* the bytes written; NL is the newline
    Delims,      \* the delimiters of tokens
    NUL, Junk,   \* the zero byte; a byte nobody has set
    Strings,     \* what a caller writes at once
    InitCap, MaxCap,
    NoToken      \* no token is in use

ASSUME BytesAssumption ==
    /\ NL \in Bytes /\ Delims \subseteq Bytes
    /\ NUL \notin Bytes /\ Junk \notin Bytes
ASSUME StringsAssumption == \A s \in Strings : s \in Seq(Bytes) /\ s # <<>>
ASSUME CapAssumption == InitCap \in Nat \ {0} /\ MaxCap \in Nat /\ InitCap <= MaxCap

VARIABLES
    buf,    \* mem: the bytes of data; head; tail
    fmt,    \* the output write_vfmt still has to get in, or <<>>
    ok,     \* what the last call returned
    life,   \* "live", "gone" after destroy, or "aborted" by an assertion
    token   \* history: a token that was returned, from where it is, or NoToken

vars == <<buf, fmt, ok, life, token>>

Fresh == [mem |-> [n \in 1 .. InitCap |-> NUL], head |-> 0, tail |-> 0]

Init ==
    /\ buf = Fresh
    /\ fmt = <<>>
    /\ ok = TRUE
    /\ life = "live"
    /\ token = NoToken

-----------------------------------------------------------------------------
(* The helpers of buffer.h. *)

Length(b) == b.tail - b.head
Contents(b) == SubSeq(b.mem, b.head + 1, b.tail)

Reset(b) == [b EXCEPT !.head = 0, !.tail = 0]
ResetIfEmpty(b) == IF b.head = b.tail THEN Reset(b) ELSE b

Cap(b) == Len(b.mem) - Length(b)

(* Of a buffer that was reset if it was empty. *)
Space(b) == Len(b.mem) - b.tail

(* Mutant: the bytes stay where they were. *)
Compact_MovesNothing(b) == [b EXCEPT !.head = 0, !.tail = Length(b)]

(* The memmove leaves the bytes after the contents as they were. *)
Compact(b) ==
    [mem |-> Contents(b) \o SubSeq(b.mem, Length(b) + 1, Len(b.mem)),
     head |-> 0, tail |-> Length(b)]

(* The search for a new capacity starts from max_cap and ends there. *)
Grow(b) == [b EXCEPT !.mem = @ \o [n \in 1 .. MaxCap - Len(@) |-> Junk]]

(* ensure_cap(n): whether it refuses, and the buffer it leaves. *)
Refuses(b, n) ==
    LET r == ResetIfEmpty(b)
    IN  Space(r) < n /\ Length(r) + n > MaxCap

EnsureCap(b, n) ==
    LET r == ResetIfEmpty(b)
    IN  IF Space(r) >= n \/ Refuses(b, n) THEN r
        ELSE IF Cap(r) >= n THEN Compact(r)
        ELSE Grow(r)

(* s is copied to the tail.  A byte that does not fit is written past the   *)
(* end, which TypeOK would show.                                            *)
Put(b, s) ==
    [b EXCEPT !.mem = [n \in DOMAIN @ |->
                          IF n - b.tail \in DOMAIN s THEN s[n - b.tail] ELSE @[n]],
              !.tail = @ + Len(s)]

-----------------------------------------------------------------------------
(* Writing.  A write ends the use of a token, as buffer.c:132 asks for. *)

Idle == life = "live" /\ fmt = <<>>

Return(b, result) ==
    /\ buf' = b
    /\ ok' = result
    /\ UNCHANGED <<fmt, life>>

(* wrote asserts that what was written fits: write_str stops here when      *)
(* ensure_cap made room, but not enough of it in one piece.                 *)
Overruns(b, n) == Space(ResetIfEmpty(EnsureCap(b, n))) < n

Abort ==
    /\ life' = "aborted"
    /\ UNCHANGED <<buf, fmt, ok>>

(* Mutant: the last byte is never used. *)
TooLong_OffByOne(b, s) == Len(s) + Length(b) >= MaxCap

TooLong(b, s) == Len(s) + Length(b) > MaxCap

Written(b, s) == Put(ResetIfEmpty(EnsureCap(b, Len(s))), s)

WriteStr(s) ==
    /\ Idle
    /\ \/ TooLong(buf, s) /\ Return(buf, FALSE)
       \/ ~TooLong(buf, s) /\ Overruns(buf, Len(s)) /\ Abort
       \/ ~TooLong(buf, s) /\ ~Overruns(buf, Len(s)) /\ Return(Written(buf, s), TRUE)
    /\ token' = NoToken

(* Mutant: the byte is stored without making room. *)
WriteByte_NoRoom(x) ==
    /\ Idle
    /\ Return(Put(buf, <<x>>), TRUE)
    /\ token' = NoToken

(* write_byte stores at the tail ensure_cap left. *)
WriteByte(x) ==
    /\ Idle
    /\ \/ Refuses(buf, 1) /\ Return(EnsureCap(buf, 1), FALSE)
       \/ ~Refuses(buf, 1) /\ Return(Put(EnsureCap(buf, 1), <<x>>), TRUE)
    /\ token' = NoToken

WriteLine(s) ==
    /\ Idle
    /\ \/ TooLong(buf, s) /\ Return(buf, FALSE)
       \/ ~TooLong(buf, s) /\ Overruns(buf, Len(s)) /\ Abort
       \/ /\ ~TooLong(buf, s) /\ ~Overruns(buf, Len(s))
          /\ LET b == Written(buf, s)
             IN  IF Refuses(b, 1) THEN Return(EnsureCap(b, 1), FALSE)
                 ELSE Return(Put(EnsureCap(b, 1), <<NL>>), TRUE)
    /\ token' = NoToken

WriteFmt(s) ==
    /\ Idle
    /\ fmt' = s
    /\ token' = NoToken
    /\ UNCHANGED <<buf, ok, life>>

(* What vsnprintf leaves of s in n bytes: the last of them is NUL. *)
Cut(s, n) ==
    IF n = 0 THEN <<>> ELSE IF Len(s) < n THEN s \o <<NUL>>
    ELSE SubSeq(s, 1, n - 1) \o <<NUL>>

(* Mutant: no room is asked for the NUL (the bug buf.cc:67 remembers). *)
FormatRound_AskExact ==
    /\ life = "live" /\ fmt # <<>>
    /\ LET r == ResetIfEmpty(buf)
           n == Len(fmt)
       IN  \/ n < Space(r) /\ buf' = Put(r, fmt) /\ fmt' = <<>> /\ ok' = TRUE
           \/ /\ n >= Space(r) /\ Refuses(r, n)
              /\ buf' = Put(r, Cut(fmt, Space(r))) /\ fmt' = <<>> /\ ok' = TRUE
           \/ /\ n >= Space(r) /\ ~Refuses(r, n)
              /\ buf' = EnsureCap([Put(r, Cut(fmt, Space(r))) EXCEPT !.tail = r.tail], n)
              /\ UNCHANGED <<fmt, ok>>
    /\ UNCHANGED <<life, token>>

(* One round of write_vfmt: the output fits, with its NUL; or there is no   *)
(* more room and it stays cut; or room is made for another round.           *)
FormatRound ==
    /\ life = "live" /\ fmt # <<>>
    /\ LET r == ResetIfEmpty(buf)
           n == Len(fmt)
           whole == Put(r, fmt \o <<NUL>>)
           cut == Put(r, Cut(fmt, Space(r)))
       IN  \/ /\ n < Space(r)
              /\ buf' = [whole EXCEPT !.tail = r.tail + n]
              /\ fmt' = <<>> /\ ok' = TRUE
           \/ /\ n >= Space(r) /\ Refuses(r, n + 1)
              /\ buf' = cut
              /\ fmt' = <<>> /\ ok' = TRUE
           \/ /\ n >= Space(r) /\ ~Refuses(r, n + 1)
              /\ buf' = EnsureCap([cut EXCEPT !.tail = r.tail], n + 1)
              /\ UNCHANGED <<fmt, ok>>
    /\ UNCHANGED <<life, token>>

(* A caller fills part of write_ptr and reports it with wrote. *)
WriteRaw(s) ==
    /\ Idle
    /\ Len(s) <= Space(ResetIfEmpty(buf))
    /\ Return(Put(ResetIfEmpty(buf), s), TRUE)
    /\ token' = NoToken

-----------------------------------------------------------------------------
(* Making room. *)

CallEnsureCap(n) ==
    /\ Idle
    /\ Return(EnsureCap(buf, n), ~Refuses(buf, n))
    /\ token' = NoToken

CallEnsureMaxCap ==
    /\ Idle
    /\ \/ Len(buf.mem) >= MaxCap /\ Return(buf, TRUE)
       \/ /\ Len(buf.mem) < MaxCap
          /\ LET n == MaxCap - Len(buf.mem)
             IN  Return(EnsureCap(buf, n), ~Refuses(buf, n))
    /\ token' = NoToken

CallCompact ==
    /\ Idle
    /\ buf.head # 0
    /\ Return(Compact(buf), TRUE)
    /\ token' = NoToken

-----------------------------------------------------------------------------
(* Reading. *)

Took(b, n) == ResetIfEmpty([b EXCEPT !.head = @ + n])

Read(n) ==
    /\ Idle
    /\ n <= Length(buf)
    /\ Return(Took(buf, n), ok)
    /\ UNCHANGED token

(* The first occurrence of the needle is at head if there is one at head. *)
Consume(s) ==
    /\ Idle
    /\ LET here == Len(s) <= Length(buf) /\ SubSeq(Contents(buf), 1, Len(s)) = s
       IN  Return(IF here THEN Took(buf, Len(s)) ELSE buf, here)
    /\ UNCHANGED token

(* The first index from n on, below tail, where a delimiter is (is not). *)
NextDelim(b, n) == Min({j \in n .. b.tail : j = b.tail \/ b.mem[j + 1] \in Delims})
NextOther(b, n) == Min({j \in n .. b.tail : j = b.tail \/ b.mem[j + 1] \notin Delims})

(* Mutant: the zeroing starts one byte early. *)
Zeroed_Early(b, from, to) ==
    [b EXCEPT !.mem = [n \in DOMAIN @ |-> IF n \in from .. to - 1 THEN NUL ELSE @[n]]]

Zeroed(b, from, to) ==
    [b EXCEPT !.mem = [n \in DOMAIN @ |-> IF n - 1 \in from .. to - 1 THEN NUL ELSE @[n]]]

(* The delimiters before the token are read one by one, which resets a      *)
(* buffer that holds nothing else; the token is passed without a read.      *)
TokenNext(preserveEnd) ==
    /\ Idle
    /\ LET b    == IF Length(buf) = 0 THEN buf
                   ELSE Took(buf, NextOther(buf, buf.head) - buf.head)
           end  == NextDelim(b, b.head)
           last == IF preserveEnd THEN end ELSE NextOther(b, end)
       IN  /\ Return([Zeroed(b, end, last) EXCEPT !.head = last], TRUE)
           /\ \/ token' = [at |-> b.head, bytes |-> SubSeq(b.mem, b.head + 1, end)]
              \/ UNCHANGED token

CallReset ==
    /\ Idle
    /\ \/ Return(Reset(buf), ok)
       \/ Return(ResetIfEmpty(buf), buf.head = buf.tail)
    /\ UNCHANGED token

(* destroy and free leave nothing, and init or new start again. *)
Destroy ==
    /\ Idle
    /\ buf' = [mem |-> <<>>, head |-> 0, tail |-> 0]
    /\ life' = "gone" /\ token' = NoToken
    /\ UNCHANGED <<fmt, ok>>

New ==
    /\ life = "gone"
    /\ buf' = Fresh
    /\ life' = "live" /\ ok' = TRUE
    /\ UNCHANGED <<fmt, token>>

-----------------------------------------------------------------------------
Next ==
    \/ \E s \in Strings :
          WriteStr(s) \/ WriteLine(s) \/ WriteFmt(s) \/ WriteRaw(s) \/ Consume(s)
    \/ \E x \in Bytes : WriteByte(x)
    \/ FormatRound
    \/ \E n \in 1 .. MaxCap : CallEnsureCap(n) \/ Read(n)
    \/ CallEnsureMaxCap \/ CallCompact
    \/ \E p \in BOOLEAN : TokenNext(p)
    \/ CallReset \/ Destroy \/ New

Spec == Init /\ [][Next]_vars

(* The thread that formats goes on. *)
FairSpec == Spec /\ WF_vars(FormatRound)

-----------------------------------------------------------------------------
(* Properties. *)

(* The indices stay in order and inside the memory; the memory grows to     *)
(* MaxCap at most.                                                          *)
TypeOK ==
    /\ buf.mem \in Seq(Bytes \cup {NUL, Junk})
    /\ Len(buf.mem) \in IF life = "gone" THEN {0} ELSE InitCap .. MaxCap
    /\ buf.tail \in 0 .. Len(buf.mem)
    /\ buf.head \in 0 .. buf.tail
    /\ fmt = <<>> \/ fmt \in Strings
    /\ ok \in BOOLEAN
    /\ life \in {"live", "gone", "aborted"}

Stream == INSTANCE ByteStream WITH stream <- Contents(buf)

(* Each call does to the contents, and answers, what its namesake of the    *)
(* stream does and answers; only an assertion that ends the program is      *)
(* none.  Formatted output is the stream's when its last round is made.     *)
CallsAsPromised ==
    /\ \A s \in Strings :
          /\ WriteStr(s) /\ life' = "live" => Stream!WriteStr(s)
          /\ WriteLine(s) /\ life' = "live" => Stream!WriteLine(s)
          /\ WriteRaw(s) => Stream!WriteStr(s)
          /\ WriteFmt(s) => UNCHANGED Contents(buf)
          /\ Consume(s) => Stream!Consume(s)
    /\ \A x \in Bytes : WriteByte(x) => Stream!WriteStr(<<x>>)
    /\ FormatRound => IF fmt' = <<>> THEN Stream!WriteFmt(fmt) ELSE UNCHANGED Contents(buf)
    /\ \A n \in 1 .. MaxCap :
          /\ CallEnsureCap(n) => Stream!EnsureCap(n)
          /\ Read(n) => Stream!Read
    /\ CallEnsureMaxCap \/ CallCompact => Stream!Keep
    /\ (\E p \in BOOLEAN : TokenNext(p)) => Stream!Token
    /\ CallReset => Stream!Reset \/ Stream!ResetIfEmpty

(* No growth, compaction, reset or refused write loses, adds or moves a     *)
(* byte of the contents, and no junk is ever among them; a write is refused *)
(* when its own bytes do not fit under max_cap, and only then; formatted    *)
(* output is whole unless it cannot be (buffer.h:208-230, buffer.c:55-106). *)
ImplementsByteStream == Stream!Spec /\ [][CallsAsPromised]_vars

(* A token stays what it was until something is written ("care should be    *)
(* taken not to write into the buffer", buffer.c:132).                      *)
TokenIntact ==
    token # NoToken =>
        SubSeq(buf.mem, token.at + 1, token.at + Len(token.bytes)) = token.bytes

(* The loop of write_vfmt ends: room is made at most twice. *)
FormatEnds == fmt # <<>> ~> fmt = <<>>

(* "Attempt to grow the buffer to fit at least min_extra_cap more bytes"    *)
(* (buffer.h:158): where ensure_cap returns true they fit.                  *)
EnsureCapFits ==
    [][\A n \in 1 .. MaxCap : CallEnsureCap(n) /\ ok' => Space(ResetIfEmpty(buf')) >= n]_vars
=============================================================================
