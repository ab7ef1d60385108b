----------------------------- MODULE ByteStream -----------------------------
(***************************************************************************)
(* What the buffer promises: a stream of bytes of bounded length, written  *)
(* at its end and read, or taken token by token, at its front.             *)
(***************************************************************************)
EXTENDS Integers, Sequences

CONSTANTS
    Bytes, Delims, NL, NUL,
    Strings,  \* what is written at once
    MaxCap    \* the most the stream may hold

VARIABLES stream, ok

svars == <<stream, ok>>

Init == stream = <<>> /\ ok = TRUE

Fits(s) == Len(stream) + Len(s) <= MaxCap

Add(s) == stream' = stream \o s /\ ok' = TRUE
Refuse == ok' = FALSE /\ UNCHANGED stream

(* A write is refused when it does not fit, and only then. *)
WriteStr(s) == IF Fits(s) THEN Add(s) ELSE Refuse

(* A line may end up without its newline. *)
WriteLine(s) ==
    IF Fits(s \o <<NL>>) THEN Add(s \o <<NL>>)
    ELSE IF Fits(s) THEN stream' = stream \o s /\ ok' = FALSE
    ELSE Refuse

(* Formatted output needs one byte more than its length, for the NUL that   *)
(* is not kept; where that byte is missing the output is cut, the NUL being *)
(* its last byte.                                                           *)
WriteFmt(s) ==
    \/ Add(s)
    \/ /\ ~Fits(s \o <<NUL>>)
       /\ \E n \in 0 .. Len(s) :
             Add(IF n = 0 THEN <<>> ELSE SubSeq(s, 1, n - 1) \o <<NUL>>)

Rest(n) == SubSeq(stream, n + 1, Len(stream))

Read == \E n \in 0 .. Len(stream) : stream' = Rest(n) /\ UNCHANGED ok

Consume(s) ==
    IF Len(s) <= Len(stream) /\ SubSeq(stream, 1, Len(s)) = s
    THEN stream' = Rest(Len(s)) /\ ok' = TRUE
    ELSE Refuse

(* A token is preceded by delimiters only and has none in it; the stream    *)
(* goes on at the delimiters after it or behind them.                       *)
Token ==
    /\ \E skip \in 0 .. Len(stream), end \in 0 .. Len(stream), last \in 0 .. Len(stream) :
          /\ skip <= end /\ end <= last
          /\ \A j \in 1 .. skip : stream[j] \in Delims
          /\ \A j \in skip + 1 .. end : stream[j] \notin Delims
          /\ \A j \in end + 1 .. last : stream[j] \in Delims
          /\ end < Len(stream) => stream[end + 1] \in Delims
          /\ skip = end => end = Len(stream)
          /\ last \in {end, Len(stream)} \/ stream[last + 1] \notin Delims
          /\ stream' = Rest(last)
    /\ ok' = TRUE

Reset == stream' = <<>> /\ UNCHANGED ok

(* Room for n more bytes is there or is made, unless the stream would be    *)
(* longer than it may be.  No byte changes.                                 *)
EnsureCap(n) == ok' = (Len(stream) + n <= MaxCap) /\ UNCHANGED stream

(* A call that arranges the memory, and succeeds. *)
Keep == ok' = TRUE /\ UNCHANGED stream

ResetIfEmpty == ok' = (stream = <<>>) /\ UNCHANGED stream

Next ==
    \/ Keep
    \/ \E s \in Strings : WriteStr(s) \/ WriteLine(s) \/ WriteFmt(s) \/ Consume(s)
    \/ \E x \in Bytes : WriteStr(<<x>>)
    \/ \E n \in 1 .. MaxCap : EnsureCap(n)
    \/ Read \/ Token \/ Reset \/ ResetIfEmpty

Spec == Init /\ [][Next]_svars
=============================================================================
