------------------------------ MODULE MCBytes ------------------------------
(* One run for the buffer and the strings, which both hold bytes.  The      *)
(* client has a buffer, and when it has destroyed it may go on with strings.*)
EXTENDS Buffer, Strings, TLC

CONSTANTS a, d

(* For the buffer: bytes, one of them newline and delimiter. *)
TwoBytes == {a, d}
OneDelim == {d}
SomeStrings == {<<a>>, <<d, a>>, <<a, d, a>>}

(* For the strings: short texts with letters of both cases and a NUL        *)
(* inside; uninitialised bytes not ASCII; numbers, of which 10 stands for   *)
(* those whose logarithm is rounded up.                                     *)
SomeTexts == {<<>>, <<97, 65>>, <<0, 65>>}
SomeNumbers == {0, 10, 100}
RoundedNumbers == {10}
SomeGarbage == {200}

-----------------------------------------------------------------------------
VARIABLE kind

BytesInit == Init /\ StrInit /\ kind = "buffer"

BytesNext ==
    \/ kind = "buffer" /\ Next /\ UNCHANGED <<strvars, kind>>
    \/ kind = "buffer" /\ life = "gone" /\ ok /\ kind' = "string" /\ UNCHANGED <<vars, strvars>>
    \/ kind = "string" /\ StrNext /\ UNCHANGED <<vars, kind>>

BytesSpec ==
    /\ BytesInit /\ [][BytesNext]_<<vars, strvars, kind>>
    /\ WF_<<vars, strvars, kind>>(kind = "buffer" /\ FormatRound /\ UNCHANGED <<strvars, kind>>)
=============================================================================
