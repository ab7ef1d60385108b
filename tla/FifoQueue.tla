----------------------------- MODULE FifoQueue -----------------------------
(***************************************************************************)
(* What the single-producer multiple-consumer queue promises: a bounded    *)
(* FIFO of elements with a FIFO of blocked consumers.  An enqueue either   *)
(* serves the consumer that has waited longest or appends to the buffer;   *)
(* a dequeue takes the oldest element or joins the line.  Everything the   *)
(* implementation does with tickets, slots and atomics is absent here.     *)
(***************************************************************************)
EXTENDS Naturals, Sequences

CONSTANTS Consumers, Elems, Cap, NULL

VARIABLES
    buffer,   \* elements enqueued and promised to nobody, oldest first
    waiting,  \* consumers blocked in a dequeue, longest wait first
    got,      \* got[c]: the element promised to c and not yet returned, or NULL
    ret       \* ret[c]: what c's last completed call returned

fvars == <<buffer, waiting, got, ret>>

Init ==
    /\ buffer = <<>>
    /\ waiting = <<>>
    /\ got = [c \in Consumers |-> NULL]
    /\ ret = [c \in Consumers |-> NULL]

IsWaiting(c) == \E i \in DOMAIN waiting : waiting[i] = c

Free(c) == got[c] = NULL /\ ~IsWaiting(c)

(* An element is handed to the consumer that has waited longest. *)
Serve(e) ==
    /\ waiting # <<>>
    /\ got' = [got EXCEPT ![Head(waiting)] = e]
    /\ waiting' = Tail(waiting)
    /\ UNCHANGED <<buffer, ret>>

(* Nobody waits: the element is buffered, if there is room. *)
Store(e) ==
    /\ waiting = <<>>
    /\ Len(buffer) < Cap
    /\ buffer' = Append(buffer, e)
    /\ UNCHANGED <<waiting, got, ret>>

(* A blocking or a non-blocking dequeue claims the oldest element. *)
Claim(c) ==
    /\ Free(c)
    /\ buffer # <<>>
    /\ got' = [got EXCEPT ![c] = Head(buffer)]
    /\ buffer' = Tail(buffer)
    /\ UNCHANGED <<waiting, ret>>

(* A blocking dequeue of an empty queue joins the line. *)
Join(c) ==
    /\ Free(c)
    /\ buffer = <<>>
    /\ waiting' = Append(waiting, c)
    /\ UNCHANGED <<buffer, got, ret>>

(* A dequeue returns what was promised to it, once. *)
Return(c) ==
    /\ got[c] # NULL
    /\ ret' = [ret EXCEPT ![c] = got[c]]
    /\ got' = [got EXCEPT ![c] = NULL]
    /\ UNCHANGED <<buffer, waiting>>

(* A non-blocking dequeue may fail spuriously. *)
Fail(c) ==
    /\ Free(c)
    /\ ret' = [ret EXCEPT ![c] = NULL]
    /\ UNCHANGED <<buffer, waiting, got>>

Next ==
    \/ \E e \in Elems : Serve(e) \/ Store(e)
    \/ \E c \in Consumers : Claim(c) \/ Join(c) \/ Return(c) \/ Fail(c)

Spec == Init /\ [][Next]_fvars
=============================================================================
