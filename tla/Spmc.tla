------------------------------- MODULE Spmc -------------------------------
(***************************************************************************)
(* src/spmc.c: the finite-size single-producer multiple-consumer queue.    *)
(* One action per atomic operation of the code, so every interleaving of   *)
(* the producer with the consumers is explored.                            *)
(*                                                                         *)
(* Memory order.  A plain atomic load of head or end by another thread may *)
(* return an older value of that counter: the loads below choose any value *)
(* the counter has had.  Read-modify-write operations read the latest      *)
(* value, and the acquire load that finds end > ticket synchronises with   *)
(* the release increment that published the slot.                          *)
(*                                                                         *)
(* Slots are abstracted to the ring they form; elements are opaque and     *)
(* never NULL (NULL is what an empty slot holds).                          *)
(***************************************************************************)
EXTENDS Integers, Sequences

CONSTANTS
    Consumers,  \* the consumer threads
    Elems,      \* what the producer may enqueue
    NULL,       \* the null pointer
    Cap,        \* q->cap, after rounding up to a power of two
    Tries,      \* how often try_dequeue tries its compare-and-swap (5)
    MaxSent     \* bound: how many elements the producer enqueues

ASSUME CapAssumption == Cap \in Nat \ {0}
ASSUME TriesAssumption == Tries \in Nat \ {0}
ASSUME MaxSentAssumption == MaxSent \in Nat
ASSUME NullAssumption == NULL \notin Elems

VARIABLES
    data,     \* q->data
    head,     \* q->head: the next ticket a consumer takes
    end,      \* q->end: the next ticket the producer publishes
    ppc,      \* where the producer is
    elem,     \* the element the producer is enqueuing
    cpc,      \* where each consumer is
    ticket,   \* each consumer's local head
    seen,     \* each consumer's local end, in try_dequeue
    tries,    \* each consumer's loop counter, in try_dequeue
    ret,      \* what each consumer's last call returned
    life,     \* "live", "freed", or "aborted" by destroy's assertion
    sent      \* history: the elements stored so far, by ticket

queue == <<data, head, end>>
producer == <<ppc, elem>>
consumers == <<cpc, ticket, seen, tries, ret>>
vars == <<data, head, end, ppc, elem, cpc, ticket, seen, tries, ret, life, sent>>

(* a3_spmc_index: cap is a power of two, so the mask is a remainder. *)
Slot(t) == t % Cap

Slots == 0 .. Cap - 1

Init ==
    /\ data = [s \in Slots |-> NULL]
    /\ head = 0
    /\ end = 0
    /\ ppc = "idle"
    /\ elem = NULL
    /\ cpc = [c \in Consumers |-> "idle"]
    /\ ticket = [c \in Consumers |-> 0]
    /\ seen = [c \in Consumers |-> 0]
    /\ tries = [c \in Consumers |-> 0]
    /\ ret = [c \in Consumers |-> NULL]
    /\ life = "live"
    /\ sent = <<>>

-----------------------------------------------------------------------------
(* The producer. *)

(* A call of try_enqueue or enqueue.  Only the producer writes end, so its  *)
(* relaxed load of end is exact and needs no local copy.                    *)
BeginEnqueue(e, pc) ==
    /\ life = "live"
    /\ ppc = "idle"
    /\ Len(sent) < MaxSent
    /\ elem' = e
    /\ ppc' = pc
    /\ UNCHANGED <<queue, consumers, life, sent>>

(* The call is over. *)
EndEnqueue ==
    /\ ppc' = "idle"
    /\ elem' = NULL

TryEnqueue(e) == BeginEnqueue(e, "try_head")
Enqueue(e) == BeginEnqueue(e, "wait_head")

(* The load of head, at any value head has had, and the test for room. *)
HasRoom == \E h \in 0 .. head : end < h + Cap
MayLookFull == \E h \in 0 .. head : end >= h + Cap

TryHead ==
    /\ ppc = "try_head"
    /\ \/ HasRoom /\ ppc' = "try_slot" /\ UNCHANGED elem
       \/ MayLookFull /\ EndEnqueue
    /\ UNCHANGED <<queue, consumers, life, sent>>

(* Mutant: the slot is not tested. *)
TrySlot_Untested ==
    /\ ppc = "try_slot"
    /\ ppc' = "store"
    /\ UNCHANGED <<queue, elem, consumers, life, sent>>

(* The load of the slot.  Where the producer stored before, a late load can *)
(* still return what it stored; it cannot return an older NULL.             *)
TrySlot ==
    /\ ppc = "try_slot"
    /\ \/ data[Slot(end)] = NULL /\ ppc' = "store" /\ UNCHANGED elem
       \/ (data[Slot(end)] # NULL \/ end >= Cap) /\ EndEnqueue
    /\ UNCHANGED <<queue, consumers, life, sent>>

(* Mutant: the wait for room is left out. *)
WaitHead_Skipped ==
    /\ ppc = "wait_head"
    /\ ppc' = "wait_slot"
    /\ UNCHANGED <<queue, elem, consumers, life, sent>>

(* The two spin loops of enqueue: an iteration that does not leave the loop *)
(* changes nothing.                                                         *)
WaitHead ==
    /\ ppc = "wait_head"
    /\ HasRoom
    /\ ppc' = "wait_slot"
    /\ UNCHANGED <<queue, elem, consumers, life, sent>>

WaitSlot ==
    /\ ppc = "wait_slot"
    /\ data[Slot(end)] = NULL
    /\ ppc' = "store"
    /\ UNCHANGED <<queue, elem, consumers, life, sent>>

(* Mutant: the element goes to the slot of the oldest ticket. *)
StoreElem_AtHead ==
    /\ ppc = "store"
    /\ data' = [data EXCEPT ![Slot(head)] = elem]
    /\ sent' = Append(sent, elem)
    /\ ppc' = "publish"
    /\ UNCHANGED <<head, end, elem, consumers, life>>

StoreElem ==
    /\ ppc = "store"
    /\ data' = [data EXCEPT ![Slot(end)] = elem]
    /\ sent' = Append(sent, elem)
    /\ ppc' = "publish"
    /\ UNCHANGED <<head, end, elem, consumers, life>>

Publish ==
    /\ ppc = "publish"
    /\ end' = end + 1
    /\ EndEnqueue
    /\ UNCHANGED <<data, head, consumers, life, sent>>

Producer ==
    \/ \E e \in Elems : TryEnqueue(e) \/ Enqueue(e)
    \/ TryHead \/ TrySlot \/ WaitHead \/ WaitSlot \/ StoreElem \/ Publish

-----------------------------------------------------------------------------
(* A consumer.  The locals of a call that is over are 0. *)


(* A call of c returns. *)
Return(c, value) ==
    /\ cpc' = [cpc EXCEPT ![c] = "idle"]
    /\ ret' = [ret EXCEPT ![c] = value]
    /\ ticket' = [ticket EXCEPT ![c] = 0]
    /\ seen' = [seen EXCEPT ![c] = 0]
    /\ tries' = [tries EXCEPT ![c] = 0]

(* try_dequeue: the load of end, then the load of head. *)
TryDequeue(c) ==
    /\ life = "live"
    /\ cpc[c] = "idle"
    /\ \E e \in 0 .. end : seen' = [seen EXCEPT ![c] = e]
    /\ cpc' = [cpc EXCEPT ![c] = "try_head"]
    /\ UNCHANGED <<queue, producer, ticket, tries, ret, life, sent>>

LoadHead(c) ==
    /\ cpc[c] = "try_head"
    /\ \E h \in 0 .. head : ticket' = [ticket EXCEPT ![c] = h]
    /\ cpc' = [cpc EXCEPT ![c] = "cas"]
    /\ UNCHANGED <<queue, producer, seen, tries, ret, life, sent>>

(* The queue looks empty. *)
LooksEmpty(c) ==
    /\ cpc[c] = "cas"
    /\ ticket[c] >= seen[c]
    /\ Return(c, NULL)
    /\ UNCHANGED <<queue, producer, life, sent>>

(* Mutant: a plain store of head + 1 in place of the compare-and-swap. *)
CasTakes_PlainStore(c) ==
    /\ cpc[c] = "cas"
    /\ ticket[c] < seen[c]
    /\ head' = ticket[c] + 1
    /\ cpc' = [cpc EXCEPT ![c] = "take"]
    /\ UNCHANGED <<data, end, producer, ticket, seen, tries, ret, life, sent>>

(* The compare-and-swap takes the ticket. *)
CasTakes(c) ==
    /\ cpc[c] = "cas"
    /\ ticket[c] < seen[c]
    /\ head = ticket[c]
    /\ head' = head + 1
    /\ cpc' = [cpc EXCEPT ![c] = "take"]
    /\ seen' = [seen EXCEPT ![c] = 0]
    /\ tries' = [tries EXCEPT ![c] = 0]
    /\ UNCHANGED <<data, end, producer, ticket, ret, life, sent>>

(* Mutant: the loop has no bound. *)
CasFails_Unbounded(c) ==
    /\ cpc[c] = "cas"
    /\ ticket[c] < seen[c]
    /\ head # ticket[c]
    /\ \E h \in ticket[c] + 1 .. head : ticket' = [ticket EXCEPT ![c] = h]
    /\ tries' = [tries EXCEPT ![c] = @ + 1]
    /\ UNCHANGED <<queue, producer, cpc, seen, ret, life, sent>>

(* It fails and loads a later head; after the last try the call gives up. *)
CasFails(c) ==
    /\ cpc[c] = "cas"
    /\ ticket[c] < seen[c]
    /\ head # ticket[c]
    /\ \/ /\ tries[c] + 1 = Tries
          /\ Return(c, NULL)
       \/ /\ tries[c] + 1 < Tries
          /\ \E h \in ticket[c] + 1 .. head : ticket' = [ticket EXCEPT ![c] = h]
          /\ tries' = [tries EXCEPT ![c] = @ + 1]
          /\ UNCHANGED <<cpc, seen, ret>>
    /\ UNCHANGED <<queue, producer, life, sent>>

(* dequeue: the fetch-and-add takes a ticket, published or not. *)
Dequeue(c) ==
    /\ life = "live"
    /\ cpc[c] = "idle"
    /\ ticket' = [ticket EXCEPT ![c] = head]
    /\ head' = head + 1
    /\ cpc' = [cpc EXCEPT ![c] = "spin"]
    /\ UNCHANGED <<data, end, producer, seen, tries, ret, life, sent>>

(* Mutant: the spin ends one ticket early. *)
SpinEnds_OffByOne(c) ==
    /\ cpc[c] = "spin"
    /\ ticket[c] <= end
    /\ cpc' = [cpc EXCEPT ![c] = "take"]
    /\ UNCHANGED <<queue, producer, ticket, seen, tries, ret, life, sent>>

(* Mutant: the load of end is hoisted out of the spin. *)
SpinEnds_Hoisted(c) ==
    /\ cpc[c] = "spin"
    /\ ticket[c] < seen[c]
    /\ cpc' = [cpc EXCEPT ![c] = "take"]
    /\ UNCHANGED <<queue, producer, ticket, seen, tries, ret, life, sent>>

(* The spin ends when a load of end passes the ticket. *)
SpinEnds(c) ==
    /\ cpc[c] = "spin"
    /\ \E e \in 0 .. end : ticket[c] < e
    /\ cpc' = [cpc EXCEPT ![c] = "take"]
    /\ UNCHANGED <<queue, producer, ticket, seen, tries, ret, life, sent>>

(* Mutant: a load in place of the exchange. *)
Take_LoadOnly(c) ==
    /\ cpc[c] = "take"
    /\ Return(c, data[Slot(ticket[c])])
    /\ UNCHANGED <<queue, producer, life, sent>>

(* The exchange: the slot is emptied and its element returned. *)
Take(c) ==
    /\ cpc[c] = "take"
    /\ Return(c, data[Slot(ticket[c])])
    /\ data' = [data EXCEPT ![Slot(ticket[c])] = NULL]
    /\ UNCHANGED <<head, end, producer, life, sent>>

ConsumerStep(c) ==
    \/ LoadHead(c) \/ LooksEmpty(c) \/ CasTakes(c) \/ CasFails(c)
    \/ SpinEnds(c) \/ Take(c)

Consumer(c) == TryDequeue(c) \/ Dequeue(c) \/ ConsumerStep(c)

-----------------------------------------------------------------------------
(* destroy, called as documented: the producer and all consumers are gone.  *)
(* Its assertion aborts a build that keeps assertions.                      *)
Destroy ==
    /\ life = "live"
    /\ ppc = "idle"
    /\ \A c \in Consumers : cpc[c] = "idle"
    /\ life' = IF head = end THEN "freed" ELSE "aborted"
    /\ UNCHANGED <<queue, producer, consumers, sent>>

Next ==
    \/ Producer
    \/ \E c \in Consumers : Consumer(c)
    \/ Destroy

Spec == Init /\ [][Next]_vars

(* A call that was made goes on, and a load that is repeated for ever sees  *)
(* the latest value in the end.  Nobody is obliged to make a call.          *)
Fairness ==
    /\ WF_vars(WaitHead) /\ WF_vars(WaitSlot)
    /\ WF_vars(TryHead) /\ WF_vars(TrySlot)
    /\ WF_vars(StoreElem) /\ WF_vars(Publish)
    /\ \A c \in Consumers : WF_vars(ConsumerStep(c))

FairSpec == Spec /\ Fairness

-----------------------------------------------------------------------------
(* Properties. *)

ProducerPcs == {"idle", "try_head", "try_slot", "wait_head", "wait_slot", "store", "publish"}
ConsumerPcs == {"idle", "try_head", "cas", "spin", "take"}

(* The types of the queue and of the threads' locals; the loop of           *)
(* try_dequeue (spmc.c:63) runs at most Tries times.                        *)
TypeOK ==
    /\ data \in [Slots -> Elems \cup {NULL}]
    /\ head \in Nat
    /\ end \in Nat
    /\ ppc \in ProducerPcs
    /\ elem \in Elems \cup {NULL}
    /\ ppc # "idle" => elem \in Elems
    /\ cpc \in [Consumers -> ConsumerPcs]
    /\ ticket \in [Consumers -> Nat]
    /\ seen \in [Consumers -> Nat]
    /\ tries \in [Consumers -> 0 .. Tries - 1]
    /\ ret \in [Consumers -> Elems \cup {NULL}]
    /\ life \in {"live", "freed", "aborted"}
    /\ sent \in Seq(Elems)

(* c has taken a ticket and not yet emptied its slot. *)
Holds(c) == cpc[c] \in {"spin", "take"}

(* A ticket is handed to one consumer only, whether by the compare-and-swap *)
(* of try_dequeue or the fetch-and-add of dequeue, and every ticket that is *)
(* taken before it is published has a consumer waiting for it.              *)
TicketsHeldOnce ==
    /\ \A c, d \in Consumers :
          Holds(c) /\ Holds(d) /\ ticket[c] = ticket[d] => c = d
    /\ \A t \in end .. head - 1 : \E c \in Consumers : Holds(c) /\ ticket[c] = t

(* Whoever reaches the exchange finds in the slot the element that was      *)
(* enqueued under its ticket: never NULL, never another round's element.    *)
HolderFindsItsElement ==
    \A c \in Consumers : cpc[c] = "take" =>
        /\ ticket[c] < Len(sent)
        /\ data[Slot(ticket[c])] = sent[ticket[c] + 1]

(* The producer's store never overwrites an element: between its test of    *)
(* the slot and its store nobody fills the slot.                            *)
NoOverwrite == ppc = "store" => data[Slot(end)] = NULL

(* Nobody waits for a step that nobody can take.  A producer kept out of a  *)
(* slot waits for a consumer that holds the ticket of that slot's previous  *)
(* round, and a consumer without an element and a producer without room do  *)
(* not face each other.                                                     *)
WaitIsForSomeone ==
    /\ ppc = "wait_slot" /\ data[Slot(end)] # NULL =>
          \E c \in Consumers : Holds(c) /\ ticket[c] + Cap = end
    /\ ppc = "wait_head" /\ (\E c \in Consumers : cpc[c] = "spin" /\ ticket[c] >= end) =>
          HasRoom

(* The refinement: what is buffered are the slots between head and end; who *)
(* waits are the holders of tickets from end on; what is promised to a      *)
(* consumer is in the slot of its ticket.                                   *)
Holder(t) == CHOOSE c \in Consumers : Holds(c) /\ ticket[c] = t

Buffered == [i \in 1 .. end - head |-> data[Slot(head + i - 1)]]
Waiting == [i \in 1 .. head - end |-> Holder(end + i - 1)]
Promised == [c \in Consumers |->
                IF Holds(c) /\ ticket[c] < end THEN data[Slot(ticket[c])] ELSE NULL]

Fifo == INSTANCE FifoQueue WITH
            buffer <- Buffered, waiting <- Waiting, got <- Promised, ret <- ret

(* Whatever the interleaving, the queue is a bounded FIFO: no element is    *)
(* lost, duplicated or reordered, blocked consumers are served in the order *)
(* they asked.                                                              *)
ImplementsFifo == Fifo!Spec

(* A blocking dequeue whose ticket has been published returns. *)
DequeueServed ==
    \A c \in Consumers :
        (cpc[c] = "spin" /\ ticket[c] < end) ~> (cpc[c] = "idle")

(* A blocking enqueue that has seen room gets its slot and completes: the   *)
(* consumer of the slot's previous round empties it.                        *)
EnqueueCompletes == (ppc = "wait_slot") ~> (ppc = "idle")
-----------------------------------------------------------------------------
(* The inductive invariant behind the safety properties. *)

(* No consumer has emptied the slot of ticket t yet. *)
Unconsumed(t) == t >= head \/ \E c \in Consumers : Holds(c) /\ ticket[c] = t

(* How the counters, the locals and the history relate. *)
Counters ==
    /\ Len(sent) = IF ppc = "publish" THEN end + 1 ELSE end
    /\ ppc \in {"try_slot", "wait_slot", "store"} => end < head + Cap
    /\ \A c \in Consumers :
          /\ seen[c] <= end
          /\ Holds(c) => ticket[c] < head
          /\ cpc[c] = "take" => ticket[c] < end

(* The unconsumed elements fit the ring, each in its ticket's slot... *)
RingHoldsUnconsumed ==
    \A t \in 0 .. Len(sent) - 1 : Unconsumed(t) =>
        /\ t + Cap >= Len(sent)
        /\ data[Slot(t)] = sent[t + 1]

(* ... and nothing else does. *)
FilledIsUnconsumed ==
    \A s \in Slots : data[s] # NULL =>
        \E t \in 0 .. Len(sent) - 1 : Unconsumed(t) /\ Slot(t) = s

IInv ==
    /\ TypeOK
    /\ Counters
    /\ TicketsHeldOnce
    /\ RingHoldsUnconsumed
    /\ FilledIsUnconsumed
    /\ NoOverwrite
=============================================================================
