---------------------------- MODULE SpmcProofs ----------------------------
(***************************************************************************)
(* Proofs of the safety of Spmc, for every number of consumers, every      *)
(* capacity and every length of run.  The argument is in IInv: the         *)
(* unconsumed tickets all lie within Cap of the newest, so that no two of  *)
(* them share a slot, and the slots hold exactly their elements.           *)
(* The second half proves that the queue implements FifoQueue.             *)
(***************************************************************************)
EXTENDS Spmc, SequenceTheorems, TLAPS

LEMMA SlotType == \A t \in Nat : Slot(t) \in Slots
  BY CapAssumption DEF Slot, Slots

(* Division by the capacity. *)
LEMMA Division == ASSUME NEW t \in Nat PROVE /\ t \div Cap \in Nat
                                             /\ t = Cap * (t \div Cap) + (t % Cap)
                                             /\ t % Cap \in 0 .. Cap - 1
  BY CapAssumption

LEMMA Multiple ==
    ASSUME NEW k \in Int, NEW d \in Int, d = Cap * k, 0 < d
    PROVE  Cap <= d
<1>1. Cap \in Int /\ 0 < Cap
  BY CapAssumption
<1>2. k >= 1
  <2>1. SUFFICES ASSUME k <= 0 PROVE FALSE
    OBVIOUS
  <2>2. Cap * k <= 0
    BY <1>1, <2>1
  <2> QED BY <2>2
<1>3. Cap * (k - 1) >= 0
  BY <1>1, <1>2
<1>4. Cap * (k - 1) = Cap * k - Cap
  BY <1>1
<1> QED
  BY <1>1, <1>3, <1>4

LEMMA SameSlot ==
    ASSUME NEW t \in Nat, NEW u \in Nat, Slot(t) = Slot(u), t < u
    PROVE  t + Cap <= u
<1> DEFINE q == t \div Cap
           r == u \div Cap
<1>1. /\ q \in Int /\ r \in Int /\ Cap \in Int
      /\ t = Cap * q + (t % Cap) /\ u = Cap * r + (u % Cap)
      /\ t % Cap \in Int /\ u % Cap \in Int
  BY Division, CapAssumption
<1>2. t % Cap = u % Cap
  BY DEF Slot
<1> HIDE DEF q, r
<1>3. u - t = Cap * r - Cap * q
  BY <1>1, <1>2
<1>4. Cap * r - Cap * q = Cap * (r - q)
  BY <1>1
<1>5. Cap <= u - t
  <2>1. u - t = Cap * (r - q)
    BY <1>3, <1>4
  <2>2. u - t \in Int /\ r - q \in Int /\ 0 < u - t
    BY <1>1
  <2> QED BY <2>1, <2>2, Multiple
<1> QED
  BY <1>1, <1>5

LEMMA SlotNextRound == \A t \in Nat : Slot(t + Cap) = Slot(t)
<1> SUFFICES ASSUME NEW t \in Nat PROVE Slot(t + Cap) = Slot(t)
  OBVIOUS
<1> DEFINE q == t \div Cap
           r == (t + Cap) \div Cap
           a == t % Cap
           b == (t + Cap) % Cap
<1>1. Cap \in Nat /\ 0 < Cap /\ t + Cap \in Nat
  BY CapAssumption
<1>2. /\ q \in Int /\ r \in Int
      /\ t = Cap * q + a /\ t + Cap = Cap * r + b
      /\ a \in 0 .. Cap - 1 /\ b \in 0 .. Cap - 1
  BY <1>1, Division
<1> HIDE DEF q, r, a, b
<1>3. a - b = Cap * (r - q - 1)
  <2>1. a - b = (Cap * r - Cap * q) - Cap
    BY <1>1, <1>2
  <2>2. (Cap * r - Cap * q) - Cap = Cap * (r - q - 1)
    BY <1>1, <1>2
  <2> QED BY <2>1, <2>2
<1>4. b - a = Cap * (q + 1 - r)
  <2>1. b - a = Cap + Cap * q - Cap * r
    BY <1>1, <1>2
  <2>2. Cap + Cap * q - Cap * r = Cap * (q + 1 - r)
    BY <1>1, <1>2
  <2> QED BY <2>1, <2>2
<1>5. a = b
  <2>1. CASE a > b
    BY <1>1, <1>2, <1>3, <2>1, Multiple
  <2>2. CASE b > a
    BY <1>1, <1>2, <1>4, <2>2, Multiple
  <2> QED BY <1>2, <2>1, <2>2
<1> QED
  BY <1>5 DEF Slot, a, b

-----------------------------------------------------------------------------
LEMMA InitIInv == Init => IInv
<1> SUFFICES ASSUME Init PROVE IInv
  OBVIOUS
<1> USE DEF Init
<1>1. TypeOK
  BY TriesAssumption DEF TypeOK, ProducerPcs, ConsumerPcs
<1>2. Len(sent) = 0
  OBVIOUS
<1>3. Counters
  BY <1>2, CapAssumption DEF Counters, Holds
<1>4. TicketsHeldOnce
  BY DEF TicketsHeldOnce, Holds
<1>5. RingHoldsUnconsumed /\ FilledIsUnconsumed /\ NoOverwrite
  BY <1>2 DEF RingHoldsUnconsumed, FilledIsUnconsumed, NoOverwrite
<1> QED
  BY <1>1, <1>3, <1>4, <1>5 DEF IInv

LEMMA TypeStep == TypeOK /\ [Next]_vars => TypeOK'
<1> SUFFICES ASSUME TypeOK, [Next]_vars PROVE TypeOK'
  OBVIOUS
<1> USE TriesAssumption DEF TypeOK, ProducerPcs, ConsumerPcs, queue, producer, consumers
<1>1. ASSUME NEW e \in Elems, TryEnqueue(e) \/ Enqueue(e) PROVE TypeOK'
  BY <1>1 DEF TryEnqueue, Enqueue, BeginEnqueue
<1>2. CASE TryHead
  BY <1>2 DEF TryHead, EndEnqueue
<1>3. CASE TrySlot
  BY <1>3 DEF TrySlot, EndEnqueue
<1>4. CASE WaitHead
  BY <1>4 DEF WaitHead
<1>5. CASE WaitSlot
  BY <1>5 DEF WaitSlot
<1>6. CASE StoreElem
  <2>1. data' \in [Slots -> Elems \cup {NULL}]
    BY <1>6 DEF StoreElem
  <2>2. sent' \in Seq(Elems)
    <3>1. elem \in Elems /\ sent' = Append(sent, elem)
      BY <1>6 DEF StoreElem
    <3> QED BY <3>1, AppendProperties
  <2> QED BY <1>6, <2>1, <2>2 DEF StoreElem
<1>7. CASE Publish
  BY <1>7 DEF Publish, EndEnqueue
<1>8. ASSUME NEW c \in Consumers, TryDequeue(c) PROVE TypeOK'
  BY <1>8 DEF TryDequeue
<1>9. ASSUME NEW c \in Consumers, LoadHead(c) PROVE TypeOK'
  BY <1>9 DEF LoadHead
<1>10. ASSUME NEW c \in Consumers, LooksEmpty(c) PROVE TypeOK'
  BY <1>10 DEF LooksEmpty, Return
<1>11. ASSUME NEW c \in Consumers, CasTakes(c) PROVE TypeOK'
  BY <1>11 DEF CasTakes
<1>12. ASSUME NEW c \in Consumers, CasFails(c) PROVE TypeOK'
  <2>1. CASE Return(c, NULL)
    BY <1>12, <2>1 DEF CasFails, Return
  <2>2. CASE ~Return(c, NULL)
    <3>1. PICK h \in ticket[c] + 1 .. head : ticket' = [ticket EXCEPT ![c] = h]
      BY <1>12, <2>2 DEF CasFails
    <3>2. h \in Nat
      OBVIOUS
    <3>3. tries' = [tries EXCEPT ![c] = tries[c] + 1] /\ tries[c] + 1 < Tries
      BY <1>12, <2>2 DEF CasFails
    <3> QED BY <1>12, <2>2, <3>1, <3>2, <3>3 DEF CasFails
  <2> QED BY <2>1, <2>2
<1>13. ASSUME NEW c \in Consumers, Dequeue(c) PROVE TypeOK'
  BY <1>13 DEF Dequeue
<1>14. ASSUME NEW c \in Consumers, SpinEnds(c) PROVE TypeOK'
  BY <1>14 DEF SpinEnds
<1>15. ASSUME NEW c \in Consumers, Take(c) PROVE TypeOK'
  <2>1. data[Slot(ticket[c])] \in Elems \cup {NULL}
    BY SlotType
  <2>2. ret' \in [Consumers -> Elems \cup {NULL}]
    BY <1>15, <2>1 DEF Take, Return
  <2>3. data' \in [Slots -> Elems \cup {NULL}]
    BY <1>15 DEF Take
  <2>4. tries' \in [Consumers -> 0 .. Tries - 1]
    BY <1>15 DEF Take, Return
  <2> QED BY <1>15, <2>2, <2>3, <2>4 DEF Take, Return
<1>16. CASE Destroy
  BY <1>16 DEF Destroy
<1>17. CASE UNCHANGED vars
  BY <1>17 DEF vars
<1> QED
  BY <1>1, <1>2, <1>3, <1>4, <1>5, <1>6, <1>7, <1>8, <1>9, <1>10, <1>11, <1>12,
     <1>13, <1>14, <1>15, <1>16, <1>17
  DEF Next, Producer, Consumer, ConsumerStep

(* Every reachable state is well typed; try_dequeue tries at most Tries     *)
(* times (spmc.c:63).                                                       *)
THEOREM TypeCorrect == Spec => []TypeOK
<1>1. Init => TypeOK
  BY InitIInv DEF IInv
<1> QED
  BY <1>1, TypeStep, PTL DEF Spec

-----------------------------------------------------------------------------
(* A step that leaves the ring, the tickets taken and who holds them alone  *)
(* keeps what relates them.                                                 *)
LEMMA Frame ==
    ASSUME IInv, data' = data, head' = head, sent' = sent, end' \in {end, end + 1},
           \A c \in Consumers : /\ Holds(c)' <=> Holds(c)
                                /\ Holds(c) => ticket'[c] = ticket[c]
    PROVE  TicketsHeldOnce' /\ RingHoldsUnconsumed' /\ FilledIsUnconsumed'
<1>1. head \in Nat /\ end \in Nat
  BY DEF IInv, TypeOK
<1>2. TicketsHeldOnce'
  <2>1. ASSUME NEW t \in end' .. head' - 1
        PROVE  \E c \in Consumers : Holds(c)' /\ ticket'[c] = t
    <3>1. t \in end .. head - 1
      BY <1>1
    <3>2. PICK c \in Consumers : Holds(c) /\ ticket[c] = t
      BY <3>1 DEF IInv, TicketsHeldOnce
    <3> QED BY <3>2
  <2> QED BY <2>1 DEF IInv, TicketsHeldOnce
<1>3. \A t : Unconsumed(t)' <=> Unconsumed(t)
  BY DEF Unconsumed
<1>4. RingHoldsUnconsumed'
  BY <1>3 DEF IInv, RingHoldsUnconsumed
<1>5. FilledIsUnconsumed'
  BY <1>3 DEF IInv, FilledIsUnconsumed
<1> QED
  BY <1>2, <1>4, <1>5

(* Two unconsumed elements are in different slots. *)
LEMMA UnconsumedApart ==
    ASSUME IInv, NEW t \in 0 .. Len(sent) - 1, NEW u \in 0 .. Len(sent) - 1,
           Unconsumed(t), Unconsumed(u), Slot(t) = Slot(u)
    PROVE  t = u
<1>1. Len(sent) \in Nat
  BY DEF IInv, TypeOK
<1>2. t + Cap >= Len(sent) /\ u + Cap >= Len(sent)
  BY DEF IInv, RingHoldsUnconsumed
<1>3. t \in Nat /\ u \in Nat /\ t < Len(sent) /\ u < Len(sent)
  BY <1>1
<1>4. ~(t < u) /\ ~(u < t)
  BY <1>1, <1>2, <1>3, SameSlot, CapAssumption
<1> QED
  BY <1>3, <1>4

(* What the producer stores is unconsumed: nobody can have taken its slot.  *)
LEMMA NewIsUnconsumed ==
    ASSUME IInv
    PROVE  Unconsumed(end)
<1>1. CASE end >= head
  BY <1>1 DEF Unconsumed
<1>2. CASE end < head
  <2>1. end \in end .. head - 1
    BY <1>2 DEF IInv, TypeOK
  <2> QED BY <2>1 DEF IInv, TicketsHeldOnce, Unconsumed
<1> QED
  BY <1>1, <1>2 DEF IInv, TypeOK

(* The producer's moves that touch neither the ring nor the counters. *)
LEMMA ProducerMoves ==
    ASSUME IInv, TypeOK',
           UNCHANGED <<data, head, end, sent, cpc, ticket, seen>>,
           ppc # "publish", ppc' # "publish",
           ppc' \in {"try_slot", "wait_slot", "store"} => end < head + Cap,
           ppc' = "store" => data[Slot(end)] = NULL
    PROVE  IInv'
<1>1. Counters'
  BY DEF IInv, Counters, Holds
<1>2. TicketsHeldOnce' /\ RingHoldsUnconsumed' /\ FilledIsUnconsumed'
  BY Frame DEF Holds
<1>3. NoOverwrite'
  BY DEF NoOverwrite
<1> QED
  BY <1>1, <1>2, <1>3 DEF IInv

(* A consumer's moves that take no ticket and empty no slot. *)
LEMMA ConsumerMoves ==
    ASSUME IInv, TypeOK',
           UNCHANGED <<data, head, end, sent, ppc>>,
           \A c \in Consumers : /\ Holds(c)' <=> Holds(c)
                                /\ Holds(c) => ticket'[c] = ticket[c]
                                /\ seen'[c] <= end
                                /\ cpc'[c] = "take" => ticket'[c] < end
    PROVE  IInv'
<1>1. Counters'
  BY DEF IInv, Counters
<1>2. TicketsHeldOnce' /\ RingHoldsUnconsumed' /\ FilledIsUnconsumed'
  BY Frame
<1>3. NoOverwrite'
  BY DEF IInv, NoOverwrite
<1> QED
  BY <1>1, <1>2, <1>3 DEF IInv

(* A consumer takes the next ticket: by compare-and-swap, of a published    *)
(* element; by fetch-and-add, published or not.                             *)
LEMMA TicketTaken ==
    ASSUME IInv, TypeOK', NEW c \in Consumers,
           ~Holds(c),
           head' = head + 1,
           UNCHANGED <<data, end, sent, ppc>>,
           cpc' = [cpc EXCEPT ![c] = cpc'[c]],
           ticket' = [ticket EXCEPT ![c] = head],
           \/ cpc'[c] = "spin"
           \/ cpc'[c] = "take" /\ head < end,
           \A d \in Consumers : seen'[d] <= end
    PROVE  IInv'
<1>1. /\ head \in Nat /\ end \in Nat /\ cpc \in [Consumers -> ConsumerPcs]
      /\ ticket \in [Consumers -> Nat] /\ Cap \in Nat /\ Len(sent) \in Nat
  BY CapAssumption DEF IInv, TypeOK
<1>2. /\ Holds(c)' /\ ticket'[c] = head
      /\ \A d \in Consumers \ {c} : /\ Holds(d)' <=> Holds(d)
                                    /\ cpc'[d] = cpc[d]
                                    /\ ticket'[d] = ticket[d]
  BY <1>1 DEF Holds
<1>3. \A d \in Consumers : Holds(d) => ticket[d] < head
  BY DEF IInv, Counters
<1>4. Counters'
  <2>1. /\ Len(sent)' = IF ppc' = "publish" THEN end' + 1 ELSE end'
        /\ ppc' \in {"try_slot", "wait_slot", "store"} => end' < head' + Cap
    BY <1>1 DEF IInv, Counters
  <2>2. ASSUME NEW d \in Consumers
        PROVE  /\ seen'[d] <= end'
               /\ Holds(d)' => ticket'[d] < head'
               /\ cpc'[d] = "take" => ticket'[d] < end'
    <3>1. CASE d = c
      BY <1>1, <1>2, <3>1
    <3>2. CASE d # c
      BY <1>1, <1>2, <1>3, <3>2 DEF IInv, Counters
    <3> QED BY <3>1, <3>2
  <2> QED BY <2>1, <2>2 DEF Counters
<1>5. TicketsHeldOnce'
  <2>1. ASSUME NEW d \in Consumers, NEW f \in Consumers,
               Holds(d)', Holds(f)', ticket'[d] = ticket'[f]
        PROVE  d = f
    BY <1>1, <1>2, <1>3, <2>1 DEF IInv, TicketsHeldOnce
  <2>2. ASSUME NEW t \in end' .. head' - 1
        PROVE  \E d \in Consumers : Holds(d)' /\ ticket'[d] = t
    <3>1. CASE t = head
      BY <1>2, <3>1
    <3>2. CASE t # head
      <4>1. t \in end .. head - 1
        BY <1>1, <3>2
      <4>2. PICK d \in Consumers : Holds(d) /\ ticket[d] = t
        BY <4>1 DEF IInv, TicketsHeldOnce
      <4> QED BY <1>2, <4>2
    <3> QED BY <3>1, <3>2
  <2> QED BY <2>1, <2>2 DEF TicketsHeldOnce
<1>6. \A t \in Nat : Unconsumed(t)' <=> Unconsumed(t)
  <2> SUFFICES ASSUME NEW t \in Nat PROVE Unconsumed(t)' <=> Unconsumed(t)
    OBVIOUS
  <2>1. CASE t = head
    BY <1>1, <1>2, <2>1 DEF Unconsumed
  <2>2. CASE t # head
    <3>1. t >= head' <=> t >= head
      BY <1>1, <2>2
    <3>2. (\E d \in Consumers : Holds(d)' /\ ticket'[d] = t)
             <=> (\E d \in Consumers : Holds(d) /\ ticket[d] = t)
      BY <1>2, <2>2
    <3> QED BY <3>1, <3>2 DEF Unconsumed
  <2> QED BY <2>1, <2>2
<1>7. \A t \in 0 .. Len(sent) - 1 : t \in Nat
  BY <1>1
<1>8. RingHoldsUnconsumed'
  BY <1>6, <1>7 DEF IInv, RingHoldsUnconsumed
<1>9. FilledIsUnconsumed'
  BY <1>6, <1>7 DEF IInv, FilledIsUnconsumed
<1>10. NoOverwrite'
  BY DEF IInv, NoOverwrite
<1> QED
  BY <1>4, <1>5, <1>8, <1>9, <1>10 DEF IInv

(* The store fills an empty slot, inside the window of the unconsumed. *)
LEMMA Stored == ASSUME IInv, TypeOK', StoreElem PROVE IInv'
<1>1. /\ head \in Nat /\ end \in Nat /\ Cap \in Nat \ {0} /\ elem \in Elems
      /\ data \in [Slots -> Elems \cup {NULL}] /\ sent \in Seq(Elems)
  BY CapAssumption DEF IInv, TypeOK, StoreElem
<1>2. /\ Len(sent) = end /\ data[Slot(end)] = NULL /\ end < head + Cap
  BY DEF IInv, Counters, NoOverwrite, StoreElem
<1>3. /\ sent' = Append(sent, elem) /\ Len(sent') = end + 1
      /\ sent'[end + 1] = elem
      /\ \A t \in 0 .. end - 1 : sent'[t + 1] = sent[t + 1]
  BY <1>1, <1>2 DEF StoreElem
<1>4. /\ Slot(end) \in Slots /\ data'[Slot(end)] = elem
      /\ \A s \in Slots \ {Slot(end)} : data'[s] = data[s]
  BY <1>1, SlotType DEF StoreElem
<1>5. \A c \in Consumers : /\ Holds(c)' <=> Holds(c)
                           /\ cpc'[c] = cpc[c] /\ ticket'[c] = ticket[c] /\ seen'[c] = seen[c]
  BY DEF StoreElem, consumers, Holds
<1>6. \A t : Unconsumed(t)' <=> Unconsumed(t)
  BY <1>5 DEF StoreElem, Unconsumed
<1>7. Counters'
  BY <1>1, <1>2, <1>3, <1>5 DEF IInv, Counters, StoreElem
<1>8. TicketsHeldOnce'
  BY <1>5 DEF IInv, TicketsHeldOnce, StoreElem
<1>9. RingHoldsUnconsumed'
  <2> SUFFICES ASSUME NEW t \in 0 .. Len(sent') - 1, Unconsumed(t)'
               PROVE  t + Cap >= Len(sent') /\ data'[Slot(t)] = sent'[t + 1]
    BY DEF RingHoldsUnconsumed
  <2>1. CASE t = end
    BY <1>1, <1>3, <1>4, <2>1
  <2>2. CASE t # end
    <3>1. t \in 0 .. Len(sent) - 1 /\ t \in Nat /\ t < end
      BY <1>1, <1>2, <1>3, <2>2
    <3>2. t + Cap >= end /\ data[Slot(t)] = sent[t + 1]
      BY <1>2, <1>6, <3>1 DEF IInv, RingHoldsUnconsumed
    <3>3. sent[t + 1] \in Elems
      BY <1>1, <3>1
    <3>4. Slot(t) # Slot(end)
      BY <1>2, <3>2, <3>3, NullAssumption
    <3>5. t + Cap # end
      BY <3>1, <3>4, SlotNextRound
    <3>6. data'[Slot(t)] = sent'[t + 1]
      BY <1>2, <1>3, <1>4, <3>1, <3>2, <3>4, SlotType
    <3> QED BY <1>1, <1>3, <3>1, <3>2, <3>5, <3>6
  <2> QED BY <2>1, <2>2
<1>10. FilledIsUnconsumed'
  <2> SUFFICES ASSUME NEW s \in Slots, data'[s] # NULL
               PROVE  \E t \in 0 .. Len(sent') - 1 : Unconsumed(t)' /\ Slot(t) = s
    BY DEF FilledIsUnconsumed
  <2>1. CASE s = Slot(end)
    <3>1. PICK t \in Nat : t = end
      BY <1>1
    <3>2. Unconsumed(t)'
      BY <1>6, <3>1, NewIsUnconsumed
    <3>3. t \in 0 .. Len(sent') - 1 /\ Slot(t) = s
      BY <1>1, <1>3, <2>1, <3>1
    <3> QED BY <3>2, <3>3
  <2>2. CASE s # Slot(end)
    <3>1. PICK t \in 0 .. Len(sent) - 1 : Unconsumed(t) /\ Slot(t) = s
      BY <1>4, <2>2 DEF IInv, FilledIsUnconsumed
    <3>2. t \in 0 .. Len(sent') - 1
      BY <1>1, <1>2, <1>3, <3>1
    <3> QED BY <1>6, <3>1, <3>2
  <2> QED BY <2>1, <2>2
<1>11. NoOverwrite'
  BY DEF NoOverwrite, StoreElem
<1> QED
  BY <1>7, <1>8, <1>9, <1>10, <1>11 DEF IInv

LEMMA Published == ASSUME IInv, TypeOK', Publish PROVE IInv'
<1>1. \A c \in Consumers : /\ Holds(c)' <=> Holds(c)
                           /\ cpc'[c] = cpc[c] /\ ticket'[c] = ticket[c] /\ seen'[c] = seen[c]
  BY DEF Publish, consumers, Holds
<1>2. Counters'
  BY <1>1 DEF IInv, TypeOK, Counters, Publish, EndEnqueue
<1>3. TicketsHeldOnce' /\ RingHoldsUnconsumed' /\ FilledIsUnconsumed'
  BY <1>1, Frame DEF Publish
<1>4. NoOverwrite'
  BY DEF NoOverwrite, Publish, EndEnqueue
<1> QED
  BY <1>2, <1>3, <1>4 DEF IInv

(* The exchange empties the slot of the one ticket that is given up. *)
LEMMA Taken == ASSUME IInv, TypeOK', NEW c \in Consumers, Take(c) PROVE IInv'
<1> DEFINE t0 == ticket[c]
<1>1. /\ head \in Nat /\ end \in Nat /\ cpc \in [Consumers -> ConsumerPcs]
      /\ ticket \in [Consumers -> Nat] /\ seen \in [Consumers -> Nat]
      /\ t0 \in Nat /\ Len(sent) \in Nat
      /\ data \in [Slots -> Elems \cup {NULL}]
  BY DEF IInv, TypeOK
<1>2. /\ Holds(c) /\ t0 < end /\ t0 < head /\ t0 \in 0 .. Len(sent) - 1 /\ Unconsumed(t0)
  <2>1. Holds(c) /\ t0 < end /\ t0 < head /\ Len(sent) >= end
    BY <1>1 DEF IInv, Counters, Take, Holds
  <2> QED BY <1>1, <2>1 DEF Unconsumed
<1>3. /\ ~Holds(c)'
      /\ \A d \in Consumers \ {c} : /\ Holds(d)' <=> Holds(d)
                                    /\ cpc'[d] = cpc[d] /\ seen'[d] = seen[d]
                                    /\ ticket'[d] = ticket[d]
      /\ seen'[c] = 0 /\ cpc'[c] = "idle"
  BY <1>1 DEF Take, Return, Holds
<1>4. /\ data'[Slot(t0)] = NULL
      /\ \A s \in Slots \ {Slot(t0)} : data'[s] = data[s]
  BY <1>1, SlotType DEF Take
<1>5. UNCHANGED <<head, end, ppc, sent>>
  BY DEF Take, producer
<1>6. \A d \in Consumers \ {c} : Holds(d) => ticket[d] # t0
  BY <1>2 DEF IInv, TicketsHeldOnce
<1>7. \A t \in Nat : Unconsumed(t)' <=> Unconsumed(t) /\ t # t0
  <2> SUFFICES ASSUME NEW t \in Nat PROVE Unconsumed(t)' <=> Unconsumed(t) /\ t # t0
    OBVIOUS
  <2>1. CASE t = t0
    BY <1>1, <1>2, <1>3, <1>5, <1>6, <2>1 DEF Unconsumed
  <2>2. CASE t # t0
    BY <1>3, <1>5, <2>2 DEF Unconsumed
  <2> QED BY <2>1, <2>2
<1>8. Counters'
  BY <1>1, <1>3, <1>5 DEF IInv, Counters
<1>9. TicketsHeldOnce'
  <2>1. ASSUME NEW t \in end' .. head' - 1
        PROVE  \E d \in Consumers : Holds(d)' /\ ticket'[d] = t
    <3>1. PICK d \in Consumers : Holds(d) /\ ticket[d] = t
      BY <1>5, <2>1 DEF IInv, TicketsHeldOnce
    <3>2. d # c
      BY <1>1, <1>2, <1>5, <2>1, <3>1
    <3> QED BY <1>3, <3>1, <3>2
  <2>2. \A d, f \in Consumers : Holds(d)' /\ Holds(f)' /\ ticket'[d] = ticket'[f] => d = f
    BY <1>3 DEF IInv, TicketsHeldOnce
  <2> QED BY <2>1, <2>2 DEF TicketsHeldOnce
<1>10. RingHoldsUnconsumed'
  <2> SUFFICES ASSUME NEW t \in 0 .. Len(sent') - 1, Unconsumed(t)'
               PROVE  t + Cap >= Len(sent') /\ data'[Slot(t)] = sent'[t + 1]
    BY DEF RingHoldsUnconsumed
  <2>1. t \in 0 .. Len(sent) - 1 /\ t \in Nat /\ Unconsumed(t) /\ t # t0
    BY <1>1, <1>5, <1>7
  <2>2. Slot(t) # Slot(t0)
    BY <1>2, <2>1, UnconsumedApart
  <2>3. data'[Slot(t)] = data[Slot(t)]
    BY <1>4, <2>1, <2>2, SlotType
  <2> QED BY <1>5, <2>1, <2>3 DEF IInv, RingHoldsUnconsumed
<1>11. FilledIsUnconsumed'
  <2> SUFFICES ASSUME NEW s \in Slots, data'[s] # NULL
               PROVE  \E t \in 0 .. Len(sent') - 1 : Unconsumed(t)' /\ Slot(t) = s
    BY DEF FilledIsUnconsumed
  <2>1. s # Slot(t0) /\ data[s] # NULL
    BY <1>4
  <2>2. PICK t \in 0 .. Len(sent) - 1 : Unconsumed(t) /\ Slot(t) = s
    BY <2>1 DEF IInv, FilledIsUnconsumed
  <2>3. Unconsumed(t)'
    BY <1>1, <1>7, <2>1, <2>2
  <2> QED BY <1>5, <2>2, <2>3
<1>12. NoOverwrite'
  <2>1. ppc' = "store" => data[Slot(end)] = NULL
    BY <1>5 DEF IInv, NoOverwrite
  <2> QED BY <1>1, <1>4, <1>5, <2>1, SlotType DEF NoOverwrite
<1> QED
  BY <1>8, <1>9, <1>10, <1>11, <1>12 DEF IInv

LEMMA StepIInv == IInv /\ [Next]_vars => IInv'
<1> SUFFICES ASSUME IInv, [Next]_vars PROVE IInv'
  OBVIOUS
<1>0. TypeOK'
  BY TypeStep DEF IInv
<1> USE <1>0
<1>1. ASSUME NEW e \in Elems, TryEnqueue(e) \/ Enqueue(e) PROVE IInv'
  BY <1>1, ProducerMoves DEF TryEnqueue, Enqueue, BeginEnqueue, queue, consumers
<1>2. CASE TryHead
  <2>1. HasRoom => end < head + Cap
    BY CapAssumption DEF HasRoom, IInv, TypeOK
  <2> QED BY <1>2, <2>1, ProducerMoves DEF TryHead, EndEnqueue, queue, consumers
<1>3. CASE TrySlot
  <2>1. end < head + Cap
    BY <1>3 DEF TrySlot, IInv, Counters
  <2> QED BY <1>3, <2>1, ProducerMoves DEF TrySlot, EndEnqueue, queue, consumers
<1>4. CASE WaitHead
  <2>1. HasRoom => end < head + Cap
    BY CapAssumption DEF HasRoom, IInv, TypeOK
  <2> QED BY <1>4, <2>1, ProducerMoves DEF WaitHead, queue, consumers
<1>5. CASE WaitSlot
  <2>1. end < head + Cap
    BY <1>5 DEF WaitSlot, IInv, Counters
  <2> QED BY <1>5, <2>1, ProducerMoves DEF WaitSlot, queue, consumers
<1>6. CASE StoreElem
  BY <1>6, Stored
<1>7. CASE Publish
  BY <1>7, Published
<1>8. ASSUME NEW c \in Consumers, TryDequeue(c) PROVE IInv'
  <2>1. PICK e \in 0 .. end : seen' = [seen EXCEPT ![c] = e]
    BY <1>8 DEF TryDequeue
  <2>2. \A d \in Consumers : /\ Holds(d)' <=> Holds(d)
                             /\ ticket'[d] = ticket[d]
                             /\ seen'[d] <= end
                             /\ cpc'[d] = "take" => cpc[d] = "take"
    BY <1>8, <2>1 DEF TryDequeue, Holds, IInv, TypeOK, Counters
  <2> QED BY <1>8, <2>2, ConsumerMoves DEF TryDequeue, queue, producer, IInv, Counters
<1>9. ASSUME NEW c \in Consumers, LoadHead(c) PROVE IInv'
  <2>1. \A d \in Consumers : /\ Holds(d)' <=> Holds(d)
                             /\ Holds(d) => ticket'[d] = ticket[d]
                             /\ seen'[d] <= end
                             /\ cpc'[d] = "take" => cpc[d] = "take"
    BY <1>9 DEF LoadHead, Holds, IInv, TypeOK, Counters
  <2> QED BY <1>9, <2>1, ConsumerMoves DEF LoadHead, queue, producer, Holds, IInv, Counters
<1>10. ASSUME NEW c \in Consumers, LooksEmpty(c) PROVE IInv'
  <2>1. \A d \in Consumers : /\ Holds(d)' <=> Holds(d)
                             /\ Holds(d) => ticket'[d] = ticket[d]
                             /\ seen'[d] <= end
                             /\ cpc'[d] = "take" => cpc[d] = "take"
    BY <1>10 DEF LooksEmpty, Return, Holds, IInv, TypeOK, Counters
  <2> QED BY <1>10, <2>1, ConsumerMoves DEF LooksEmpty, queue, producer, Holds, IInv, Counters
<1>11. ASSUME NEW c \in Consumers, CasTakes(c) PROVE IInv'
  <2>1. /\ ~Holds(c) /\ head < end
        /\ \A d \in Consumers : seen'[d] <= end
    BY <1>11 DEF CasTakes, Holds, IInv, TypeOK, Counters
  <2>2. /\ cpc' = [cpc EXCEPT ![c] = cpc'[c]] /\ cpc'[c] = "take"
        /\ ticket' = [ticket EXCEPT ![c] = head]
    BY <1>11 DEF CasTakes, IInv, TypeOK
  <2> QED BY <1>11, <2>1, <2>2, TicketTaken DEF CasTakes, producer
<1>12. ASSUME NEW c \in Consumers, CasFails(c) PROVE IInv'
  <2>1. \A d \in Consumers \ {c} : cpc'[d] = cpc[d] /\ ticket'[d] = ticket[d] /\ seen'[d] = seen[d]
    BY <1>12 DEF CasFails, Return, IInv, TypeOK
  <2>2. cpc[c] = "cas" /\ cpc'[c] \in {"cas", "idle"} /\ seen'[c] \in {0, seen[c]}
    BY <1>12 DEF CasFails, Return, IInv, TypeOK
  <2>3. \A d \in Consumers : /\ Holds(d)' <=> Holds(d)
                             /\ Holds(d) => ticket'[d] = ticket[d]
                             /\ seen'[d] <= end
                             /\ cpc'[d] = "take" => cpc[d] = "take"
    <3> SUFFICES ASSUME NEW d \in Consumers
                 PROVE  /\ Holds(d)' <=> Holds(d)
                        /\ Holds(d) => ticket'[d] = ticket[d]
                        /\ seen'[d] <= end
                        /\ cpc'[d] = "take" => cpc[d] = "take"
      OBVIOUS
    <3>1. seen[d] <= end /\ end \in Nat
      BY DEF IInv, TypeOK, Counters
    <3>2. CASE d = c
      BY <2>2, <3>1, <3>2 DEF Holds
    <3>3. CASE d # c
      BY <2>1, <3>1, <3>3 DEF Holds
    <3> QED BY <3>2, <3>3
  <2> QED BY <1>12, <2>3, ConsumerMoves DEF CasFails, queue, producer, Holds, IInv, Counters
<1>13. ASSUME NEW c \in Consumers, Dequeue(c) PROVE IInv'
  <2>1. /\ ~Holds(c)
        /\ \A d \in Consumers : seen'[d] <= end
    BY <1>13 DEF Dequeue, Holds, IInv, TypeOK, Counters
  <2>2. cpc' = [cpc EXCEPT ![c] = cpc'[c]] /\ cpc'[c] = "spin"
    BY <1>13 DEF Dequeue, IInv, TypeOK
  <2> QED BY <1>13, <2>1, <2>2, TicketTaken DEF Dequeue, producer
<1>14. ASSUME NEW c \in Consumers, SpinEnds(c) PROVE IInv'
  <2>1. ticket[c] < end
    BY <1>14 DEF SpinEnds, IInv, TypeOK
  <2>2. \A d \in Consumers : /\ Holds(d)' <=> Holds(d)
                             /\ ticket'[d] = ticket[d]
                             /\ seen'[d] <= end
                             /\ cpc'[d] = "take" => ticket'[d] < end
    BY <1>14, <2>1 DEF SpinEnds, Holds, IInv, TypeOK, Counters
  <2> QED BY <1>14, <2>2, ConsumerMoves DEF SpinEnds, queue, producer
<1>15. ASSUME NEW c \in Consumers, Take(c) PROVE IInv'
  BY <1>15, Taken
<1>16. CASE Destroy
  BY <1>16, ConsumerMoves DEF Destroy, queue, producer, consumers, Holds, IInv, Counters
<1>17. CASE UNCHANGED vars
  BY <1>17, ConsumerMoves DEF vars, Holds, IInv, Counters
<1> QED
  BY <1>1, <1>2, <1>3, <1>4, <1>5, <1>6, <1>7, <1>8, <1>9, <1>10, <1>11, <1>12,
     <1>13, <1>14, <1>15, <1>16, <1>17
  DEF Next, Producer, Consumer, ConsumerStep

(* The invariant holds in every state, whatever atomic operations of the    *)
(* producer and the consumers (spmc.c) interleave.                          *)
THEOREM Invariance == Spec => []IInv
<1> QED
  BY InitIInv, StepIInv, PTL DEF Spec

(* Each ticket has one holder, and no ticket taken early is forgotten.      *)
THEOREM TicketsCorrect == Spec => []TicketsHeldOnce
<1>1. IInv => TicketsHeldOnce
  BY DEF IInv
<1> QED
  BY <1>1, Invariance, PTL

(* The producer's store never overwrites an element. *)
THEOREM StoreIsSafe == Spec => []NoOverwrite
<1>1. IInv => NoOverwrite
  BY DEF IInv
<1> QED
  BY <1>1, Invariance, PTL

(* The exchange of spmc.c:74 and 86 returns the element that was enqueued   *)
(* under the caller's ticket.                                               *)
THEOREM ExchangeIsRight == Spec => []HolderFindsItsElement
<1>1. IInv => HolderFindsItsElement
  <2> SUFFICES ASSUME IInv, NEW c \in Consumers, cpc[c] = "take"
               PROVE  /\ ticket[c] < Len(sent)
                      /\ data[Slot(ticket[c])] = sent[ticket[c] + 1]
    BY DEF HolderFindsItsElement
  <2>1. /\ ticket[c] \in Nat /\ end \in Nat /\ Len(sent) \in Nat
        /\ ticket[c] < end /\ end <= Len(sent)
    BY DEF IInv, TypeOK, Counters
  <2>2. ticket[c] \in 0 .. Len(sent) - 1 /\ Unconsumed(ticket[c])
    BY <2>1 DEF Unconsumed, Holds
  <2> QED BY <2>1, <2>2 DEF IInv, RingHoldsUnconsumed
<1> QED
  BY <1>1, Invariance, PTL

(* Neither wait of the producer, nor the spin of a consumer, is for a step  *)
(* that nobody can take.                                                    *)
THEOREM WaitsAreMet == Spec => []WaitIsForSomeone
<1>1. IInv => WaitIsForSomeone
  <2> SUFFICES ASSUME IInv PROVE WaitIsForSomeone
    OBVIOUS
  <2>0. /\ head \in Nat /\ end \in Nat /\ Cap \in Nat \ {0} /\ Len(sent) \in Nat
        /\ ticket \in [Consumers -> Nat]
    BY CapAssumption DEF IInv, TypeOK
  <2>1. ASSUME ppc = "wait_slot", data[Slot(end)] # NULL
        PROVE  \E c \in Consumers : Holds(c) /\ ticket[c] + Cap = end
    <3>1. Len(sent) = end /\ end < head + Cap
      BY <2>1 DEF IInv, Counters
    <3>2. PICK t \in 0 .. Len(sent) - 1 : Unconsumed(t) /\ Slot(t) = Slot(end)
      BY <2>0, <2>1, SlotType DEF IInv, FilledIsUnconsumed
    <3>3. t \in Nat /\ t < end
      BY <2>0, <3>1
    <3>4. t + Cap <= end
      BY <2>0, <3>2, <3>3, SameSlot
    <3>5. t + Cap >= end
      BY <3>1, <3>2 DEF IInv, RingHoldsUnconsumed
    <3>6. t < head
      BY <2>0, <3>1, <3>3, <3>4
    <3> QED BY <2>0, <3>2, <3>3, <3>4, <3>5, <3>6 DEF Unconsumed
  <2>2. ASSUME NEW c \in Consumers, cpc[c] = "spin", ticket[c] >= end
        PROVE  HasRoom
    <3>1. ticket[c] < head
      BY <2>2 DEF IInv, Counters, Holds
    <3>2. head \in 0 .. head /\ end < head + Cap
      BY <2>0, <2>2, <3>1
    <3> QED BY <3>2 DEF HasRoom
  <2> QED BY <2>1, <2>2 DEF WaitIsForSomeone
<1> QED
  BY <1>1, Invariance, PTL

-----------------------------------------------------------------------------
(* The queue implements FifoQueue.  Under the invariant each action is one  *)
(* of the abstract queue, or changes nothing of it: taking a ticket below   *)
(* end claims the oldest element and taking one from end on joins the line; *)
(* publishing serves the head of the line, or stores; the exchange returns  *)
(* what was promised; giving up is a failed attempt; all else stutters.     *)

(* The holder of a ticket is whoever holds it. *)
LEMMA HolderIs ==
    ASSUME TicketsHeldOnce, NEW c \in Consumers, NEW t, Holds(c), ticket[c] = t
    PROVE  Holder(t) = c
  BY DEF Holder, TicketsHeldOnce

LEMMA HolderIsThen ==
    ASSUME TicketsHeldOnce', NEW c \in Consumers, NEW t, Holds(c)', ticket'[c] = t
    PROVE  Holder(t)' = c
  BY DEF Holder, TicketsHeldOnce

LEMMA HolderExists ==
    ASSUME TicketsHeldOnce, NEW t \in end .. head - 1
    PROVE  /\ Holder(t) \in Consumers
           /\ Holds(Holder(t))
           /\ ticket[Holder(t)] = t
<1>1. PICK c \in Consumers : Holds(c) /\ ticket[c] = t
  BY DEF TicketsHeldOnce
<1> QED
  BY <1>1, HolderIs

(* The types of the counters, and that what an unconsumed ticket's slot     *)
(* holds is an element.                                                     *)
LEMMA QueueTypes ==
    ASSUME IInv
    PROVE  /\ head \in Nat /\ end \in Nat /\ Cap \in Nat \ {0}
           /\ ticket \in [Consumers -> Nat] /\ Len(sent) \in Nat
           /\ end <= Len(sent)
           /\ data \in [Slots -> Elems \cup {NULL}]
           /\ ret \in [Consumers -> Elems \cup {NULL}]
  BY CapAssumption DEF IInv, TypeOK, Counters

LEMMA UnconsumedIsElement ==
    ASSUME IInv, NEW t \in 0 .. Len(sent) - 1, Unconsumed(t)
    PROVE  /\ t \in Nat
           /\ data[Slot(t)] = sent[t + 1]
           /\ data[Slot(t)] \in Elems
           /\ data[Slot(t)] # NULL
<1>1. data[Slot(t)] = sent[t + 1]
  BY DEF IInv, RingHoldsUnconsumed
<1>2. sent \in Seq(Elems)
  BY DEF IInv, TypeOK
<1>3. sent[t + 1] \in Elems
  BY <1>2
<1> QED
  BY <1>1, <1>2, <1>3, NullAssumption

(* The buffered tickets and the promised ones are unconsumed. *)
LEMMA BufferedUnconsumed ==
    ASSUME IInv, NEW t \in head .. end - 1
    PROVE  t \in 0 .. Len(sent) - 1 /\ Unconsumed(t)
  BY QueueTypes DEF Unconsumed

LEMMA PromisedUnconsumed ==
    ASSUME IInv, NEW c \in Consumers, Holds(c), ticket[c] < end
    PROVE  ticket[c] \in 0 .. Len(sent) - 1 /\ Unconsumed(ticket[c])
  BY QueueTypes DEF Unconsumed

(* Nobody who holds no ticket is promised anything, or waits. *)
LEMMA HoldsNothing ==
    ASSUME IInv, NEW c \in Consumers, ~Holds(c)
    PROVE  Fifo!Free(c)
<1>1. Promised[c] = NULL
  BY DEF Promised
<1>2. ASSUME NEW n \in DOMAIN Waiting PROVE Waiting[n] # c
  <2>1. n \in 1 .. head - end /\ Waiting[n] = Holder(end + n - 1)
    BY DEF Waiting
  <2>2. end + n - 1 \in end .. head - 1
    BY <2>1, QueueTypes
  <2> QED BY <2>1, <2>2, HolderExists DEF IInv
<1> QED
  BY <1>1, <1>2 DEF Fifo!Free, Fifo!IsWaiting

(* A ticket that stays with its holder. *)
LEMMA SameHolder ==
    ASSUME IInv, IInv', NEW t \in end .. head - 1,
           \A c \in Consumers : Holds(c) /\ ticket[c] = t => Holds(c)' /\ ticket'[c] = t
    PROVE  Holder(t)' = Holder(t)
<1>1. PICK c \in Consumers : c = Holder(t) /\ Holds(c) /\ ticket[c] = t
  BY HolderExists DEF IInv
<1>2. Holds(c)' /\ ticket'[c] = t
  BY <1>1
<1> QED
  BY <1>1, <1>2, HolderIsThen DEF IInv

(* Whoever holds the same tickets waits in the same line. *)
LEMMA SameLine ==
    ASSUME IInv, IInv', UNCHANGED <<head, end>>,
           \A c \in Consumers : Holds(c) /\ ticket[c] >= end =>
                                    Holds(c)' /\ ticket'[c] = ticket[c]
    PROVE  UNCHANGED Waiting
<1>1. ASSUME NEW t \in end .. head - 1 PROVE Holder(t)' = Holder(t)
  BY QueueTypes, SameHolder
<1>2. ASSUME NEW n \in 1 .. head - end PROVE end + n - 1 \in end .. head - 1
  BY QueueTypes
<1>3. ASSUME NEW n \in 1 .. head - end PROVE Holder(end + n - 1)' = Holder(end + n - 1)
  BY <1>1, <1>2
<1> QED
  BY <1>3 DEF Waiting

(* A step that changes neither the ring nor who holds which ticket is       *)
(* invisible to the abstract queue, up to what a call returns.              *)
LEMMA Invisible ==
    ASSUME IInv, IInv', UNCHANGED <<data, head, end>>,
           \A c \in Consumers : /\ Holds(c)' <=> Holds(c)
                                /\ Holds(c) => ticket'[c] = ticket[c]
    PROVE  UNCHANGED <<Buffered, Waiting, Promised>>
<1>1. UNCHANGED Buffered
  BY DEF Buffered
<1>2. UNCHANGED Waiting
  BY SameLine
<1>3. UNCHANGED Promised
  BY DEF Promised
<1> QED
  BY <1>1, <1>2, <1>3

-----------------------------------------------------------------------------
(* Taking a ticket. *)

(* What a consumer that takes the next ticket changes of the others. *)
LEMMA OthersKeepTickets ==
    ASSUME IInv, NEW c \in Consumers,
           cpc' = [cpc EXCEPT ![c] = cpc'[c]],
           ticket' = [ticket EXCEPT ![c] = head],
           cpc'[c] \in {"spin", "take"}
    PROVE  /\ Holds(c)' /\ ticket'[c] = head
           /\ \A d \in Consumers \ {c} : /\ Holds(d)' <=> Holds(d)
                                         /\ ticket'[d] = ticket[d]
  BY DEF IInv, TypeOK, Holds

(* The rest, and the extension, of a sequence given by its elements. *)
LEMMA FirstAndRest ==
    ASSUME NEW S, NEW n \in Nat, NEW s \in [1 .. n + 1 -> S], NEW t \in [1 .. n -> S],
           \A m \in 1 .. n : t[m] = s[m + 1]
    PROVE  s # <<>> /\ Head(s) = s[1] /\ Tail(s) = t
<1>1. s \in Seq(S) /\ Len(s) = n + 1 /\ s # <<>> /\ Head(s) = s[1]
  OBVIOUS
<1>2. /\ Tail(s) \in Seq(S) /\ Len(Tail(s)) = n
      /\ \A m \in 1 .. n : Tail(s)[m] = s[m + 1]
  BY <1>1, HeadTailProperties
<1>3. t \in Seq(S) /\ Len(t) = n
  OBVIOUS
<1>4. Tail(s) = t
  BY <1>2, <1>3, SeqEqual
<1> QED
  BY <1>1, <1>4

LEMMA AndThen ==
    ASSUME NEW S, NEW n \in Nat, NEW s \in [1 .. n -> S], NEW t \in [1 .. n + 1 -> S],
           \A m \in 1 .. n : t[m] = s[m]
    PROVE  Append(s, t[n + 1]) = t
<1>1. s \in Seq(S) /\ Len(s) = n /\ t \in Seq(S) /\ Len(t) = n + 1 /\ t[n + 1] \in S
  OBVIOUS
<1>2. /\ Append(s, t[n + 1]) \in Seq(S) /\ Len(Append(s, t[n + 1])) = n + 1
      /\ \A m \in 1 .. n : Append(s, t[n + 1])[m] = s[m]
      /\ Append(s, t[n + 1])[n + 1] = t[n + 1]
  BY <1>1, AppendProperties
<1>3. \A m \in 1 .. n + 1 : Append(s, t[n + 1])[m] = t[m]
  BY <1>2
<1> QED
  BY <1>1, <1>2, <1>3, SeqEqual

(* A ticket below end is a claim on the oldest element. *)
LEMMA Claims ==
    ASSUME IInv, IInv', NEW c \in Consumers, ~Holds(c), head < end,
           cpc' = [cpc EXCEPT ![c] = cpc'[c]],
           ticket' = [ticket EXCEPT ![c] = head],
           cpc'[c] \in {"spin", "take"},
           head' = head + 1,
           UNCHANGED <<data, end, ret>>
    PROVE  Fifo!Claim(c)
<1>0. head \in Nat /\ end \in Nat
  BY QueueTypes
<1>1. Fifo!Free(c)
  BY HoldsNothing
<1>2. /\ Buffered # <<>> /\ Head(Buffered) = data[Slot(head)]
      /\ Buffered' = Tail(Buffered)
  <2> DEFINE n == end - head - 1
             D == {data[Slot(t)] : t \in Nat}
  <2>1. n \in Nat /\ Buffered \in [1 .. n + 1 -> D] /\ Buffered' \in [1 .. n -> D]
    BY <1>0 DEF Buffered
  <2>2. Buffered[1] = data[Slot(head)]
    <3>1. head + 1 - 1 = head /\ 1 \in 1 .. end - head
      BY <1>0
    <3> QED BY <3>1 DEF Buffered
  <2>3. \A m \in 1 .. n : Buffered'[m] = Buffered[m + 1]
    BY <1>0 DEF Buffered
  <2> HIDE DEF D, n, Buffered
  <2> QED BY <2>1, <2>2, <2>3, FirstAndRest
<1>3. Promised' = [Promised EXCEPT ![c] = data[Slot(head)]]
  <2>1. Promised'[c] = data[Slot(head)]
    BY <1>0, OthersKeepTickets DEF Promised
  <2>2. ASSUME NEW d \in Consumers \ {c} PROVE Promised'[d] = Promised[d]
    <3>1. (Holds(d)' <=> Holds(d)) /\ ticket'[d] = ticket[d]
      BY OthersKeepTickets
    <3> QED BY <3>1 DEF Promised
  <2>3. Promised' = [d \in Consumers |-> Promised'[d]] /\ DOMAIN Promised = Consumers
    BY DEF Promised
  <2> HIDE DEF Promised
  <2> QED BY <2>1, <2>2, <2>3
<1>4. UNCHANGED Waiting
  <2>1. Waiting = <<>> /\ Waiting' = <<>>
    BY <1>0 DEF Waiting
  <2> QED BY <2>1
<1> QED
  BY <1>1, <1>2, <1>3, <1>4 DEF Fifo!Claim

(* A ticket from end on joins the line. *)
LEMMA Joins ==
    ASSUME IInv, IInv', NEW c \in Consumers, ~Holds(c), end <= head,
           cpc' = [cpc EXCEPT ![c] = cpc'[c]],
           ticket' = [ticket EXCEPT ![c] = head],
           cpc'[c] \in {"spin", "take"},
           head' = head + 1,
           UNCHANGED <<data, end, ret>>
    PROVE  Fifo!Join(c)
<1>0. head \in Nat /\ end \in Nat
  BY QueueTypes
<1>1. Fifo!Free(c)
  BY HoldsNothing
<1>2. Buffered = <<>> /\ Buffered' = <<>>
  BY <1>0 DEF Buffered
<1>3. Promised' = Promised
  <2>1. Promised'[c] = Promised[c]
    <3>1. ticket'[c] = head
      BY OthersKeepTickets
    <3> QED BY <1>0, <3>1 DEF Promised
  <2>2. ASSUME NEW d \in Consumers \ {c} PROVE Promised'[d] = Promised[d]
    <3>1. (Holds(d)' <=> Holds(d)) /\ ticket'[d] = ticket[d]
      BY OthersKeepTickets
    <3> QED BY <3>1 DEF Promised
  <2>3. /\ Promised' = [d \in Consumers |-> Promised'[d]]
        /\ Promised = [d \in Consumers |-> Promised[d]]
    BY DEF Promised
  <2> HIDE DEF Promised
  <2> QED BY <2>1, <2>2, <2>3
<1>4. ASSUME NEW t \in end .. head - 1 PROVE Holder(t)' = Holder(t)
  BY SameHolder, OthersKeepTickets
<1>5. ASSUME NEW t, t = head PROVE Holder(t)' = c
  BY <1>5, OthersKeepTickets, HolderIsThen DEF IInv
<1>6. Waiting' = Append(Waiting, c)
  <2> DEFINE n == head - end
  <2>1. /\ n \in Nat
        /\ Waiting = [m \in 1 .. n |-> Holder(end + m - 1)]
        /\ Waiting' = [m \in 1 .. n + 1 |-> Holder(end + m - 1)']
    BY <1>0 DEF Waiting
  <2>2. \A m \in 1 .. n : end + m - 1 \in end .. head - 1
    BY <1>0
  <2>3. Waiting \in [1 .. n -> Consumers]
    BY <2>1, <2>2, HolderExists DEF IInv
  <2>4. ASSUME NEW m \in 1 .. n + 1
        PROVE  Waiting'[m] = IF m = n + 1 THEN c ELSE Waiting[m]
    <3>1. Waiting'[m] = Holder(end + m - 1)'
      BY <2>1
    <3>2. CASE m = n + 1
      <4>1. end + m - 1 = head
        BY <1>0, <3>2
      <4>2. Holder(end + m - 1)' = c
        BY <1>5, <4>1
      <4> QED BY <3>1, <3>2, <4>2
    <3>3. CASE m # n + 1
      <4>1. m \in 1 .. n
        BY <2>1, <3>3
      <4>2. end + m - 1 \in end .. head - 1
        BY <2>2, <4>1
      <4>3. Holder(end + m - 1)' = Holder(end + m - 1)
        BY <1>4, <4>2
      <4> QED BY <2>1, <3>1, <3>3, <4>1, <4>3
    <3> QED BY <3>2, <3>3
  <2>5. Waiting' \in [1 .. n + 1 -> Consumers] /\ Waiting'[n + 1] = c
    <3> HIDE DEF n
    <3>1. \A m \in 1 .. n + 1 : m # n + 1 => m \in 1 .. n
      BY <2>1
    <3>2. \A m \in 1 .. n + 1 : Waiting'[m] \in Consumers
      BY <2>3, <2>4, <3>1
    <3>3. Waiting' = [m \in 1 .. n + 1 |-> Waiting'[m]]
      BY <2>1
    <3>4. n + 1 \in 1 .. n + 1
      BY <2>1
    <3> QED BY <2>4, <3>2, <3>3, <3>4
  <2>6. n \in Nat
    BY <2>1
  <2> HIDE DEF n, Waiting
  <2>7. \A m \in 1 .. n : Waiting'[m] = Waiting[m]
    <3>1. \A m \in 1 .. n : m \in 1 .. n + 1 /\ m # n + 1
      BY <2>6
    <3> QED BY <2>4, <3>1
  <2>8. Append(Waiting, Waiting'[n + 1]) = Waiting'
    BY <2>3, <2>5, <2>6, <2>7, AndThen
  <2> QED BY <2>5, <2>8
<1> QED
  BY <1>1, <1>2, <1>3, <1>6 DEF Fifo!Join

-----------------------------------------------------------------------------
(* Publishing. *)

(* Nobody waits: the element is stored.  There is room, for the slot of     *)
(* head is not yet needed again.                                            *)
LEMMA PublishStores ==
    ASSUME IInv, IInv', Publish, head <= end
    PROVE  \E e \in Elems : Fifo!Store(e)
<1>0. head \in Nat /\ end \in Nat /\ Cap \in Nat \ {0}
  BY QueueTypes
<1>1. UNCHANGED <<data, head, cpc, ticket, ret>> /\ end' = end + 1 /\ Len(sent) = end + 1
  BY DEF Publish, consumers, IInv, Counters
<1>2. data[Slot(end)] \in Elems
  BY <1>0, <1>1, NewIsUnconsumed, UnconsumedIsElement
<1>3. end - head < Cap
  <2>1. head \in 0 .. Len(sent) - 1 /\ Unconsumed(head)
    BY <1>0, <1>1 DEF Unconsumed
  <2>2. head + Cap >= Len(sent)
    BY <2>1 DEF IInv, RingHoldsUnconsumed
  <2> QED BY <1>0, <1>1, <2>2
<1>4. Len(Buffered) < Cap
  <2>1. Len(Buffered) = end - head
    BY <1>0 DEF Buffered
  <2> QED BY <1>3, <2>1
<1>5. Buffered' = Append(Buffered, data[Slot(end)])
  <2> DEFINE n == end - head
             D == {data[Slot(t)] : t \in Nat}
  <2>1. n \in Nat /\ Buffered \in [1 .. n -> D] /\ Buffered' \in [1 .. n + 1 -> D]
    BY <1>0, <1>1 DEF Buffered
  <2>2. Buffered'[n + 1] = data[Slot(end)]
    <3>1. head' + (n + 1) - 1 = end /\ n + 1 \in 1 .. end' - head'
      BY <1>0, <1>1
    <3>2. Buffered'[n + 1] = data'[Slot(head' + (n + 1) - 1)]
      BY <3>1 DEF Buffered
    <3> QED BY <1>1, <3>1, <3>2
  <2>3. \A m \in 1 .. n : Buffered'[m] = Buffered[m]
    BY <1>0, <1>1 DEF Buffered
  <2> HIDE DEF D, n, Buffered
  <2>4. Append(Buffered, Buffered'[n + 1]) = Buffered'
    BY <2>1, <2>3, AndThen
  <2> QED BY <2>2, <2>4
<1>6. UNCHANGED Waiting
  <2>1. Waiting = <<>> /\ Waiting' = <<>>
    BY <1>0, <1>1 DEF Waiting
  <2> QED BY <2>1
<1>7. UNCHANGED Promised
  <2>1. ASSUME NEW d \in Consumers PROVE Promised'[d] = Promised[d]
    <3>1. (Holds(d)' <=> Holds(d)) /\ ticket'[d] = ticket[d]
      BY <1>1 DEF Holds
    <3>2. Holds(d) => ticket[d] \in Nat /\ ticket[d] < end
      BY <1>0, QueueTypes DEF IInv, Counters
    <3> QED BY <1>0, <1>1, <3>1, <3>2 DEF Promised
  <2> QED BY <2>1 DEF Promised
<1>8. Waiting = <<>>
  BY <1>0 DEF Waiting
<1>9. Fifo!Store(data[Slot(end)])
  BY <1>1, <1>4, <1>5, <1>6, <1>7, <1>8 DEF Fifo!Store
<1> QED
  BY <1>2, <1>9

(* Somebody waits: the element goes to the holder of ticket end, who has    *)
(* waited longest.                                                          *)
LEMMA PublishServes ==
    ASSUME IInv, IInv', Publish, end < head
    PROVE  \E e \in Elems : Fifo!Serve(e)
<1>0. head \in Nat /\ end \in Nat
  BY QueueTypes
<1>1. UNCHANGED <<data, head, cpc, ticket, ret>> /\ end' = end + 1 /\ Len(sent) = end + 1
  BY DEF Publish, consumers, IInv, Counters
<1>2. data[Slot(end)] \in Elems
  BY <1>0, <1>1, NewIsUnconsumed, UnconsumedIsElement
<1>3. \A d \in Consumers : (Holds(d)' <=> Holds(d)) /\ ticket'[d] = ticket[d]
  BY <1>1 DEF Holds
<1>4. PICK c \in Consumers : c = Holder(end) /\ Holds(c) /\ ticket[c] = end
  BY <1>0, HolderExists DEF IInv
<1>5. UNCHANGED Buffered
  <2>1. Buffered = <<>> /\ Buffered' = <<>>
    BY <1>0, <1>1 DEF Buffered
  <2> QED BY <2>1
<1>6. /\ Waiting # <<>> /\ Head(Waiting) = c
      /\ Waiting' = Tail(Waiting)
  <2> DEFINE n == head - end - 1
  <2>0. n \in Nat /\ n + 1 = head - end /\ n = head' - end'
    BY <1>0, <1>1
  <2>1. /\ Waiting = [m \in 1 .. n + 1 |-> Holder(end + m - 1)]
        /\ Waiting' = [m \in 1 .. n |-> Holder(end + m - 1)']
    BY <2>0 DEF Waiting
  <2>2. \A m \in 1 .. n + 1 : end + m - 1 \in end .. head - 1
    BY <1>0
  <2>3. Waiting \in [1 .. n + 1 -> Consumers]
    BY <2>1, <2>2, HolderExists DEF IInv
  <2>4. Waiting[1] = c
    <3>1. end + 1 - 1 = end /\ 1 \in 1 .. n + 1
      BY <1>0, <2>0
    <3> QED BY <1>4, <2>1, <3>1
  <2>5. ASSUME NEW m \in 1 .. n
        PROVE  Waiting'[m] = Waiting[m + 1]
    <3>1. PICK u : u = end + m
      OBVIOUS
    <3>2. /\ u \in end .. head - 1 /\ m + 1 \in 1 .. n + 1
          /\ end + (m + 1) - 1 = u /\ end' + m - 1 = u
      BY <1>0, <1>1, <3>1
    <3>3. Holder(u)' = Holder(u)
      BY <1>3, <3>2, SameHolder
    <3>4. Waiting[m + 1] = Holder(u)
      BY <2>1, <3>2
    <3>5. Waiting'[m] = Holder(end + m - 1)'
      BY <2>1
    <3>6. Holder(end + m - 1)' = Holder(u)'
      BY <3>2
    <3> QED BY <3>3, <3>4, <3>5, <3>6
  <2>6. Waiting' \in [1 .. n -> Consumers]
    <3>1. \A m \in 1 .. n : m + 1 \in 1 .. n + 1
      BY <2>0
    <3>2. \A m \in 1 .. n : Waiting'[m] \in Consumers
      BY <2>3, <2>5, <3>1
    <3>3. Waiting' = [m \in 1 .. n |-> Waiting'[m]]
      BY <2>1
    <3> QED BY <3>2, <3>3
  <2> HIDE DEF n, Waiting
  <2> QED BY <2>0, <2>3, <2>4, <2>5, <2>6, FirstAndRest
<1>7. Promised' = [Promised EXCEPT ![c] = data[Slot(end)]]
  <2>1. Promised'[c] = data[Slot(end)]
    BY <1>0, <1>1, <1>3, <1>4 DEF Promised
  <2>2. ASSUME NEW d \in Consumers \ {c} PROVE Promised'[d] = Promised[d]
    <3>1. Holds(d) => ticket[d] # end
      BY <1>4 DEF IInv, TicketsHeldOnce
    <3>2. ticket[d] \in Nat
      BY QueueTypes
    <3>3. Holds(d) => (ticket[d] < end + 1 <=> ticket[d] < end)
      BY <1>0, <3>1, <3>2
    <3> QED BY <1>1, <1>3, <3>3 DEF Promised
  <2>3. Promised' = [d \in Consumers |-> Promised'[d]] /\ DOMAIN Promised = Consumers
    BY DEF Promised
  <2> HIDE DEF Promised
  <2> QED BY <2>1, <2>2, <2>3
<1>8. Fifo!Serve(data[Slot(end)])
  BY <1>1, <1>5, <1>6, <1>7 DEF Fifo!Serve
<1> QED
  BY <1>2, <1>8

-----------------------------------------------------------------------------
(* The exchange returns what was promised; no other slot changes that       *)
(* anything is buffered in or promised from.                                *)
LEMMA TakeReturns ==
    ASSUME IInv, IInv', NEW c \in Consumers, Take(c)
    PROVE  Fifo!Return(c)
<1> DEFINE t0 == ticket[c]
<1>0. head \in Nat /\ end \in Nat /\ data \in [Slots -> Elems \cup {NULL}]
  BY QueueTypes
<1>1. /\ Holds(c) /\ t0 < end /\ t0 < head /\ t0 \in Nat
      /\ t0 \in 0 .. Len(sent) - 1 /\ Unconsumed(t0)
  <2>1. Holds(c) /\ t0 < end /\ t0 < head
    BY DEF IInv, Counters, Take, Holds
  <2> QED BY <2>1, PromisedUnconsumed, QueueTypes
<1>2. Promised[c] = data[Slot(t0)] /\ data[Slot(t0)] # NULL
  BY <1>1, UnconsumedIsElement DEF Promised
<1>3. /\ ~Holds(c)'
      /\ \A d \in Consumers \ {c} : (Holds(d)' <=> Holds(d)) /\ ticket'[d] = ticket[d]
      /\ ret' = [ret EXCEPT ![c] = data[Slot(t0)]]
      /\ UNCHANGED <<head, end>>
  BY DEF Take, Return, Holds, IInv, TypeOK
<1>4. ASSUME NEW t \in 0 .. Len(sent) - 1, Unconsumed(t), t # t0
      PROVE  data'[Slot(t)] = data[Slot(t)]
  <2>1. Slot(t) # Slot(t0)
    BY <1>1, <1>4, UnconsumedApart
  <2>2. Slot(t) \in Slots
    BY <1>4, UnconsumedIsElement, SlotType
  <2> QED BY <1>0, <2>1, <2>2 DEF Take
<1>5. UNCHANGED Buffered
  <2>1. ASSUME NEW t \in head .. end - 1 PROVE data'[Slot(t)] = data[Slot(t)]
    <3>1. t # t0
      BY <1>0, <1>1
    <3> QED BY <1>4, <3>1, BufferedUnconsumed
  <2>2. \A m \in 1 .. end - head : head + m - 1 \in head .. end - 1
    BY <1>0
  <2> QED BY <1>3, <2>1, <2>2 DEF Buffered
<1>6. UNCHANGED Waiting
  <2>1. \A d \in Consumers : Holds(d) /\ ticket[d] >= end =>
                                 Holds(d)' /\ ticket'[d] = ticket[d]
    BY <1>0, <1>1, <1>3
  <2> QED BY <1>3, <2>1, SameLine
<1>7. Promised' = [Promised EXCEPT ![c] = NULL]
  <2>1. Promised'[c] = NULL
    BY <1>3 DEF Promised
  <2>2. ASSUME NEW d \in Consumers \ {c} PROVE Promised'[d] = Promised[d]
    <3>1. (Holds(d)' <=> Holds(d)) /\ ticket'[d] = ticket[d]
      BY <1>3
    <3>2. Holds(d) => ticket[d] # t0
      BY <1>1 DEF IInv, TicketsHeldOnce
    <3>3. Holds(d) /\ ticket[d] < end => data'[Slot(ticket[d])] = data[Slot(ticket[d])]
      BY <1>4, <3>2, PromisedUnconsumed
    <3> QED BY <1>3, <3>1, <3>3 DEF Promised
  <2>3. Promised' = [d \in Consumers |-> Promised'[d]] /\ DOMAIN Promised = Consumers
    BY DEF Promised
  <2> HIDE DEF Promised
  <2> QED BY <2>1, <2>2, <2>3
<1> QED
  BY <1>2, <1>3, <1>5, <1>6, <1>7 DEF Fifo!Return

(* The producer's store is not seen until it is published. *)
LEMMA StoreUnseen ==
    ASSUME IInv, IInv', StoreElem
    PROVE  UNCHANGED Fifo!fvars
<1>0. head \in Nat /\ end \in Nat /\ data \in [Slots -> Elems \cup {NULL}]
  BY QueueTypes
<1>1. /\ UNCHANGED <<head, end, cpc, ticket, ret>>
      /\ data[Slot(end)] = NULL
      /\ data' = [data EXCEPT ![Slot(end)] = elem]
  BY DEF StoreElem, consumers, IInv, NoOverwrite
<1>2. \A d \in Consumers : (Holds(d)' <=> Holds(d)) /\ ticket'[d] = ticket[d]
  BY <1>1 DEF Holds
<1>3. ASSUME NEW t \in 0 .. Len(sent) - 1, Unconsumed(t)
      PROVE  data'[Slot(t)] = data[Slot(t)]
  <2>1. Slot(t) # Slot(end) /\ Slot(t) \in Slots
    BY <1>1, <1>3, UnconsumedIsElement, SlotType
  <2> QED BY <1>0, <1>1, <2>1
<1>4. UNCHANGED Buffered
  <2>1. \A t \in head .. end - 1 : data'[Slot(t)] = data[Slot(t)]
    BY <1>3, BufferedUnconsumed
  <2>2. \A m \in 1 .. end - head : head + m - 1 \in head .. end - 1
    BY <1>0
  <2> QED BY <1>1, <2>1, <2>2 DEF Buffered
<1>5. UNCHANGED Waiting
  BY <1>1, <1>2, SameLine
<1>6. UNCHANGED Promised
  <2>1. ASSUME NEW d \in Consumers PROVE Promised'[d] = Promised[d]
    <3>1. Holds(d) /\ ticket[d] < end => data'[Slot(ticket[d])] = data[Slot(ticket[d])]
      BY <1>3, PromisedUnconsumed
    <3> QED BY <1>1, <1>2, <3>1 DEF Promised
  <2> QED BY <2>1 DEF Promised
<1> QED
  BY <1>1, <1>4, <1>5, <1>6 DEF Fifo!fvars

-----------------------------------------------------------------------------
LEMMA InitMaps == Init => Fifo!Init
<1> SUFFICES ASSUME Init PROVE Fifo!Init
  OBVIOUS
<1>1. Buffered = <<>> /\ Waiting = <<>>
  BY DEF Init, Buffered, Waiting
<1>2. Promised = [c \in Consumers |-> NULL]
  BY DEF Init, Promised, Holds
<1> QED
  BY <1>1, <1>2 DEF Init, Fifo!Init

(* The steps that the abstract queue does not see. *)
LEMMA Stutters ==
    ASSUME IInv, IInv', UNCHANGED <<data, head, end, ret>>,
           \A c \in Consumers : /\ Holds(c)' <=> Holds(c)
                                /\ Holds(c) => ticket'[c] = ticket[c]
    PROVE  UNCHANGED Fifo!fvars
  BY Invisible DEF Fifo!fvars

(* A call that gives up: an empty queue, or too many lost races. *)
LEMMA GivesUp ==
    ASSUME IInv, IInv', NEW c \in Consumers, cpc[c] = "cas", Return(c, NULL),
           UNCHANGED <<data, head, end>>
    PROVE  Fifo!Fail(c)
<1>1. ~Holds(c)
  BY DEF Holds
<1>2. \A d \in Consumers : /\ Holds(d)' <=> Holds(d)
                           /\ Holds(d) => ticket'[d] = ticket[d]
  BY DEF Return, Holds, IInv, TypeOK
<1>3. ret' = [ret EXCEPT ![c] = NULL]
  BY DEF Return
<1>4. Fifo!Free(c)
  BY <1>1, HoldsNothing
<1>5. UNCHANGED <<Buffered, Waiting, Promised>>
  BY <1>2, Invisible
<1> QED
  BY <1>3, <1>4, <1>5 DEF Fifo!Fail

LEMMA StepMaps == IInv /\ IInv' /\ [Next]_vars => [Fifo!Next]_(Fifo!fvars)
<1> SUFFICES ASSUME IInv, IInv', [Next]_vars PROVE [Fifo!Next]_(Fifo!fvars)
  OBVIOUS
<1> USE DEF queue, producer, consumers
<1>0. /\ cpc \in [Consumers -> ConsumerPcs] /\ ticket \in [Consumers -> Nat]
      /\ head \in Nat /\ end \in Nat
  BY QueueTypes DEF IInv, TypeOK
<1>1. CASE \/ \E e \in Elems : TryEnqueue(e) \/ Enqueue(e)
           \/ TryHead \/ TrySlot \/ WaitHead \/ WaitSlot \/ Destroy \/ UNCHANGED vars
  <2>1. UNCHANGED <<data, head, end, cpc, ticket, ret>>
    BY <1>1 DEF TryEnqueue, Enqueue, BeginEnqueue, TryHead, TrySlot, WaitHead, WaitSlot,
                Destroy, vars
  <2> QED BY <2>1, Stutters DEF Holds
<1>2. CASE StoreElem
  BY <1>2, StoreUnseen
<1>3. CASE Publish
  <2>1. CASE head <= end
    BY <1>3, <2>1, PublishStores DEF Fifo!Next
  <2>2. CASE end < head
    BY <1>3, <2>2, PublishServes DEF Fifo!Next
  <2> QED BY <1>0, <2>1, <2>2
<1>4. ASSUME NEW c \in Consumers, TryDequeue(c) \/ LoadHead(c) \/ SpinEnds(c)
      PROVE  [Fifo!Next]_(Fifo!fvars)
  <2>1. UNCHANGED <<data, head, end, ret>>
    BY <1>4 DEF TryDequeue, LoadHead, SpinEnds
  <2>2. \A d \in Consumers : /\ Holds(d)' <=> Holds(d)
                             /\ Holds(d) => ticket'[d] = ticket[d]
    BY <1>0, <1>4 DEF TryDequeue, LoadHead, SpinEnds, Holds
  <2> QED BY <2>1, <2>2, Stutters
<1>5. ASSUME NEW c \in Consumers, LooksEmpty(c) PROVE [Fifo!Next]_(Fifo!fvars)
  BY <1>5, GivesUp DEF LooksEmpty, Fifo!Next
<1>6. ASSUME NEW c \in Consumers, CasFails(c) PROVE [Fifo!Next]_(Fifo!fvars)
  <2>1. cpc[c] = "cas" /\ UNCHANGED <<data, head, end>>
    BY <1>6 DEF CasFails
  <2>2. CASE Return(c, NULL)
    BY <2>1, <2>2, GivesUp DEF Fifo!Next
  <2>3. CASE ~Return(c, NULL)
    <3>1. UNCHANGED <<cpc, ret>> /\ \E h : ticket' = [ticket EXCEPT ![c] = h]
      BY <1>6, <2>3 DEF CasFails
    <3>2. \A d \in Consumers : /\ Holds(d)' <=> Holds(d)
                               /\ Holds(d) => ticket'[d] = ticket[d]
      BY <1>0, <2>1, <3>1 DEF Holds
    <3> QED BY <2>1, <3>1, <3>2, Stutters
  <2> QED BY <2>2, <2>3
<1>7. ASSUME NEW c \in Consumers, CasTakes(c) PROVE [Fifo!Next]_(Fifo!fvars)
  <2>1. ~Holds(c) /\ head < end
    BY <1>0, <1>7 DEF CasTakes, Holds, IInv, TypeOK, Counters
  <2>2. /\ cpc' = [cpc EXCEPT ![c] = cpc'[c]] /\ cpc'[c] \in {"spin", "take"}
        /\ ticket' = [ticket EXCEPT ![c] = head]
        /\ head' = head + 1 /\ UNCHANGED <<data, end, ret>>
    BY <1>0, <1>7 DEF CasTakes
  <2>3. Fifo!Claim(c)
    BY <2>1, <2>2, Claims
  <2> QED BY <2>3 DEF Fifo!Next
<1>8. ASSUME NEW c \in Consumers, Dequeue(c) PROVE [Fifo!Next]_(Fifo!fvars)
  <2>1. ~Holds(c)
    BY <1>8 DEF Dequeue, Holds
  <2>2. /\ cpc' = [cpc EXCEPT ![c] = cpc'[c]] /\ cpc'[c] \in {"spin", "take"}
        /\ ticket' = [ticket EXCEPT ![c] = head]
        /\ head' = head + 1 /\ UNCHANGED <<data, end, ret>>
    BY <1>0, <1>8 DEF Dequeue
  <2>3. CASE head < end
    <3>1. Fifo!Claim(c)
      BY <2>1, <2>2, <2>3, Claims
    <3> QED BY <3>1 DEF Fifo!Next
  <2>4. CASE end <= head
    <3>1. Fifo!Join(c)
      BY <2>1, <2>2, <2>4, Joins
    <3> QED BY <3>1 DEF Fifo!Next
  <2> QED BY <1>0, <2>3, <2>4
<1>9. ASSUME NEW c \in Consumers, Take(c) PROVE [Fifo!Next]_(Fifo!fvars)
  BY <1>9, TakeReturns DEF Fifo!Next
<1> QED
  BY <1>1, <1>2, <1>3, <1>4, <1>5, <1>6, <1>7, <1>8, <1>9
  DEF Next, Producer, Consumer, ConsumerStep

(* Whatever the interleaving and whatever stale values the loads return,    *)
(* spmc.c is a bounded FIFO queue with a FIFO line of blocked consumers.    *)
THEOREM Refinement == Spec => ImplementsFifo
<1>1. Init => Fifo!Init
  BY InitMaps
<1>2. IInv /\ IInv' /\ [Next]_vars => [Fifo!Next]_(Fifo!fvars)
  BY StepMaps
<1> QED
  BY <1>1, <1>2, Invariance, PTL DEF Spec, ImplementsFifo, Fifo!Spec
=============================================================================
