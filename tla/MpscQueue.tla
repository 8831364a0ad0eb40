----------------------------- MODULE MpscQueue -----------------------------
(***************************************************************************)
(* The preallocated multiple-producer/single-consumer event queue between  *)
(* the hook replacements (producers) and the trace-writer thread           *)
(* (consumer): class BoundedMpscQueue of bounded_mpsc_queue.hpp.           *)
(*                                                                         *)
(* Every atomic operation of the code is one action, so the producers, the *)
(* consumer and a telemetry reader interleave as they do in the program.   *)
(* Loops that only retry a compare-exchange on a maximum or on a saturating *)
(* counter (note_touched, note_drop, note_occupancy_high_water) are one    *)
(* action each: the step in which the exchange succeeds, or in which the   *)
(* load shows there is nothing to do.                                      *)
(*                                                                         *)
(* A definition named Operation_Fault is the operation with a plausible    *)
(* programming error; no specification uses it.  Replacing the operation   *)
(* by it must make TLC find a property violated.                           *)
(***************************************************************************)
EXTENDS Integers, Sequences, FiniteSets

CONSTANTS
    Producers,        \* threads that run hook replacements
    Capacity,         \* capacity_
    MaxCount,         \* numeric_limits<uint64_t>::max()
    MaxOffers,        \* bound: calls of try_emplace between two resets
    MaxResets,        \* bound: calls of reset_quiescent
    MaxObservations   \* bound: calls of occupancy()

\* validate_capacity: a power of two, at least two, at most half the counter
\* range.  Of "power of two" only its two consequences are needed: position &
\* mask_ is position % Capacity, and the counter range is a multiple of it.
ASSUME CapacityAssumption ==
    /\ Capacity \in Nat \ {0, 1}
    /\ MaxCount \in Nat
    /\ 2 * Capacity <= MaxCount
    /\ (MaxCount + 1) % Capacity = 0

\* A process has finitely many threads.
ASSUME ProducersAssumption == IsFiniteSet(Producers)

ASSUME BoundsAssumption ==
    /\ MaxOffers \in Nat
    /\ MaxResets \in Nat
    /\ MaxObservations \in Nat

VARIABLES
    \* the shared memory of the queue
    enqueue,       \* enqueue_: next position to reserve
    dequeue,       \* dequeue_: next position to consume
    dropped,       \* dropped_
    high_water,    \* high_water_
    touched,       \* touched_watermark_
    sequence,      \* slots_[i].sequence
    value,         \* slots_[i].value
    \* the local state of the producers, the consumer, the telemetry reader
    pc, position, ticket,
    cpc,
    opc, seen, report,
    \* history: events in reservation order, events handed to the consumer,
    \* calls of try_emplace, drops collected by take_dropped_count, the bounds'
    \* counters
    claimed, popped, offered, taken, resets, observations

shared    == <<enqueue, dequeue, dropped, high_water, touched, sequence, value>>
producers == <<pc, position, ticket>>
observer  == <<opc, seen, report, observations>>
history   == <<claimed, popped, offered, taken, resets>>
vars      == <<shared, producers, cpc, observer, history>>

----------------------------------------------------------------------------
(* uint64_t arithmetic and slot addressing. *)

Half == MaxCount \div 2

\* a - b and a value that may exceed the range by less than the range
Minus(a, b) == IF a >= b THEN a - b ELSE a - b + MaxCount + 1
Wrap(a)     == IF a > MaxCount THEN a - MaxCount - 1 ELSE a

Index(pos) == pos % Capacity
Slots      == 0 .. Capacity - 1

\* What a slot stores when its next use is the reservation of pos, when the
\* event reserved at pos is published, and when that event has been consumed.
FreeFor(pos)   == Wrap(pos - Index(pos))
FullWith(pos)  == pos + 1 - Index(pos)
Released(pos)  == Wrap(pos + Capacity - Index(pos))

\* One past the highest position whose slot has been handed back: the
\* consumer releases the slot before it stores dequeue_.
HeadPosition == IF cpc = "advance" THEN dequeue + 1 ELSE dequeue

Max2(a, b) == IF a >= b THEN a ELSE b

\* Of an event only its origin and the sequence number it was given matter.
Events  == [producer : Producers \cup {"none"}, offer : Nat, queue_sequence : Nat]
NoEvent == [producer |-> "none", offer |-> 0, queue_sequence |-> 0]

----------------------------------------------------------------------------
Init ==
    /\ enqueue = 0 /\ dequeue = 0 /\ dropped = 0 /\ high_water = 0 /\ touched = 0
    /\ sequence = [i \in Slots |-> 0]
    /\ value = [i \in Slots |-> NoEvent]
    /\ pc = [p \in Producers |-> "idle"]
    /\ position = [p \in Producers |-> 0]
    /\ ticket = [p \in Producers |-> 0]
    /\ cpc = "idle"
    /\ opc = "idle" /\ seen = 0 /\ report = 0 /\ observations = 0
    /\ claimed = << >> /\ popped = << >>
    /\ offered = 0 /\ taken = 0 /\ resets = 0

----------------------------------------------------------------------------
(* Producer: try_emplace. *)

\* the event the producer's callable writes into its slot
Event(p) == [producer |-> p, offer |-> ticket[p], queue_sequence |-> position[p] + 1]

Goto(p, label) == pc' = [pc EXCEPT ![p] = label]

Offer(p) ==
    /\ pc[p] = "idle" /\ offered < MaxOffers
    /\ position' = [position EXCEPT ![p] = enqueue]
    /\ ticket' = [ticket EXCEPT ![p] = offered + 1]
    /\ offered' = offered + 1
    /\ Goto(p, "check")
    /\ UNCHANGED <<shared, cpc, observer, claimed, popped, taken, resets>>

Distance_Ignored(p) == 0

Exhausted(p) == position[p] = MaxCount
Distance(p)  == Minus(sequence[Index(position[p])], position[p] - Index(position[p]))

\* The acquire load of the slot's sequence and the branch on the distance.
Check(p) ==
    /\ pc[p] = "check"
    /\ \/ (Exhausted(p) \/ Distance(p) > Half) /\ Goto(p, "pin")
       \/ ~Exhausted(p) /\ Distance(p) = 0 /\ Goto(p, "cas")
       \/ ~Exhausted(p) /\ Distance(p) \in 1 .. Half /\ Goto(p, "reload")
    /\ UNCHANGED <<shared, position, ticket, cpc, observer, history>>

Reload(p) ==
    /\ pc[p] = "reload"
    /\ position' = [position EXCEPT ![p] = enqueue]
    /\ Goto(p, "check")
    /\ UNCHANGED <<shared, ticket, cpc, observer, history>>

\* compare_exchange_weak on enqueue_ succeeds: the position is reserved.
Claim(p) ==
    /\ pc[p] = "cas" /\ position[p] = enqueue
    /\ enqueue' = enqueue + 1
    /\ claimed' = Append(claimed, Event(p))
    /\ Goto(p, IF position[p] < Capacity THEN "touch" ELSE "fill")
    /\ UNCHANGED <<dequeue, dropped, high_water, touched, sequence, value,
                   position, ticket, cpc, observer, popped, offered, taken, resets>>

\* It fails, because enqueue_ moved or spuriously, and refreshes position.
ClaimFails(p) ==
    /\ pc[p] = "cas"
    /\ position' = [position EXCEPT ![p] = enqueue]
    /\ Goto(p, "check")
    /\ UNCHANGED <<shared, ticket, cpc, observer, history>>

\* note_touched(position + 1), on the first lap only
Touch(p) ==
    /\ pc[p] = "touch"
    /\ touched' = Max2(touched, position[p] + 1)
    /\ Goto(p, "fill")
    /\ UNCHANGED <<enqueue, dequeue, dropped, high_water, sequence, value,
                   position, ticket, cpc, observer, history>>

Fill(p) ==
    /\ pc[p] = "fill"
    /\ value' = [value EXCEPT ![Index(position[p])] = Event(p)]
    /\ Goto(p, "publish")
    /\ UNCHANGED <<enqueue, dequeue, dropped, high_water, touched, sequence,
                   position, ticket, cpc, observer, history>>

Publish(p) ==
    /\ pc[p] = "publish"
    /\ sequence' = [sequence EXCEPT ![Index(position[p])] = FullWith(position[p])]
    /\ Goto(p, "idle")
    /\ UNCHANGED <<enqueue, dequeue, dropped, high_water, touched, value,
                   position, ticket, cpc, observer, history>>

\* note_drop: first the high water is pinned at the capacity ...
PinHighWater(p) ==
    /\ pc[p] = "pin"
    /\ high_water' = Max2(high_water, Capacity)
    /\ Goto(p, "count")
    /\ UNCHANGED <<enqueue, dequeue, dropped, touched, sequence, value,
                   position, ticket, cpc, observer, history>>

\* ... then the loss is counted, saturating.
CountDrop(p) ==
    /\ pc[p] = "count"
    /\ dropped' = IF dropped = MaxCount THEN dropped ELSE dropped + 1
    /\ Goto(p, "idle")
    /\ UNCHANGED <<enqueue, dequeue, high_water, touched, sequence, value,
                   position, ticket, cpc, observer, history>>

----------------------------------------------------------------------------
(* Consumer: try_pop.  A call that returns false changes nothing and is a  *)
(* stuttering step.                                                        *)

PopBegin_FirstLapOnly ==
    /\ cpc = "idle" /\ dequeue < Capacity
    /\ sequence[Index(dequeue)] = FullWith(dequeue)
    /\ cpc' = "sample"
    /\ UNCHANGED <<shared, producers, observer, history>>

PopBegin ==
    /\ cpc = "idle"
    /\ dequeue # MaxCount
    /\ sequence[Index(dequeue)] = FullWith(dequeue)
    /\ cpc' = "sample"
    /\ UNCHANGED <<shared, producers, observer, history>>

\* note_occupancy_high_water(position)
PopSample ==
    /\ cpc = "sample"
    /\ high_water' = Max2(high_water, Minus(enqueue, dequeue))
    /\ cpc' = "copy"
    /\ UNCHANGED <<enqueue, dequeue, dropped, touched, sequence, value,
                   producers, observer, history>>

PopCopy ==
    /\ cpc = "copy"
    /\ popped' = Append(popped, value[Index(dequeue)])
    /\ cpc' = "release"
    /\ UNCHANGED <<shared, producers, observer, claimed, offered, taken, resets>>

PopRelease ==
    /\ cpc = "release"
    /\ sequence' = [sequence EXCEPT ![Index(dequeue)] = Released(dequeue)]
    /\ cpc' = "advance"
    /\ UNCHANGED <<enqueue, dequeue, dropped, high_water, touched, value,
                   producers, observer, history>>

PopAdvance ==
    /\ cpc = "advance"
    /\ dequeue' = dequeue + 1
    /\ cpc' = "idle"
    /\ UNCHANGED <<enqueue, dropped, high_water, touched, sequence, value,
                   producers, observer, history>>

TakeDropped_Reads ==
    /\ cpc = "idle" /\ dropped > 0
    /\ taken' = taken + dropped
    /\ UNCHANGED <<shared, producers, cpc, observer, claimed, popped, offered, resets>>

\* take_dropped_count, by the writer that owns the consumer side
TakeDropped ==
    /\ cpc = "idle" /\ dropped > 0
    /\ taken' = taken + dropped
    /\ dropped' = 0
    /\ UNCHANGED <<enqueue, dequeue, high_water, touched, sequence, value,
                   producers, cpc, observer, claimed, popped, offered, resets>>

----------------------------------------------------------------------------
(* occupancy(), called by the status thread while the others run: two      *)
(* loads, then the clamp.                                                  *)

OccupancyLoadEnqueue ==
    /\ opc = "idle" /\ observations < MaxObservations
    /\ opc' = "loaded" /\ seen' = enqueue
    /\ observations' = observations + 1
    /\ UNCHANGED <<shared, producers, cpc, report, history>>

Clamp(depth) == IF depth > Capacity THEN Capacity ELSE depth

OccupancyLoadDequeue ==
    /\ opc = "loaded"
    /\ report' = Clamp(Minus(seen, dequeue))
    /\ opc' = "idle"
    /\ UNCHANGED <<shared, producers, cpc, seen, observations, history>>

----------------------------------------------------------------------------
(* reset_quiescent(): the caller has stopped every producer and consumer.  *)

Quiescent == (\A p \in Producers : pc[p] = "idle") /\ cpc = "idle" /\ opc = "idle"

ResetSlots_OffByOne == {i \in Slots : i + 1 < touched}

\* the slots the code re-zeroes: [0, touched_watermark_)
ResetSlots == {i \in Slots : i < touched}

Reset ==
    /\ Quiescent /\ resets < MaxResets
    /\ enqueue' = 0 /\ dequeue' = 0 /\ dropped' = 0 /\ high_water' = 0 /\ touched' = 0
    /\ sequence' = [i \in Slots |-> IF i \in ResetSlots THEN 0 ELSE sequence[i]]
    /\ claimed' = << >> /\ popped' = << >> /\ offered' = 0 /\ taken' = 0
    /\ resets' = resets + 1
    /\ UNCHANGED <<value, producers, cpc, observer>>

----------------------------------------------------------------------------
Producer(p) ==
    \/ Offer(p) \/ Check(p) \/ Reload(p) \/ Claim(p) \/ ClaimFails(p)
    \/ Touch(p) \/ Fill(p) \/ Publish(p) \/ PinHighWater(p) \/ CountDrop(p)

Consumer == PopBegin \/ PopSample \/ PopCopy \/ PopRelease \/ PopAdvance

Occupancy == OccupancyLoadEnqueue \/ OccupancyLoadDequeue

Next ==
    \/ \E p \in Producers : Producer(p)
    \/ Consumer \/ TakeDropped \/ Occupancy \/ Reset

Spec == Init /\ [][Next]_vars

\* A thread that has entered try_emplace or try_pop keeps running, a weak
\* compare-exchange does not fail spuriously for ever, and the writer thread
\* polls the queue in a loop.
InCall(p) ==
    \/ Check(p) \/ Reload(p) \/ Touch(p) \/ Fill(p) \/ Publish(p)
    \/ PinHighWater(p) \/ CountDrop(p)

Fairness ==
    /\ \A p \in Producers : WF_vars(InCall(p) \/ ClaimFails(p)) /\ SF_vars(Claim(p))
    /\ WF_vars(Consumer)

FairSpec == Spec /\ Fairness

----------------------------------------------------------------------------
(* Properties. *)

Owners  == {"touch", "fill", "publish"}
Reading == {"sample", "copy", "release"}

\* Type invariant.  enqueue_ never passes the last representable position and
\* the telemetry maximum never exceeds the ring.
TypeOK ==
    /\ enqueue \in 0 .. MaxCount /\ dequeue \in 0 .. MaxCount
    /\ dropped \in 0 .. MaxCount /\ high_water \in 0 .. Capacity
    /\ touched \in 0 .. Capacity
    /\ sequence \in [Slots -> 0 .. MaxCount]
    /\ value \in [Slots -> Events]
    /\ pc \in [Producers -> {"idle", "check", "reload", "cas", "pin", "count"} \cup Owners]
    /\ position \in [Producers -> 0 .. MaxCount]
    /\ ticket \in [Producers -> Nat]
    /\ cpc \in {"idle", "advance"} \cup Reading
    /\ opc \in {"idle", "loaded"} /\ seen \in 0 .. MaxCount
    /\ report \in Nat /\ observations \in Nat
    /\ claimed \in Seq(Events) /\ popped \in Seq(Events)
    /\ offered \in Nat /\ taken \in Nat /\ resets \in Nat

\* A slot is used by one thread at a time: a producer that won its reservation
\* owns the slot until it publishes, and the consumer never copies an event out
\* of a slot a producer is still writing (class comment, "Concurrency argument").
ExclusiveSlots ==
    \A p \in Producers : pc[p] \in Owners =>
        /\ \A q \in Producers \ {p} :
               pc[q] \in Owners => Index(position[q]) # Index(position[p])
        /\ cpc \in Reading => Index(dequeue) # Index(position[p])

\* What try_pop returns is the reservation order, without gap, duplicate or
\* stale value: a producer that finishes early cannot pass an earlier
\* reservation that is not published yet (docs/EVENT_QUEUE.md section 2).
ReservationOrder ==
    /\ Len(popped) <= Len(claimed)
    /\ \A k \in 1 .. Len(popped) : popped[k] = claimed[k]

\* Every position the ring still has room for finds its slot marked free for
\* that position, in every lap and after every reset: the re-zeroed prefix
\* [0, touched_watermark_) covers all slots ever written, and no slot is lost.
FreeSlotsClaimable ==
    \A pos \in enqueue .. HeadPosition + Capacity - 1 :
        sequence[Index(pos)] = FreeFor(pos)

\* calls of try_emplace that have neither reserved nor been counted as a drop
Undecided == {p \in Producers : pc[p] \in {"check", "reload", "cas", "pin", "count"}}

\* Whoever sees a drop counted sees the high water at the capacity: note_drop
\* pins it before it counts, and a concurrent consumer sample never lowers it.
DropPinsHighWater == dropped + taken > 0 => high_water = Capacity

\* try_emplace gives up only when the ring has no free slot at that moment or
\* the positions are used up, provided the position it loaded is less than half
\* the counter range, less one lap, old (the wrap test "distance > max / 2").
DropsOnlyWhenFull ==
    [][\A p \in Producers :
          (/\ pc[p] = "check" /\ pc'[p] = "pin" /\ enqueue # MaxCount
           /\ enqueue - position[p] < Half - Capacity)
          => enqueue = HeadPosition + Capacity]_vars

\* The status thread never reports more events than the ring can hold, even
\* when the consumer overtook the value of enqueue_ it loaded first.
OccupancyClamped == report <= Capacity

\* No offer disappears: each is reserved, counted as dropped (still in the
\* queue or already taken by the writer), or in progress - whatever the order
\* of concurrent drops and take_dropped_count (docs/EVENT_QUEUE.md section 3) -
\* and what the status thread reports beside the count agrees with it.
OfferAccounting ==
    /\ offered <= MaxCount =>
           offered = enqueue + dropped + taken + Cardinality(Undecided)
    /\ DropPinsHighWater /\ OccupancyClamped

\* Every offer is settled: try_emplace gives up only on a full ring, and every
\* reservation is eventually handed to the consumer: as the offers are finitely
\* many, the ring drains whenever it holds an event (or a quiescent reset empties
\* it).
OffersSettle ==
    /\ DropsOnlyWhenFull
    /\ Len(popped) < Len(claimed) ~> Len(popped) = Len(claimed)

----------------------------------------------------------------------------
(* The inductive invariant behind ExclusiveSlots and ReservationOrder, in   *)
(* terms of positions rather than of slots.                                 *)

\* Some producer has reserved pos and not published it yet.
Owned(pos) == \E p \in Producers : pc[p] \in Owners /\ position[p] = pos

\* Positions reserved and not yet handed back: at most one lap.
Window == HeadPosition .. enqueue - 1

WindowBounded ==
    /\ HeadPosition <= enqueue /\ enqueue <= HeadPosition + Capacity
    /\ cpc # "idle" => dequeue < enqueue
    /\ cpc \in Reading => ~Owned(dequeue)

Behind(p) ==
    /\ pc[p] # "idle" => position[p] <= enqueue
    /\ pc[p] = "cas" => position[p] # MaxCount
    /\ pc[p] \in Owners =>
           position[p] \in Window /\ claimed[position[p] + 1] = Event(p)
    /\ pc[p] = "touch" => position[p] < Capacity
    /\ pc[p] = "publish" => value[Index(position[p])] = Event(p)

ProducersBehind == \A p \in Producers : Behind(p)

DistinctReservations ==
    \A p, q \in Producers :
        pc[p] \in Owners /\ pc[q] \in Owners /\ position[p] = position[q] => p = q

\* The sequence a slot stores says which stage its position is in.
WindowStages ==
    \A pos \in Window :
        /\ Owned(pos) => sequence[Index(pos)] = pos - Index(pos)
        /\ ~Owned(pos) => /\ sequence[Index(pos)] = FullWith(pos)
                          /\ value[Index(pos)] = claimed[pos + 1]

\* A producer about to compare-exchange the current position saw its slot free.
CasReady ==
    \A p \in Producers : pc[p] = "cas" /\ position[p] = enqueue =>
        sequence[Index(enqueue)] = enqueue - Index(enqueue)

HistoryLengths ==
    /\ Len(claimed) = enqueue
    /\ Len(popped) = IF cpc \in {"release", "advance"} THEN dequeue + 1 ELSE dequeue

\* Slots past the watermark were never written.
WatermarkCovers ==
    /\ \A i \in Slots : i >= touched => sequence[i] = 0
    /\ \A p \in Producers : pc[p] \in {"fill", "publish"} => Index(position[p]) < touched

\* The conjunction is inductive: it holds initially and every step preserves it.
QueueInv ==
    /\ TypeOK /\ WindowBounded /\ ProducersBehind /\ DistinctReservations
    /\ WindowStages /\ CasReady /\ HistoryLengths /\ ReservationOrder /\ WatermarkCovers /\ FreeSlotsClaimable

\* What OfferAccounting needs to be inductive, beside QueueInv: a producer about to
\* count a drop has pinned the high water.
AccountInv ==
    /\ OfferAccounting /\ offered <= MaxOffers
    /\ \A p \in Producers : pc[p] = "count" => high_water = Capacity

\* No producer checks a position that is half the counter range, less one lap, old
\* (it would have to sleep through 2^63 events).
Fresh == \A p \in Producers : pc[p] = "check" => enqueue - position[p] < Half - Capacity

----------------------------------------------------------------------------
(* The queue implements EventFifo.  A reservation accepts the event, the    *)
(* release of a slot delivers it, and the decision to drop loses it.        *)

Decided == {p \in Producers : pc[p] \in {"pin", "count"}}

FifoBuffer    == SubSeq(claimed, HeadPosition + 1, enqueue)
FifoDelivered == IF cpc = "release" THEN SubSeq(popped, 1, Len(popped) - 1) ELSE popped
FifoLost      == dropped + taken + Cardinality(Decided)

Fifo == INSTANCE EventFifo WITH
    buffer <- FifoBuffer, accepted <- enqueue, delivered <- FifoDelivered, lost <- FifoLost

\* Seen through that mapping every step of the queue is a step of EventFifo.
ImplementsFifo == Fifo!Spec

============================================================================
