-------------------------- MODULE MpscQueueProofs --------------------------
(***************************************************************************)
(* Proofs about MpscQueue for every set of producers, every capacity the   *)
(* code accepts and every counter width.                                   *)
(***************************************************************************)
EXTENDS MpscQueue, FiniteSetTheorems, SequenceTheorems, TLAPS

----------------------------------------------------------------------------
(* Slot addressing: position & mask_. *)

\* Every position has a slot.
LEMMA IndexRange == ASSUME NEW pos \in Nat PROVE Index(pos) \in Slots /\ Index(pos) \in Nat
  BY CapacityAssumption DEF Index, Slots

\* A position is its slot plus a whole number of laps.
LEMMA IndexQuotient ==
    ASSUME NEW pos \in Nat PROVE \E k \in Nat : pos = Index(pos) + Capacity * k
<1> DEFINE k == pos \div Capacity
           r == pos % Capacity
<1>1. k \in Nat
  BY CapacityAssumption
<1>2. r = pos - Capacity * k
  BY CapacityAssumption
<1>3. r \in Int
  BY CapacityAssumption
<1> HIDE DEF k, r
<1>4. Capacity * k \in Int
  BY <1>1, CapacityAssumption
<1>5. pos = r + Capacity * k
  BY <1>1, <1>2, <1>3, <1>4
<1> QED
  BY <1>5, <1>1 DEF r, Index

\* A non-zero number of laps is at least one lap.
LEMMA LapGap ==
    ASSUME NEW d \in Int
    PROVE  /\ Capacity * d \in Int
           /\ d >= 1 => Capacity * d >= Capacity
           /\ d <= -1 => Capacity * d <= -Capacity
  BY CapacityAssumption

\* Quotient and remainder are unique.
LEMMA UniqueRemainder ==
    ASSUME NEW r \in Slots, NEW s \in Slots, NEW j \in Int, NEW k \in Int,
           r + Capacity * j = s + Capacity * k
    PROVE  r = s
<1> DEFINE d == k - j
<1> USE DEF Slots
<1>1. /\ Capacity * d = Capacity * k - Capacity * j
      /\ d \in Int /\ Capacity * k \in Int /\ Capacity * j \in Int
  BY CapacityAssumption
<1>2. Capacity * d = r - s
  BY <1>1, CapacityAssumption
<1> HIDE DEF d
<1>3. d = 0
  BY <1>1, <1>2, LapGap, CapacityAssumption
<1>4. Capacity * d = 0
  BY <1>3, CapacityAssumption
<1> QED
  BY <1>2, <1>4, CapacityAssumption

\* A lap later the same slot is used again.
LEMMA IndexNextLap == ASSUME NEW pos \in Nat PROVE Index(pos + Capacity) = Index(pos)
<1>0. pos + Capacity \in Nat
  BY CapacityAssumption
<1>1. PICK j \in Nat : pos = Index(pos) + Capacity * j
  BY IndexQuotient
<1>2. PICK k \in Nat : pos + Capacity = Index(pos + Capacity) + Capacity * k
  BY <1>0, IndexQuotient
<1>3. Index(pos) \in Slots /\ Index(pos + Capacity) \in Slots
  BY <1>0, IndexRange
<1>4. Index(pos) \in Int /\ Index(pos + Capacity) \in Int
  BY <1>0, IndexRange
<1>5. Capacity * (j + 1) = Capacity * j + Capacity
  BY CapacityAssumption
<1>6. Capacity * j \in Int /\ Capacity * k \in Int
  BY CapacityAssumption
<1>7. Index(pos) + Capacity * (j + 1) = Index(pos + Capacity) + Capacity * k
  BY <1>1, <1>2, <1>4, <1>5, <1>6, CapacityAssumption
<1> QED
  BY <1>7, <1>3, UniqueRemainder

\* On the first lap a position is its own slot.
LEMMA IndexFirstLap == ASSUME NEW pos \in Slots PROVE Index(pos) = pos
  BY CapacityAssumption DEF Index, Slots

\* Two positions less than a lap apart have different slots.
LEMMA IndexInjective ==
    ASSUME NEW a \in Nat, NEW b \in Nat, a < b, b < a + Capacity
    PROVE  Index(a) # Index(b)
<1> SUFFICES ASSUME Index(a) = Index(b) PROVE FALSE
  OBVIOUS
<1>1. PICK j \in Nat : a = Index(a) + Capacity * j
  BY IndexQuotient
<1>2. PICK k \in Nat : b = Index(b) + Capacity * k
  BY IndexQuotient
<1>3. Index(a) \in Int
  BY IndexRange
<1>4. /\ Capacity * (k - j) = Capacity * k - Capacity * j
      /\ k - j \in Int /\ Capacity * k \in Int /\ Capacity * j \in Int
  BY CapacityAssumption
<1>5. Capacity * (k - j) = b - a
  BY <1>1, <1>2, <1>3, <1>4
<1>6. k - j = 0
  BY <1>5, <1>4, LapGap, CapacityAssumption
<1> QED
  BY <1>6, <1>5, CapacityAssumption

\* position - slot_index never underflows.
LEMMA IndexBelow == ASSUME NEW pos \in Nat PROVE Index(pos) <= pos
<1>1. PICK j \in Nat : pos = Index(pos) + Capacity * j
  BY IndexQuotient
<1>2. Index(pos) \in Int /\ Capacity * j \in Nat
  BY IndexRange, CapacityAssumption
<1> QED
  BY <1>1, <1>2

\* The addressing facts the steps below use; Index stays opaque in them.
LEMMA Addressing ==
    /\ \A a \in Nat : /\ Index(a) \in Slots /\ Index(a) \in Nat /\ Index(a) <= a
                      /\ Index(a + Capacity) = Index(a)
    /\ \A a, b \in Nat : a < b /\ b < a + Capacity => Index(a) # Index(b)
    /\ \A a \in Slots : Index(a) = a
  BY IndexRange, IndexBelow, IndexNextLap, IndexInjective, IndexFirstLap

----------------------------------------------------------------------------
(* The inductive invariant. *)

\* The zeroed queue satisfies the invariant.
LEMMA QueueInit == Init => QueueInv
<1> SUFFICES ASSUME Init PROVE QueueInv
  OBVIOUS
<1> USE CapacityAssumption, Addressing DEF Init
<1>1. TypeOK
  BY DEF TypeOK, Slots, Owners, Reading, Events, NoEvent
<1>2. WindowBounded /\ ProducersBehind /\ DistinctReservations
  BY DEF WindowBounded, ProducersBehind, Behind, DistinctReservations,
         HeadPosition, Window, Owned, Owners, Reading
<1>3. WindowStages /\ CasReady /\ HistoryLengths
  BY DEF WindowStages, CasReady, HistoryLengths, HeadPosition, Window
<1>4. ReservationOrder /\ WatermarkCovers
  BY DEF ReservationOrder, WatermarkCovers, Slots
<1>5. FreeSlotsClaimable
  BY DEF FreeSlotsClaimable, HeadPosition, FreeFor, Wrap, Slots
<1> QED
  BY <1>1, <1>2, <1>3, <1>4, <1>5 DEF QueueInv
\* Loading enqueue_ starts a call: the position is not ahead of the cursor.
LEMMA OfferStep == ASSUME NEW p \in Producers, QueueInv, Offer(p) PROVE QueueInv'
<1> USE CapacityAssumption DEF QueueInv, Offer, Goto, shared, producers, observer, history
<1>1. WindowBounded'
  BY DEF TypeOK, WindowBounded, ProducersBehind, Behind, Window, HeadPosition,
         Owned, Owners, Reading
<1>2. ProducersBehind'
  BY DEF TypeOK, ProducersBehind, Behind, WindowBounded, Window, HeadPosition,
         Owners, Event
<1>3. DistinctReservations'
  BY DEF TypeOK, DistinctReservations, ProducersBehind, Behind, Window, Owners
<1>4. WindowStages'
  BY DEF TypeOK, WindowStages, WindowBounded, ProducersBehind, Window,
         HeadPosition, Owned, Owners
<1>5. TypeOK' /\ CasReady' /\ HistoryLengths'
  BY DEF TypeOK, Owners, Reading, CasReady, HistoryLengths
<1>6. ReservationOrder' /\ WatermarkCovers' /\ FreeSlotsClaimable'
  BY DEF TypeOK, ReservationOrder, HistoryLengths, WatermarkCovers, Slots,
         FreeSlotsClaimable, HeadPosition
<1> QED
  BY <1>1, <1>2, <1>3, <1>4, <1>5, <1>6 DEF QueueInv

\* The sequence load: distance zero means the slot is free for the position.
LEMMA CheckStep == ASSUME NEW p \in Producers, QueueInv, Check(p) PROVE QueueInv'
<1> USE CapacityAssumption DEF QueueInv, Check, Goto, shared, producers, observer, history
<1>1. WindowBounded'
  BY DEF TypeOK, WindowBounded, ProducersBehind, Behind, Window, HeadPosition,
         Owned, Owners, Reading
<1>2. DistinctReservations'
  BY DEF TypeOK, DistinctReservations, ProducersBehind, Behind, Window, Owners
<1>3. TypeOK' /\ HistoryLengths' /\ ReservationOrder'
  BY DEF TypeOK, Owners, Reading, HistoryLengths, ReservationOrder
<1>4. WatermarkCovers' /\ FreeSlotsClaimable'
  BY DEF TypeOK, WatermarkCovers, Slots, FreeSlotsClaimable, HeadPosition
<1>5. ProducersBehind'
  BY DEF TypeOK, ProducersBehind, Behind, Window, HeadPosition, Owners, Event, Exhausted
<1>6. WindowStages'
  <2>1. \A q \in Producers : pc'[q] \in Owners <=> pc[q] \in Owners
    BY DEF TypeOK, Owners
  <2>2. (\A pos : Owned(pos)' <=> Owned(pos)) /\ Window' = Window
    BY <2>1 DEF Owned, Window, HeadPosition
  <2> QED
    BY <2>2 DEF WindowStages, FullWith
<1>7. CasReady'
  <2> SUFFICES ASSUME NEW q \in Producers, pc'[q] = "cas", position[q] = enqueue
               PROVE  sequence[Index(enqueue)] = enqueue - Index(enqueue)
    BY DEF CasReady
  <2>1. CASE q = p
    <3>1. Distance(p) = 0
      BY <2>1 DEF TypeOK
    <3>2. Index(enqueue) \in Nat /\ Index(enqueue) <= enqueue /\ Index(enqueue) \in Slots
      BY Addressing DEF TypeOK
    <3> QED
      BY <2>1, <3>1, <3>2 DEF Distance, Minus, TypeOK
  <2>2. CASE q # p
    BY <2>2 DEF TypeOK, CasReady
  <2> QED
    BY <2>1, <2>2
<1> QED
  BY <1>1, <1>2, <1>3, <1>4, <1>5, <1>6, <1>7 DEF QueueInv

\* The reload of a stale position.
LEMMA ReloadStep == ASSUME NEW p \in Producers, QueueInv, Reload(p) PROVE QueueInv'
<1> USE CapacityAssumption DEF QueueInv, Reload, Goto, shared, producers, observer, history
<1>1. WindowBounded'
  BY DEF TypeOK, WindowBounded, ProducersBehind, Behind, Window, HeadPosition,
         Owned, Owners, Reading
<1>2. ProducersBehind'
  BY DEF TypeOK, ProducersBehind, Behind, WindowBounded, Window, HeadPosition,
         Owners, Event
<1>3. DistinctReservations'
  BY DEF TypeOK, DistinctReservations, ProducersBehind, Behind, Window, Owners
<1>4. WindowStages'
  BY DEF TypeOK, WindowStages, WindowBounded, ProducersBehind, Window,
         HeadPosition, Owned, Owners
<1>5. TypeOK' /\ CasReady' /\ HistoryLengths'
  BY DEF TypeOK, Owners, Reading, CasReady, HistoryLengths
<1>6. ReservationOrder' /\ WatermarkCovers' /\ FreeSlotsClaimable'
  BY DEF TypeOK, ReservationOrder, HistoryLengths, WatermarkCovers, Slots,
         FreeSlotsClaimable, HeadPosition
<1> QED
  BY <1>1, <1>2, <1>3, <1>4, <1>5, <1>6 DEF QueueInv

\* A compare-exchange that succeeds found a free slot: the ring is not full.
LEMMA ClaimHasRoom ==
    ASSUME NEW p \in Producers, QueueInv, Claim(p)
    PROVE  enqueue < HeadPosition + Capacity
<1> USE CapacityAssumption DEF QueueInv, Claim
<1>a. Index(enqueue) \in Nat /\ Index(enqueue) <= enqueue /\ Index(enqueue) \in Slots
  BY Addressing DEF TypeOK
<1>b. sequence[Index(enqueue)] = enqueue - Index(enqueue)
  BY DEF CasReady
<1> SUFFICES ASSUME enqueue = HeadPosition + Capacity PROVE FALSE
  BY DEF TypeOK, WindowBounded, HeadPosition
<1>1. HeadPosition \in Nat /\ HeadPosition \in Window
  BY DEF TypeOK, Window, HeadPosition
<1>2. Index(enqueue) = Index(HeadPosition)
  BY <1>1, Addressing
<1>3. sequence[Index(enqueue)] \in {HeadPosition - Index(enqueue), FullWith(HeadPosition)}
  BY <1>1, <1>2 DEF WindowStages
<1> QED
  BY <1>1, <1>2, <1>3, <1>a, <1>b DEF FullWith, TypeOK

\* The successful compare-exchange: CasReady makes the reserved slot free, hence
\* less than a lap ahead of the head, hence not in use.
LEMMA ClaimStep == ASSUME NEW p \in Producers, QueueInv, Claim(p) PROVE QueueInv'
<1> USE CapacityAssumption DEF QueueInv, Claim, Goto, shared, producers, observer, history
<1>a. Index(enqueue) \in Nat /\ Index(enqueue) <= enqueue /\ Index(enqueue) \in Slots
  BY Addressing DEF TypeOK
<1>b. sequence[Index(enqueue)] = enqueue - Index(enqueue)
  BY DEF CasReady
<1>c. enqueue < HeadPosition + Capacity
  BY ClaimHasRoom
<1>d. enqueue + 1 \in 0 .. MaxCount
  BY DEF TypeOK, ProducersBehind, Behind
<1>e. Event(p) \in Events
  BY DEF Event, Events, TypeOK
<1>f. /\ HeadPosition' = HeadPosition /\ HeadPosition \in Nat
      /\ Window' = HeadPosition .. enqueue
  BY DEF HeadPosition, Window, TypeOK
<1>g. /\ claimed' \in Seq(Events) /\ Len(claimed') = enqueue + 1
      /\ claimed'[enqueue + 1] = Event(p)
      /\ \A k \in 1 .. enqueue : claimed'[k] = claimed[k]
  <2>1. claimed \in Seq(Events) /\ Len(claimed) = enqueue /\ claimed' = Append(claimed, Event(p))
    BY DEF TypeOK, HistoryLengths
  <2> HIDE DEF QueueInv, Claim
  <2>2. claimed' \in Seq(Events) /\ Len(claimed') = enqueue + 1
    BY <2>1, <1>e
  <2>3. claimed'[enqueue + 1] = Event(p)
    BY <2>1, <1>e
  <2>4. \A k \in 1 .. enqueue : claimed'[k] = claimed[k]
    BY <2>1, <1>e
  <2> QED
    BY <2>2, <2>3, <2>4
<1>h. /\ pc'[p] \in Owners /\ position'[p] = enqueue /\ pc[p] \notin Owners
      /\ \A q \in Producers \ {p} : pc'[q] = pc[q] /\ position'[q] = position[q]
  BY DEF TypeOK, Owners
<1>i. ~Owned(enqueue)
  BY DEF Owned, ProducersBehind, Behind, Window, TypeOK, HeadPosition
<1>j. /\ \A pos \in Nat : pos = enqueue => Owned(pos)'
      /\ \A pos \in HeadPosition .. enqueue - 1 : Owned(pos)' <=> Owned(pos)
  <2> HIDE DEF QueueInv, Claim
  <2>1. ASSUME NEW pos \in Nat, pos = enqueue PROVE Owned(pos)'
    BY <1>h, <2>1 DEF Owned
  <2>2. ASSUME NEW pos \in HeadPosition .. enqueue - 1 PROVE Owned(pos)' <=> Owned(pos)
    <3>1. pos # enqueue
      BY <1>f DEF TypeOK, QueueInv
    <3> QED
      BY <1>h, <3>1 DEF Owned
  <2> QED
    BY <2>1, <2>2
<1>1. TypeOK'
  BY <1>d, <1>g DEF TypeOK, Owners, Max2
<1>2. WindowBounded'
  <2>1. Owned(dequeue)' => Owned(dequeue) \/ dequeue = enqueue
    BY <1>h DEF Owned
  <2>2. cpc # "idle" => dequeue < enqueue
    BY DEF WindowBounded
  <2>3. HeadPosition' <= enqueue' /\ enqueue' <= HeadPosition' + Capacity
    BY <1>c, <1>f DEF TypeOK, WindowBounded
  <2>4. cpc' # "idle" => dequeue' < enqueue'
    BY <2>2 DEF TypeOK
  <2>5. cpc' \in Reading => ~Owned(dequeue)'
    BY <2>1, <2>2 DEF WindowBounded, TypeOK, Reading
  <2> QED
    BY <2>3, <2>4, <2>5 DEF WindowBounded
<1>3. ProducersBehind'
  <2> SUFFICES ASSUME NEW q \in Producers PROVE Behind(q)'
    BY DEF ProducersBehind
  <2>1. CASE q = p
    <3>1. Event(p)' = Event(p)
      BY DEF Event
    <3>2. enqueue \in Window'
      BY <1>f, <1>c DEF TypeOK, WindowBounded
    <3> QED
      BY <2>1, <3>1, <3>2, <1>g DEF Behind, TypeOK
  <2>2. CASE q # p
    <3>1. Behind(q) /\ Event(q)' = Event(q) /\ pc'[q] = pc[q] /\ position'[q] = position[q]
      BY <2>2 DEF ProducersBehind, Event, TypeOK
    <3>2. position[q] \in Window =>
              /\ position[q] \in Window'
              /\ claimed'[position[q] + 1] = claimed[position[q] + 1]
      <4> SUFFICES ASSUME position[q] \in HeadPosition .. enqueue - 1
                   PROVE  /\ position[q] \in HeadPosition .. enqueue
                          /\ position[q] + 1 \in 1 .. enqueue
        BY <1>f, <1>g DEF Window
      <4> QED
        BY <1>f DEF TypeOK
    <3>3. enqueue' = enqueue + 1 /\ value' = value /\ enqueue \in Nat /\ position[q] \in Nat
      BY DEF TypeOK
    <3> HIDE DEF QueueInv, Claim
    <3> QED
      BY <3>1, <3>2, <3>3 DEF Behind
  <2> QED
    BY <2>1, <2>2
<1>4. DistinctReservations'
  BY <1>h, <1>f DEF TypeOK, DistinctReservations, ProducersBehind, Behind, Window
<1>5. WindowStages'
  <2> SUFFICES ASSUME NEW pos \in Window'
               PROVE  /\ Owned(pos)' => sequence[Index(pos)] = pos - Index(pos)
                      /\ ~Owned(pos)' => /\ sequence[Index(pos)] = FullWith(pos)
                                         /\ value[Index(pos)] = claimed'[pos + 1]
    BY DEF WindowStages, FullWith
  <2>1. CASE pos = enqueue
    BY <2>1, <1>b, <1>j, <1>a DEF TypeOK
  <2>2. CASE pos # enqueue
    <3>1. pos \in Window /\ pos \in HeadPosition .. enqueue - 1 /\ pos + 1 \in 1 .. enqueue
      BY <2>2, <1>f DEF Window, TypeOK
    <3> QED
      BY <3>1, <1>j, <1>g DEF WindowStages
  <2> QED
    BY <2>1, <2>2
<1>6. CasReady'
  BY DEF TypeOK, CasReady, ProducersBehind, Behind
<1>7. HistoryLengths'
  BY <1>g DEF TypeOK, HistoryLengths
<1>8. ReservationOrder'
  BY <1>g DEF TypeOK, ReservationOrder, HistoryLengths
<1>9. WatermarkCovers'
  <2>1. enqueue >= Capacity => Index(enqueue) < touched
    BY <1>a, <1>b DEF WatermarkCovers, TypeOK, Slots
  <2> QED
    BY <2>1 DEF TypeOK, WatermarkCovers
<1>10. FreeSlotsClaimable'
  BY <1>f DEF TypeOK, FreeSlotsClaimable, FreeFor, Wrap
<1> QED
  BY <1>1, <1>2, <1>3, <1>4, <1>5, <1>6, <1>7, <1>8, <1>9, <1>10 DEF QueueInv

\* The failed compare-exchange only refreshes the position.
LEMMA ClaimFailsStep == ASSUME NEW p \in Producers, QueueInv, ClaimFails(p) PROVE QueueInv'
<1> USE CapacityAssumption DEF QueueInv, ClaimFails, Goto, shared, producers, observer, history
<1>1. WindowBounded'
  BY DEF TypeOK, WindowBounded, ProducersBehind, Behind, Window, HeadPosition,
         Owned, Owners, Reading
<1>2. ProducersBehind'
  BY DEF TypeOK, ProducersBehind, Behind, WindowBounded, Window, HeadPosition,
         Owners, Event
<1>3. DistinctReservations'
  BY DEF TypeOK, DistinctReservations, ProducersBehind, Behind, Window, Owners
<1>4. WindowStages'
  BY DEF TypeOK, WindowStages, WindowBounded, ProducersBehind, Window,
         HeadPosition, Owned, Owners
<1>5. TypeOK' /\ CasReady' /\ HistoryLengths'
  BY DEF TypeOK, Owners, Reading, CasReady, HistoryLengths
<1>6. ReservationOrder' /\ WatermarkCovers' /\ FreeSlotsClaimable'
  BY DEF TypeOK, ReservationOrder, HistoryLengths, WatermarkCovers, Slots,
         FreeSlotsClaimable, HeadPosition
<1> QED
  BY <1>1, <1>2, <1>3, <1>4, <1>5, <1>6 DEF QueueInv

\* note_touched keeps the watermark above every slot of the first lap.
LEMMA TouchStep == ASSUME NEW p \in Producers, QueueInv, Touch(p) PROVE QueueInv'
<1> USE CapacityAssumption DEF QueueInv, Touch, Goto, shared, producers, observer, history
<1>1. WindowBounded'
  BY DEF TypeOK, WindowBounded, ProducersBehind, Behind, Window, HeadPosition,
         Owned, Owners, Reading
<1>2. ProducersBehind'
  BY DEF TypeOK, ProducersBehind, Behind, WindowBounded, Window, HeadPosition,
         Owners, Event
<1>3. DistinctReservations'
  BY DEF TypeOK, DistinctReservations, ProducersBehind, Behind, Window, Owners
<1>4. WindowStages'
  BY DEF TypeOK, WindowStages, WindowBounded, ProducersBehind, Window,
         HeadPosition, Owned, Owners
<1>5. CasReady' /\ HistoryLengths' /\ ReservationOrder'
  BY DEF TypeOK, CasReady, HistoryLengths, ReservationOrder
<1>6. FreeSlotsClaimable'
  BY DEF TypeOK, FreeSlotsClaimable, HeadPosition
<1>7. TypeOK'
  <2>1. position[p] + 1 \in 0 .. Capacity
    BY DEF TypeOK, ProducersBehind, Behind
  <2> QED
    BY <2>1 DEF TypeOK, Owners, Max2
<1>8. WatermarkCovers'
  <2>1. position[p] \in Slots /\ Index(position[p]) = position[p]
    <3>1. position[p] \in Slots
      BY DEF TypeOK, ProducersBehind, Behind, Slots
    <3> QED
      BY <3>1, IndexFirstLap
  <2>2. touched' >= touched /\ position[p] < touched' /\ touched' \in Nat
    BY DEF TypeOK, Max2
  <2>3. \A q \in Producers : Index(position[q]) \in Nat
    <3>1. \A q \in Producers : position[q] \in Nat
      BY DEF TypeOK
    <3> QED
      BY <3>1, IndexRange
  <2>4. \A i \in Slots : i >= touched' => sequence'[i] = 0
    BY <2>2 DEF TypeOK, WatermarkCovers, Slots
  <2>5. ASSUME NEW q \in Producers, pc'[q] \in {"fill", "publish"}
        PROVE  Index(position[q]) < touched'
    <3>1. q = p \/ Index(position[q]) < touched
      BY <2>5 DEF TypeOK, WatermarkCovers
    <3> QED
      BY <3>1, <2>1, <2>2, <2>3 DEF TypeOK
  <2> QED
    BY <2>4, <2>5 DEF WatermarkCovers
<1> QED
  BY <1>1, <1>2, <1>3, <1>4, <1>5, <1>6, <1>7, <1>8 DEF QueueInv

\* Writing the event touches only the slot of the own reservation.
LEMMA FillStep == ASSUME NEW p \in Producers, QueueInv, Fill(p) PROVE QueueInv'
<1> USE CapacityAssumption DEF QueueInv, Fill, Goto, shared, producers, observer, history
<1>a. /\ position[p] \in Window /\ position[p] \in Nat /\ position[p] < enqueue
      /\ enqueue \in Nat /\ HeadPosition \in Nat /\ HeadPosition <= position[p]
      /\ enqueue <= HeadPosition + Capacity
  BY DEF TypeOK, ProducersBehind, Behind, Owners, Window, WindowBounded, HeadPosition
<1>b. \A pos \in Window : pos # position[p] => Index(pos) # Index(position[p])
  <2> SUFFICES ASSUME NEW pos \in HeadPosition .. enqueue - 1, pos # position[p]
               PROVE  Index(pos) # Index(position[p])
    BY DEF Window
  <2> HIDE DEF QueueInv
  <2>1. /\ pos \in Nat /\ pos < enqueue /\ HeadPosition <= pos
        /\ pos < position[p] \/ position[p] < pos
        /\ pos < position[p] + Capacity /\ position[p] < pos + Capacity
    BY <1>a
  <2> QED
    BY <2>1, <1>a, IndexInjective
<1>c. Index(position[p]) \in Slots /\ Event(p) \in Events
  <2>1. Event(p) \in Events
    BY DEF Event, Events, TypeOK
  <2> QED
    BY <2>1, <1>a, IndexRange
<1>d. /\ Window' = Window /\ HeadPosition' = HeadPosition
      /\ \A pos : Owned(pos)' <=> Owned(pos)
      /\ \A q \in Producers : Event(q)' = Event(q)
  BY DEF Window, HeadPosition, Owned, Owners, TypeOK, Event
<1>e. Owned(position[p])
  BY DEF Owned, Owners
<1>1. DistinctReservations'
  BY DEF TypeOK, DistinctReservations, ProducersBehind, Behind, Window, Owners
<1>2. CasReady' /\ HistoryLengths' /\ ReservationOrder'
  BY DEF TypeOK, CasReady, HistoryLengths, ReservationOrder
<1>3. WatermarkCovers' /\ FreeSlotsClaimable'
  BY DEF TypeOK, WatermarkCovers, Slots, FreeSlotsClaimable, HeadPosition
<1>4. TypeOK'
  BY <1>c DEF TypeOK, Owners
<1>5. WindowBounded'
  BY <1>d DEF WindowBounded
<1>6. ProducersBehind'
  <2> SUFFICES ASSUME NEW q \in Producers PROVE Behind(q)'
    BY DEF ProducersBehind
  <2>1. Behind(q)
    BY DEF ProducersBehind
  <2>2. CASE q = p
    BY <2>1, <2>2, <1>c, <1>d DEF Behind, TypeOK, Owners
  <2>3. CASE q # p
    <3>1. pc[q] \in Owners => position[q] # position[p]
      BY <2>3 DEF DistinctReservations, Owners
    <3>2. pc[q] = "publish" => Index(position[q]) # Index(position[p])
      BY <3>1, <1>b, <2>1 DEF Behind, Owners
    <3>3. /\ pc'[q] = pc[q]
          /\ (pc[q] = "publish" => value'[Index(position[q])] = value[Index(position[q])])
      BY <2>3, <3>2 DEF TypeOK
    <3>4. claimed' = claimed /\ enqueue' = enqueue /\ position' = position
      OBVIOUS
    <3> HIDE DEF QueueInv, Fill
    <3> QED
      BY <2>1, <3>3, <3>4, <1>d DEF Behind
  <2> QED
    BY <2>2, <2>3
<1>7. WindowStages'
  <2> SUFFICES ASSUME NEW pos \in Window, ~Owned(pos)
               PROVE  value'[Index(pos)] = value[Index(pos)]
    BY <1>d DEF WindowStages, FullWith
  <2>1. pos # position[p]
    BY <1>e
  <2> QED
    BY <2>1, <1>b DEF TypeOK
<1> QED
  BY <1>1, <1>2, <1>3, <1>4, <1>5, <1>6, <1>7 DEF QueueInv

\* Publishing turns an owned position into a full one.
LEMMA PublishStep == ASSUME NEW p \in Producers, QueueInv, Publish(p) PROVE QueueInv'
<1> USE CapacityAssumption DEF QueueInv, Publish, Goto, shared, producers, observer, history
<1>a. /\ position[p] \in Window /\ position[p] \in Nat /\ position[p] < enqueue
      /\ enqueue \in Nat /\ HeadPosition \in Nat /\ HeadPosition <= position[p]
      /\ enqueue <= HeadPosition + Capacity /\ enqueue <= MaxCount
  BY DEF TypeOK, ProducersBehind, Behind, Owners, Window, WindowBounded, HeadPosition
<1>b. \A pos \in Window : pos # position[p] => Index(pos) # Index(position[p])
  <2> SUFFICES ASSUME NEW pos \in HeadPosition .. enqueue - 1, pos # position[p]
               PROVE  Index(pos) # Index(position[p])
    BY DEF Window
  <2> HIDE DEF QueueInv
  <2>1. /\ pos \in Nat /\ pos < enqueue /\ HeadPosition <= pos
        /\ pos < position[p] \/ position[p] < pos
        /\ pos < position[p] + Capacity /\ position[p] < pos + Capacity
    BY <1>a
  <2> QED
    BY <2>1, <1>a, IndexInjective
<1>c. /\ Index(position[p]) \in Slots /\ Index(position[p]) \in Nat
      /\ Index(position[p]) <= position[p]
  BY <1>a, IndexRange, IndexBelow
<1>d. /\ Window' = Window /\ HeadPosition' = HeadPosition
      /\ \A q \in Producers : Event(q)' = Event(q)
  BY DEF Window, HeadPosition, TypeOK, Event
<1>e. /\ pc[p] \in Owners /\ pc'[p] \notin Owners
      /\ \A q \in Producers \ {p} : pc'[q] = pc[q]
      /\ position' = position
  BY DEF Owners, TypeOK
<1>f. Owned(position[p]) /\ sequence[Index(position[p])] = position[p] - Index(position[p])
  <2>1. Owned(position[p])
    BY <1>e DEF Owned
  <2> QED
    BY <2>1, <1>a DEF WindowStages
<1>g. \A pos : Owned(pos)' <=> Owned(pos) /\ pos # position[p]
  <2> HIDE DEF QueueInv, Publish
  <2>1. DistinctReservations
    BY DEF QueueInv
  <2> QED
    BY <1>e, <2>1 DEF Owned, DistinctReservations
<1>h. /\ sequence' = [sequence EXCEPT ![Index(position[p])] = FullWith(position[p])]
      /\ FullWith(position[p]) \in 0 .. MaxCount
  BY <1>a, <1>c DEF FullWith
<1>1. ProducersBehind'
  BY DEF TypeOK, ProducersBehind, Behind, WindowBounded, Window, HeadPosition,
         Owners, Event
<1>2. DistinctReservations'
  BY DEF TypeOK, DistinctReservations, ProducersBehind, Behind, Window, Owners
<1>3. HistoryLengths' /\ ReservationOrder'
  BY DEF TypeOK, HistoryLengths, ReservationOrder
<1>4. TypeOK'
  BY <1>h DEF TypeOK
<1>5. WindowBounded'
  BY <1>d, <1>g DEF WindowBounded
<1>6. WindowStages'
  <2> SUFFICES ASSUME NEW pos \in Window
               PROVE  /\ Owned(pos)' => sequence'[Index(pos)] = pos - Index(pos)
                      /\ ~Owned(pos)' => /\ sequence'[Index(pos)] = FullWith(pos)
                                         /\ value[Index(pos)] = claimed[pos + 1]
    BY <1>d DEF WindowStages, FullWith
  <2>1. CASE pos = position[p]
    <3>1. value[Index(pos)] = claimed[pos + 1]
      BY <2>1, <1>e DEF ProducersBehind, Behind
    <3> QED
      BY <3>1, <2>1, <1>c, <1>g, <1>h DEF TypeOK
  <2>2. CASE pos # position[p]
    <3>1. sequence'[Index(pos)] = sequence[Index(pos)]
      BY <2>2, <1>b, <1>h DEF TypeOK
    <3> QED
      BY <3>1, <2>2, <1>g DEF WindowStages
  <2> QED
    BY <2>1, <2>2
<1>7. CasReady'
  <2> SUFFICES ASSUME NEW q \in Producers, pc[q] = "cas", position[q] = enqueue
               PROVE  sequence'[Index(enqueue)] = enqueue - Index(enqueue)
    BY DEF CasReady, TypeOK
  <2>1. sequence[Index(enqueue)] = enqueue - Index(enqueue)
    BY DEF CasReady
  <2>2. Index(enqueue) # Index(position[p])
    BY <2>1, <1>f, <1>a, <1>c
  <2> QED
    BY <2>1, <2>2, <1>h DEF TypeOK
<1>8. WatermarkCovers'
  <2>1. Index(position[p]) < touched
    BY DEF WatermarkCovers
  <2> QED
    BY <2>1, <1>c, <1>h DEF TypeOK, WatermarkCovers, Slots
<1>9. FreeSlotsClaimable'
  <2> SUFFICES ASSUME NEW pos \in enqueue .. HeadPosition + Capacity - 1
               PROVE  sequence'[Index(pos)] = FreeFor(pos)
    BY <1>d DEF FreeSlotsClaimable, FreeFor, Wrap
  <2>1. sequence[Index(pos)] = FreeFor(pos)
    BY DEF FreeSlotsClaimable
  <2>2. Index(pos) # Index(position[p])
    BY <1>a, IndexInjective
  <2> QED
    BY <2>1, <2>2, <1>h DEF TypeOK
<1> QED
  BY <1>1, <1>2, <1>3, <1>4, <1>5, <1>6, <1>7, <1>8, <1>9 DEF QueueInv

\* note_drop, first half.
LEMMA PinHighWaterStep == ASSUME NEW p \in Producers, QueueInv, PinHighWater(p) PROVE QueueInv'
<1> USE CapacityAssumption DEF QueueInv, PinHighWater, Goto, shared, producers, observer, history
<1>1. WindowBounded'
  BY DEF TypeOK, WindowBounded, ProducersBehind, Behind, Window, HeadPosition,
         Owned, Owners, Reading
<1>2. ProducersBehind'
  BY DEF TypeOK, ProducersBehind, Behind, WindowBounded, Window, HeadPosition,
         Owners, Event
<1>3. DistinctReservations'
  BY DEF TypeOK, DistinctReservations, ProducersBehind, Behind, Window, Owners
<1>4. WindowStages'
  BY DEF TypeOK, WindowStages, WindowBounded, ProducersBehind, Window,
         HeadPosition, Owned, Owners
<1>5. CasReady' /\ HistoryLengths' /\ ReservationOrder'
  BY DEF TypeOK, CasReady, HistoryLengths, ReservationOrder
<1>6. WatermarkCovers' /\ FreeSlotsClaimable'
  BY DEF TypeOK, WatermarkCovers, Slots, FreeSlotsClaimable, HeadPosition
<1>7. TypeOK'
  BY DEF TypeOK, Max2
<1> QED
  BY <1>1, <1>2, <1>3, <1>4, <1>5, <1>6, <1>7 DEF QueueInv

\* note_drop, second half.
LEMMA CountDropStep == ASSUME NEW p \in Producers, QueueInv, CountDrop(p) PROVE QueueInv'
<1> USE CapacityAssumption DEF QueueInv, CountDrop, Goto, shared, producers, observer, history
<1>1. WindowBounded'
  BY DEF TypeOK, WindowBounded, ProducersBehind, Behind, Window, HeadPosition,
         Owned, Owners, Reading
<1>2. ProducersBehind'
  BY DEF TypeOK, ProducersBehind, Behind, WindowBounded, Window, HeadPosition,
         Owners, Event
<1>3. DistinctReservations'
  BY DEF TypeOK, DistinctReservations, ProducersBehind, Behind, Window, Owners
<1>4. WindowStages'
  BY DEF TypeOK, WindowStages, WindowBounded, ProducersBehind, Window,
         HeadPosition, Owned, Owners
<1>5. TypeOK' /\ CasReady' /\ HistoryLengths'
  BY DEF TypeOK, Owners, Reading, CasReady, HistoryLengths
<1>6. ReservationOrder' /\ WatermarkCovers' /\ FreeSlotsClaimable'
  BY DEF TypeOK, ReservationOrder, HistoryLengths, WatermarkCovers, Slots,
         FreeSlotsClaimable, HeadPosition
<1> QED
  BY <1>1, <1>2, <1>3, <1>4, <1>5, <1>6 DEF QueueInv

\* The consumer starts only on a published position.
LEMMA PopBeginStep == ASSUME QueueInv, PopBegin PROVE QueueInv'
<1> USE CapacityAssumption DEF QueueInv, PopBegin, shared, producers, observer, history
<1>1. TypeOK' /\ CasReady' /\ HistoryLengths' /\ ReservationOrder' /\ WatermarkCovers'
      /\ FreeSlotsClaimable'
  BY DEF TypeOK, Owners, Reading, CasReady, HistoryLengths, ReservationOrder,
         WatermarkCovers, Slots, FreeSlotsClaimable, HeadPosition
<1>2. ProducersBehind' /\ DistinctReservations' /\ WindowStages'
  BY DEF TypeOK, ProducersBehind, Behind, WindowBounded, Window, HeadPosition,
         Owners, Event, DistinctReservations, WindowStages, Owned
<1>3. WindowBounded'
  <2>1. Index(dequeue) \in Nat /\ Index(dequeue) <= dequeue
    <3>1. dequeue \in Nat
      BY DEF TypeOK
    <3> QED
      BY <3>1, IndexRange, IndexBelow
  <2>2. dequeue # enqueue
    <3> SUFFICES ASSUME dequeue = enqueue PROVE FALSE
      OBVIOUS
    <3>1. sequence[Index(dequeue)] = FreeFor(dequeue)
      BY DEF TypeOK, FreeSlotsClaimable, HeadPosition
    <3> QED
      BY <3>1, <2>1 DEF TypeOK, FreeFor, Wrap, FullWith
  <2>3. dequeue < enqueue
    BY <2>2 DEF TypeOK, WindowBounded, HeadPosition
  <2>4. ~Owned(dequeue)
    <3>1. dequeue \in Window
      BY <2>3 DEF TypeOK, Window, HeadPosition
    <3>2. Owned(dequeue) => sequence[Index(dequeue)] = dequeue - Index(dequeue)
      BY <3>1 DEF WindowStages
    <3> QED
      BY <3>2, <2>1 DEF TypeOK, FullWith
  <2> QED
    BY <2>3, <2>4 DEF TypeOK, WindowBounded, HeadPosition, Owned, Reading
<1> QED
  BY <1>1, <1>2, <1>3 DEF QueueInv

\* The occupancy sample never exceeds the ring.
LEMMA PopSampleStep == ASSUME QueueInv, PopSample PROVE QueueInv'
<1> USE CapacityAssumption DEF QueueInv, PopSample, shared, producers, observer, history
<1>1. CasReady' /\ HistoryLengths' /\ ReservationOrder' /\ WatermarkCovers' /\
      FreeSlotsClaimable'
  BY DEF TypeOK, CasReady, HistoryLengths, ReservationOrder, WatermarkCovers,
         Slots, FreeSlotsClaimable, HeadPosition
<1>2. WindowBounded' /\ ProducersBehind' /\ DistinctReservations' /\ WindowStages'
  BY DEF TypeOK, WindowBounded, ProducersBehind, Behind, Window, HeadPosition,
         Owned, Owners, Reading, Event, DistinctReservations, WindowStages
<1>3. TypeOK'
  <2>1. Minus(enqueue, dequeue) \in 0 .. Capacity
    BY DEF TypeOK, Minus, WindowBounded, HeadPosition
  <2> QED
    BY <2>1 DEF TypeOK, Max2, Reading
<1> QED
  BY <1>1, <1>2, <1>3 DEF QueueInv

\* The copied event is the one reserved at that position.
LEMMA PopCopyStep == ASSUME QueueInv, PopCopy PROVE QueueInv'
<1> USE CapacityAssumption DEF QueueInv, PopCopy, shared, producers, observer, history
<1>a. value[Index(dequeue)] = claimed[dequeue + 1] /\ dequeue < enqueue
  <2>1. dequeue \in Window /\ dequeue < enqueue /\ ~Owned(dequeue)
    BY DEF WindowBounded, Window, HeadPosition, TypeOK, Reading
  <2> QED
    BY <2>1 DEF WindowStages
<1>b. value[Index(dequeue)] \in Events
  <2>1. dequeue \in Nat
    BY DEF TypeOK
  <2> QED
    BY <2>1, IndexRange DEF TypeOK
<1>c. /\ popped' \in Seq(Events) /\ Len(popped') = dequeue + 1
      /\ popped'[dequeue + 1] = value[Index(dequeue)]
      /\ \A k \in 1 .. dequeue : popped'[k] = popped[k]
  <2>1. /\ popped \in Seq(Events) /\ Len(popped) = dequeue /\ dequeue \in Nat
        /\ popped' = Append(popped, value[Index(dequeue)])
    BY DEF TypeOK, HistoryLengths
  <2> HIDE DEF QueueInv, PopCopy
  <2> QED
    BY <2>1, <1>b
<1>1. CasReady' /\ WatermarkCovers' /\ FreeSlotsClaimable'
  BY DEF TypeOK, CasReady, WatermarkCovers, Slots, FreeSlotsClaimable,
         HeadPosition
<1>2. WindowBounded' /\ ProducersBehind' /\ DistinctReservations' /\ WindowStages'
  BY DEF TypeOK, WindowBounded, ProducersBehind, Behind, Window, HeadPosition,
         Owned, Owners, Reading, Event, DistinctReservations, WindowStages
<1>3. TypeOK'
  BY <1>c DEF TypeOK, Reading
<1>4. HistoryLengths'
  BY <1>c DEF HistoryLengths
<1>5. ReservationOrder'
  <2>1. /\ Len(popped) = dequeue /\ Len(claimed) = enqueue
        /\ dequeue \in Nat /\ enqueue \in Nat /\ claimed' = claimed
        /\ \A k \in 1 .. dequeue : popped[k] = claimed[k]
    BY DEF TypeOK, ReservationOrder, HistoryLengths
  <2> HIDE DEF QueueInv, PopCopy
  <2>2. \A k \in 1 .. dequeue + 1 : k \in 1 .. dequeue \/ k = dequeue + 1
    BY <2>1
  <2>3. \A k \in 1 .. dequeue + 1 : popped'[k] = claimed'[k]
    BY <2>1, <2>2, <1>a, <1>c
  <2>4. Len(popped') <= Len(claimed')
    BY <2>1, <1>a, <1>c
  <2> QED
    BY <2>3, <2>4, <1>c DEF ReservationOrder
<1> QED
  BY <1>1, <1>2, <1>3, <1>4, <1>5 DEF QueueInv

\* Handing the slot back frees the position one lap ahead.
LEMMA PopReleaseStep == ASSUME QueueInv, PopRelease PROVE QueueInv'
<1> USE CapacityAssumption DEF QueueInv, PopRelease, shared, producers, observer, history
<1>a. /\ dequeue \in Nat /\ enqueue \in Nat /\ enqueue <= MaxCount
      /\ dequeue < enqueue /\ enqueue <= dequeue + Capacity
      /\ HeadPosition = dequeue /\ HeadPosition' = dequeue + 1 /\ ~Owned(dequeue)
  BY DEF TypeOK, WindowBounded, HeadPosition, Reading
<1>b. /\ Index(dequeue) \in Slots /\ Index(dequeue) \in Nat /\ Index(dequeue) <= dequeue
      /\ Index(dequeue + Capacity) = Index(dequeue)
  BY <1>a, IndexRange, IndexBelow, IndexNextLap
<1>c. sequence[Index(dequeue)] = dequeue + 1 - Index(dequeue)
  BY <1>a DEF WindowStages, Window, FullWith
<1>d. \A pos \in Nat : dequeue < pos /\ pos < dequeue + Capacity => Index(pos) # Index(dequeue)
  BY <1>a, IndexInjective
<1>e. /\ sequence' = [sequence EXCEPT ![Index(dequeue)] = Released(dequeue)]
      /\ Released(dequeue) \in 0 .. MaxCount
      /\ Released(dequeue) = FreeFor(dequeue + Capacity)
  BY <1>a, <1>b DEF Released, FreeFor, Wrap
<1>f. \A pos \in Nat : Index(pos) \in Slots
  BY IndexRange
<1>g. \A pos \in Nat : dequeue < pos /\ pos < dequeue + Capacity
          => sequence'[Index(pos)] = sequence[Index(pos)]
  BY <1>d, <1>e, <1>f DEF TypeOK
<1>h. /\ Window = dequeue .. enqueue - 1 /\ Window' = dequeue + 1 .. enqueue - 1
      /\ \A pos : Owned(pos)' <=> Owned(pos)
      /\ \A q \in Producers : Event(q)' = Event(q)
  BY <1>a DEF Window, Owned, Event
<1>1. HistoryLengths' /\ ReservationOrder'
  BY DEF TypeOK, HistoryLengths, ReservationOrder
<1>2. DistinctReservations'
  BY DEF TypeOK, DistinctReservations, ProducersBehind, Behind, Window, Owners
<1>3. TypeOK'
  BY <1>e DEF TypeOK, Reading
<1>4. WindowBounded'
  BY <1>a DEF WindowBounded, Reading
<1>5. ProducersBehind'
  <2> SUFFICES ASSUME NEW q \in Producers PROVE Behind(q)'
    BY DEF ProducersBehind
  <2>1. Behind(q)
    BY DEF ProducersBehind
  <2>2. pc[q] \in Owners => position[q] # dequeue
    BY <1>a DEF Owned
  <2>3. pc[q] \in Owners => position[q] \in Window'
    BY <2>1, <2>2, <1>a, <1>h DEF Behind
  <2>4. /\ pc' = pc /\ position' = position /\ enqueue' = enqueue
        /\ value' = value /\ claimed' = claimed
    OBVIOUS
  <2> HIDE DEF QueueInv, PopRelease
  <2> QED
    BY <2>1, <2>3, <2>4, <1>h DEF Behind
<1>6. WindowStages'
  <2> SUFFICES ASSUME NEW pos \in Window'
               PROVE  sequence'[Index(pos)] = sequence[Index(pos)] /\ pos \in Window
    BY <1>h DEF WindowStages, FullWith
  <2> QED
    BY <1>a, <1>g, <1>h
<1>7. CasReady'
  <2> SUFFICES ASSUME NEW q \in Producers, pc[q] = "cas", position[q] = enqueue
               PROVE  sequence'[Index(enqueue)] = enqueue - Index(enqueue)
    BY DEF CasReady, TypeOK
  <2>1. sequence[Index(enqueue)] = enqueue - Index(enqueue)
    BY DEF CasReady
  <2>2. enqueue # dequeue + Capacity
    BY <2>1, <1>a, <1>b, <1>c
  <2> QED
    BY <2>1, <2>2, <1>a, <1>g
<1>8. WatermarkCovers'
  <2>1. Index(dequeue) < touched
    BY <1>b, <1>c DEF WatermarkCovers, TypeOK
  <2> QED
    BY <2>1, <1>b, <1>e DEF TypeOK, WatermarkCovers, Slots
<1>9. FreeSlotsClaimable'
  <2> SUFFICES ASSUME NEW pos \in enqueue .. dequeue + Capacity
               PROVE  sequence'[Index(pos)] = FreeFor(pos)
    BY <1>a DEF FreeSlotsClaimable, FreeFor, Wrap
  <2>1. CASE pos = dequeue + Capacity
    BY <2>1, <1>b, <1>e DEF TypeOK
  <2>2. CASE pos # dequeue + Capacity
    <3>1. sequence[Index(pos)] = FreeFor(pos)
      BY <2>2, <1>a DEF FreeSlotsClaimable
    <3> QED
      BY <3>1, <2>2, <1>a, <1>g
  <2> QED
    BY <2>1, <2>2
<1> QED
  BY <1>1, <1>2, <1>3, <1>4, <1>5, <1>6, <1>7, <1>8, <1>9 DEF QueueInv

\* dequeue_ catches up with the released slot.
LEMMA PopAdvanceStep == ASSUME QueueInv, PopAdvance PROVE QueueInv'
<1> USE CapacityAssumption DEF QueueInv, PopAdvance, shared, producers, observer, history
<1>1. CasReady' /\ HistoryLengths' /\ ReservationOrder' /\ WatermarkCovers' /\
      FreeSlotsClaimable'
  BY DEF TypeOK, CasReady, HistoryLengths, ReservationOrder, WatermarkCovers,
         Slots, FreeSlotsClaimable, HeadPosition
<1>2. WindowBounded' /\ ProducersBehind' /\ DistinctReservations' /\ WindowStages'
  BY DEF TypeOK, WindowBounded, ProducersBehind, Behind, Window, HeadPosition,
         Owned, Owners, Reading, Event, DistinctReservations, WindowStages
<1>3. TypeOK'
  BY DEF TypeOK, WindowBounded
<1> QED
  BY <1>1, <1>2, <1>3 DEF QueueInv

\* take_dropped_count leaves the ring alone.
LEMMA TakeDroppedStep == ASSUME QueueInv, TakeDropped PROVE QueueInv'
<1> USE CapacityAssumption DEF QueueInv, TakeDropped, shared, producers, observer, history
<1>1. TypeOK' /\ CasReady' /\ HistoryLengths' /\ ReservationOrder' /\ WatermarkCovers'
      /\ FreeSlotsClaimable'
  BY DEF TypeOK, Owners, Reading, CasReady, HistoryLengths, ReservationOrder,
         WatermarkCovers, Slots, FreeSlotsClaimable, HeadPosition
<1>2. WindowBounded' /\ ProducersBehind' /\ DistinctReservations' /\ WindowStages'
  BY DEF TypeOK, WindowBounded, ProducersBehind, Behind, Window, HeadPosition,
         Owned, Owners, Reading, Event, DistinctReservations, WindowStages
<1> QED
  BY <1>1, <1>2 DEF QueueInv

\* The first load of occupancy().
LEMMA OccupancyLoadEnqueueStep == ASSUME QueueInv, OccupancyLoadEnqueue PROVE QueueInv'
<1> USE CapacityAssumption DEF QueueInv, OccupancyLoadEnqueue, shared, producers, observer, history
<1>1. CasReady' /\ HistoryLengths' /\ ReservationOrder' /\ WatermarkCovers' /\
      FreeSlotsClaimable'
  BY DEF TypeOK, CasReady, HistoryLengths, ReservationOrder, WatermarkCovers,
         Slots, FreeSlotsClaimable, HeadPosition
<1>2. WindowBounded' /\ ProducersBehind' /\ DistinctReservations' /\ WindowStages'
  BY DEF TypeOK, WindowBounded, ProducersBehind, Behind, Window, HeadPosition,
         Owned, Owners, Reading, Event, DistinctReservations, WindowStages
<1>3. TypeOK'
  BY DEF TypeOK
<1> QED
  BY <1>1, <1>2, <1>3 DEF QueueInv

\* The second load of occupancy().
LEMMA OccupancyLoadDequeueStep == ASSUME QueueInv, OccupancyLoadDequeue PROVE QueueInv'
<1> USE CapacityAssumption DEF QueueInv, OccupancyLoadDequeue, shared, producers, observer, history
<1>1. CasReady' /\ HistoryLengths' /\ ReservationOrder' /\ WatermarkCovers' /\
      FreeSlotsClaimable'
  BY DEF TypeOK, CasReady, HistoryLengths, ReservationOrder, WatermarkCovers,
         Slots, FreeSlotsClaimable, HeadPosition
<1>2. WindowBounded' /\ ProducersBehind' /\ DistinctReservations' /\ WindowStages'
  BY DEF TypeOK, WindowBounded, ProducersBehind, Behind, Window, HeadPosition,
         Owned, Owners, Reading, Event, DistinctReservations, WindowStages
<1>3. TypeOK'
  <2>1. Clamp(Minus(seen, dequeue)) \in Nat
    BY DEF TypeOK, Clamp, Minus
  <2> QED
    BY <2>1 DEF TypeOK
<1> QED
  BY <1>1, <1>2, <1>3 DEF QueueInv

\* reset_quiescent: the watermark covers every slot that is not zero.
LEMMA ResetStep == ASSUME QueueInv, Reset PROVE QueueInv'
<1> USE CapacityAssumption DEF QueueInv, Reset, shared, producers, observer, history
<1>a. \A i \in Slots : sequence'[i] = 0
  BY DEF ResetSlots, WatermarkCovers, Slots, TypeOK
<1>b. \A q \in Producers : pc'[q] = "idle"
  BY DEF Quiescent
<1>c. cpc' = "idle" /\ cpc = "idle"
  BY DEF Quiescent
<1>1. TypeOK'
  <2>1. sequence' \in [Slots -> 0 .. MaxCount]
    BY <1>a
  <2> QED
    BY <2>1 DEF TypeOK
<1>2. WindowBounded'
  BY <1>c DEF WindowBounded, HeadPosition, Reading
<1>3. ProducersBehind'
  BY <1>b DEF ProducersBehind, Behind, Owners
<1>4. DistinctReservations'
  BY <1>b DEF DistinctReservations, Owners
<1>5. WindowStages'
  BY <1>c DEF WindowStages, Window, HeadPosition
<1>6. CasReady'
  BY <1>b DEF CasReady
<1>7. HistoryLengths'
  BY <1>c DEF HistoryLengths
<1>8. ReservationOrder'
  BY DEF ReservationOrder
<1>9. WatermarkCovers'
  BY <1>a, <1>b DEF WatermarkCovers
<1>10. FreeSlotsClaimable'
  <2>1. enqueue' = 0 /\ HeadPosition' = 0
    BY <1>c DEF HeadPosition
  <2>2. ASSUME NEW pos \in 0 .. Capacity - 1
        PROVE  sequence'[Index(pos)] = FreeFor(pos)
    <3>1. pos \in Slots /\ Index(pos) = pos
      BY IndexFirstLap DEF Slots
    <3> QED
      BY <3>1, <1>a DEF FreeFor, Wrap
  <2>3. 0 + Capacity - 1 = Capacity - 1
    OBVIOUS
  <2> QED
    BY <2>1, <2>2, <2>3, Zenon DEF FreeSlotsClaimable
<1> QED
  BY <1>1, <1>2, <1>3, <1>4, <1>5, <1>6, <1>7, <1>8, <1>9, <1>10 DEF QueueInv

----------------------------------------------------------------------------
(* Theorems. *)

\* Every step of the queue preserves the invariant.
LEMMA QueueStep == QueueInv /\ [Next]_vars => QueueInv'
<1> SUFFICES ASSUME QueueInv, [Next]_vars PROVE QueueInv'
  OBVIOUS
<1>1. ASSUME NEW p \in Producers, Producer(p) PROVE QueueInv'
  BY <1>1, OfferStep, CheckStep, ReloadStep, ClaimStep, ClaimFailsStep, TouchStep,
     FillStep, PublishStep, PinHighWaterStep, CountDropStep DEF Producer
<1>2. CASE Consumer
  BY <1>2, PopBeginStep, PopSampleStep, PopCopyStep, PopReleaseStep, PopAdvanceStep DEF Consumer
<1>3. CASE TakeDropped \/ Occupancy \/ Reset
  BY <1>3, TakeDroppedStep, OccupancyLoadEnqueueStep, OccupancyLoadDequeueStep, ResetStep
     DEF Occupancy
<1>4. CASE UNCHANGED vars
  BY <1>4 DEF vars, shared, producers, observer, history, QueueInv, TypeOK, WindowBounded,
     ProducersBehind, Behind, DistinctReservations, WindowStages, CasReady, HistoryLengths,
     ReservationOrder, WatermarkCovers, FreeSlotsClaimable, HeadPosition, Window, Owned,
     Event, FullWith, FreeFor, Wrap
<1> QED
  BY <1>1, <1>2, <1>3, <1>4 DEF Next

\* The invariant holds in every reachable state, and with it the types.
THEOREM QueueInvariant == Spec => []QueueInv
<1>1. QueueInv /\ [Next]_vars => QueueInv'
  BY QueueStep
<1> QED
  BY <1>1, QueueInit, PTL DEF Spec

\* A slot is never used by two threads at once: no torn event reaches the trace.
THEOREM SlotsAreExclusive == Spec => []ExclusiveSlots
<1>1. QueueInv => ExclusiveSlots
  <2> SUFFICES ASSUME QueueInv, NEW p \in Producers, pc[p] \in Owners
               PROVE  /\ \A q \in Producers \ {p} :
                             pc[q] \in Owners => Index(position[q]) # Index(position[p])
                      /\ cpc \in Reading => Index(dequeue) # Index(position[p])
    BY DEF ExclusiveSlots
  <2> USE CapacityAssumption DEF QueueInv
  <2>1. /\ enqueue \in Nat /\ HeadPosition \in Nat /\ Window = HeadPosition .. enqueue - 1
        /\ enqueue <= HeadPosition + Capacity
    BY DEF TypeOK, WindowBounded, HeadPosition, Window
  <2>2. \A a, b \in Window : a # b => Index(a) # Index(b)
    BY <2>1, IndexInjective
  <2>3. ASSUME NEW q \in Producers \ {p}, pc[q] \in Owners
        PROVE  Index(position[q]) # Index(position[p])
    BY <2>2, <2>3 DEF DistinctReservations, ProducersBehind, Behind
  <2>4. ASSUME cpc \in Reading PROVE Index(dequeue) # Index(position[p])
    <3>1. dequeue \in Window /\ ~Owned(dequeue)
      BY <2>4 DEF TypeOK, WindowBounded, Window, HeadPosition, Reading
    <3>2. position[p] \in Window /\ position[p] # dequeue
      BY <3>1 DEF ProducersBehind, Behind, Owned
    <3> QED
      BY <3>1, <3>2, <2>2
  <2> QED
    BY <2>3, <2>4
<1> QED
  BY <1>1, QueueInvariant, PTL

\* The consumer receives exactly the reservation order.
THEOREM ConsumesInReservationOrder == Spec => []ReservationOrder
<1>1. QueueInv => ReservationOrder
  BY DEF QueueInv
<1> QED
  BY <1>1, QueueInvariant, PTL

\* No slot is lost: neither a lap nor a reset leaves one that cannot be reserved.
THEOREM FreeSlotsStayClaimable == Spec => []FreeSlotsClaimable
<1>1. QueueInv => FreeSlotsClaimable
  BY DEF QueueInv
<1> QED
  BY <1>1, QueueInvariant, PTL

----------------------------------------------------------------------------
(* Accounting: every offer is reserved, counted or under way. *)

\* A finite set with one member more, or one less.
LEMMA OneMore ==
    ASSUME NEW S, NEW T, NEW e, IsFiniteSet(S), e \notin S, T = S \cup {e}
    PROVE  IsFiniteSet(T) /\ Cardinality(T) = Cardinality(S) + 1 /\ Cardinality(S) \in Nat
  BY FS_AddElement, FS_CardinalityType

LEMMA OneLess ==
    ASSUME NEW S, NEW T, NEW e, IsFiniteSet(S), e \in S, T = S \ {e}
    PROVE  /\ IsFiniteSet(T) /\ Cardinality(T) = Cardinality(S) - 1
           /\ Cardinality(S) \in Nat /\ Cardinality(S) >= 1
<1>1. Cardinality(S) \in Nat /\ Cardinality(S) # 0
  BY FS_CardinalityType, FS_EmptySet
<1> QED
  BY <1>1, FS_RemoveElement

\* The calls under way, and those that have decided to drop, are finitely many.
LEMMA CallsFinite ==
    /\ IsFiniteSet(Undecided) /\ Cardinality(Undecided) \in Nat
    /\ IsFiniteSet(Decided) /\ Cardinality(Decided) \in Nat
  BY ProducersAssumption, FS_Subset, FS_CardinalityType DEF Undecided, Decided

\* The zeroed queue has no offers.
LEMMA AccountInit == Init => AccountInv
<1> SUFFICES ASSUME Init PROVE AccountInv
  OBVIOUS
<1>1. Cardinality(Undecided) = 0
  <2>1. Undecided = {}
    BY DEF Init, Undecided
  <2> QED
    BY <2>1, FS_EmptySet
<1>2. OfferAccounting
  BY <1>1, CapacityAssumption DEF Init, OfferAccounting, DropPinsHighWater, OccupancyClamped
<1> QED
  BY <1>2, BoundsAssumption DEF Init, AccountInv

\* Every step of a producer keeps the account.
LEMMA AccountProducer ==
    ASSUME NEW p \in Producers, QueueInv, AccountInv, Producer(p)
    PROVE  AccountInv'
<1> USE CapacityAssumption DEF Goto
<1>t. TypeOK
  BY DEF QueueInv
<1>a. CASE Offer(p)
  <2>1. Undecided' = Undecided \cup {p} /\ p \notin Undecided
    BY <1>a, <1>t DEF Offer, Undecided, TypeOK
  <2>2. Cardinality(Undecided') = Cardinality(Undecided) + 1 /\ Cardinality(Undecided) \in Nat
    BY <2>1, CallsFinite, OneMore
  <2>3. /\ offered' = offered + 1 /\ offered \in Nat /\ enqueue \in Nat /\ dropped \in Nat /\ taken \in Nat
        /\ enqueue' = enqueue /\ dropped' = dropped /\ taken' = taken /\ high_water' = high_water
        /\ report' = report
    BY <1>a, <1>t DEF Offer, shared, observer, TypeOK
  <2>4. offered' <= MaxCount =>
            offered' = enqueue' + dropped' + taken' + Cardinality(Undecided')
    <3>1. offered' <= MaxCount => offered <= MaxCount
      BY <2>3
    <3> QED
      BY <2>2, <2>3, <3>1 DEF AccountInv, OfferAccounting
  <2>5. OfferAccounting'
    BY <2>3, <2>4 DEF AccountInv, OfferAccounting, DropPinsHighWater, OccupancyClamped
  <2> QED
    BY <1>a, <1>t, <2>3, <2>5, BoundsAssumption DEF Offer, AccountInv, TypeOK
<1>b. CASE Check(p) \/ Reload(p) \/ ClaimFails(p)
  <2>1. Undecided' = Undecided
    BY <1>b, <1>t DEF Check, Reload, ClaimFails, Undecided, TypeOK
  <2>2. UNCHANGED <<offered, enqueue, dropped, taken, high_water, report>>
    BY <1>b DEF Check, Reload, ClaimFails, shared, observer, history
  <2>3. \A q \in Producers : pc'[q] = "count" => pc[q] = "count"
    BY <1>b, <1>t DEF Check, Reload, ClaimFails, TypeOK
  <2>4. OfferAccounting'
    BY <2>1, <2>2 DEF AccountInv, OfferAccounting, DropPinsHighWater, OccupancyClamped
  <2> QED
    BY <2>2, <2>3, <2>4 DEF AccountInv
<1>c. CASE Claim(p)
  <2>1. Undecided' = Undecided \ {p} /\ p \in Undecided
    BY <1>c, <1>t DEF Claim, Undecided, TypeOK
  <2>2. Cardinality(Undecided') = Cardinality(Undecided) - 1 /\ Cardinality(Undecided) \in Nat
    BY <2>1, CallsFinite, OneLess
  <2>3. /\ enqueue' = enqueue + 1 /\ offered \in Nat /\ enqueue \in Nat /\ dropped \in Nat /\ taken \in Nat
        /\ UNCHANGED <<offered, dropped, taken, high_water, report>>
    BY <1>c, <1>t DEF Claim, observer, TypeOK
  <2>4. OfferAccounting'
    BY <2>2, <2>3 DEF AccountInv, OfferAccounting, DropPinsHighWater, OccupancyClamped
  <2>5. \A q \in Producers : pc'[q] = "count" => pc[q] = "count"
    BY <1>c, <1>t DEF Claim, TypeOK
  <2> QED
    BY <2>3, <2>4, <2>5 DEF AccountInv
<1>d. CASE Touch(p) \/ Fill(p) \/ Publish(p)
  <2>1. Undecided' = Undecided
    BY <1>d, <1>t DEF Touch, Fill, Publish, Undecided, TypeOK
  <2>2. UNCHANGED <<offered, enqueue, dropped, taken, high_water, report>>
    BY <1>d DEF Touch, Fill, Publish, observer, history
  <2>3. \A q \in Producers : pc'[q] = "count" => pc[q] = "count"
    BY <1>d, <1>t DEF Touch, Fill, Publish, TypeOK
  <2>4. OfferAccounting'
    BY <2>1, <2>2 DEF AccountInv, OfferAccounting, DropPinsHighWater, OccupancyClamped
  <2> QED
    BY <2>2, <2>3, <2>4 DEF AccountInv
<1>e. CASE PinHighWater(p)
  <2>1. Undecided' = Undecided
    BY <1>e, <1>t DEF PinHighWater, Undecided, TypeOK
  <2>2. UNCHANGED <<offered, enqueue, dropped, taken, report>> /\ high_water' = Capacity
    BY <1>e, <1>t DEF PinHighWater, Max2, observer, history, TypeOK
  <2>3. OfferAccounting'
    BY <2>1, <2>2 DEF AccountInv, OfferAccounting, DropPinsHighWater, OccupancyClamped
  <2> QED
    BY <2>2, <2>3 DEF AccountInv
<1>f. CASE CountDrop(p)
  <2>1. Undecided' = Undecided \ {p} /\ p \in Undecided
    BY <1>f, <1>t DEF CountDrop, Undecided, TypeOK
  <2>2. /\ Cardinality(Undecided') = Cardinality(Undecided) - 1
        /\ Cardinality(Undecided) \in Nat /\ Cardinality(Undecided) >= 1
    BY <2>1, CallsFinite, OneLess
  <2>3. /\ offered \in Nat /\ enqueue \in Nat /\ dropped \in Nat /\ taken \in Nat
        /\ UNCHANGED <<offered, enqueue, taken, high_water, report>>
        /\ dropped' = IF dropped = MaxCount THEN dropped ELSE dropped + 1
    BY <1>f, <1>t DEF CountDrop, observer, history, TypeOK
  <2>4. high_water = Capacity
    BY <1>f DEF CountDrop, AccountInv
  <2>5. offered' <= MaxCount =>
            offered' = enqueue' + dropped' + taken' + Cardinality(Undecided')
    BY <2>2, <2>3 DEF AccountInv, OfferAccounting
  <2>6. OfferAccounting'
    BY <2>3, <2>4, <2>5 DEF AccountInv, OfferAccounting, DropPinsHighWater, OccupancyClamped
  <2> QED
    BY <2>3, <2>4, <2>6 DEF AccountInv
<1> QED
  BY <1>a, <1>b, <1>c, <1>d, <1>e, <1>f DEF Producer

\* So do the consumer, the status thread and the reset.
LEMMA AccountOthers ==
    ASSUME QueueInv, AccountInv,
           Consumer \/ TakeDropped \/ Occupancy \/ Reset \/ UNCHANGED vars
    PROVE  AccountInv'
<1> USE CapacityAssumption
<1>t. TypeOK
  BY DEF QueueInv
<1>a. CASE PopSample
  <2>1. UNCHANGED <<offered, enqueue, dropped, taken, report, pc>> /\ high_water' >= high_water
        /\ high_water' \in 0 .. Capacity
    <3>1. Minus(enqueue, dequeue) \in 0 .. Capacity
      BY <1>a DEF PopSample, QueueInv, TypeOK, Minus, WindowBounded, HeadPosition
    <3> QED
      BY <1>a, <1>t, <3>1 DEF PopSample, Max2, producers, observer, history, TypeOK
  <2>2. high_water = Capacity => high_water' = Capacity
    BY <1>t, <2>1 DEF TypeOK
  <2> QED
    BY <2>1, <2>2 DEF AccountInv, OfferAccounting, DropPinsHighWater, OccupancyClamped, Undecided
<1>b. CASE PopBegin \/ PopCopy \/ PopRelease \/ PopAdvance \/ OccupancyLoadEnqueue \/ UNCHANGED vars
  <2>1. UNCHANGED <<offered, enqueue, dropped, taken, high_water, report, pc>>
    BY <1>b DEF PopBegin, PopCopy, PopRelease, PopAdvance, OccupancyLoadEnqueue, vars, shared,
           producers, observer, history
  <2> QED
    BY <2>1 DEF AccountInv, OfferAccounting, DropPinsHighWater, OccupancyClamped, Undecided
<1>c. CASE TakeDropped
  <2>1. /\ UNCHANGED <<offered, enqueue, high_water, report, pc>>
        /\ taken' + dropped' = taken + dropped /\ dropped' + taken' = dropped + taken
        /\ enqueue + dropped' + taken' = enqueue + dropped + taken
    BY <1>c, <1>t DEF TakeDropped, producers, observer, TypeOK
  <2> QED
    BY <2>1 DEF AccountInv, OfferAccounting, DropPinsHighWater, OccupancyClamped, Undecided
<1>d. CASE OccupancyLoadDequeue
  <2>1. UNCHANGED <<offered, enqueue, dropped, taken, high_water, pc>>
    BY <1>d DEF OccupancyLoadDequeue, shared, producers, history
  <2>2. report' <= Capacity
    BY <1>d, <1>t DEF OccupancyLoadDequeue, Clamp, Minus, TypeOK
  <2> QED
    BY <2>1, <2>2 DEF AccountInv, OfferAccounting, DropPinsHighWater, OccupancyClamped, Undecided
<1>e. CASE Reset
  <2>1. Undecided' = {} /\ report' = report /\ \A q \in Producers : pc'[q] = "idle"
    BY <1>e DEF Reset, Quiescent, Undecided, producers, observer
  <2>2. offered' = 0 /\ enqueue' = 0 /\ dropped' = 0 /\ taken' = 0
    BY <1>e DEF Reset
  <2>3. Cardinality(Undecided') = 0
    BY <2>1, FS_EmptySet
  <2> QED
    BY <2>1, <2>2, <2>3, BoundsAssumption DEF AccountInv, OfferAccounting, DropPinsHighWater,
       OccupancyClamped
<1> QED
  BY <1>a, <1>b, <1>c, <1>d, <1>e DEF Consumer, Occupancy

LEMMA AccountStep == ASSUME QueueInv, AccountInv, [Next]_vars PROVE AccountInv'
  BY AccountProducer, AccountOthers DEF Next

\* OfferAccounting: no offer disappears, whatever the order of concurrent drops and
\* take_dropped_count, and the telemetry beside the count agrees with it.
THEOREM OffersAreAccounted == Spec => []OfferAccounting
<1>1. Init => QueueInv /\ AccountInv
  BY QueueInit, AccountInit
<1>2. QueueInv /\ AccountInv /\ [Next]_vars => QueueInv' /\ AccountInv'
  BY QueueStep, AccountStep
<1>3. AccountInv => OfferAccounting
  BY DEF AccountInv
<1> QED
  BY <1>1, <1>2, <1>3, PTL DEF Spec

----------------------------------------------------------------------------
(* Drops: a producer that is not too stale gives up on a full ring only. *)

\* Every slot is used once in a lap, wherever the lap begins.
LEMMA IndexOfLap == ASSUME NEW s \in Slots, NEW j \in Nat PROVE Index(s + Capacity * j) = s
<1> DEFINE pos == s + Capacity * j
<1>1. pos \in Nat /\ Capacity * j \in Nat
  BY CapacityAssumption DEF Slots
<1> HIDE DEF pos
<1>2. PICK k \in Nat : pos = Index(pos) + Capacity * k
  BY <1>1, IndexQuotient
<1>3. Index(pos) \in Slots
  BY <1>1, IndexRange
<1>4. Index(pos) + Capacity * k = s + Capacity * j
  BY <1>2 DEF pos
<1>5. Index(pos) = s
  BY <1>3, <1>4, UniqueRemainder
<1> QED
  BY <1>5 DEF pos

LEMMA SlotInLap ==
    ASSUME NEW h \in Nat, NEW i \in Slots
    PROVE  \E r \in h .. h + Capacity - 1 : Index(r) = i
<1>1. PICK j \in Nat : h = Index(h) + Capacity * j
  BY IndexQuotient
<1>2. Index(h) \in Slots /\ Index(h) \in Nat /\ i \in Nat /\ Capacity * j \in Nat
  BY IndexRange, CapacityAssumption DEF Slots
<1>3. CASE i >= Index(h)
  <2>1. i + Capacity * j \in h .. h + Capacity - 1
    BY <1>1, <1>2, <1>3, CapacityAssumption DEF Slots
  <2> QED
    BY <2>1, IndexOfLap
<1>4. CASE i < Index(h)
  <2>1. Capacity * (j + 1) = Capacity * j + Capacity
    BY CapacityAssumption
  <2>2. i + Capacity * (j + 1) \in h .. h + Capacity - 1
    BY <1>1, <1>2, <1>4, <2>1, CapacityAssumption DEF Slots
  <2>3. Index(i + Capacity * (j + 1)) = i
    BY IndexOfLap
  <2> QED
    BY <2>2, <2>3
<1> QED
  BY <1>2, <1>3, <1>4

\* With room in the ring the wrap test does not mistake the slot for a full one: its
\* sequence is that of a position at most a lap ahead of the cursor.
LEMMA FreshDistance ==
    ASSUME QueueInv, NEW p \in Producers, pc[p] = "check",
           enqueue - position[p] < Half - Capacity, enqueue < HeadPosition + Capacity
    PROVE  Distance(p) <= Half
<1> USE CapacityAssumption
<1> DEFINE pos == position[p]
           i == Index(position[p])
<1>1. /\ pos \in Nat /\ pos <= MaxCount /\ pos <= enqueue /\ enqueue \in Nat /\ HeadPosition \in Nat
      /\ HeadPosition <= enqueue
  BY DEF QueueInv, TypeOK, ProducersBehind, Behind, WindowBounded, HeadPosition
<1>2. i \in Slots /\ i \in Nat /\ i <= pos
  BY <1>1, Addressing
<1>3. Half \in Nat /\ Half <= MaxCount
  BY DEF Half
<1>4. PICK r \in HeadPosition .. HeadPosition + Capacity - 1 : Index(r) = i
  BY <1>1, <1>2, SlotInLap
<1>5. r \in Nat /\ r >= pos
  <2>1. CASE pos <= HeadPosition
    BY <1>1, <1>4, <2>1
  <2>2. CASE pos > HeadPosition
    <3>1. r \in Nat /\ pos < r + Capacity /\ r < pos + Capacity
      BY <1>1, <1>4, <2>2
    <3>2. ~(pos < r) /\ ~(r < pos)
      BY <1>1, <1>4, <3>1, IndexInjective
    <3> QED
      BY <1>1, <3>1, <3>2
  <2> QED
    BY <1>1, <2>1, <2>2
<1>6. r - pos < Half - 1
  BY <1>1, <1>3, <1>4, <1>5
<1>7. sequence[i] \in {r - i, r + 1 - i} \/ sequence[i] = Wrap(r - i)
  <2>1. CASE r < enqueue
    <3>1. r \in Window
      BY <1>1, <1>4, <2>1 DEF Window
    <3> QED
      BY <3>1, <1>4 DEF QueueInv, WindowStages, FullWith
  <2>2. CASE r >= enqueue
    <3>1. r \in enqueue .. HeadPosition + Capacity - 1
      BY <1>1, <1>4, <2>2
    <3> QED
      BY <3>1, <1>4 DEF QueueInv, FreeSlotsClaimable, FreeFor
  <2> QED
    BY <1>1, <1>4, <2>1, <2>2
<1>8. sequence[i] \in 0 .. MaxCount
  BY <1>2 DEF QueueInv, TypeOK
<1>9. Distance(p) = Minus(sequence[i], pos - i)
  BY DEF Distance
<1> HIDE DEF pos, i
<1> QED
  BY <1>1, <1>2, <1>3, <1>5, <1>6, <1>7, <1>8, <1>9 DEF Minus, Wrap

\* Only the check of a position decides to drop.
LEMMA OnlyCheckDrops ==
    ASSUME QueueInv, [Next]_vars, NEW p \in Producers, pc[p] = "check", pc'[p] = "pin"
    PROVE  Check(p)
<1> USE DEF Goto
<1>t. TypeOK
  BY DEF QueueInv
<1>1. ASSUME NEW q \in Producers, Producer(q) PROVE q = p /\ Check(p)
  <2>1. q = p
    BY <1>1, <1>t DEF Producer, Offer, Check, Reload, Claim, ClaimFails, Touch, Fill, Publish,
           PinHighWater, CountDrop, TypeOK
  <2> QED
    BY <1>1, <1>t, <2>1 DEF Producer, Offer, Reload, Claim, ClaimFails, Touch, Fill, Publish,
           PinHighWater, CountDrop, TypeOK
<1>2. ASSUME Consumer \/ TakeDropped \/ Occupancy \/ Reset \/ UNCHANGED vars PROVE pc' = pc
  BY <1>2 DEF Consumer, Occupancy, PopBegin, PopSample, PopCopy, PopRelease, PopAdvance, TakeDropped,
         OccupancyLoadEnqueue, OccupancyLoadDequeue, Reset, vars, producers
<1> QED
  BY <1>1, <1>2 DEF Next

\* The step in which an offer is given up.
LEMMA DropStep ==
    ASSUME QueueInv, [Next]_vars, NEW p \in Producers, pc[p] = "check", pc'[p] = "pin",
           enqueue # MaxCount, enqueue - position[p] < Half - Capacity
    PROVE  enqueue = HeadPosition + Capacity
<1>1. Check(p)
  BY OnlyCheckDrops
<1>2. /\ enqueue \in Nat /\ enqueue <= MaxCount /\ MaxCount \in Nat /\ position[p] \in Nat
      /\ position[p] <= enqueue /\ HeadPosition \in Nat /\ Capacity \in Nat
      /\ enqueue <= HeadPosition + Capacity
  BY CapacityAssumption
     DEF QueueInv, TypeOK, ProducersBehind, Behind, WindowBounded, HeadPosition
<1>3. ~Exhausted(p)
  BY <1>2 DEF Exhausted
<1>4. Distance(p) > Half
  BY <1>1, <1>3 DEF Check, Goto, QueueInv, TypeOK
<1>5. Half \in Nat /\ Distance(p) \in Int
  <2>1. Index(position[p]) \in Slots /\ Index(position[p]) \in Nat
    BY <1>2, Addressing
  <2>2. sequence[Index(position[p])] \in Nat
    BY <2>1, CapacityAssumption DEF QueueInv, TypeOK
  <2> QED
    BY <1>2, <2>1, <2>2, CapacityAssumption DEF Distance, Minus, Half
<1> QED
  BY <1>2, <1>4, <1>5, FreshDistance

\* DropsOnlyWhenFull: try_emplace gives up only when the ring has no free slot or the
\* positions are used up.
THEOREM DropsAreJustified == Spec => DropsOnlyWhenFull
<1>1. QueueInv /\ [Next]_vars =>
        [\A p \in Producers :
            (/\ pc[p] = "check" /\ pc'[p] = "pin" /\ enqueue # MaxCount
             /\ enqueue - position[p] < Half - Capacity)
            => enqueue = HeadPosition + Capacity]_vars
  BY DropStep
<1> QED
  BY <1>1, QueueInvariant, PTL DEF Spec, DropsOnlyWhenFull

----------------------------------------------------------------------------
(* The refinement of EventFifo. *)

\* The unconsumed part of a history.
LEMMA Unconsumed ==
    ASSUME NEW c \in Seq(Events), NEW h \in 0 .. Len(c)
    PROVE  /\ SubSeq(c, h + 1, Len(c)) \in Seq(Events)
           /\ Len(SubSeq(c, h + 1, Len(c))) = Len(c) - h
<1>1. Len(c) \in Nat /\ \A i \in h + 1 .. Len(c) : c[i] \in Events
  BY LenProperties
<1>2. h + 1 \in Int /\ Len(c) \in Int
  BY <1>1
<1> QED
  BY <1>1, <1>2, SubSeqProperties

\* An event appended to the history is appended to its unconsumed part.
LEMMA UnconsumedGrows ==
    ASSUME NEW c \in Seq(Events), NEW v \in Events, NEW h \in 0 .. Len(c)
    PROVE  LET b == SubSeq(c, h + 1, Len(c))
               d == SubSeq(Append(c, v), h + 1, Len(c) + 1)
           IN  Len(d) = Len(b) + 1 /\ SubSeq(d, 1, Len(b)) = b
<1> DEFINE a == Append(c, v)
           b == SubSeq(c, h + 1, Len(c))
           d == SubSeq(a, h + 1, Len(c) + 1)
<1>1. /\ a \in Seq(Events) /\ Len(a) = Len(c) + 1 /\ Len(c) \in Nat
      /\ \A i \in 1 .. Len(c) : a[i] = c[i]
  BY AppendProperties, LenProperties
<1>2. b \in Seq(Events) /\ Len(b) = Len(c) - h
  BY Unconsumed
<1>3. d \in Seq(Events) /\ Len(d) = Len(c) + 1 - h
  <2>1. h \in 0 .. Len(a)
    BY <1>1
  <2> HIDE DEF a
  <2> QED
    BY <1>1, <2>1, Unconsumed
<1>4. \A i \in 1 .. Len(c) - h : b[i] = c[h + i]
  <2>1. h + 1 \in Int /\ Len(c) \in Int /\ \A i \in h + 1 .. Len(c) : c[i] \in Events
    BY <1>1, LenProperties
  <2>2. \A i \in 1 .. Len(c) - (h + 1) + 1 : b[i] = c[h + 1 + i - 1]
    BY <2>1, SubSeqProperties
  <2> QED
    BY <1>1, <2>2
<1>5. \A i \in 1 .. Len(c) + 1 - h : d[i] = a[h + i]
  <2>1. h + 1 \in Int /\ Len(c) + 1 \in Int /\ \A i \in h + 1 .. Len(c) + 1 : a[i] \in Events
    BY <1>1, LenProperties
  <2> HIDE DEF a
  <2>2. \A i \in 1 .. Len(c) + 1 - (h + 1) + 1 : d[i] = a[h + 1 + i - 1]
    BY <2>1, SubSeqProperties
  <2> QED
    BY <1>1, <2>2
<1> HIDE DEF a, b, d
<1>6. \A i \in 1 .. Len(b) : d[i] = b[i]
  <2> SUFFICES ASSUME NEW i \in 1 .. Len(c) - h PROVE d[i] = b[i]
    BY <1>2
  <2>1. h + i \in 1 .. Len(c) /\ i \in 1 .. Len(c) + 1 - h
    BY <1>1
  <2> QED
    BY <1>1, <1>4, <1>5, <2>1
<1>7. SubSeq(d, 1, Len(b)) = b
  <2>1. Len(b) \in Nat /\ \A i \in 1 .. Len(b) : d[i] \in Events
    BY <1>1, <1>2, <1>6, LenProperties
  <2>2. /\ SubSeq(d, 1, Len(b)) \in Seq(Events) /\ Len(SubSeq(d, 1, Len(b))) = Len(b)
        /\ \A i \in 1 .. Len(b) : SubSeq(d, 1, Len(b))[i] = d[i]
    <3>1. /\ SubSeq(d, 1, Len(b)) \in Seq(Events)
          /\ Len(SubSeq(d, 1, Len(b))) = IF 1 <= Len(b) THEN Len(b) - 1 + 1 ELSE 0
          /\ \A i \in 1 .. Len(b) - 1 + 1 : SubSeq(d, 1, Len(b))[i] = d[1 + i - 1]
      BY <2>1, SubSeqProperties
    <3> QED
      BY <2>1, <3>1
  <2> QED
    BY <1>2, <1>6, <2>2, SeqEqual
<1> QED
  BY <1>1, <1>2, <1>3, <1>7 DEF a, b, d

\* A sequence is its front and its last element.
LEMMA FrontAndLast ==
    ASSUME NEW S, NEW s \in Seq(S), NEW e \in S
    PROVE  /\ SubSeq(Append(s, e), 1, Len(s)) = s
           /\ s # << >> => s = Append(SubSeq(s, 1, Len(s) - 1), s[Len(s)])
<1>1. Len(s) \in Nat /\ DOMAIN s = 1 .. Len(s) /\ \A i \in 1 .. Len(s) : s[i] \in S
  BY LenProperties
<1>2. SubSeq(Append(s, e), 1, Len(s)) = s
  <2>1. Append(s, e) \in Seq(S) /\ \A i \in 1 .. Len(s) : Append(s, e)[i] = s[i]
    BY AppendProperties
  <2> DEFINE f == SubSeq(Append(s, e), 1, Len(s))
  <2>2. /\ f \in Seq(S) /\ Len(f) = IF 1 <= Len(s) THEN Len(s) - 1 + 1 ELSE 0
        /\ \A i \in 1 .. Len(s) - 1 + 1 : f[i] = Append(s, e)[1 + i - 1]
    BY <1>1, <2>1, SubSeqProperties
  <2> HIDE DEF f
  <2>3. Len(f) = Len(s) /\ \A i \in 1 .. Len(s) : f[i] = s[i]
    BY <1>1, <2>1, <2>2
  <2>4. f = s
    BY <2>2, <2>3, SeqEqual
  <2> QED
    BY <2>4 DEF f
<1>3. ASSUME s # << >> PROVE s = Append(SubSeq(s, 1, Len(s) - 1), s[Len(s)])
  <2>1. PICK t \in Seq(S), x \in S : s = Append(t, x)
    BY <1>3, SequenceEmptyOrAppend
  <2>2. Len(s) = Len(t) + 1 /\ s[Len(s)] = x /\ \A i \in 1 .. Len(t) : s[i] = t[i]
    BY <2>1, AppendProperties
  <2>3. Len(t) \in Nat /\ Len(s) - 1 = Len(t)
    BY <2>2, LenProperties
  <2> DEFINE f == SubSeq(s, 1, Len(t))
  <2>4. /\ f \in Seq(S) /\ Len(f) = IF 1 <= Len(t) THEN Len(t) - 1 + 1 ELSE 0
        /\ \A i \in 1 .. Len(t) - 1 + 1 : f[i] = s[1 + i - 1]
    BY <1>1, <2>2, <2>3, SubSeqProperties
  <2> HIDE DEF f
  <2>5. Len(f) = Len(t) /\ \A i \in 1 .. Len(t) : f[i] = t[i]
    BY <2>2, <2>3, <2>4
  <2>6. f = t
    BY <2>4, <2>5, SeqEqual
  <2> QED
    BY <2>1, <2>2, <2>3, <2>6 DEF f
<1> QED
  BY <1>2, <1>3

\* The abstract state in terms of the histories.
LEMMA Mapped ==
    ASSUME QueueInv
    PROVE  /\ claimed \in Seq(Events) /\ Len(claimed) = enqueue /\ enqueue \in Nat /\ dequeue \in Nat
           /\ HeadPosition \in 0 .. Len(claimed) /\ enqueue <= HeadPosition + Capacity
           /\ FifoBuffer = SubSeq(claimed, HeadPosition + 1, Len(claimed))
           /\ Len(FifoBuffer) = enqueue - HeadPosition
           /\ popped \in Seq(Events) /\ dropped \in Nat /\ taken \in Nat
<1>1. /\ claimed \in Seq(Events) /\ Len(claimed) = enqueue /\ enqueue \in Nat /\ dequeue \in Nat
      /\ popped \in Seq(Events) /\ dropped \in Nat /\ taken \in Nat
  BY CapacityAssumption DEF QueueInv, TypeOK, HistoryLengths
<1>2. HeadPosition \in 0 .. Len(claimed) /\ enqueue <= HeadPosition + Capacity
  BY <1>1 DEF QueueInv, WindowBounded, HeadPosition
<1>3. FifoBuffer = SubSeq(claimed, HeadPosition + 1, Len(claimed))
  BY <1>1 DEF FifoBuffer
<1> QED
  BY <1>1, <1>2, <1>3, Unconsumed

\* A reservation accepts.
LEMMA ClaimAccepts ==
    ASSUME NEW p \in Producers, QueueInv, Claim(p)
    PROVE  Fifo!Accept
<1> USE CapacityAssumption DEF Goto
<1>t. TypeOK
  BY DEF QueueInv
<1>1. Len(FifoBuffer) < Capacity
  BY Mapped, ClaimHasRoom
<1>2. enqueue < MaxCount /\ enqueue' = enqueue + 1
  BY <1>t DEF Claim, QueueInv, ProducersBehind, Behind, TypeOK
<1>3. Event(p) \in Events
  BY <1>t DEF Event, Events, TypeOK
<1>4. FifoBuffer' = SubSeq(Append(claimed, Event(p)), HeadPosition + 1, Len(claimed) + 1)
  <2>1. HeadPosition' = HeadPosition /\ claimed' = Append(claimed, Event(p))
    BY DEF Claim, HeadPosition
  <2> QED
    BY <1>2, <2>1, Mapped DEF FifoBuffer
<1>5. Len(FifoBuffer') = Len(FifoBuffer) + 1 /\ SubSeq(FifoBuffer', 1, Len(FifoBuffer)) = FifoBuffer
  BY <1>3, <1>4, Mapped, UnconsumedGrows
<1>6. FifoDelivered' = FifoDelivered
  BY DEF Claim, FifoDelivered
<1>7. FifoLost' = FifoLost
  <2>1. Decided' = Decided
    BY <1>t DEF Claim, Decided, TypeOK
  <2> QED
    BY <2>1 DEF Claim, FifoLost
<1> QED
  BY <1>1, <1>2, <1>5, <1>6, <1>7 DEF Fifo!Accept

\* The decision to drop loses one, of a full ring or at the end of the positions.
LEMMA DropLoses ==
    ASSUME NEW p \in Producers, QueueInv, Fresh, Check(p), pc'[p] = "pin"
    PROVE  Fifo!Lose
<1>t. TypeOK
  BY DEF QueueInv
<1>1. Len(FifoBuffer) = Capacity \/ enqueue = MaxCount
  <2> SUFFICES ASSUME enqueue # MaxCount PROVE enqueue = HeadPosition + Capacity
    BY Mapped, CapacityAssumption
  <2>1. [Next]_vars /\ pc[p] = "check"
    BY DEF Check, Next, Producer
  <2> QED
    BY <2>1, DropStep DEF Fresh
<1>2. Decided' = Decided \cup {p} /\ p \notin Decided
  BY <1>t DEF Check, Goto, Decided, TypeOK
<1>3. Cardinality(Decided') = Cardinality(Decided) + 1 /\ Cardinality(Decided) \in Nat
  BY <1>2, CallsFinite, OneMore
<1>4. FifoLost' = FifoLost + 1
  BY <1>3, Mapped DEF Check, shared, history, FifoLost
<1>5. FifoBuffer' = FifoBuffer /\ FifoDelivered' = FifoDelivered /\ enqueue' = enqueue
  BY DEF Check, shared, history, FifoBuffer, FifoDelivered, HeadPosition
<1> QED
  BY <1>1, <1>4, <1>5 DEF Fifo!Lose

\* Handing the slot back delivers the oldest event.
LEMMA ReleaseDelivers ==
    ASSUME QueueInv, PopRelease
    PROVE  Fifo!Deliver
<1> USE CapacityAssumption
<1>1. /\ HeadPosition = dequeue /\ HeadPosition' = dequeue + 1 /\ dequeue < enqueue
      /\ enqueue' = enqueue /\ claimed' = claimed /\ popped' = popped
      /\ cpc = "release" /\ cpc' = "advance" /\ Len(popped) = dequeue + 1
  BY DEF PopRelease, QueueInv, TypeOK, WindowBounded, HistoryLengths, HeadPosition, history
<1>2. /\ Head(FifoBuffer) = claimed[dequeue + 1]
      /\ Tail(FifoBuffer) = SubSeq(claimed, dequeue + 1 + 1, Len(claimed))
  <2>1. dequeue + 1 \in 1 .. Len(claimed) /\ Len(claimed) \in dequeue + 1 .. Len(claimed)
    BY <1>1, Mapped
  <2>2. claimed \in Seq(Events) /\ FifoBuffer = SubSeq(claimed, dequeue + 1, Len(claimed))
    BY <1>1, Mapped
  <2> QED
    BY <2>1, <2>2, HeadTailOfSubSeq
<1>3. FifoBuffer' = Tail(FifoBuffer)
  BY <1>1, <1>2, Mapped DEF FifoBuffer
<1>4. FifoBuffer # << >>
  BY <1>1, Mapped, EmptySeq
<1>5. FifoDelivered' = Append(FifoDelivered, Head(FifoBuffer))
  <2>1. FifoDelivered' = popped /\ FifoDelivered = SubSeq(popped, 1, Len(popped) - 1)
    BY <1>1 DEF FifoDelivered
  <2>2. popped[Len(popped)] = claimed[dequeue + 1]
    <3>1. \A k \in 1 .. Len(popped) : popped[k] = claimed[k]
      BY DEF QueueInv, ReservationOrder
    <3>2. dequeue \in Nat /\ dequeue + 1 \in 1 .. Len(popped)
      BY <1>1, Mapped
    <3> QED
      BY <1>1, <3>1, <3>2
  <2>3. popped \in Seq(Events) /\ popped # << >>
    BY <1>1, Mapped, EmptySeq
  <2>4. popped[Len(popped)] \in Events
    BY <1>1, <2>3, Mapped, LenProperties
  <2>5. popped = Append(SubSeq(popped, 1, Len(popped) - 1), popped[Len(popped)])
    BY <2>3, <2>4, FrontAndLast
  <2> QED
    BY <1>2, <2>1, <2>2, <2>5
<1>6. FifoLost' = FifoLost
  BY DEF PopRelease, producers, history, FifoLost, Decided
<1> QED
  BY <1>1, <1>3, <1>4, <1>5, <1>6 DEF Fifo!Deliver

\* reset_quiescent restarts.
LEMMA ResetRestarts == ASSUME QueueInv, Reset PROVE Fifo!Restart
<1>1. cpc = "idle" /\ cpc' = "idle" /\ Decided' = {}
  BY DEF Reset, Quiescent, producers, Decided
<1>2. FifoBuffer' = << >>
  BY <1>1, SubSeqEmpty DEF Reset, FifoBuffer, HeadPosition
<1>3. FifoDelivered' = << >> /\ enqueue' = 0
  BY <1>1 DEF Reset, FifoDelivered
<1>4. FifoLost' = 0
  BY <1>1, FS_EmptySet DEF Reset, FifoLost
<1> QED
  BY <1>2, <1>3, <1>4 DEF Fifo!Restart

\* The other steps of the producers are not seen, as long as no count saturates.
LEMMA ProducerUnseen ==
    ASSUME NEW p \in Producers, QueueInv, AccountInv, MaxOffers <= MaxCount, Producer(p), ~Claim(p),
           ~(Check(p) /\ pc'[p] = "pin")
    PROVE  UNCHANGED Fifo!fifoVars
<1> USE DEF Goto
<1>t. TypeOK
  BY DEF QueueInv
<1>1. FifoBuffer' = FifoBuffer /\ FifoDelivered' = FifoDelivered /\ enqueue' = enqueue
  <2>1. UNCHANGED <<claimed, popped, enqueue, dequeue, cpc>>
    BY DEF Producer, Offer, Check, Reload, Claim, ClaimFails, Touch, Fill, Publish, PinHighWater,
           CountDrop, shared, history
  <2> QED
    BY <2>1 DEF FifoBuffer, FifoDelivered, HeadPosition
<1>2. FifoLost' = FifoLost
  <2>1. CASE CountDrop(p)
    <3>1. Decided' = Decided \ {p} /\ p \in Decided /\ p \in Undecided
      BY <2>1, <1>t DEF CountDrop, Decided, Undecided, TypeOK
    <3>2. Cardinality(Decided') = Cardinality(Decided) - 1 /\ Cardinality(Decided) \in Nat
      BY <3>1, CallsFinite, OneLess
    <3>3. Cardinality(Undecided) \in Nat /\ Cardinality(Undecided) >= 1
      BY <3>1, CallsFinite, OneLess
    <3>4. dropped # MaxCount
      <4>1. offered <= MaxCount /\ offered = enqueue + dropped + taken + Cardinality(Undecided)
        BY <1>t, BoundsAssumption, CapacityAssumption DEF AccountInv, OfferAccounting, TypeOK
      <4>2. enqueue \in Nat /\ dropped \in Nat /\ taken \in Nat /\ MaxCount \in Nat
        BY Mapped, CapacityAssumption
      <4> QED
        BY <3>3, <4>1, <4>2
    <3>5. dropped' = dropped + 1 /\ taken' = taken
      BY <2>1, <3>4 DEF CountDrop, history
    <3> QED
      BY <3>2, <3>5, Mapped DEF FifoLost
  <2>2. CASE ~CountDrop(p)
    <3>1. Decided' = Decided
      BY <2>2, <1>t DEF Producer, Offer, Check, Reload, Claim, ClaimFails, Touch, Fill, Publish,
             PinHighWater, Decided, TypeOK
    <3>2. dropped' = dropped /\ taken' = taken
      BY <2>2 DEF Producer, Offer, Check, Reload, Claim, ClaimFails, Touch, Fill, Publish,
             PinHighWater, shared, history
    <3> QED
      BY <3>1, <3>2 DEF FifoLost
  <2> QED
    BY <2>1, <2>2
<1> QED
  BY <1>1, <1>2 DEF Fifo!fifoVars

\* Nor are those of the others.
LEMMA OthersUnseen ==
    ASSUME QueueInv,
           PopBegin \/ PopSample \/ PopCopy \/ PopAdvance \/ TakeDropped \/ Occupancy \/ UNCHANGED vars
    PROVE  UNCHANGED Fifo!fifoVars
<1> USE DEF Occupancy, PopBegin, PopSample, PopCopy, PopAdvance, TakeDropped, OccupancyLoadEnqueue,
            OccupancyLoadDequeue, vars, shared, producers, history
<1>1. FifoBuffer' = FifoBuffer /\ enqueue' = enqueue
  <2>1. HeadPosition' = HeadPosition /\ claimed' = claimed /\ enqueue' = enqueue
    BY Mapped DEF HeadPosition
  <2> QED
    BY <2>1 DEF FifoBuffer
<1>2. FifoDelivered' = FifoDelivered
  <2>1. CASE PopCopy
    <3>1. value[Index(dequeue)] \in Events
      BY Mapped, IndexRange DEF QueueInv, TypeOK
    <3>2. SubSeq(Append(popped, value[Index(dequeue)]), 1, Len(popped)) = popped
      BY <3>1, Mapped, FrontAndLast
    <3>3. Len(Append(popped, value[Index(dequeue)])) - 1 = Len(popped)
      BY <3>1, Mapped, AppendProperties, LenProperties
    <3> QED
      BY <2>1, <3>2, <3>3 DEF FifoDelivered
  <2>2. CASE ~PopCopy
    BY <2>2 DEF FifoDelivered
  <2> QED
    BY <2>1, <2>2
<1>3. FifoLost' = FifoLost
  <2>1. Decided' = Decided
    BY DEF Decided
  <2>2. dropped' + taken' = dropped + taken
    BY Mapped
  <2> QED
    BY <2>1, <2>2 DEF FifoLost
<1> QED
  BY <1>1, <1>2, <1>3 DEF Fifo!fifoVars

\* Every step is a step of EventFifo.
LEMMA FifoStep ==
    ASSUME MaxOffers <= MaxCount, QueueInv, AccountInv, Fresh, [Next]_vars
    PROVE  [Fifo!Next]_(Fifo!fifoVars)
<1>1. ASSUME NEW p \in Producers, Producer(p) PROVE [Fifo!Next]_(Fifo!fifoVars)
  BY <1>1, ClaimAccepts, DropLoses, ProducerUnseen DEF Fifo!Next
<1>2. CASE PopRelease \/ Reset
  BY <1>2, ReleaseDelivers, ResetRestarts DEF Fifo!Next
<1>3. CASE PopBegin \/ PopSample \/ PopCopy \/ PopAdvance \/ TakeDropped \/ Occupancy \/ UNCHANGED vars
  BY <1>3, OthersUnseen
<1> QED
  BY <1>1, <1>2, <1>3 DEF Next, Consumer

LEMMA FifoInit == ASSUME Init PROVE Fifo!Init
<1>1. FifoBuffer = << >>
  BY SubSeqEmpty DEF Init, FifoBuffer, HeadPosition
<1>2. FifoLost = 0
  <2>1. Decided = {}
    BY DEF Init, Decided
  <2> QED
    BY <2>1, FS_EmptySet DEF Init, FifoLost
<1> QED
  BY <1>1, <1>2 DEF Init, Fifo!Init, FifoDelivered

\* ImplementsFifo: with fewer offers between two resets than the counters can count, and no
\* producer asleep for half their range, the queue is a bounded first-in first-out buffer
\* that loses an event only when it is full and counts what it loses.
THEOREM QueueImplementsFifo ==
    ASSUME MaxOffers <= MaxCount
    PROVE  Spec /\ []Fresh => ImplementsFifo
<1>1. Init => QueueInv /\ AccountInv /\ Fifo!Init
  BY QueueInit, AccountInit, FifoInit
<1>2. QueueInv /\ AccountInv /\ [Next]_vars => QueueInv' /\ AccountInv'
  BY QueueStep, AccountStep
<1>3. QueueInv /\ AccountInv /\ Fresh /\ [Next]_vars => [Fifo!Next]_(Fifo!fifoVars)
  BY FifoStep
<1> QED
  BY <1>1, <1>2, <1>3, PTL DEF Spec, ImplementsFifo, Fifo!Spec
============================================================================
