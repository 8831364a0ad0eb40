-------------------- MODULE ReplacementLifecycleProofs --------------------
(***************************************************************************)
(* What every wait of replacement_lifecycle.hpp promises, proved for any   *)
(* finite set of threads and any depth of nested calls.                    *)
(*                                                                         *)
(* The argument rests on the counters: each is the cardinality of the set  *)
(* of calls between its increment and its decrement (CountersExact).  A    *)
(* step of a thread moves one call across one such boundary (LocalCounters) *)
(* or suspends and resumes a body (FrameMoves).  When a wait reads zero,    *)
(* CounterZero empties the region, and the progress conjuncts say why the   *)
(* regions read earlier in the same condition cannot be re-entered with    *)
(* what the wait rules out.                                                *)
(***************************************************************************)
EXTENDS ReplacementLifecycle, FiniteSetTheorems, TLAPS

USE LifecycleAssumption

\* Finitely many threads in boundedly many nested calls.
LEMMA CallsFinite ==
    /\ IsFiniteSet(Threads \X (0 .. MaxDepth))
    /\ \A c \in Counters : IsFiniteSet(Inside(c)) /\ Cardinality(Inside(c)) \in Nat
<1>1. IsFiniteSet(0 .. MaxDepth)
    BY FS_Interval
<1>2. IsFiniteSet(Threads \X (0 .. MaxDepth))
    BY <1>1, FS_Product
<1>3. \A c \in Counters : Inside(c) \in SUBSET (Threads \X (0 .. MaxDepth))
    BY DEF Inside, Calls
<1>4. \A c \in Counters : IsFiniteSet(Inside(c))
    BY <1>2, <1>3, FS_Subset
<1>5. QED
    BY <1>2, <1>4, FS_CardinalityType

\* Two finite sets that differ in one element at most.
LEMMA OneElement ==
    ASSUME NEW S, NEW T, NEW e, IsFiniteSet(S), IsFiniteSet(T), S \ {e} = T \ {e}
    PROVE  Cardinality(T) + (IF e \in S THEN 1 ELSE 0)
             = Cardinality(S) + (IF e \in T THEN 1 ELSE 0)
<1>1. Cardinality(S) \in Nat /\ Cardinality(T) \in Nat
    BY FS_CardinalityType
<1>2. Cardinality(S \ {e}) = IF e \in S THEN Cardinality(S) - 1 ELSE Cardinality(S)
    BY FS_RemoveElement
<1>3. Cardinality(T \ {e}) = IF e \in T THEN Cardinality(T) - 1 ELSE Cardinality(T)
    BY FS_RemoveElement
<1>4. QED
    BY <1>1, <1>2, <1>3

\* The innermost call of a thread is in a region when the thread is.
LEMMA InnermostCall ==
    ASSUME TypeOK, NEW t \in Threads, NEW c \in Counters
    PROVE  <<t, Len(frames[t])>> \in Inside(c) <=> Holds(t, c)
<1>1. Len(frames[t]) \in 0 .. MaxDepth
    BY DEF TypeOK, ThreadsOK
<1>2. QED
    BY <1>1 DEF Inside, Calls, HeldBy

\* What it takes for thread u to look the same to every counter.
Same(u) == pc'[u] = pc[u] /\ resume'[u] = resume[u] /\ snapshot'[u] = snapshot[u]

\* A step of one thread that counts what it crosses keeps every counter exact.
LEMMA LocalCounters ==
    ASSUME TypeOK, CountersExact, NEW t \in Threads, TypeOK',
           frames' = frames, \A u \in Threads \ {t} : Same(u),
           \A c \in Counters : count'[c] + (IF Holds(t, c) THEN 1 ELSE 0)
                                 = count[c] + (IF Holds(t, c)' THEN 1 ELSE 0)
    PROVE  CountersExact'
<1> DEFINE e == <<t, Len(frames[t])>>
<1> SUFFICES ASSUME NEW c \in Counters PROVE count'[c] = Cardinality(Inside(c)')
    BY DEF CountersExact
<1>1. /\ e \in Inside(c) <=> Holds(t, c)
      /\ e \in Inside(c)' <=> Holds(t, c)'
  <2>1. e \in Inside(c) <=> Holds(t, c)
    BY InnermostCall
  <2>2. Len(frames'[t]) \in 0 .. MaxDepth
    BY DEF TypeOK, ThreadsOK
  <2>3. e \in Inside(c)' <=> Holds(t, c)'
    BY <2>2 DEF Inside, Calls, HeldBy
  <2> QED BY <2>1, <2>3
<1>2. Inside(c) \ {e} = Inside(c)' \ {e}
  <2>1. ASSUME NEW x \in Threads \X (0 .. MaxDepth), x # e
        PROVE  x \in Inside(c) <=> x \in Inside(c)'
    <3>1. PICK u \in Threads, i \in 0 .. MaxDepth : x = <<u, i>>
        OBVIOUS
    <3>2. CASE i = Len(frames[u])
        <4>1. u # t
            BY <2>1, <3>1, <3>2
        <4>2. Holds(u, c) <=> Holds(u, c)'
            BY <4>1 DEF Same, Holds, At
        <4>3. QED
            BY <3>1, <3>2, <4>2 DEF Inside, Calls, HeldBy
    <3>3. CASE i # Len(frames[u])
        BY <3>1, <3>3 DEF Inside, Calls, HeldBy
    <3>4. QED
        BY <3>2, <3>3
  <2>2. QED
    BY <2>1 DEF Inside, Calls
<1>3. IsFiniteSet(Inside(c)) /\ Cardinality(Inside(c)) \in Nat
    BY CallsFinite
<1>4. IsFiniteSet(Inside(c)') /\ Cardinality(Inside(c)') \in Nat
  <2>1. Inside(c)' \in SUBSET (Threads \X (0 .. MaxDepth))
    BY DEF Inside, Calls
  <2>2. QED
    BY <2>1, CallsFinite, FS_Subset, FS_CardinalityType
<1>5. Cardinality(Inside(c)') + (IF Holds(t, c) THEN 1 ELSE 0)
        = Cardinality(Inside(c)) + (IF Holds(t, c)' THEN 1 ELSE 0)
    BY <1>1, <1>2, <1>3, <1>4, OneElement
<1>6. count[c] = Cardinality(Inside(c)) /\ count'[c] \in Nat
    BY DEF CountersExact, TypeOK, ThreadsOK
<1>7. QED
    BY <1>3, <1>4, <1>5, <1>6

\* A counted call keeps its counter above zero.
LEMMA CounterPositive ==
    ASSUME TypeOK, CountersExact, NEW t \in Threads, NEW c \in Counters, Holds(t, c)
    PROVE  count[c] >= 1
<1>1. Inside(c) # {}
    BY InnermostCall
<1>2. Cardinality(Inside(c)) # 0 /\ Cardinality(Inside(c)) \in Nat
    BY <1>1, CallsFinite, FS_EmptySet
<1>3. QED
    BY <1>2 DEF CountersExact

\* A zero counter covers nobody, suspended frames included.
LEMMA CounterZero ==
    ASSUME TypeOK, CountersExact, NEW c \in Counters, count[c] = 0
    PROVE  \A t \in Threads :
               /\ ~ Holds(t, c)
               /\ c \in {"active_calls", "in_flight"} => frames[t] = << >>
               /\ c = "recording_in_flight" =>
                      \A i \in DOMAIN frames[t] : frames[t][i] # "record"
<1>1. Inside(c) = {}
    BY CallsFinite, FS_EmptySet DEF CountersExact
<1> TAKE t \in Threads
<1>2. ~ Holds(t, c)
    BY <1>1, InnermostCall
<1>3. ASSUME NEW i \in DOMAIN frames[t]
      PROVE  /\ c \notin {"active_calls", "in_flight"}
             /\ c = "recording_in_flight" => frames[t][i] # "record"
  <2>1. i \in 1 .. Len(frames[t]) /\ Len(frames[t]) <= MaxDepth /\ Len(frames[t]) \in Nat
    BY DEF TypeOK, ThreadsOK
  <2>2. <<t, i - 1>> \in Calls /\ i - 1 # Len(frames[t]) /\ (i - 1) + 1 = i
    BY <2>1 DEF Calls
  <2>3. QED
    BY <1>1, <2>2 DEF Inside, HeldBy
<1>4. frames[t] = << >> \/ 1 \in DOMAIN frames[t]
    BY DEF TypeOK, ThreadsOK
<1>5. QED
    BY <1>2, <1>3, <1>4

\* What a step of thread t does to the counters, if it pushes and pops no frame.
Tally(t) ==
    /\ frames' = frames /\ \A u \in Threads \ {t} : Same(u)
    /\ \A c \in Counters : count'[c] + (IF Holds(t, c) THEN 1 ELSE 0)
                             = count[c] + (IF Holds(t, c)' THEN 1 ELSE 0)

\* The invariant without types and counters.
Promises ==
    /\ NestedBypass /\ RouteKept /\ CloseProgress /\ RecordingProgress /\ QuiesceProgress
    /\ WakeupDue /\ GateSealed /\ RecordingStopped /\ TrampolinesUnused

\* How the steps of a thread are put together.
LEMMA LocalStep ==
    ASSUME LifecycleInv, NEW t \in Threads, TypeOK', Tally(t), Promises'
    PROVE  LifecycleInv'
<1>1. CountersExact'
    BY LocalCounters DEF LifecycleInv, Tally
<1>2. QED
    BY <1>1 DEF LifecycleInv, Promises

\* The way in: gate, parking and entry_unscoped preserve the invariant.
LEMMA ThreadEnters ==
    ASSUME LifecycleInv, NEW t \in Threads, Enter(t)
    PROVE  LifecycleInv'
<1> USE DEF LifecycleInv, TypeOK, ThreadsOK, WaiterOK, Stages, Step, Increment, Decrement, gate, waiter, Counters, At,
        Labels, Announced, Parking, Entering, Flying, Active, Nested
<1>1. CASE Bypass(t)
  <2>2. TypeOK'
    BY <1>1 DEF Bypass
  <2>3. Tally(t)
    BY <1>1 DEF Bypass, Tally, Same, Holds, RouteKept
  <2>4. Promises'
    BY <1>1 DEF Bypass, Promises, NestedBypass, RouteKept, CloseProgress,
        RecordingProgress, QuiesceProgress, WakeupDue, Evaluating, GateSealed,
        RecordingStopped, TrampolinesUnused
  <2>5. QED
    BY <2>2, <2>3, <2>4, LocalStep
<1>2. CASE Announce(t)
  <2>0. /\ pc[t] \in {"arrive", "retry"} /\ frames[t] = << >>
        /\ pc' = [pc EXCEPT ![t] = "look"]
    BY <1>2 DEF Announce
  <2>2. TypeOK'
    BY <2>0, <1>2 DEF Announce
  <2>3. Tally(t)
    BY <2>0, <1>2 DEF Announce, Tally, Same, Holds, RouteKept
  <2>4. Promises'
    BY <2>0, <1>2 DEF Announce, Promises, NestedBypass, RouteKept, CloseProgress,
        RecordingProgress, QuiesceProgress, WakeupDue, Evaluating, GateSealed,
        RecordingStopped, TrampolinesUnused
  <2>5. QED
    BY <2>2, <2>3, <2>4, LocalStep
<1>3. CASE Look(t)
  <2>1. frames[t] = << >>
    BY <1>3 DEF Look, NestedBypass
  <2>2. TypeOK'
    BY <1>3 DEF Look
  <2>3. Tally(t)
    BY <1>3 DEF Look, Tally, Same, Holds, RouteKept
  <2>4. Promises'
    BY <2>1, <1>3 DEF Look, Promises, NestedBypass, RouteKept, CloseProgress,
        RecordingProgress, QuiesceProgress, WakeupDue, Evaluating, GateSealed,
        RecordingStopped, TrampolinesUnused
  <2>5. QED
    BY <2>2, <2>3, <2>4, LocalStep
<1>4. CASE Activate(t)
  <2>2. TypeOK'
    BY <1>4 DEF Activate
  <2>3. Tally(t)
    BY <1>4 DEF Activate, Tally, Same, Holds, RouteKept
  <2>4. Promises'
    BY <1>4 DEF Activate, Promises, NestedBypass, RouteKept, CloseProgress,
        RecordingProgress, QuiesceProgress, WakeupDue, Evaluating, GateSealed,
        RecordingStopped, TrampolinesUnused
  <2>5. QED
    BY <2>2, <2>3, <2>4, LocalStep
<1>5. CASE Settle(t)
  <2>0. count["gate_transitions"] >= 1
    BY <1>5, CounterPositive DEF Settle, Holds
  <2>1. frames[t] = << >>
    BY <1>5 DEF Settle, NestedBypass
  <2>2. TypeOK'
    BY <2>0, <1>5 DEF Settle
  <2>3. Tally(t)
    BY <2>0, <1>5 DEF Settle, Tally, Same, Holds, RouteKept
  <2>4. Promises'
    BY <2>0, <2>1, <1>5 DEF Settle, Promises, NestedBypass, RouteKept, CloseProgress,
        RecordingProgress, QuiesceProgress, WakeupDue, Evaluating, GateSealed,
        RecordingStopped, TrampolinesUnused
  <2>5. QED
    BY <2>2, <2>3, <2>4, LocalStep
<1>6. CASE Refuse(t)
  <2>0. count["gate_transitions"] >= 1
    BY <1>6, CounterPositive DEF Refuse, Holds
  <2>1. frames[t] = << >>
    BY <1>6 DEF Refuse, NestedBypass
  <2>2. TypeOK'
    BY <2>0, <1>6 DEF Refuse
  <2>3. Tally(t)
    BY <2>0, <1>6 DEF Refuse, Tally, Same, Holds, RouteKept
  <2>4. Promises'
    BY <2>0, <2>1, <1>6 DEF Refuse, Promises, NestedBypass, RouteKept, CloseProgress,
        RecordingProgress, QuiesceProgress, WakeupDue, Evaluating, GateSealed,
        RecordingStopped, TrampolinesUnused
  <2>5. QED
    BY <2>2, <2>3, <2>4, LocalStep
<1>7. CASE Park(t)
  <2>2. TypeOK'
    BY <1>7 DEF Park
  <2>3. Tally(t)
    BY <1>7 DEF Park, Tally, Same, Holds, RouteKept
  <2>4. Promises'
    BY <1>7, SMTT(30) DEF Park, Promises, NestedBypass, RouteKept, CloseProgress,
        RecordingProgress, QuiesceProgress, WakeupDue, Evaluating, GateSealed,
        RecordingStopped, TrampolinesUnused
  <2>5. QED
    BY <2>2, <2>3, <2>4, LocalStep
<1>8. CASE LoadEpoch(t)
  <2>2. TypeOK'
    BY <1>8 DEF LoadEpoch
  <2>3. Tally(t)
    BY <1>8 DEF LoadEpoch, Tally, Same, Holds, RouteKept
  <2>4. Promises'
    BY <1>8 DEF LoadEpoch, Promises, NestedBypass, RouteKept, CloseProgress,
        RecordingProgress, QuiesceProgress, WakeupDue, Evaluating, GateSealed,
        RecordingStopped, TrampolinesUnused
  <2>5. QED
    BY <2>2, <2>3, <2>4, LocalStep
<1>9. CASE Relook(t)
  <2>2. TypeOK'
    BY <1>9 DEF Relook
  <2>3. Tally(t)
    BY <1>9 DEF Relook, Tally, Same, Holds, RouteKept
  <2>4. Promises'
    BY <1>9 DEF Relook, Promises, NestedBypass, RouteKept, CloseProgress,
        RecordingProgress, QuiesceProgress, WakeupDue, Evaluating, GateSealed,
        RecordingStopped, TrampolinesUnused
  <2>5. QED
    BY <2>2, <2>3, <2>4, LocalStep
<1>10. CASE Wake(t)
  <2>2. TypeOK'
    BY <1>10 DEF Wake
  <2>3. Tally(t)
    BY <1>10 DEF Wake, Tally, Same, Holds, RouteKept
  <2>4. Promises'
    BY <1>10 DEF Wake, Promises, NestedBypass, RouteKept, CloseProgress,
        RecordingProgress, QuiesceProgress, WakeupDue, Evaluating, GateSealed,
        RecordingStopped, TrampolinesUnused
  <2>5. QED
    BY <2>2, <2>3, <2>4, LocalStep
<1>11. CASE Unpark(t)
  <2>0. count["gate_waiters"] >= 1
    BY <1>11, CounterPositive DEF Unpark, Holds
  <2>1. frames[t] = << >>
    BY <1>11 DEF Unpark, NestedBypass
  <2>2. TypeOK'
    BY <2>0, <1>11 DEF Unpark
  <2>3. Tally(t)
    BY <2>0, <1>11 DEF Unpark, Tally, Same, Holds, RouteKept
  <2>4. Promises'
    BY <2>0, <2>1, <1>11 DEF Unpark, Promises, NestedBypass, RouteKept, CloseProgress,
        RecordingProgress, QuiesceProgress, WakeupDue, Evaluating, GateSealed,
        RecordingStopped, TrampolinesUnused
  <2>5. QED
    BY <2>2, <2>3, <2>4, LocalStep
<1>12. CASE BeginEntry(t)
  <2>2. TypeOK'
    BY <1>12 DEF BeginEntry
  <2>3. Tally(t)
    BY <1>12 DEF BeginEntry, Tally, Same, Holds, RouteKept
  <2>4. Promises'
    <3>1. NestedBypass' /\ RouteKept' /\ WakeupDue'
        BY <1>12 DEF BeginEntry, NestedBypass, RouteKept, WakeupDue
    <3>2. CloseProgress' /\ GateSealed'
        BY <1>12 DEF BeginEntry, CloseProgress, GateSealed, Evaluating
    <3>3. RecordingProgress' /\ RecordingStopped'
        BY <1>12 DEF BeginEntry, RecordingProgress, RecordingStopped, Evaluating
    <3>4. QuiesceProgress' /\ TrampolinesUnused'
        BY <1>12 DEF BeginEntry, QuiesceProgress, TrampolinesUnused, Evaluating
    <3>5. QED
        BY <3>1, <3>2, <3>3, <3>4 DEF Promises
  <2>5. QED
    BY <2>2, <2>3, <2>4, LocalStep
<1>13. CASE ReadRoute(t)
  <2>2. TypeOK'
    BY <1>13 DEF ReadRoute
  <2>3. Tally(t)
    BY <1>13 DEF ReadRoute, Tally, Same, Holds, RouteKept
  <2>4. Promises'
    BY <1>13 DEF ReadRoute, Promises, NestedBypass, RouteKept, CloseProgress,
        RecordingProgress, QuiesceProgress, WakeupDue, Evaluating, GateSealed,
        RecordingStopped, TrampolinesUnused
  <2>5. QED
    BY <2>2, <2>3, <2>4, LocalStep
<1>14. CASE CountInFlight(t)
  <2>2. TypeOK'
    BY <1>14 DEF CountInFlight
  <2>3. Tally(t)
    BY <1>14 DEF CountInFlight, Tally, Same, Holds, RouteKept
  <2>4. Promises'
    <3>1. NestedBypass' /\ RouteKept' /\ WakeupDue'
        BY <1>14 DEF CountInFlight, NestedBypass, RouteKept, WakeupDue
    <3>2. CloseProgress' /\ GateSealed'
        BY <1>14 DEF CountInFlight, CloseProgress, GateSealed, Evaluating
    <3>3. RecordingProgress' /\ RecordingStopped'
        BY <1>14 DEF CountInFlight, RecordingProgress, RecordingStopped, Evaluating
    <3>4. QuiesceProgress' /\ TrampolinesUnused'
        BY <1>14 DEF CountInFlight, QuiesceProgress, TrampolinesUnused, Evaluating
    <3>5. QED
        BY <3>1, <3>2, <3>3, <3>4 DEF Promises
  <2>5. QED
    BY <2>2, <2>3, <2>4, LocalStep
<1>15. CASE CountRecording(t)
  <2>2. TypeOK'
    BY <1>15 DEF CountRecording
  <2>3. Tally(t)
    BY <1>15 DEF CountRecording, Tally, Same, Holds, RouteKept
  <2>4. Promises'
    <3>1. NestedBypass' /\ RouteKept' /\ WakeupDue'
        BY <1>15 DEF CountRecording, NestedBypass, RouteKept, WakeupDue
    <3>2. CloseProgress' /\ GateSealed'
        BY <1>15 DEF CountRecording, CloseProgress, GateSealed, Evaluating
    <3>3. RecordingProgress' /\ RecordingStopped'
        BY <1>15 DEF CountRecording, RecordingProgress, RecordingStopped, Evaluating
    <3>4. QuiesceProgress' /\ TrampolinesUnused'
        BY <1>15 DEF CountRecording, QuiesceProgress, TrampolinesUnused, Evaluating
    <3>5. QED
        BY <3>1, <3>2, <3>3, <3>4 DEF Promises
  <2>5. QED
    BY <2>2, <2>3, <2>4, LocalStep
<1>16. CASE EndEntry(t)
  <2>0. count["entry_transitions"] >= 1
    BY <1>16, CounterPositive DEF EndEntry, Holds
  <2>2. TypeOK'
    BY <2>0, <1>16 DEF EndEntry
  <2>3. Tally(t)
    BY <2>0, <1>16 DEF EndEntry, Tally, Same, Holds, RouteKept
  <2>4. Promises'
    <3>1. NestedBypass' /\ RouteKept' /\ WakeupDue'
        BY <2>0, <1>16 DEF EndEntry, NestedBypass, RouteKept, WakeupDue
    <3>2. CloseProgress' /\ GateSealed'
        BY <1>16 DEF EndEntry, CloseProgress, GateSealed, Evaluating
    <3>3. RecordingProgress' /\ RecordingStopped'
        BY <1>16 DEF EndEntry, RecordingProgress, RecordingStopped, Evaluating
    <3>4. QuiesceProgress' /\ TrampolinesUnused'
        BY <1>16 DEF EndEntry, QuiesceProgress, TrampolinesUnused, Evaluating
    <3>5. QED
        BY <3>1, <3>2, <3>3, <3>4 DEF Promises
  <2>5. QED
    BY <2>2, <2>3, <2>4, LocalStep
<1> QED
    BY <1>1, <1>2, <1>3, <1>4, <1>5, <1>6, <1>7, <1>8, <1>9, <1>10, <1>11, <1>12, <1>13, <1>14, <1>15, <1>16 DEF Enter

\* The way out: leave_unscoped, leave_replacement_gate and the notification preserve it.
LEMMA ThreadLeaves ==
    ASSUME LifecycleInv, NEW t \in Threads, Leave(t) \/ LeaveInFlight(t) \/ LeaveGate(t) \/ Notify(t)
    PROVE  LifecycleInv'
<1> USE DEF LifecycleInv, TypeOK, ThreadsOK, WaiterOK, Stages, Step, Increment, Decrement, gate, waiter, Counters, At,
        Labels, Announced, Parking, Entering, Flying, Active, Nested
<1>1. CASE LeaveRecording(t)
  <2>0. count["recording_in_flight"] >= 1
    BY <1>1, CounterPositive DEF LeaveRecording, Holds
  <2>2. TypeOK'
    BY <2>0, <1>1 DEF LeaveRecording
  <2>3. Tally(t)
    BY <2>0, <1>1 DEF LeaveRecording, Tally, Same, Holds, RouteKept
  <2>4. Promises'
    BY <2>0, <1>1 DEF LeaveRecording, Promises, NestedBypass, RouteKept, CloseProgress,
        RecordingProgress, QuiesceProgress, WakeupDue, Evaluating, GateSealed,
        RecordingStopped, TrampolinesUnused
  <2>5. QED
    BY <2>2, <2>3, <2>4, LocalStep
<1>2. CASE LeaveUnrecorded(t)
  <2>2. TypeOK'
    BY <1>2 DEF LeaveUnrecorded
  <2>3. Tally(t)
    BY <1>2 DEF LeaveUnrecorded, Tally, Same, Holds, RouteKept
  <2>4. Promises'
    BY <1>2 DEF LeaveUnrecorded, Promises, NestedBypass, RouteKept, CloseProgress,
        RecordingProgress, QuiesceProgress, WakeupDue, Evaluating, GateSealed,
        RecordingStopped, TrampolinesUnused
  <2>5. QED
    BY <2>2, <2>3, <2>4, LocalStep
<1>3. CASE LeaveInFlight(t)
  <2>0. count["in_flight"] >= 1
    BY <1>3, CounterPositive DEF LeaveInFlight, Holds
  <2>2. TypeOK'
    BY <2>0, <1>3 DEF LeaveInFlight
  <2>3. Tally(t)
    BY <2>0, <1>3 DEF LeaveInFlight, Tally, Same, Holds, RouteKept
  <2>4. Promises'
    BY <2>0, <1>3 DEF LeaveInFlight, Promises, NestedBypass, RouteKept, CloseProgress,
        RecordingProgress, QuiesceProgress, WakeupDue, Evaluating, GateSealed,
        RecordingStopped, TrampolinesUnused
  <2>5. QED
    BY <2>2, <2>3, <2>4, LocalStep
<1>4. CASE LeaveGate(t)
  <2>0. count["active_calls"] >= 1
    BY <1>4, CounterPositive DEF LeaveGate, Holds
  <2>2. TypeOK'
    BY <2>0, <1>4 DEF LeaveGate
  <2>3. Tally(t)
    BY <2>0, <1>4 DEF LeaveGate, Tally, Same, Holds, RouteKept
  <2>4. Promises'
    BY <2>0, <1>4, SMTT(30) DEF LeaveGate, Promises, NestedBypass, RouteKept, CloseProgress,
        RecordingProgress, QuiesceProgress, WakeupDue, Evaluating, GateSealed,
        RecordingStopped, TrampolinesUnused
  <2>5. QED
    BY <2>2, <2>3, <2>4, LocalStep
<1>5. CASE Notify(t)
  <2>2. TypeOK'
    BY <1>5 DEF Notify
  <2>3. Tally(t)
    BY <1>5 DEF Notify, Tally, Same, Holds, RouteKept
  <2>4. Promises'
    BY <1>5 DEF Notify, Promises, NestedBypass, RouteKept, CloseProgress,
        RecordingProgress, QuiesceProgress, WakeupDue, Evaluating, GateSealed,
        RecordingStopped, TrampolinesUnused
  <2>5. QED
    BY <2>2, <2>3, <2>4, LocalStep
<1> QED
    BY <1>1, <1>2, <1>3, <1>4, <1>5 DEF Leave

\* A nested call suspends the body it is made from; returning resumes it.  The
\* suspended frame holds exactly the counters its body held.
LEMMA FrameMoves ==
    ASSUME TypeOK, TypeOK', CountersExact, NEW t \in Threads, count' = count,
           \A u \in Threads \ {t} : Same(u) /\ frames'[u] = frames[u],
           \/ /\ At(t) = "body" /\ At(t)' = "arrive"
              /\ frames'[t] = Append(frames[t], snapshot[t])
           \/ /\ At(t) = "return" /\ At(t)' = "body" /\ frames[t] # << >>
              /\ snapshot'[t] = frames[t][Len(frames[t])]
              /\ frames'[t] = SubSeq(frames[t], 1, Len(frames[t]) - 1)
    PROVE  CountersExact'
<1> SUFFICES ASSUME NEW c \in Counters PROVE Inside(c)' = Inside(c)
    BY DEF CountersExact
<1> SUFFICES ASSUME NEW u \in Threads, NEW i \in 0 .. MaxDepth
             PROVE  <<u, i>> \in Inside(c)' <=> <<u, i>> \in Inside(c)
  <2>1. \A x \in Threads \X (0 .. MaxDepth) : x \in Inside(c)' <=> x \in Inside(c)
    OBVIOUS
  <2>2. QED
    BY <2>1 DEF Inside, Calls
<1>1. CASE u # t
    BY <1>1 DEF Inside, Calls, HeldBy, Holds, At, Same
<1>2. CASE u = t /\ At(t) = "body"
  <2>0. /\ frames'[t] = Append(frames[t], snapshot[t]) /\ At(t)' = "arrive"
        /\ frames[t] \in Seq(Routes) /\ snapshot[t] \in Routes
    BY <1>2 DEF TypeOK, ThreadsOK
  <2>1. /\ Len(frames[t]) \in Nat /\ Len(frames'[t]) = Len(frames[t]) + 1
        /\ \A k \in 1 .. Len(frames[t]) : frames'[t][k] = frames[t][k]
        /\ frames'[t][Len(frames[t]) + 1] = snapshot[t]
    BY <2>0
  <2>2. CASE i < Len(frames[t])
    <3>1. i + 1 \in 1 .. Len(frames[t]) /\ i # Len(frames[t]) /\ i # Len(frames'[t])
        BY <2>1, <2>2
    <3>2. frames'[t][i + 1] = frames[t][i + 1]
        BY <2>1, <3>1
    <3>3. QED
        BY <1>2, <2>1, <2>2, <3>1, <3>2 DEF Inside, Calls, HeldBy
  <2>3. CASE i = Len(frames[t])
    BY <1>2, <2>1, <2>3 DEF Inside, Calls, HeldBy, Holds, Counters, Announced, Parking,
        Entering, Flying, Active
  <2>4. CASE i > Len(frames[t])
    BY <1>2, <2>1, <2>4 DEF Inside, Calls, HeldBy, Holds, Announced, Parking,
        Entering, Flying, Active
  <2>5. QED
    BY <2>1, <2>2, <2>3, <2>4
<1>3. CASE u = t /\ At(t) = "return"
  <2>1. /\ Len(frames'[t]) \in Nat /\ Len(frames[t]) = Len(frames'[t]) + 1
        /\ \A k \in 1 .. Len(frames'[t]) : frames'[t][k] = frames[t][k]
        /\ frames[t][Len(frames'[t]) + 1] = snapshot'[t]
    BY <1>3 DEF TypeOK, ThreadsOK
  <2>2. CASE i < Len(frames'[t])
    <3>1. i + 1 \in 1 .. Len(frames'[t]) /\ i # Len(frames[t]) /\ i # Len(frames'[t])
        BY <2>1, <2>2
    <3>2. frames'[t][i + 1] = frames[t][i + 1]
        BY <2>1, <3>1
    <3>3. QED
        BY <1>3, <2>1, <2>2, <3>1, <3>2 DEF Inside, Calls, HeldBy
  <2>3. CASE i = Len(frames'[t])
    BY <1>3, <2>1, <2>3 DEF Inside, Calls, HeldBy, Holds, Counters, Announced, Parking,
        Entering, Flying, Active
  <2>4. CASE i > Len(frames'[t])
    BY <1>3, <2>1, <2>4 DEF Inside, Calls, HeldBy, Holds, Announced, Parking,
        Entering, Flying, Active
  <2>5. QED
    BY <2>1, <2>2, <2>3, <2>4
<1>4. QED
    BY <1>1, <1>2, <1>3

\* Calls and returns, from the target or from a replacement body.
LEMMA ThreadCalls ==
    ASSUME LifecycleInv, NEW t \in Threads, Call(t) \/ Return(t)
    PROVE  LifecycleInv'
<1> USE DEF LifecycleInv, TypeOK, ThreadsOK, WaiterOK, Step, gate, waiter, Counters, At,
        Labels, Announced, Parking, Entering, Flying, Active, Nested
<1>1. CASE Call(t)
  <2>1. TypeOK'
    <3>1. CASE pc[t] = "out"
        BY <1>1, <3>1 DEF Call
    <3>2. CASE pc[t] = "body"
      <4>1. /\ frames' = [frames EXCEPT ![t] = Append(@, snapshot[t])]
            /\ Append(frames[t], snapshot[t]) \in Seq(Routes)
            /\ Len(Append(frames[t], snapshot[t])) <= MaxDepth
        BY <1>1, <3>2 DEF Call
      <4>2. /\ frames' \in [Threads -> Seq(Routes)]
            /\ \A u \in Threads : Len(frames'[u]) <= MaxDepth
        BY <4>1
      <4>3. QED
        BY <1>1, <4>2 DEF Call
    <3>3. QED
        BY <1>1, <3>1, <3>2 DEF Call
  <2>2. CountersExact'
    <3>1. CASE pc[t] = "out"
      <4>1. Tally(t)
        BY <1>1, <3>1 DEF Call, Tally, Same, Holds
      <4>2. QED
        BY <2>1, <4>1, LocalCounters DEF Tally
    <3>2. CASE pc[t] = "body"
      <4>1. /\ At(t) = "body" /\ At(t)' = "arrive"
            /\ frames'[t] = Append(frames[t], snapshot[t]) /\ count' = count
            /\ \A u \in Threads \ {t} : Same(u) /\ frames'[u] = frames[u]
        BY <1>1, <3>2 DEF Call, Same
      <4>2. QED
        BY <2>1, <4>1, FrameMoves
    <3>3. QED
        BY <1>1, <3>1, <3>2 DEF Call
  <2>3. Promises'
    <3>1. CASE pc[t] = "out"
        BY <1>1, <3>1 DEF Call, Promises, NestedBypass, RouteKept, CloseProgress,
        RecordingProgress, QuiesceProgress, WakeupDue, Evaluating, GateSealed,
        RecordingStopped, TrampolinesUnused
    <3>2. CASE pc[t] = "body"
      <4>1. /\ \A u \in Threads : u # t => frames'[u] = frames[u] /\ At(u)' = At(u)
            /\ frames'[t] = Append(frames[t], snapshot[t]) /\ snapshot' = snapshot
            /\ At(t) = "body" /\ At(t)' = "arrive"
            /\ UNCHANGED <<closed, route, patched, op, stage, reading, registered, moved,
                           proved, count>>
            /\ \A u \in Threads : pc[u] = "notify" => pc'[u] = "notify"
        BY <1>1, <3>2 DEF Call
      <4>2. /\ frames'[t] # << >>
            /\ \A k \in DOMAIN frames'[t] :
                   \/ frames'[t][k] = snapshot[t]
                   \/ k \in DOMAIN frames[t] /\ frames'[t][k] = frames[t][k]
        <5>1. frames[t] \in Seq(Routes) /\ snapshot[t] \in Routes
            OBVIOUS
        <5> HIDE DEF LifecycleInv, TypeOK
        <5>2. QED
            BY <4>1, <5>1
      <4> HIDE DEF At, TypeOK
      <4>3. NestedBypass' /\ RouteKept' /\ WakeupDue'
        BY <4>1, <4>2 DEF NestedBypass, RouteKept, WakeupDue
      <4>4. CloseProgress' /\ GateSealed'
        BY <4>1, <4>2 DEF CloseProgress, GateSealed, Evaluating
      <4>5. RecordingProgress' /\ RecordingStopped'
        BY <4>1, <4>2 DEF RecordingProgress, RecordingStopped, Evaluating
      <4>6. QuiesceProgress' /\ TrampolinesUnused'
        BY <4>1, <4>2 DEF QuiesceProgress, TrampolinesUnused, Evaluating
      <4>7. QED
        BY <4>3, <4>4, <4>5, <4>6 DEF Promises
    <3>3. QED
        BY <1>1, <3>1, <3>2 DEF Call
  <2>4. QED
    BY <2>1, <2>2, <2>3 DEF Promises
<1>2. CASE Return(t)
  <2>1. TypeOK'
    <3>1. CASE frames[t] = << >>
        BY <1>2, <3>1 DEF Return, Routes
    <3>2. CASE frames[t] # << >>
      <4>1. /\ frames' = [frames EXCEPT ![t] = SubSeq(@, 1, Len(@) - 1)]
            /\ SubSeq(frames[t], 1, Len(frames[t]) - 1) \in Seq(Routes)
            /\ Len(SubSeq(frames[t], 1, Len(frames[t]) - 1)) <= MaxDepth
            /\ frames[t][Len(frames[t])] \in Routes
        BY <1>2, <3>2 DEF Return
      <4>2. /\ frames' \in [Threads -> Seq(Routes)]
            /\ \A u \in Threads : Len(frames'[u]) <= MaxDepth
        BY <4>1
      <4>3. QED
        BY <1>2, <3>2, <4>1, <4>2 DEF Return
    <3>3. QED
        BY <3>1, <3>2
  <2>2. CountersExact'
    <3>1. CASE frames[t] = << >>
      <4>1. Tally(t)
        BY <1>2, <3>1 DEF Return, Tally, Same, Holds
      <4>2. QED
        BY <2>1, <4>1, LocalCounters DEF Tally
    <3>2. CASE frames[t] # << >>
      <4>1. /\ At(t) = "return" /\ At(t)' = "body" /\ count' = count
            /\ snapshot'[t] = frames[t][Len(frames[t])]
            /\ frames'[t] = SubSeq(frames[t], 1, Len(frames[t]) - 1)
            /\ \A u \in Threads \ {t} : Same(u) /\ frames'[u] = frames[u]
        BY <1>2, <3>2 DEF Return, Same
      <4>2. QED
        BY <2>1, <3>2, <4>1, FrameMoves
    <3>3. QED
        BY <3>1, <3>2
  <2>3. Promises'
    <3>1. CASE frames[t] = << >>
        BY <1>2, <3>1 DEF Return, Promises, NestedBypass, RouteKept, CloseProgress,
        RecordingProgress, QuiesceProgress, WakeupDue, Evaluating, GateSealed,
        RecordingStopped, TrampolinesUnused
    <3>2. CASE frames[t] # << >>
      <4>1. /\ \A u \in Threads : u # t => /\ frames'[u] = frames[u] /\ At(u)' = At(u)
                                           /\ snapshot'[u] = snapshot[u]
            /\ Len(frames[t]) \in DOMAIN frames[t] /\ snapshot'[t] = frames[t][Len(frames[t])]
            /\ \A k \in DOMAIN frames'[t] : k \in DOMAIN frames[t] /\ frames'[t][k] = frames[t][k]
            /\ At(t) = "return" /\ At(t)' = "body"
            /\ UNCHANGED <<closed, route, patched, op, stage, reading, registered, moved,
                           proved, count>>
            /\ \A u \in Threads : pc[u] = "notify" => pc'[u] = "notify"
        BY <1>2, <3>2 DEF Return
      <4> HIDE DEF At, TypeOK, ThreadsOK, WaiterOK, Labels
      <4>2. QED
        BY <3>2, <4>1 DEF Promises, NestedBypass, RouteKept, CloseProgress,
        RecordingProgress, QuiesceProgress, WakeupDue, Evaluating, GateSealed,
        RecordingStopped, TrampolinesUnused
    <3>3. QED
        BY <3>1, <3>2
  <2>4. QED
    BY <2>1, <2>2, <2>3 DEF Promises
<1> QED
    BY <1>1, <1>2

\* The number of counters each wait reads, and their names.
LEMMA WatchedLengths ==
    /\ Waits = {"close", "drain", "recording", "quiesce"}
    /\ \A o \in Waits : Len(Watched[o]) = IF o = "drain" THEN 3 ELSE 2
<1>1. Waits = {"close", "drain", "recording", "quiesce"}
    BY DEF Waits, Watched
<1>2. Len(Watched["close"]) = 2
    BY DEF Watched
<1>3. Len(Watched["drain"]) = 3
    BY DEF Watched
<1>4. Len(Watched["recording"]) = 2
    BY DEF Watched
<1>5. Len(Watched["quiesce"]) = 2
    BY DEF Watched
<1>6. QED
    BY <1>1, <1>2, <1>3, <1>4, <1>5

LEMMA WatchedCounters ==
    /\ Waits = {"close", "drain", "recording", "quiesce"}
    /\ \A o \in Waits : Len(Watched[o]) = IF o = "drain" THEN 3 ELSE 2
    /\ \A o \in Waits, i \in 1 .. 3 : i <= Len(Watched[o]) => Watched[o][i] \in Counters
    /\ Watched["close"][1] = "gate_transitions" /\ Watched["close"][2] = "active_calls"
    /\ Watched["recording"][1] = "entry_transitions"
    /\ Watched["recording"][2] = "recording_in_flight"
    /\ Watched["quiesce"][1] = "entry_transitions" /\ Watched["quiesce"][2] = "in_flight"
<1>1. Waits = {"close", "drain", "recording", "quiesce"}
    BY DEF Waits, Watched
<1>2. /\ Watched["close"] = <<"gate_transitions", "active_calls">>
      /\ Watched["drain"] = <<"gate_waiters", "gate_transitions", "active_calls">>
      /\ Watched["recording"] = <<"entry_transitions", "recording_in_flight">>
      /\ Watched["quiesce"] = <<"entry_transitions", "in_flight">>
    BY DEF Watched
<1>3. \A o \in Waits : Len(Watched[o]) = IF o = "drain" THEN 3 ELSE 2
    BY WatchedLengths
<1>4. ASSUME NEW o \in Waits, NEW i \in 1 .. 3, i <= Len(Watched[o])
      PROVE  Watched[o][i] \in Counters
  <2>1. i = 1 \/ i = 2 \/ (i = 3 /\ o = "drain")
    BY <1>3, <1>4
  <2>2. QED
    BY <1>1, <1>2, <2>1 DEF Counters
<1>5. QED
    BY <1>1, <1>2, <1>3, <1>4

\* Moving on to the next counter of a condition stays within it.
LEMMA NextCounter ==
    ASSUME NEW n \in {2, 3}, NEW r \in 1 .. 3, r <= n, r # n
    PROVE  r + 1 \in 1 .. 3 /\ r + 1 <= n
OBVIOUS

\* A coordinator step leaves the threads where they are, so only what it stores
\* and what its wait has seen can matter.
LEMMA CountersUntouched ==
    ASSUME CountersExact, count' = count, pc' = pc, resume' = resume,
           snapshot' = snapshot, frames' = frames
    PROVE  CountersExact'
BY DEF CountersExact, Inside, Calls, HeldBy, Holds, At

\* The stores of the coordinator: routes, gate and patched jump.
LEMMA CoordinatorStores ==
    ASSUME LifecycleInv, StartRecording \/ Patch \/ StopRecording \/ Revert \/ RouteToTarget \/ (\E o \in Waits : Retry(o))
               \/ CloseAndWait \/ Open \/ NotifyGate \/ Rendezvous \/ WaitForDrain
    PROVE  LifecycleInv'
<1> USE WatchedCounters DEF LifecycleInv, TypeOK, ThreadsOK, WaiterOK, gate, threads, waiter, At, Nested,
        BeginWait, EndWait, Outdates, Evaluating, Satisfied, LastOne, Routes, Stages
<1>1. CASE StartRecording
  <2>1. TypeOK'
    <3>1. ThreadsOK'
        BY <1>1 DEF StartRecording
    <3>2. WaiterOK'
        BY <1>1 DEF StartRecording
    <3>3. QED
        BY <3>1, <3>2
  <2>2. CountersExact'
    BY <1>1, CountersUntouched DEF StartRecording
  <2>3. Promises'
    BY <1>1 DEF StartRecording, Promises, NestedBypass, RouteKept, CloseProgress,
        RecordingProgress, QuiesceProgress, WakeupDue, Evaluating, GateSealed,
        RecordingStopped, TrampolinesUnused
  <2>4. QED
    BY <2>1, <2>2, <2>3 DEF Promises
<1>2. CASE Patch
  <2>1. TypeOK'
    <3>1. ThreadsOK'
        BY <1>2 DEF Patch
    <3>2. WaiterOK'
        BY <1>2 DEF Patch
    <3>3. QED
        BY <3>1, <3>2
  <2>2. CountersExact'
    BY <1>2, CountersUntouched DEF Patch
  <2>3. Promises'
    BY <1>2 DEF Patch, Promises, NestedBypass, RouteKept, CloseProgress,
        RecordingProgress, QuiesceProgress, WakeupDue, Evaluating, GateSealed,
        RecordingStopped, TrampolinesUnused
  <2>4. QED
    BY <2>1, <2>2, <2>3 DEF Promises
<1>3. CASE StopRecording
  <2>1. TypeOK'
    <3>1. ThreadsOK'
        BY <1>3 DEF StopRecording
    <3>2. WaiterOK'
        BY <1>3 DEF StopRecording
    <3>3. QED
        BY <3>1, <3>2
  <2>2. CountersExact'
    BY <1>3, CountersUntouched DEF StopRecording
  <2>3. Promises'
    BY <1>3 DEF StopRecording, Promises, NestedBypass, RouteKept, CloseProgress,
        RecordingProgress, QuiesceProgress, WakeupDue, Evaluating, GateSealed,
        RecordingStopped, TrampolinesUnused
  <2>4. QED
    BY <2>1, <2>2, <2>3 DEF Promises
<1>4. CASE Revert
  <2>1. TypeOK'
    <3>1. ThreadsOK'
        BY <1>4 DEF Revert
    <3>2. WaiterOK'
        BY <1>4 DEF Revert
    <3>3. QED
        BY <3>1, <3>2
  <2>2. CountersExact'
    BY <1>4, CountersUntouched DEF Revert
  <2>3. Promises'
    BY <1>4 DEF Revert, Promises, NestedBypass, RouteKept, CloseProgress,
        RecordingProgress, QuiesceProgress, WakeupDue, Evaluating, GateSealed,
        RecordingStopped, TrampolinesUnused
  <2>4. QED
    BY <2>1, <2>2, <2>3 DEF Promises
<1>5. CASE RouteToTarget
  <2>1. TypeOK'
    <3>1. ThreadsOK'
        BY <1>5 DEF RouteToTarget
    <3>2. WaiterOK'
        BY <1>5 DEF RouteToTarget
    <3>3. QED
        BY <3>1, <3>2
  <2>2. CountersExact'
    BY <1>5, CountersUntouched DEF RouteToTarget
  <2>3. Promises'
    BY <1>5 DEF RouteToTarget, Promises, NestedBypass, RouteKept, CloseProgress,
        RecordingProgress, QuiesceProgress, WakeupDue, Evaluating, GateSealed,
        RecordingStopped, TrampolinesUnused
  <2>4. QED
    BY <2>1, <2>2, <2>3 DEF Promises
<1>6. CASE \E o \in Waits : Retry(o)
  <2>1. TypeOK'
    <3>1. ThreadsOK'
        BY <1>6 DEF Retry
    <3>2. WaiterOK'
        BY <1>6 DEF Retry
    <3>3. QED
        BY <3>1, <3>2
  <2>2. CountersExact'
    BY <1>6, CountersUntouched DEF Retry
  <2>3. Promises'
    BY <1>6 DEF Retry, Promises, NestedBypass, RouteKept, CloseProgress,
        RecordingProgress, QuiesceProgress, WakeupDue, Evaluating, GateSealed,
        RecordingStopped, TrampolinesUnused
  <2>4. QED
    BY <2>1, <2>2, <2>3 DEF Promises
<1>7. CASE CloseAndWait
  <2>1. TypeOK'
    <3>1. ThreadsOK'
        BY <1>7 DEF CloseAndWait
    <3>2. WaiterOK'
        BY <1>7 DEF CloseAndWait
    <3>3. QED
        BY <3>1, <3>2
  <2>2. CountersExact'
    BY <1>7, CountersUntouched DEF CloseAndWait
  <2>3. Promises'
    BY <1>7 DEF CloseAndWait, Promises, NestedBypass, RouteKept, CloseProgress,
        RecordingProgress, QuiesceProgress, WakeupDue, Evaluating, GateSealed,
        RecordingStopped, TrampolinesUnused
  <2>4. QED
    BY <2>1, <2>2, <2>3 DEF Promises
<1>8. CASE Open
  <2>1. TypeOK'
    <3>1. ThreadsOK'
        BY <1>8 DEF Open
    <3>2. WaiterOK'
        BY <1>8 DEF Open
    <3>3. QED
        BY <3>1, <3>2
  <2>2. CountersExact'
    BY <1>8, CountersUntouched DEF Open
  <2>3. Promises'
    BY <1>8 DEF Open, Promises, NestedBypass, RouteKept, CloseProgress,
        RecordingProgress, QuiesceProgress, WakeupDue, Evaluating, GateSealed,
        RecordingStopped, TrampolinesUnused
  <2>4. QED
    BY <2>1, <2>2, <2>3 DEF Promises
<1>9. CASE NotifyGate
  <2>1. TypeOK'
    <3>1. ThreadsOK'
        BY <1>9 DEF NotifyGate
    <3>2. WaiterOK'
        BY <1>9 DEF NotifyGate
    <3>3. QED
        BY <3>1, <3>2
  <2>2. CountersExact'
    BY <1>9, CountersUntouched DEF NotifyGate
  <2>3. Promises'
    BY <1>9 DEF NotifyGate, Promises, NestedBypass, RouteKept, CloseProgress,
        RecordingProgress, QuiesceProgress, WakeupDue, Evaluating, GateSealed,
        RecordingStopped, TrampolinesUnused
  <2>4. QED
    BY <2>1, <2>2, <2>3 DEF Promises
<1>10. CASE Rendezvous
  <2>1. TypeOK'
    <3>1. ThreadsOK'
        BY <1>10 DEF Rendezvous
    <3>2. WaiterOK'
        BY <1>10 DEF Rendezvous
    <3>3. QED
        BY <3>1, <3>2
  <2>2. CountersExact'
    BY <1>10, CountersUntouched DEF Rendezvous
  <2>3. Promises'
    BY <1>10 DEF Rendezvous, Promises, NestedBypass, RouteKept, CloseProgress,
        RecordingProgress, QuiesceProgress, WakeupDue, Evaluating, GateSealed,
        RecordingStopped, TrampolinesUnused
  <2>4. QED
    BY <2>1, <2>2, <2>3 DEF Promises
<1>11. CASE WaitForDrain
  <2>1. TypeOK'
    <3>1. ThreadsOK'
        BY <1>11 DEF WaitForDrain
    <3>2. WaiterOK'
      <4>1. /\ stage' \in Stages /\ op' \in Waits \cup {"none"}
            /\ op' = "none" <=> stage' \in {"idle", "opening"}
        BY <1>11 DEF WaitForDrain
      <4>2. /\ reading' \in 1 .. 3 /\ (op' = "none" => reading' = 1)
            /\ op' \in Waits => reading' <= Len(Watched[op'])
        <5>1. op' = "drain" /\ reading' = 1
            BY <1>11 DEF WaitForDrain
        <5> HIDE WatchedCounters DEF LifecycleInv, TypeOK
        <5>2. QED
            BY <5>1, WatchedLengths
      <4>3. /\ registered' \in BOOLEAN /\ moved' \in BOOLEAN
            /\ proved' \subseteq Waits \cup {"rendezvous"}
        BY <1>11 DEF WaitForDrain
      <4>4. QED
        BY <4>1, <4>2, <4>3
    <3>3. QED
        BY <3>1, <3>2
  <2>2. CountersExact'
    BY <1>11, CountersUntouched DEF WaitForDrain
  <2>3. Promises'
    BY <1>11 DEF WaitForDrain, Promises, NestedBypass, RouteKept, CloseProgress,
        RecordingProgress, QuiesceProgress, WakeupDue, Evaluating, GateSealed,
        RecordingStopped, TrampolinesUnused
  <2>4. QED
    BY <2>1, <2>2, <2>3 DEF Promises
<1> QED
    BY <1>1, <1>2, <1>3, <1>4, <1>5, <1>6, <1>7, <1>8, <1>9, <1>10, <1>11 DEF Coordinator

\* wait_until_quiescent: what it has seen so far, and what its success establishes.
LEMMA CoordinatorWaits ==
    ASSUME LifecycleInv, Waiting
    PROVE  LifecycleInv'
<1> USE WatchedCounters DEF LifecycleInv, TypeOK, ThreadsOK, WaiterOK, gate, threads, waiter, At, Nested,
        BeginWait, EndWait, Outdates, Evaluating, Satisfied, LastOne, Routes, Stages
<1>1. CASE ReadZero
  <2>. op \in Waits /\ Watched[op][reading] \in Counters
    BY <1>1 DEF ReadZero
  <2>. count[Watched[op][reading]] = 0
    BY <1>1 DEF ReadZero
  <2>0. LET c == Watched[op][reading] IN
        /\ c \in Counters /\ count[c] = 0
        /\ \A t \in Threads :
               /\ ~ Holds(t, c)
               /\ c \in {"active_calls", "in_flight"} => frames[t] = << >>
               /\ c = "recording_in_flight" =>
                      \A i \in DOMAIN frames[t] : frames[t][i] # "record"
    BY CounterZero
  <2>1. TypeOK'
    <3>1. ThreadsOK'
        BY <1>1 DEF ReadZero
    <3>2. WaiterOK'
      <4>1. /\ stage' \in Stages /\ op' \in Waits \cup {"none"}
            /\ op' = "none" <=> stage' \in {"idle", "opening"}
        BY <1>1 DEF ReadZero
      <4>2. /\ reading' \in 1 .. 3 /\ (op' = "none" => reading' = 1)
            /\ op' \in Waits => reading' <= Len(Watched[op'])
        <5>1. /\ op \in Waits /\ op' = op /\ reading' = reading + 1 /\ reading \in 1 .. 3
              /\ reading <= Len(Watched[op]) /\ reading # Len(Watched[op])
            BY <1>1 DEF ReadZero
        <5> HIDE WatchedCounters DEF LifecycleInv, TypeOK
        <5>2. Len(Watched[op]) \in {2, 3} /\ op # "none"
            BY <5>1, WatchedLengths
        <5>3. reading + 1 \in 1 .. 3 /\ reading + 1 <= Len(Watched[op])
            BY <5>1, <5>2, NextCounter
        <5>4. QED
            BY <5>1, <5>2, <5>3
      <4>3. /\ registered' \in BOOLEAN /\ moved' \in BOOLEAN
            /\ proved' \subseteq Waits \cup {"rendezvous"}
        BY <1>1 DEF ReadZero
      <4>4. QED
        BY <4>1, <4>2, <4>3
    <3>3. QED
        BY <3>1, <3>2
  <2>2. CountersExact'
    BY <1>1, CountersUntouched DEF ReadZero
  <2>3. Promises'
    <3> USE <2>0 DEF Holds, Announced, Entering, Flying, Active
    <3>1. NestedBypass' /\ RouteKept' /\ WakeupDue'
        BY <1>1 DEF ReadZero, NestedBypass, RouteKept, WakeupDue
    <3>2. CloseProgress' /\ GateSealed'
        BY <1>1 DEF ReadZero, CloseProgress, GateSealed
    <3>3. RecordingProgress' /\ RecordingStopped'
        BY <1>1 DEF ReadZero, RecordingProgress, RecordingStopped
    <3>4. QuiesceProgress' /\ TrampolinesUnused'
        BY <1>1 DEF ReadZero, QuiesceProgress, TrampolinesUnused
    <3>5. QED
        BY <3>1, <3>2, <3>3, <3>4 DEF Promises
  <2>4. QED
    BY <2>1, <2>2, <2>3 DEF Promises
<1>2. CASE Succeed
  <2>. op \in Waits /\ Watched[op][reading] \in Counters
    BY <1>2 DEF Succeed
  <2>. count[Watched[op][reading]] = 0
    BY <1>2 DEF Succeed
  <2>0. LET c == Watched[op][reading] IN
        /\ c \in Counters /\ count[c] = 0
        /\ \A t \in Threads :
               /\ ~ Holds(t, c)
               /\ c \in {"active_calls", "in_flight"} => frames[t] = << >>
               /\ c = "recording_in_flight" =>
                      \A i \in DOMAIN frames[t] : frames[t][i] # "record"
    BY CounterZero
  <2>1. TypeOK'
    <3>1. ThreadsOK'
        BY <1>2 DEF Succeed
    <3>2. WaiterOK'
      <4>1. /\ stage' \in Stages /\ op' \in Waits \cup {"none"}
            /\ op' = "none" <=> stage' \in {"idle", "opening"}
        BY <1>2 DEF Succeed
      <4>2. /\ reading' \in 1 .. 3 /\ (op' = "none" => reading' = 1)
            /\ op' \in Waits => reading' <= Len(Watched[op'])
        BY <1>2 DEF Succeed
      <4>3. /\ registered' \in BOOLEAN /\ moved' \in BOOLEAN
            /\ proved' \subseteq Waits \cup {"rendezvous"}
        BY <1>2 DEF Succeed
      <4>4. QED
        BY <4>1, <4>2, <4>3
    <3>3. QED
        BY <3>1, <3>2
  <2>2. CountersExact'
    BY <1>2, CountersUntouched DEF Succeed
  <2>3. Promises'
    <3>1. /\ op' = "none" /\ proved' = proved \cup {op}
          /\ UNCHANGED <<pc, resume, frames, snapshot, closed, route>>
          /\ stage' = "idle" /\ Evaluating
          /\ op = "close" => reading = 2 /\ Watched[op][reading] = "active_calls"
          /\ op = "recording" => reading = 2 /\ Watched[op][reading] = "recording_in_flight"
          /\ op = "quiesce" => reading = 2 /\ Watched[op][reading] = "in_flight"
        BY <1>2 DEF Succeed
    <3>2. NestedBypass' /\ RouteKept' /\ WakeupDue'
        BY <3>1 DEF NestedBypass, RouteKept, WakeupDue
    <3>3. CloseProgress' /\ GateSealed'
        <4>1. op = "close" => \A u \in Threads : At(u) \notin Active /\ frames[u] = << >>
            BY <2>0, <3>1 DEF Holds
        <4> HIDE WatchedCounters DEF TypeOK, Satisfied, LastOne
        <4>2. QED
            BY <3>1, <4>1 DEF CloseProgress, GateSealed
    <3>4. RecordingProgress' /\ RecordingStopped'
        <4>1. op = "recording" => \A u \in Threads :
                /\ At(u) \in {"counted", "body"} => snapshot[u] # "record"
                /\ \A i \in DOMAIN frames[u] : frames[u][i] # "record"
            BY <2>0, <3>1 DEF Holds
        <4> HIDE WatchedCounters DEF TypeOK, Satisfied, LastOne
        <4>2. QED
            BY <3>1, <4>1 DEF RecordingProgress, RecordingStopped
    <3>5. QuiesceProgress' /\ TrampolinesUnused'
        <4>1. op = "quiesce" => \A u \in Threads : At(u) \notin Flying /\ frames[u] = << >>
            BY <2>0, <3>1 DEF Holds
        <4> HIDE WatchedCounters DEF TypeOK, Satisfied, LastOne
        <4>2. QED
            BY <3>1, <4>1 DEF QuiesceProgress, TrampolinesUnused
    <3>6. QED
        BY <3>2, <3>3, <3>4, <3>5 DEF Promises
  <2>4. QED
    BY <2>1, <2>2, <2>3 DEF Promises
<1>3. CASE NotYet
  <2>. op \in Waits /\ Watched[op][reading] \in Counters
    BY <1>3 DEF NotYet
  <2>1. TypeOK'
    <3>1. ThreadsOK'
        BY <1>3 DEF NotYet
    <3>2. WaiterOK'
        BY <1>3 DEF NotYet
    <3>3. QED
        BY <3>1, <3>2
  <2>2. CountersExact'
    BY <1>3, CountersUntouched DEF NotYet
  <2>3. Promises'
    BY <1>3 DEF NotYet, Promises, NestedBypass, RouteKept, CloseProgress,
        RecordingProgress, QuiesceProgress, WakeupDue, Evaluating, GateSealed,
        RecordingStopped, TrampolinesUnused
  <2>4. QED
    BY <2>1, <2>2, <2>3 DEF Promises
<1>4. CASE Fail
  <2>1. TypeOK'
    <3>1. ThreadsOK'
        BY <1>4 DEF Fail
    <3>2. WaiterOK'
      <4>1. /\ stage' \in Stages /\ op' \in Waits \cup {"none"}
            /\ op' = "none" <=> stage' \in {"idle", "opening"}
        BY <1>4 DEF Fail
      <4>2. /\ reading' \in 1 .. 3 /\ (op' = "none" => reading' = 1)
            /\ op' \in Waits => reading' <= Len(Watched[op'])
        BY <1>4 DEF Fail
      <4>3. /\ registered' \in BOOLEAN /\ moved' \in BOOLEAN
            /\ proved' \subseteq Waits \cup {"rendezvous"}
        BY <1>4 DEF Fail
      <4>4. QED
        BY <4>1, <4>2, <4>3
    <3>3. QED
        BY <3>1, <3>2
  <2>2. CountersExact'
    BY <1>4, CountersUntouched DEF Fail
  <2>3. Promises'
    BY <1>4 DEF Fail, Promises, NestedBypass, RouteKept, CloseProgress,
        RecordingProgress, QuiesceProgress, WakeupDue, Evaluating, GateSealed,
        RecordingStopped, TrampolinesUnused
  <2>4. QED
    BY <2>1, <2>2, <2>3 DEF Promises
<1>5. CASE Register
  <2>1. TypeOK'
    <3>1. ThreadsOK'
        BY <1>5 DEF Register
    <3>2. WaiterOK'
        BY <1>5 DEF Register
    <3>3. QED
        BY <3>1, <3>2
  <2>2. CountersExact'
    BY <1>5, CountersUntouched DEF Register
  <2>3. Promises'
    BY <1>5 DEF Register, Promises, NestedBypass, RouteKept, CloseProgress,
        RecordingProgress, QuiesceProgress, WakeupDue, Evaluating, GateSealed,
        RecordingStopped, TrampolinesUnused
  <2>4. QED
    BY <2>1, <2>2, <2>3 DEF Promises
<1>6. CASE LoadQuiescenceEpoch
  <2>1. TypeOK'
    <3>1. ThreadsOK'
        BY <1>6 DEF LoadQuiescenceEpoch
    <3>2. WaiterOK'
      <4>1. /\ stage' \in Stages /\ op' \in Waits \cup {"none"}
            /\ op' = "none" <=> stage' \in {"idle", "opening"}
        BY <1>6 DEF LoadQuiescenceEpoch
      <4>2. /\ reading' \in 1 .. 3 /\ (op' = "none" => reading' = 1)
            /\ op' \in Waits => reading' <= Len(Watched[op'])
        BY <1>6 DEF LoadQuiescenceEpoch
      <4>3. /\ registered' \in BOOLEAN /\ moved' \in BOOLEAN
            /\ proved' \subseteq Waits \cup {"rendezvous"}
        BY <1>6 DEF LoadQuiescenceEpoch
      <4>4. QED
        BY <4>1, <4>2, <4>3
    <3>3. QED
        BY <3>1, <3>2
  <2>2. CountersExact'
    BY <1>6, CountersUntouched DEF LoadQuiescenceEpoch
  <2>3. Promises'
    BY <1>6 DEF LoadQuiescenceEpoch, Promises, NestedBypass, RouteKept, CloseProgress,
        RecordingProgress, QuiesceProgress, WakeupDue, Evaluating, GateSealed,
        RecordingStopped, TrampolinesUnused
  <2>4. QED
    BY <2>1, <2>2, <2>3 DEF Promises
<1>7. CASE Clock
  <2>1. TypeOK'
    <3>1. ThreadsOK'
        BY <1>7 DEF Clock
    <3>2. WaiterOK'
        BY <1>7 DEF Clock
    <3>3. QED
        BY <3>1, <3>2
  <2>2. CountersExact'
    BY <1>7, CountersUntouched DEF Clock
  <2>3. Promises'
    BY <1>7 DEF Clock, Promises, NestedBypass, RouteKept, CloseProgress,
        RecordingProgress, QuiesceProgress, WakeupDue, Evaluating, GateSealed,
        RecordingStopped, TrampolinesUnused
  <2>4. QED
    BY <2>1, <2>2, <2>3 DEF Promises
<1>8. CASE WakeUp
  <2>1. TypeOK'
    <3>1. ThreadsOK'
        BY <1>8 DEF WakeUp
    <3>2. WaiterOK'
        BY <1>8 DEF WakeUp
    <3>3. QED
        BY <3>1, <3>2
  <2>2. CountersExact'
    BY <1>8, CountersUntouched DEF WakeUp
  <2>3. Promises'
    BY <1>8 DEF WakeUp, Promises, NestedBypass, RouteKept, CloseProgress,
        RecordingProgress, QuiesceProgress, WakeupDue, Evaluating, GateSealed,
        RecordingStopped, TrampolinesUnused
  <2>4. QED
    BY <2>1, <2>2, <2>3 DEF Promises
<1> QED
    BY <1>1, <1>2, <1>3, <1>4, <1>5, <1>6, <1>7, <1>8 DEF Waiting

\* Thread moves, coordinator moves and stuttering.
LEMMA StepPreserves ==
    ASSUME LifecycleInv, [Next]_vars
    PROVE  LifecycleInv'
<1>1. CASE \E t \in Threads : Thread(t)
    BY <1>1, ThreadEnters, ThreadLeaves, ThreadCalls DEF Thread, Exit
<1>2. CASE Coordinator
    BY <1>2, CoordinatorStores, CoordinatorWaits DEF Coordinator
<1>3. CASE UNCHANGED vars
    BY <1>3, CountersUntouched DEF vars, gate, threads, waiter, LifecycleInv, TypeOK, ThreadsOK, WaiterOK, At, Nested,
        Promises, NestedBypass, RouteKept, CloseProgress,
        RecordingProgress, QuiesceProgress, WakeupDue, Evaluating, GateSealed,
        RecordingStopped, TrampolinesUnused
<1>4. QED
    BY <1>1, <1>2, <1>3 DEF Next

\* Nobody is inside anything at the start.
LEMMA InitHolds == Init => LifecycleInv
<1> SUFFICES ASSUME Init PROVE LifecycleInv
    OBVIOUS
<1>1. TypeOK
  <2>1. << >> \in Seq(Routes) /\ Len(<< >>) = 0
    OBVIOUS
  <2>2. "none" \notin Waits
    BY WatchedCounters
  <2>3. ThreadsOK
    <3>1. /\ closed \in BOOLEAN /\ patched \in BOOLEAN /\ stale \in [Threads -> BOOLEAN]
        BY DEF Init
    <3>2. /\ frames \in [Threads -> Seq(Routes)]
          /\ \A t \in Threads : Len(frames[t]) <= MaxDepth
        BY <2>1 DEF Init
    <3>3. /\ route \in Routes /\ count \in [Counters -> Nat]
          /\ pc \in [Threads -> Labels \cup {"notify"}]
          /\ snapshot \in [Threads -> Routes] /\ resume \in [Threads -> Labels]
        BY DEF Init, Routes, Labels
    <3>4. QED
        BY <3>1, <3>2, <3>3 DEF ThreadsOK
  <2>4. WaiterOK
    <3>1. /\ registered \in BOOLEAN /\ moved \in BOOLEAN
          /\ proved \subseteq Waits \cup {"rendezvous"}
        BY DEF Init
    <3>2. /\ op = "none" /\ stage = "idle" /\ reading = 1 /\ stage \in Stages
        BY DEF Init, Stages
    <3>3. QED
        BY <2>2, <3>1, <3>2 DEF WaiterOK
  <2>5. QED
    BY <2>3, <2>4 DEF TypeOK
<1>2. CountersExact
  <2>1. ASSUME NEW c \in Counters PROVE Inside(c) = {}
    BY DEF Init, Inside, Calls, HeldBy, Holds, At, Announced, Parking, Entering, Flying, Active
  <2>2. QED
    BY <2>1, FS_EmptySet DEF CountersExact, Init
<1>3. Promises
    BY DEF Init, At, Nested, Promises, NestedBypass, RouteKept, CloseProgress,
        RecordingProgress, QuiesceProgress, WakeupDue, Evaluating, GateSealed,
        RecordingStopped, TrampolinesUnused
<1>4. QED
    BY <1>1, <1>2, <1>3 DEF LifecycleInv, Promises

\* The inductive invariant of the gate, the lifecycle and the wait: in particular
\* every counter of replacement_lifecycle.hpp is exactly the number of calls in
\* its region, so no decrement underflows into std::terminate.
THEOREM LifecycleInvariant == Spec => []LifecycleInv
<1>1. Init => LifecycleInv
    BY InitHolds
<1>2. LifecycleInv /\ [Next]_vars => LifecycleInv'
    BY StepPreserves
<1>3. QED
    BY <1>1, <1>2, PTL DEF Spec

\* After close_and_wait has returned true no call is active until open(), for any
\* number of threads and any nesting.
THEOREM CloseSealsTheGate == Spec => []GateSealed
<1>1. LifecycleInv => GateSealed
    BY DEF LifecycleInv
<1>2. QED
    BY <1>1, LifecycleInvariant, PTL

\* After wait_for_recording_quiescence has returned true no call can still record.
THEOREM StoppedMeansNoRecorder == Spec => []RecordingStopped
<1>1. LifecycleInv => RecordingStopped
    BY DEF LifecycleInv
<1>2. QED
    BY <1>1, LifecycleInvariant, PTL

\* After wait_for_quiescence has returned true no call holds a trampoline route.
THEOREM QuiescentMeansNoTrampoline == Spec => []TrampolinesUnused
<1>1. LifecycleInv => TrampolinesUnused
    BY DEF LifecycleInv
<1>2. QED
    BY <1>1, LifecycleInvariant, PTL

\* A wait never sleeps through the notification of the counter it waits for.
THEOREM WakeupsAreNotLost == Spec => []NoLostWakeup
<1>1. LifecycleInv => NoLostWakeup
    BY DEF LifecycleInv, WakeupDue, NoLostWakeup
<1>2. QED
    BY <1>1, LifecycleInvariant, PTL

\* Whatever a successful wait promised holds until the coordinator outdates it,
\* for any number of threads and any nesting.
THEOREM WaitsKeepTheirPromises == Spec => []WaitPromises
<1>1. LifecycleInv => WaitPromises
    BY DEF LifecycleInv, WaitPromises
<1>2. QED
    BY <1>1, LifecycleInvariant, PTL

============================================================================
