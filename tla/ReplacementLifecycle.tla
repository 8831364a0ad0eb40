----------------------- MODULE ReplacementLifecycle -----------------------
(***************************************************************************)
(* How target threads enter and leave hook replacements, and how the agent *)
(* waits until they are out: replacement_lifecycle.hpp.  The process-wide  *)
(* quiescence gate and one ReplacementLifecycle are modelled together,     *)
(* because every call passes through both, and every wait sleeps on the    *)
(* same quiescence epoch.                                                  *)
(*                                                                         *)
(* Every atomic access is one action.  The coordinator may use the API in  *)
(* any order its contract allows, so what is checked holds for the Linux   *)
(* agent (gate always open) and for the Windows one (gate closed around    *)
(* drain and finalize).                                                    *)
(*                                                                         *)
(* A definition named Operation_Fault is the operation with a plausible    *)
(* programming error; no specification uses it.  Replacing the operation   *)
(* by it must make TLC find a property violated.                           *)
(***************************************************************************)
EXTENDS Naturals, Sequences, FiniteSets

CONSTANTS
    Threads,     \* target threads; the coordinator is not one of them
    MaxDepth,    \* bound: hooked functions a replacement body calls in turn
    MayExpire    \* TRUE when the deadline of a wait may pass

ASSUME LifecycleAssumption ==
    /\ IsFiniteSet(Threads)
    /\ MaxDepth \in Nat
    /\ MayExpire \in BOOLEAN

VARIABLES
    closed,    \* replacement_gate_closed
    route,     \* route_
    count,     \* the six counters, by name
    patched,   \* the target's first instruction jumps to the replacement
    \* per thread
    pc, frames, snapshot, resume, stale,
    \* the coordinator's wait_until_quiescent
    op, stage, reading, registered, moved,
    \* history: what the coordinator has established and not outdated since
    proved

gate    == <<closed, route, patched>>
threads == <<pc, frames, snapshot, resume, stale>>
waiter  == <<op, stage, reading, registered, moved>>
vars    == <<gate, count, threads, waiter, proved>>

Counters == {"gate_transitions", "active_calls", "gate_waiters",
             "entry_transitions", "in_flight", "recording_in_flight"}

Routes == {"target", "original", "record"}

Watched_Swapped == [
    close     |-> <<"active_calls", "gate_transitions">>,
    drain     |-> <<"gate_waiters", "gate_transitions", "active_calls">>,
    recording |-> <<"recording_in_flight", "entry_transitions">>,
    quiesce   |-> <<"in_flight", "entry_transitions">>]

\* The counters each wait reads, in the order the code reads them.
Watched == [
    close     |-> <<"gate_transitions", "active_calls">>,
    drain     |-> <<"gate_waiters", "gate_transitions", "active_calls">>,
    recording |-> <<"entry_transitions", "recording_in_flight">>,
    quiesce   |-> <<"entry_transitions", "in_flight">>]

Waits == DOMAIN Watched

Init ==
    /\ closed = FALSE /\ route = "target" /\ patched = FALSE
    /\ count = [c \in Counters |-> 0]
    /\ pc = [t \in Threads |-> "out"]
    /\ frames = [t \in Threads |-> << >>]
    /\ snapshot = [t \in Threads |-> "target"]
    /\ resume = [t \in Threads |-> "out"]
    /\ stale = [t \in Threads |-> FALSE]
    /\ op = "none" /\ stage = "idle" /\ reading = 1
    /\ registered = FALSE /\ moved = FALSE
    /\ proved = {}

----------------------------------------------------------------------------
(* Threads. *)

Increment(c) == count' = [count EXCEPT ![c] = @ + 1]

\* decrement_or_terminate and its copies in the lifecycle: whoever takes a
\* counter to zero goes through notify_quiescence_epoch before it goes on.
Decrement(t, c, next) ==
    /\ count' = [count EXCEPT ![c] = @ - 1]
    /\ pc' = [pc EXCEPT ![t] = IF count[c] = 1 THEN "notify" ELSE next]
    /\ resume' = IF count[c] = 1 THEN [resume EXCEPT ![t] = next] ELSE resume

Step(t, from, to) == pc[t] = from /\ pc' = [pc EXCEPT ![t] = to]

\* A thread takes the patched jump: it runs the replacement but no counter
\* knows.  Inside a body (hook_depth # 0) this is a nested call.
Call(t) ==
    /\ patched
    /\ \/ pc[t] = "out" /\ UNCHANGED frames
       \/ /\ pc[t] = "body" /\ Len(frames[t]) < MaxDepth
          /\ frames' = [frames EXCEPT ![t] = Append(@, snapshot[t])]
    /\ pc' = [pc EXCEPT ![t] = "arrive"]
    /\ UNCHANGED <<gate, count, snapshot, resume, stale, waiter, proved>>

Nested(t) == frames[t] # << >>

\* enter_replacement_gate: nested calls bypass the gate ...
Bypass(t) ==
    /\ Nested(t) /\ Step(t, "arrive", "enter")
    /\ Increment("active_calls")
    /\ UNCHANGED <<gate, frames, snapshot, resume, stale, waiter, proved>>

\* ... the others announce themselves, look, and are admitted or refused.
Announce(t) ==
    /\ ~Nested(t) /\ (Step(t, "arrive", "look") \/ Step(t, "retry", "look"))
    /\ Increment("gate_transitions")
    /\ UNCHANGED <<gate, frames, snapshot, resume, stale, waiter, proved>>

Look(t) ==
    /\ Step(t, "look", IF closed THEN "refused" ELSE "admitted")
    /\ UNCHANGED <<gate, count, frames, snapshot, resume, stale, waiter, proved>>

Activate(t) ==
    /\ Step(t, "admitted", "settle")
    /\ Increment("active_calls")
    /\ UNCHANGED <<gate, frames, snapshot, resume, stale, waiter, proved>>

Settle(t) ==
    /\ pc[t] = "settle" /\ Decrement(t, "gate_transitions", "enter")
    /\ UNCHANGED <<gate, frames, snapshot, stale, waiter, proved>>

Refuse(t) ==
    /\ pc[t] = "refused" /\ Decrement(t, "gate_transitions", "park")
    /\ UNCHANGED <<gate, frames, snapshot, stale, waiter, proved>>

Park(t) ==
    /\ Step(t, "park", "load")
    /\ Increment("gate_waiters")
    /\ UNCHANGED <<gate, frames, snapshot, resume, stale, waiter, proved>>

\* The inner loop: load the epoch, look again, wait for the epoch to change.
\* stale[t] says that the epoch has changed since t loaded it.
LoadEpoch(t) ==
    /\ Step(t, "load", "relook")
    /\ UNCHANGED <<gate, count, frames, snapshot, resume, stale, waiter, proved>>

Relook(t) ==
    /\ Step(t, "relook", IF closed THEN "parked" ELSE "unpark")
    /\ stale' = [stale EXCEPT ![t] = closed /\ @]
    /\ UNCHANGED <<gate, count, frames, snapshot, resume, waiter, proved>>

Wake(t) ==
    /\ stale[t] /\ Step(t, "parked", "load")
    /\ stale' = [stale EXCEPT ![t] = FALSE]
    /\ UNCHANGED <<gate, count, frames, snapshot, resume, waiter, proved>>

Unpark(t) ==
    /\ pc[t] = "unpark" /\ Decrement(t, "gate_waiters", "retry")
    /\ UNCHANGED <<gate, frames, snapshot, stale, waiter, proved>>

\* enter_unscoped after the gate
BeginEntry(t) ==
    /\ Step(t, "enter", "route")
    /\ Increment("entry_transitions")
    /\ UNCHANGED <<gate, frames, snapshot, resume, stale, waiter, proved>>

ReadRoute(t) ==
    /\ Step(t, "route", "count")
    /\ snapshot' = [snapshot EXCEPT ![t] = route]
    /\ UNCHANGED <<gate, count, frames, resume, stale, waiter, proved>>

CountInFlight(t) ==
    /\ Step(t, "count", IF snapshot[t] = "record" THEN "count_recording" ELSE "counted")
    /\ Increment("in_flight")
    /\ UNCHANGED <<gate, frames, snapshot, resume, stale, waiter, proved>>

CountRecording(t) ==
    /\ Step(t, "count_recording", "counted")
    /\ Increment("recording_in_flight")
    /\ UNCHANGED <<gate, frames, snapshot, resume, stale, waiter, proved>>

EndEntry(t) ==
    /\ pc[t] = "counted" /\ Decrement(t, "entry_transitions", "body")
    /\ UNCHANGED <<gate, frames, snapshot, stale, waiter, proved>>

\* leave_unscoped
LeaveRecording(t) ==
    /\ pc[t] = "body" /\ snapshot[t] = "record"
    /\ Decrement(t, "recording_in_flight", "leave")
    /\ UNCHANGED <<gate, frames, snapshot, stale, waiter, proved>>

LeaveUnrecorded(t) ==
    /\ snapshot[t] # "record" /\ Step(t, "body", "leave")
    /\ UNCHANGED <<gate, count, frames, snapshot, resume, stale, waiter, proved>>

LeaveInFlight(t) ==
    /\ pc[t] = "leave" /\ Decrement(t, "in_flight", "leave_gate")
    /\ UNCHANGED <<gate, frames, snapshot, stale, waiter, proved>>

LeaveGate(t) ==
    /\ pc[t] = "leave_gate" /\ Decrement(t, "active_calls", "return")
    /\ UNCHANGED <<gate, frames, snapshot, stale, waiter, proved>>

\* Back in the caller: the target, or the body that made the nested call.
Return(t) ==
    /\ Step(t, "return", IF Nested(t) THEN "body" ELSE "out")
    /\ IF Nested(t)
       THEN /\ snapshot' = [snapshot EXCEPT ![t] = frames[t][Len(frames[t])]]
            /\ frames' = [frames EXCEPT ![t] = SubSeq(@, 1, Len(@) - 1)]
       ELSE snapshot' = [snapshot EXCEPT ![t] = "target"] /\ UNCHANGED frames
    /\ UNCHANGED <<gate, count, resume, stale, waiter, proved>>

\* notify_quiescence_epoch: nothing unless a waiter is registered, otherwise
\* the epoch moves and the futex wake follows.
Notify(t) ==
    /\ pc[t] = "notify" /\ pc' = [pc EXCEPT ![t] = resume[t]]
    /\ resume' = [resume EXCEPT ![t] = "out"]
    /\ moved' = (moved \/ registered)
    /\ UNCHANGED <<gate, count, frames, snapshot, stale, op, stage, reading,
                   registered, proved>>

----------------------------------------------------------------------------
(* Coordinator: the stores, each followed by its wait where it has one. *)

BeginWait(o) == op' = o /\ stage' = "probe" /\ reading' = 1

\* A route or the gate changes: what was proved about the old one is void.
Outdates(facts) == proved' = proved \ facts

StartRecording ==
    /\ stage = "idle" /\ route = "target" /\ ~patched
    /\ route' = "record"
    /\ Outdates({"recording", "quiesce", "rendezvous", "drain"})
    /\ UNCHANGED <<closed, patched, count, threads, waiter>>

\* HookBackend::install_fast activates the jump once recording has started.
Patch ==
    /\ stage = "idle" /\ route = "record" /\ ~patched
    /\ patched' = TRUE
    /\ UNCHANGED <<closed, route, count, threads, waiter, proved>>

StopRecording ==
    /\ stage = "idle" /\ route = "record"
    /\ route' = "original" /\ BeginWait("recording")
    /\ UNCHANGED <<closed, patched, count, threads, registered, moved, proved>>

\* HookBackend::uninstall reverts the jump before the target route is published.
Revert ==
    /\ stage = "idle" /\ route = "original" /\ patched
    /\ patched' = FALSE
    /\ UNCHANGED <<closed, route, count, threads, waiter, proved>>

RouteToTarget ==
    /\ stage = "idle" /\ route = "original" /\ ~patched
    /\ route' = "target" /\ BeginWait("quiesce")
    /\ UNCHANGED <<closed, patched, count, threads, registered, moved, proved>>

\* A wait that timed out is repeated (flush retries wait_for_quiescence).
Retry(o) ==
    /\ stage = "idle" /\ o \notin proved
    /\ \/ o = "recording" /\ route = "original"
       \/ o = "quiesce" /\ route = "target" /\ ~patched
    /\ BeginWait(o)
    /\ UNCHANGED <<gate, count, threads, registered, moved, proved>>

CloseAndWait ==
    /\ stage = "idle" /\ "close" \notin proved
    /\ closed' = TRUE /\ BeginWait("close")
    /\ UNCHANGED <<route, patched, count, threads, registered, moved, proved>>

\* open(): the store ...
Open ==
    /\ stage = "idle" /\ closed
    /\ closed' = FALSE /\ stage' = "opening"
    /\ Outdates({"close"})
    /\ UNCHANGED <<route, patched, count, threads, op, reading, registered, moved>>

NotifyGate_NoWake ==
    /\ stage = "opening" /\ stage' = "idle"
    /\ UNCHANGED <<gate, count, threads, op, reading, registered, moved, proved>>

\* ... then the gate epoch moves and the parked threads are notified.
NotifyGate ==
    /\ stage = "opening"
    /\ stage' = "idle" /\ stale' = [t \in Threads |-> pc[t] \in {"relook", "parked"}]
    /\ UNCHANGED <<gate, count, pc, frames, snapshot, resume, op, reading,
                   registered, moved, proved>>

\* Where a thread's instruction pointer may be outside the .nlxhk section: in the
\* target, in the function a body called, in the library's atomic wait or in the
\* futex wake of a notification.
OutOfSection == {"out", "body", "parked", "notify"}

\* verify_replacement_evacuated: after wait_for_quiescence, no suspended thread's
\* instruction pointer is in the section.  It is asked again until it succeeds.
Rendezvous ==
    /\ stage = "idle" /\ "quiesce" \in proved
    /\ \A t \in Threads : pc[t] \in OutOfSection
    /\ proved' = proved \cup {"rendezvous"}
    /\ UNCHANGED <<gate, count, threads, waiter>>

\* "Must only be called with the gate open and no way for new threads to
\* enter a replacement (targets reverted)".
WaitForDrain ==
    /\ stage = "idle" /\ ~closed /\ ~patched /\ "rendezvous" \in proved /\ "drain" \notin proved
    /\ BeginWait("drain")
    /\ UNCHANGED <<gate, count, threads, registered, moved, proved>>

----------------------------------------------------------------------------
(* wait_until_quiescent.  The condition is evaluated one counter at a time. *)

Evaluating == stage \in {"probe", "test", "last"}
Satisfied  == count[Watched[op][reading]] = 0
LastOne    == reading = Len(Watched[op])

ReadZero ==
    /\ Evaluating /\ Satisfied /\ ~LastOne
    /\ reading' = reading + 1
    /\ UNCHANGED <<gate, count, threads, op, stage, registered, moved, proved>>

EndWait ==
    /\ op' = "none" /\ stage' = "idle" /\ reading' = 1
    /\ registered' = FALSE /\ moved' = FALSE

\* The wait returns true.
Succeed ==
    /\ Evaluating /\ Satisfied /\ LastOne
    /\ EndWait
    /\ proved' = proved \cup {op}
    /\ UNCHANGED <<gate, count, threads>>

NotYet ==
    /\ stage \in {"probe", "test"} /\ ~Satisfied
    /\ stage' = IF stage = "probe" THEN "register" ELSE "clock"
    /\ UNCHANGED <<gate, count, threads, op, reading, registered, moved, proved>>

\* The wait returns false at its deadline.
Fail ==
    /\ stage = "last" /\ ~Satisfied
    /\ EndWait
    /\ UNCHANGED <<gate, count, threads, proved>>

Register_Missing ==
    /\ stage = "register" /\ stage' = "epoch"
    /\ UNCHANGED <<gate, count, threads, op, reading, registered, moved, proved>>

Register ==
    /\ stage = "register"
    /\ registered' = TRUE /\ stage' = "epoch"
    /\ UNCHANGED <<gate, count, threads, op, reading, moved, proved>>

LoadQuiescenceEpoch ==
    /\ stage = "epoch"
    /\ moved' = FALSE /\ stage' = "test" /\ reading' = 1
    /\ UNCHANGED <<gate, count, threads, op, registered, proved>>

Clock ==
    /\ stage = "clock"
    /\ \/ stage' = "sleep" /\ UNCHANGED reading
       \/ MayExpire /\ stage' = "last" /\ reading' = 1
    /\ UNCHANGED <<gate, count, threads, op, registered, moved, proved>>

\* The futex wait ends when the epoch has moved or the deadline passes.
WakeUp ==
    /\ stage = "sleep" /\ (moved \/ MayExpire)
    /\ stage' = "epoch"
    /\ UNCHANGED <<gate, count, threads, op, reading, registered, moved, proved>>

----------------------------------------------------------------------------
Enter(t) ==
    \/ Bypass(t) \/ Announce(t) \/ Look(t) \/ Activate(t) \/ Settle(t)
    \/ Refuse(t) \/ Park(t) \/ LoadEpoch(t) \/ Relook(t) \/ Wake(t) \/ Unpark(t)
    \/ BeginEntry(t) \/ ReadRoute(t) \/ CountInFlight(t) \/ CountRecording(t)
    \/ EndEntry(t)

Leave(t) == LeaveRecording(t) \/ LeaveUnrecorded(t)

Exit(t) == LeaveInFlight(t) \/ LeaveGate(t) \/ Return(t)

Thread(t) == Call(t) \/ Enter(t) \/ Leave(t) \/ Exit(t) \/ Notify(t)

Waiting ==
    \/ ReadZero \/ Succeed \/ NotYet \/ Fail \/ Register \/ LoadQuiescenceEpoch
    \/ Clock \/ WakeUp

Coordinator ==
    \/ StartRecording \/ Patch \/ StopRecording \/ Revert \/ RouteToTarget
    \/ (\E o \in Waits : Retry(o))
    \/ CloseAndWait \/ Open \/ NotifyGate \/ Rendezvous \/ WaitForDrain \/ Waiting

Next == (\E t \in Threads : Thread(t)) \/ Coordinator

Spec == Init /\ [][Next]_vars

\* A step of a wait that its deadline does not cause.
Untimed ==
    \/ ReadZero \/ Succeed \/ NotYet \/ Fail \/ Register \/ LoadQuiescenceEpoch
    \/ (Clock /\ stage' = "sleep") \/ (WakeUp /\ moved)

\* Threads are scheduled, a replacement body makes finitely many nested calls
\* and returns (the original function does), and the coordinator runs while it
\* is in a wait. Deadlines may pass and need not: no wait may rely on one.
Fairness ==
    /\ \A t \in Threads : WF_vars(Enter(t) \/ Exit(t) \/ Notify(t)) /\ WF_vars(Nested(t) /\ Leave(t))
                           /\ SF_vars(~Nested(t) /\ Leave(t))
    /\ WF_vars(Untimed \/ NotifyGate)

FairSpec == Spec /\ Fairness

----------------------------------------------------------------------------
(* Properties. *)

\* Where a thread is: in notify_quiescence_epoch its decrement is already done.
At(t) == IF pc[t] = "notify" THEN resume[t] ELSE pc[t]

\* The code between the increment and the decrement of each counter.
Announced == {"look", "admitted", "settle", "refused"}
Parking   == {"load", "relook", "parked", "unpark"}
Entering  == {"route", "count", "count_recording", "counted"}
Flying    == {"count_recording", "counted", "body", "leave"}
Active    == {"settle", "enter", "leave_gate"} \cup Entering \cup Flying
Labels    == {"out", "arrive", "park", "retry", "return"} \cup Announced \cup Parking \cup Active

Stages ==
    {"idle", "opening", "probe", "register", "epoch", "test", "clock", "sleep", "last"}

ThreadsOK ==
    /\ closed \in BOOLEAN /\ patched \in BOOLEAN /\ route \in Routes
    /\ count \in [Counters -> Nat]
    /\ pc \in [Threads -> Labels \cup {"notify"}]
    /\ frames \in [Threads -> Seq(Routes)]
    /\ \A t \in Threads : Len(frames[t]) <= MaxDepth
    /\ snapshot \in [Threads -> Routes]
    /\ resume \in [Threads -> Labels]
    /\ stale \in [Threads -> BOOLEAN]

WaiterOK ==
    /\ stage \in Stages
    /\ op \in Waits \cup {"none"} /\ (op = "none" <=> stage \in {"idle", "opening"})
    /\ reading \in 1 .. 3 /\ (op = "none" => reading = 1)
    /\ op \in Waits => reading <= Len(Watched[op])
    /\ registered \in BOOLEAN /\ moved \in BOOLEAN
    /\ proved \subseteq Waits \cup {"rendezvous"}

\* Type invariant.
TypeOK == ThreadsOK /\ WaiterOK

\* The thread's innermost call is counted in c.
Holds(t, c) ==
    \/ c = "gate_transitions" /\ At(t) \in Announced
    \/ c = "gate_waiters" /\ At(t) \in Parking
    \/ c = "active_calls" /\ At(t) \in Active
    \/ c = "entry_transitions" /\ At(t) \in Entering
    \/ c = "in_flight" /\ At(t) \in Flying
    \/ c = "recording_in_flight" /\ At(t) \in {"counted", "body"} /\ snapshot[t] = "record"

\* Calls a thread is in, outermost first: those in frames are suspended in their
\* bodies, the innermost one is at At(t).
Calls == {x \in Threads \X (0 .. MaxDepth) : x[2] <= Len(frames[x[1]])}

HeldBy(x, c) ==
    IF x[2] = Len(frames[x[1]])
    THEN Holds(x[1], c)
    ELSE \/ c \in {"active_calls", "in_flight"}
         \/ c = "recording_in_flight" /\ frames[x[1]][x[2] + 1] = "record"

Inside(c) == {x \in Calls : HeldBy(x, c)}

\* Every counter is the number of calls inside its region, so no decrement can
\* reach std::terminate and zero means that nobody is inside.
CountersExact == \A c \in Counters : count[c] = Cardinality(Inside(c))

\* Once close_and_wait has returned true no call is active until the gate is
\* reopened: late arrivals are parked, although the two counters of its
\* condition are read one after the other.
GateSealed ==
    "close" \in proved => \A t \in Threads : At(t) \notin Active /\ frames[t] = << >>

\* Once wait_for_recording_quiescence has returned true no call that read the
\* record route can still append to the event queue, so the writer's final
\* drain sees everything (docs/HOOK_QUIESCENCE.md section 2, step 2).
RecordingStopped ==
    "recording" \in proved =>
        \A t \in Threads :
            /\ At(t) \in {"count", "count_recording", "counted", "body"} => snapshot[t] # "record"
            /\ \A i \in DOMAIN frames[t] : frames[t][i] # "record"

\* Once wait_for_quiescence has returned true after the revert, no call holds a
\* route other than target: the original trampolines and the session may go.
TrampolinesUnused ==
    "quiesce" \in proved =>
        \A t \in Threads :
            /\ At(t) \in {"count"} \cup Flying => snapshot[t] = "target"
            /\ \A i \in DOMAIN frames[t] : frames[t][i] = "target"

\* What a wait that returned true promised stays true until the coordinator
\* outdates it: replacement_lifecycle.hpp reads the two counters of each
\* condition one after the other, and threads move between them meanwhile.
WaitPromises == GateSealed /\ RecordingStopped /\ TrampolinesUnused

\* Claimed, and false: "Waits until every thread parked in the gate has woken and fully left its
\* replacement call" (replacement_lifecycle.hpp:255).
DrainedMeansOut ==
    "drain" \in proved => \A t \in Threads : At(t) \in {"out", "return"}

\* A waiter that sleeps, with the epoch it loaded still current, sleeps for a
\* reason: a counter of its condition is not zero, or the thread that took it to
\* zero has yet to notify.
NoLostWakeup ==
    stage = "sleep" /\ ~moved =>
        \/ count[Watched[op][reading]] > 0
        \/ \E t \in Threads : pc[t] = "notify"

\* Without a deadline, waiting for the closed gate, or for the reverted targets,
\* always ends, however threads arrive, nest and leave.
WaitsEnd ==
    \A o \in {"close", "quiesce", "drain"} :
        (stage # "idle" /\ op = o) ~> stage = "idle"

\* A thread parked in the gate leaves it once the gate opens, unless it closes again.
ParkedReleased ==
    \A t \in Threads : (pc[t] = "parked" /\ ~closed) ~> (pc[t] # "parked" \/ closed)

----------------------------------------------------------------------------
(* The inductive invariant. *)

\* A nested call never waits at the gate its own outer call holds open.
NestedBypass ==
    \A t \in Threads : Nested(t) =>
        At(t) \in {"arrive", "return"} \cup (Active \ {"settle"})

\* Only a call that read the record route is about to be counted as recording.
RouteKept == \A t \in Threads : At(t) = "count_recording" => snapshot[t] = "record"

\* What each wait has seen half-way through its condition, and what it leaves
\* established.
CloseProgress ==
    /\ op = "close" \/ "close" \in proved => closed
    /\ (op = "close" /\ reading = 2 /\ Evaluating) \/ "close" \in proved =>
           \A t \in Threads : At(t) \notin {"admitted", "settle"}

RecordingProgress ==
    /\ op = "recording" \/ "recording" \in proved => route # "record"
    /\ op = "recording" /\ reading = 2 /\ Evaluating =>
           \A t \in Threads :
               At(t) \in {"count", "count_recording"} => snapshot[t] # "record"

QuiesceProgress ==
    /\ op = "quiesce" \/ "quiesce" \in proved => route = "target"
    /\ op = "quiesce" /\ reading = 2 /\ Evaluating =>
           \A t \in Threads : At(t) = "count" => snapshot[t] = "target"

\* From the failed test on, the counter that failed it is positive, or the epoch
\* has moved, or is about to.
WakeupDue ==
    /\ stage \in {"epoch", "test", "clock", "sleep", "last"} => registered
    /\ stage \in {"clock", "sleep"} /\ ~moved =>
           \/ count[Watched[op][reading]] > 0
           \/ \E t \in Threads : pc[t] = "notify"

\* Inductive: implies every safety property above except DrainedMeansOut.
LifecycleInv ==
    /\ TypeOK /\ CountersExact /\ NestedBypass /\ RouteKept
    /\ CloseProgress /\ RecordingProgress /\ QuiesceProgress /\ WakeupDue
    /\ GateSealed /\ RecordingStopped /\ TrampolinesUnused

============================================================================
