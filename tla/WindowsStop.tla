--------------------------- MODULE WindowsStop ----------------------------
(***************************************************************************)
(* How a capture ends on Windows.  Over the pipe the controller asks for a *)
(* drain, freezes every thread of the target but the agent's worker, asks  *)
(* for the finalisation and lets the threads go.  A capture without a      *)
(* controller ends with its duration, in the replaced ExitProcess or in    *)
(* the detach of the agent.  Meanwhile the threads of the target call the  *)
(* hooked functions, park at the closed gate and hold the process heap     *)
(* lock, which the worker needs too.                                       *)
(***************************************************************************)
EXTENDS Naturals, FiniteSets

CONSTANTS
    Threads,      \* threads of the target
    MaxCalls,     \* bound on the hooked calls of one thread
    Stops         \* subset of {"session", "standalone"}: how a capture is ended

VARIABLES
    way, profile,   \* how it ends; "heap" (every heap call is hooked) | "vm" (only Nt* calls)
    th, calls,      \* thread -> where it is; calls it has begun
    lock,           \* thread -> how it holds the lock of the process heap
    sus,            \* thread -> suspended by the controller
    gate, closed,   \* the finalize gate is closed; finalize_gate_closed_
    recording,      \* the hooks record
    patched,        \* the targets hold the jumps
    hooks,          \* the hook objects: "live" | "freed" | "kept"
    state,          \* state_: "capturing" | "drained" | "finalized"
    trace,          \* "open" | "closed" (writer_ is gone too)
    w, lost,        \* the worker of the agent (session or duration); it is giving up
    mapped,         \* the agent is still mapped
    unseen,         \* threads no proof could see when hooks or agent went away (history)
    wire,           \* request or answer on the pipe, "" when empty
    c,              \* the controller
    slot, ptr,      \* exit_finalize_started; standalone_runtime is set
    x,              \* the thread in replacement_exit_process: "none" or its position
    proc            \* "alive" | "exiting" | "gone"

target == <<th, calls, lock, sus>>
runtime == <<gate, closed, recording, patched, hooks, state, trace>>
agent == <<runtime, lost, mapped, unseen>>
vars == <<way, profile, target, agent, w, wire, c, slot, ptr, x, proc>>

\* A thread is outside; in a replacement but in no counter of the gate ("turned", and
\* "notify" while it is in the wake-up call, outside the hook code section); parked, among
\* the waiters; in a counted call.
Places == {"out", "turned", "notify", "parked", "in"}
Inside == {t \in Threads : th[t] # "out"}
Turned == {t \in Threads : th[t] = "turned"}
Notify == {t \in Threads : th[t] = "notify"}
Parked == {t \in Threads : th[t] = "parked"}
Active == {t \in Threads : th[t] = "in"}

\* The heap lock is taken by a hooked heap call, or by a call that is not hooked.
HeapFree == \A t \in Threads : lock[t] = "none"

Init ==
    /\ way \in Stops /\ profile \in {"heap", "vm"}
    /\ th = [t \in Threads |-> "out"] /\ calls = [t \in Threads |-> 0]
    /\ lock = [t \in Threads |-> "none"] /\ sus = [t \in Threads |-> FALSE]
    /\ gate = FALSE /\ closed = FALSE /\ recording = TRUE /\ patched = TRUE /\ hooks = "live"
    /\ state = "capturing" /\ trace = "open"
    /\ w = IF way = "session" THEN "serve" ELSE "sleep"
    /\ lost = FALSE /\ mapped = TRUE /\ unseen = {} /\ wire = "" /\ c = IF way = "session" THEN "idle" ELSE "none"
    /\ slot = FALSE /\ ptr = (way = "standalone") /\ x = "none" /\ proc = "alive"

----------------------------------------------------------------------------
(* The threads of the target. *)

Free(t) == proc = "alive" /\ ~sus[t]
Moves(t, p) == th' = [th EXCEPT ![t] = p]
TargetQuiet == UNCHANGED <<way, profile, sus, agent, w, wire, c, slot, ptr, x, proc>>

\* A hooked call reaches the replacement; the gate has not counted it yet.
Call(t) ==
    /\ Free(t) /\ th[t] = "out" /\ patched /\ calls[t] < MaxCalls
    /\ calls' = [calls EXCEPT ![t] = @ + 1] /\ Moves(t, "turned")
    /\ UNCHANGED lock /\ TargetQuiet

\* The gate: an open one counts the call, a closed one its waiter.
PassesGate(t) ==
    /\ Free(t) /\ th[t] \in {"turned", "notify"}
    /\ Moves(t, IF gate THEN "parked" ELSE "in")
    /\ UNCHANGED <<calls, lock>> /\ TargetQuiet

\* A waiter that finds the gate open leaves the count before it tries again.
Wakes(t) ==
    /\ Free(t) /\ t \in Parked /\ ~gate /\ Moves(t, "turned")
    /\ UNCHANGED <<calls, lock>> /\ TargetQuiet

\* The counter it has left reached zero, and somebody waits for that.
Awaited == w \in {"closing", "stop", "closing2", "finalize", "release", "revert"}
           \/ x \in {"closing", "stop"}
Notifies(t) ==
    /\ Free(t) /\ t \in Turned /\ Awaited /\ Moves(t, "notify")
    /\ UNCHANGED <<calls, lock>> /\ TargetQuiet

Leaves(t) ==
    /\ Free(t) /\ t \in Active /\ lock[t] # "call" /\ Moves(t, "out")
    /\ UNCHANGED <<calls, lock>> /\ TargetQuiet

\* The heap takes its lock: inside a hooked heap call, or in a call that is not hooked
\* (HeapLock, HeapWalk; every heap call of a "vm" profile), which may then enter one that is.
Locks(t) ==
    /\ Free(t) /\ HeapFree
    /\ \/ t \in Active /\ profile = "heap" /\ lock' = [lock EXCEPT ![t] = "call"]
       \/ th[t] = "out" /\ calls[t] < MaxCalls /\ lock' = [lock EXCEPT ![t] = "own"]
    /\ UNCHANGED <<th, calls>> /\ TargetQuiet

Unlocks(t) ==
    /\ Free(t)
    /\ lock[t] = "call" \/ (lock[t] = "own" /\ th[t] = "out")
    /\ lock' = [lock EXCEPT ![t] = "none"]
    /\ UNCHANGED <<th, calls>> /\ TargetQuiet

----------------------------------------------------------------------------
(* The runtime.  `a` is the actor: "w" the worker, "x" the exiting thread. *)

At(a) == IF a = "w" THEN w ELSE x
Step(a, p) == IF a = "w" THEN w' = p /\ UNCHANGED x ELSE x' = p /\ UNCHANGED w
Works(a) == proc = "alive" \/ (a = "x" /\ proc = "exiting")
TearQuiet == UNCHANGED <<way, profile, target, lost, mapped, wire, c, slot, ptr, proc>>
RunQuiet == TearQuiet /\ UNCHANGED unseen

\* close_and_wait; a budget of 10 ms for the calls that are under way.
CloseGate(a) ==
    /\ Works(a) /\ At(a) = "close" /\ gate' = TRUE /\ Step(a, "closing")
    /\ UNCHANGED <<closed, recording, patched, hooks, state, trace>> /\ RunQuiet

GateQuiet(a) ==
    /\ Works(a) /\ At(a) = "closing" /\ Active = {} /\ closed' = TRUE /\ Step(a, "stop")
    /\ UNCHANGED <<gate, recording, patched, hooks, state, trace>> /\ RunQuiet

GateTimesOut(a) ==
    /\ Works(a) /\ At(a) = "closing" /\ Active # {} /\ gate' = FALSE /\ Step(a, "threw")
    /\ UNCHANGED <<closed, recording, patched, hooks, state, trace>> /\ RunQuiet

\* hooks_->stop_recording, then the gate opens for the final drain; calls that do not
\* become quiescent in a second end the attempt.
StopRecording(a) ==
    /\ Works(a) /\ At(a) = "stop" /\ recording' = FALSE
    /\ gate' = FALSE /\ closed' = FALSE
    /\ Step(a, "finish") \/ Step(a, "threw")
    /\ UNCHANGED <<patched, hooks, state, trace>> /\ RunQuiet

\* writer_->finish joins the writer, which needs the heap; the output is closed.
FinishWriter(a) ==
    /\ Works(a) /\ At(a) = "finish" /\ trace = "open" /\ HeapFree /\ trace' = "closed"
    /\ IF way = "session" THEN Step(a, "close2") /\ UNCHANGED state
       ELSE state' = "finalized" /\ Step(a, IF a = "w" THEN "revert" ELSE "exit")
    /\ UNCHANGED <<gate, closed, recording, patched, hooks>> /\ RunQuiet

\* finish() throws, or, after writer_.reset(), drain() finds that the output did not close.
FinishThrows(a) ==
    /\ Works(a) /\ At(a) = "finish" /\ trace = "open" /\ HeapFree /\ Step(a, "threw")
    /\ \/ UNCHANGED trace
       \/ way = "session" /\ trace' = "closed"
    /\ UNCHANGED <<gate, closed, recording, patched, hooks, state>> /\ RunQuiet

\* A drain that is tried again after the writer has gone calls through a null writer_.
FinishCrashes ==
    /\ proc = "alive" /\ w = "finish" /\ trace = "closed" /\ proc' = "gone"
    /\ UNCHANGED <<way, profile, target, agent, w, wire, c, slot, ptr, x>>

\* drain(): the second closing leaves the gate closed for the finalisation.
CloseAgain ==
    /\ proc = "alive" /\ w = "close2" /\ gate' = TRUE /\ w' = "closing2"
    /\ UNCHANGED <<closed, recording, patched, hooks, state, trace, x>> /\ RunQuiet

Drained_GateOpen ==
    /\ proc = "alive" /\ w = "closing2" /\ Active = {}
    /\ gate' = FALSE /\ closed' = TRUE /\ state' = "drained"
    /\ w' = IF lost THEN "threw" ELSE "answer"
    /\ UNCHANGED <<recording, patched, hooks, trace, x>> /\ RunQuiet

Drained ==
    /\ proc = "alive" /\ w = "closing2" /\ Active = {}
    /\ closed' = TRUE /\ state' = "drained" /\ w' = IF lost THEN "threw" ELSE "answer"
    /\ UNCHANGED <<gate, recording, patched, hooks, trace, x>> /\ RunQuiet

DrainTimesOut ==
    /\ proc = "alive" /\ w = "closing2" /\ Active # {} /\ gate' = FALSE /\ w' = "threw"
    /\ UNCHANGED <<closed, recording, patched, hooks, state, trace, x>> /\ RunQuiet

\* finalize(): the targets are restored, the calls inside counted out and the hook code
\* section searched for threads, while the gate is closed and the threads are frozen.
Uninstall ==
    /\ proc = "alive" /\ w = "finalize" /\ closed /\ Active \cup Turned = {}
    /\ patched' = FALSE /\ gate' = FALSE /\ closed' = FALSE /\ w' = "release"
    /\ UNCHANGED <<recording, hooks, state, trace, x>> /\ RunQuiet

\* A thread is found there, or a wait or the backend fails: the gate opens, and what was
\* restored stays restored.
UninstallFails ==
    /\ proc = "alive" /\ w = "finalize" /\ patched' \in {patched, FALSE}
    /\ gate' = FALSE /\ closed' = FALSE /\ w' = "threw"
    /\ UNCHANGED <<recording, hooks, state, trace, x>> /\ RunQuiet

\* The hook state is freed when the gate counts nobody any more, and kept otherwise.
Frees == hooks' = "freed" /\ unseen' = Turned \cup Notify
Keeps == hooks' = "kept" /\ UNCHANGED unseen
Finalizes ==
    /\ state' = "finalized" /\ w' = "answer"
    /\ UNCHANGED <<gate, closed, recording, patched, trace, x>> /\ TearQuiet

WaitForDrain_Frees ==
    proc = "alive" /\ w = "release" /\ HeapFree /\ Frees /\ Finalizes

WaitForDrain ==
    /\ proc = "alive" /\ w = "release" /\ HeapFree
    /\ \/ Parked \cup Active = {} /\ Frees
       \/ Parked \cup Active # {} /\ Keeps
    /\ Finalizes

----------------------------------------------------------------------------
(* agent_worker: its loop, its exception path. *)

PipeUp == proc = "alive" /\ c \notin {"failed", "stopped"}

Serve ==
    /\ proc = "alive" /\ w = "serve" /\ wire \in {"stop", "finalize"} /\ wire' = ""
    /\ w' = IF wire = "stop" THEN "close" ELSE "finalize"
    /\ UNCHANGED <<way, profile, target, agent, c, slot, ptr, x, proc>>

\* send_status allocates its payload.
Answer ==
    /\ proc = "alive" /\ w = "answer" /\ HeapFree
    /\ IF PipeUp THEN wire' = state /\ w' = (IF state = "finalized" THEN "unload" ELSE "serve")
       ELSE w' = "threw" /\ UNCHANGED wire
    /\ UNCHANGED <<way, profile, target, agent, c, slot, ptr, x, proc>>

\* The controller has gone while the worker waits for a request.
LosesChannel ==
    /\ proc = "alive" /\ w = "serve" /\ ~PipeUp /\ w' = "threw"
    /\ UNCHANGED <<way, profile, target, agent, wire, c, slot, ptr, x, proc>>

\* The error is reported; a capture that still runs is drained once more, and the
\* hook state is kept for the life of the process.
Rescue ==
    /\ proc = "alive" /\ w = "threw" /\ way = "session" /\ state = "capturing" /\ ~lost
    /\ lost' = TRUE /\ w' = "close"
    /\ wire' = IF PipeUp /\ wire = "" THEN "error" ELSE wire
    /\ UNCHANGED <<way, profile, target, runtime, mapped, unseen, c, slot, ptr, x, proc>>

KeepForever ==
    /\ proc = "alive" /\ w = "threw" /\ way = "session" /\ (state # "capturing" \/ lost)
    /\ gate' = FALSE /\ closed' = FALSE /\ hooks' = (IF hooks = "freed" THEN hooks ELSE "kept")
    /\ w' = "left"
    /\ UNCHANGED <<recording, patched, state, trace, x>> /\ RunQuiet

\* schedule_agent_unload, and the way out of the worker.
WorkerReturns ==
    /\ proc = "alive" /\ w = "unload" /\ w' = "ended"
    /\ UNCHANGED <<way, profile, target, agent, wire, c, slot, ptr, x, proc>>

\* The watchdog: no module reference is left, and the gate counts nobody.
Unload ==
    /\ proc = "alive" /\ w \in {"unload", "ended"} /\ mapped /\ state = "finalized"
    /\ way = "standalone" => hooks = "freed"
    /\ Parked \cup Active = {} /\ mapped' = FALSE /\ unseen' = unseen \cup Turned \cup Notify
    /\ UNCHANGED <<way, profile, target, runtime, lost, w, wire, c, slot, ptr, x, proc>>

----------------------------------------------------------------------------
(* CaptureSession::stop of the controller. *)

CtlQuiet == UNCHANGED <<way, profile, th, calls, lock, agent, w, slot, ptr, x, proc>>

SendStop ==
    /\ c = "idle" /\ proc = "alive" /\ w # "left" /\ wire = "" /\ wire' = "stop" /\ c' = "draining"
    /\ UNCHANGED sus /\ CtlQuiet

HearsDrained ==
    /\ c = "draining" /\ wire = "drained" /\ wire' = "" /\ c' = "suspend"
    /\ UNCHANGED sus /\ CtlQuiet

\* ThreadSuspension, thread by thread, until a pass finds no new one.
Suspend(t) ==
    /\ c = "suspend" /\ proc = "alive" /\ ~sus[t] /\ sus' = [sus EXCEPT ![t] = TRUE]
    /\ UNCHANGED <<wire, c>> /\ CtlQuiet

SendFinalize ==
    /\ c = "suspend" /\ proc = "alive" /\ (\A t \in Threads : sus[t])
    /\ wire' = "finalize" /\ c' = "finalizing"
    /\ UNCHANGED sus /\ CtlQuiet

Resumed == [t \in Threads |-> FALSE]

HearsFinalized ==
    /\ c = "finalizing" /\ wire = "finalized" /\ wire' = "" /\ c' = "stopped" /\ sus' = Resumed
    /\ CtlQuiet

\* A timeout, an error, a broken pipe, a thread list that does not settle: the
\* suspension ends with its object.
StopFails ==
    /\ c \in {"draining", "suspend", "finalizing"} /\ c' = "failed" /\ sus' = Resumed
    /\ UNCHANGED wire /\ CtlQuiet

\* The target has ended by itself: the session ends without a finalisation.
TargetGone ==
    /\ c \in {"draining", "suspend", "finalizing"} /\ proc = "gone" /\ c' = "stopped"
    /\ sus' = Resumed /\ UNCHANGED wire /\ CtlQuiet

----------------------------------------------------------------------------
(* A capture on its own: duration, ExitProcess, detach. *)

\* standalone_worker after its sleep: it claims the slot and takes the runtime out
\* of reach of the others before it touches it.
DurationEnds ==
    /\ proc = "alive" /\ w = "sleep" /\ slot' = TRUE
    /\ IF slot THEN w' = "left" /\ UNCHANGED ptr ELSE w' = "close" /\ ptr' = FALSE
    /\ UNCHANGED <<way, profile, target, agent, wire, c, x, proc>>

\* The destructor of the hooks restores the targets; what a counted call, or a thread in
\* the hook code section, still needs it keeps.  It does not ask for those at the gate.
DestroyHooks ==
    /\ patched' = FALSE
    /\ \/ hooks' = "freed" /\ Active \cup Turned = {} /\ unseen' = Parked \cup Notify
       \/ Keeps

\* finalize_timed: hooks reverted, objects destroyed.
FinalizeTimed ==
    /\ proc = "alive" /\ w = "revert" /\ HeapFree /\ DestroyHooks /\ w' = "ended"
    /\ UNCHANGED <<gate, closed, recording, state, trace, x>> /\ TearQuiet

\* finalize_graceful threw: the worker destroys its runtime, the exiting thread goes on.
GracefulThrew(a) ==
    /\ Works(a) /\ At(a) = "threw" /\ way = "standalone"
    /\ IF a = "w" THEN DestroyHooks /\ recording' = FALSE /\ trace' = "closed"
       ELSE UNCHANGED <<patched, recording, trace, hooks, unseen>>
    /\ Step(a, IF a = "w" THEN "left" ELSE "exit")
    /\ UNCHANGED <<gate, closed, state>> /\ TearQuiet

\* replacement_exit_process.
ExitProcess ==
    /\ proc = "alive" /\ x = "none" /\ way = "standalone" /\ slot' = TRUE
    /\ IF slot \/ ~ptr THEN x' = "exit" /\ UNCHANGED ptr ELSE x' = "close" /\ ptr' = FALSE
    /\ UNCHANGED <<way, profile, target, agent, w, wire, c, proc>>

\* The original: the other threads end where they are.  TerminateProcess-like ends
\* that bypass the hook get here too.
ProcessEnds ==
    /\ proc = "alive" /\ x \in {"exit", "none"}
    /\ proc' = "exiting"
    /\ UNCHANGED <<way, profile, target, agent, w, wire, c, slot, ptr, x>>

\* DLL_PROCESS_DETACH: finalize_detached, if nobody has taken the runtime.
Detach ==
    /\ proc = "exiting" /\ proc' = "gone" /\ ptr' = FALSE
    /\ IF ptr /\ state = "capturing"
       THEN recording' = FALSE /\ trace' = "closed" /\ state' = "finalized"
       ELSE UNCHANGED <<recording, trace, state>>
    /\ UNCHANGED <<way, profile, target, gate, closed, patched, hooks, lost, mapped, unseen, w,
                   wire, c, slot, x>>

----------------------------------------------------------------------------
Target == \E t \in Threads : 
    Call(t) \/ PassesGate(t) \/ Wakes(t) \/ Notifies(t) \/ Leaves(t) \/ Locks(t) \/ Unlocks(t)
Runtime ==
    \/ \E a \in {"w", "x"} :
          CloseGate(a) \/ GateQuiet(a) \/ GateTimesOut(a) \/ StopRecording(a) \/ FinishWriter(a)
          \/ FinishThrows(a) \/ GracefulThrew(a)
    \/ FinishCrashes \/ CloseAgain \/ Drained \/ DrainTimesOut
    \/ Uninstall \/ UninstallFails \/ WaitForDrain
Worker == Serve \/ Answer \/ LosesChannel \/ Rescue \/ KeepForever \/ WorkerReturns \/ Unload
    \/ DurationEnds \/ FinalizeTimed
Stop ==
    SendStop \/ HearsDrained \/ SendFinalize \/ HearsFinalized \/ StopFails \/ TargetGone
    \/ \E t \in Threads : Suspend(t)
Exit == ExitProcess \/ ProcessEnds \/ Detach

Next == Target \/ Runtime \/ Worker \/ Stop \/ Exit
Spec == Init /\ [][Next]_vars

----------------------------------------------------------------------------
(* Properties. *)

\* A thread frozen for the removal of the hooks never holds a heap lock that a hooked
\* call has taken, which the worker needs to finalise: the gate is closed, with nobody
\* counted, before the first thread is suspended, and stays closed as long as one can move.
FrozenHoldNoLock == c \in {"suspend", "finalizing"} => \A t \in Threads : sus[t] => lock[t] # "call"

\* However a stop ends, no thread stays suspended; neither the hook objects nor the code
\* of the agent ever go away under a thread that is in a replacement or on its way into
\* one, but for those in the blind spots of the proofs at that moment; as long as the
\* freeze holds, the wake-up call of the gate is the only one.
StopLeavesNothing ==
    /\ c \in {"stopped", "failed"} => \A t \in Threads : ~sus[t]
    /\ (hooks = "freed" \/ ~mapped) /\ proc = "alive" => Inside \subseteq unseen
    /\ c = "finalizing" => unseen \subseteq Notify

\* The runtime other threads reach through standalone_runtime is never one that a
\* finaliser is working on or has destroyed, and only one of them finalises.
OneFinalizer ==
    /\ ptr => hooks = "live" /\ state = "capturing"
    /\ way = "standalone" => ~(w \in {"close", "closing", "stop", "finish", "revert", "threw"}
                               /\ x \in {"close", "closing", "stop", "finish", "threw"})

\* The parts of the inductive invariant.
WorkerStages == {"serve", "close", "closing", "stop", "finish", "close2", "closing2", "answer",
                 "finalize", "release", "threw", "unload", "sleep", "revert", "ended", "left"}
ExitStages == {"none", "close", "closing", "stop", "finish", "threw", "exit"}
StopStages == {"none", "idle", "draining", "suspend", "finalizing", "stopped", "failed"}
Messages == {"", "stop", "drained", "finalize", "finalized", "error"}
RuntimeStates == {"capturing", "drained", "finalized"}
HookStates == {"live", "freed", "kept"}

ThreadsTyped ==
    /\ th \in [Threads -> Places] /\ sus \in [Threads -> BOOLEAN]
    /\ lock \in [Threads -> {"none", "call", "own"}] /\ unseen \subseteq Threads
FlagsTyped ==
    /\ gate \in BOOLEAN /\ closed \in BOOLEAN /\ recording \in BOOLEAN /\ patched \in BOOLEAN
    /\ lost \in BOOLEAN /\ mapped \in BOOLEAN /\ slot \in BOOLEAN /\ ptr \in BOOLEAN
StagesTyped ==
    /\ way \in {"session", "standalone"} /\ profile \in {"heap", "vm"}
    /\ hooks \in HookStates /\ state \in RuntimeStates /\ trace \in {"open", "closed"}
    /\ w \in WorkerStages /\ wire \in Messages /\ c \in StopStages /\ x \in ExitStages
    /\ proc \in {"alive", "exiting", "gone"}
TypeOK == ThreadsTyped /\ FlagsTyped /\ StagesTyped

\* A session and a capture on its own use different parts of the runtime.
WaysApart ==
    /\ way = "session" => x = "none" /\ ~ptr /\ w \notin {"sleep", "revert"}
    /\ way = "standalone" =>
           /\ c = "none"
           /\ w \in {"sleep", "close", "closing", "stop", "finish", "revert", "threw", "ended", "left"}

\* A hooked call that holds the heap lock is counted until it has given it back.
LocksInside == \A t \in Threads : lock[t] = "call" => th[t] = "in"

\* What a successful drain leaves: nobody inside, and nobody can get in.
Quiesced == gate /\ patched /\ Active = {}

\* From the end of the second closing until the controller has frozen every thread.
DrainHolds ==
    /\ w = "closing2" => gate
    /\ w = "answer" => state # "capturing"
    /\ w = "finalize" \/ (w = "serve" /\ wire = "finalize") => state = "drained"
    /\ w \in {"serve", "answer"} /\ state = "drained" => Quiesced
    /\ c = "draining" /\ wire = "drained" => w = "serve" /\ state = "drained"
    /\ c = "suspend" => w = "serve" /\ state = "drained" /\ wire = ""
    /\ c = "idle" => w = "serve" /\ wire = ""

\* Threads are suspended by a controller that is about to finalise, and then all of
\* them, none with a heap lock of a hooked call.
FreezeHolds ==
    /\ c \notin {"suspend", "finalizing"} => \A t \in Threads : ~sus[t]
    /\ c = "finalizing" => \A t \in Threads : sus[t] /\ lock[t] # "call"
    /\ c = "finalizing" /\ ~patched /\ w \notin {"threw", "left"} => Turned = {}

\* The jumps, the hooks and the agent go away once, on the way out.
TornDownInOrder ==
    /\ ~patched => w \in {"release", "unload", "ended", "left"}
                    \/ (w \in {"answer", "threw"} /\ state # "capturing")
    /\ w \in {"release", "unload"} \/ (way = "session" /\ state = "finalized") => ~patched
    /\ hooks # "live" => w \in {"unload", "ended", "left"}
                         \/ (way = "session" /\ w \in {"answer", "threw"} /\ state = "finalized")
    /\ ~mapped => w \in {"unload", "ended"}

\* What they lead to goes away behind them, under nobody the proofs could see.
OnlyUnseen ==
    /\ hooks = "freed" \/ ~mapped => ~patched /\ Inside \subseteq unseen
    /\ hooks # "freed" /\ mapped => unseen = {}
    /\ c = "finalizing" => unseen \subseteq Notify

\* The slot is claimed by one of the worker and the exiting thread.
SlotClaimedOnce ==
    /\ ptr => ~slot /\ hooks = "live" /\ state = "capturing"
    /\ way = "standalone" /\ ~slot => w = "sleep" /\ x = "none"
    /\ way = "standalone" /\ x \in {"close", "closing", "stop", "finish", "threw"} =>
           w \in {"sleep", "left"}

StopInv ==
    /\ TypeOK /\ WaysApart /\ LocksInside /\ DrainHolds /\ FreezeHolds /\ TornDownInOrder
    /\ OnlyUnseen /\ SlotClaimedOnce

\* Claimed, and false: with the control channel lost, the hook state that is kept is
\* "logically stopped" (agent_runtime.cpp:616-617).
LostMeansStopped == way = "session" /\ w = "left" => ~recording

\* Claimed, and false: the module is unmapped "once every teardown proof holds"
\* (agent_runtime.cpp:490), which does not cover the worker that started the watchdog.
UnmappedAfterWorker == ~mapped => w = "ended"

\* Claimed, and false: no thread is in a replacement, or can get there, once the agent is
\* unmapped ("once every teardown proof holds", agent_runtime.cpp:490) or its hooks are freed.
NobodyUnderFreed == (hooks = "freed" \/ ~mapped) /\ proc = "alive" => Inside = {}

\* Claimed, and false: after a drain that failed, the agent can drain once more to stop
\* "logically" (agent_runtime.cpp:611-617): the writer of the first attempt may be gone.
DrainHasWriter == way = "session" /\ proc = "alive" /\ w = "finish" => trace = "open"
============================================================================
