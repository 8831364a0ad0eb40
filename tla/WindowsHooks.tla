---------------------------- MODULE WindowsHooks ----------------------------
(***************************************************************************)
(* WindowsMemoryHooks on one HookBackend: the RTL heap hooks (one object   *)
(* per function), NtMemoryHooks (one object, a lifecycle per function, the *)
(* two unmapping functions share one) and the custom symbol hooks (a       *)
(* lifecycle per declared point), from installation with its rollbacks     *)
(* through the two ways to stop a capture to the destructors, while target *)
(* threads run the replacements.  LinuxCustomSymbolHooks is the same code  *)
(* as CustomSymbolHooks where this module describes it.                    *)
(*                                                                         *)
(* The control thread works through todo, a sequence of <<step, argument,  *)
(* deadline>>; "now" is a deadline that has passed, with which a wait is   *)
(* tested once and a flush is not attempted.  Lifecycles are abstracted as *)
(* in LinuxHooks.  The route stores of one object are one step: a thread   *)
(* reads one of them only.                                                 *)
(***************************************************************************)
EXTENDS Naturals, Sequences, FiniteSets, SequencesExt

CONSTANTS
    RtlHooks,    \* the RTL functions, in installation order
    VmChannels,  \* the NT functions, in installation order
    Points,      \* the custom points: [name, roles], the addresses of the roles in order
    Threads, Slices, None

Vm == "vm"                     \* the NtMemoryHooks object
Agent == "agent"               \* the one HookBackend
Elements(s) == {s[i] : i \in 1 .. Len(s)}
Objects == Elements(RtlHooks) \cup (IF VmChannels = << >> THEN {} ELSE {Vm})
PointSeq == [i \in 1 .. Len(Points) |-> Points[i].name]
PointIds == Elements(PointSeq)
RolesOf(p) == (CHOOSE x \in Elements(Points) : x.name = p).roles
Channels(o) == IF o = Vm THEN VmChannels ELSE << o >>
ObjectOf(c) == IF c \in Elements(VmChannels) THEN Vm ELSE c
\* unmap_ex has no lifecycle of its own.
LifeOf(c) == IF c = "unmapEx" THEN "unmap" ELSE c
LivesOf(o) == {LifeOf(c) : c \in Elements(Channels(o))}
Builtin == UNION {Elements(Channels(o)) : o \in Objects}
Roles == UNION {Elements(RolesOf(p)) : p \in PointIds}
PointOf(r) == CHOOSE p \in PointIds : r \in Elements(RolesOf(p))
Funcs == Builtin \cup Roles
Lives == {LifeOf(c) : c \in Builtin} \cup PointIds

Declares(s) == /\ s \in Seq(Elements(s))
               /\ \A i, j \in 1 .. Len(s) : s[i] = s[j] => i = j

\* Every function and every point is declared once, under names of its own: the
\* backend refuses a second replacement of a function, and install_role then fails
\* as for any other refusal (RoleFails).  A point has a role at least.
ASSUME WindowsHooksAssumption ==
    /\ Declares(RtlHooks) /\ Declares(VmChannels) /\ Declares(PointSeq)
    /\ Points \in Seq(Elements(Points))
    /\ \A p \in PointIds : Declares(RolesOf(p)) /\ RolesOf(p) # << >>
    /\ \A p, q \in PointIds : p # q => Elements(RolesOf(p)) \cap Elements(RolesOf(q)) = {}
    /\ Elements(RtlHooks) \cap (Elements(VmChannels) \cup {Vm, "unmapEx"}) = {}
    /\ "unmapEx" \in Elements(VmChannels) => "unmap" \in Elements(VmChannels)
    /\ Builtin \cap (Roles \cup PointIds) = {}
    /\ None \notin Funcs \cup Objects \cup PointIds \cup Slices \cup {Agent} \cup ({Agent} \X Funcs)

VARIABLES
    interceptor, stopping, leases, pending, entries, installing,
    jump, original, contents, free, retained, slot, holders, guard,
    \* each object
    state,        \* State
    active,       \* active_hook_state points to the object's hook state
    alive,        \* the hook state has not been freed
    quiescent,    \* lifecycles whose wait has succeeded
    flushed,      \* backend_teardown_complete_ / backend_flush_complete_
    leased,       \* functions whose lease is recorded as held
    \* each point
    point,        \* "declared", "installed", "pending", "retired" or "failed"
    hooked,       \* roles recorded as installed
    failures,     \* <<point, reason>>, in order
    \* shared
    thunk,        \* function -> lifecycle its jump leads to
    route, queue, gate, frames,
    todo, phase, done

HB == INSTANCE HookBackend WITH
        Backends <- {Agent}, Targets <- Funcs, Clients <- Funcs

backend == <<interceptor, stopping, leases, pending, entries, installing,
             jump, original, contents, free, retained, slot, holders, guard>>
objects == <<state, active, alive, quiescent, flushed, leased>>
custom  == <<point, hooked, failures>>
control == <<todo, phase, done>>
vars    == <<backend, objects, custom, thunk, route, queue, gate, frames, control>>

Step(step, x, deadline) == <<step, x, deadline>>
ForEach(step, s, deadline) == [i \in 1 .. Len(s) |-> Step(step, s[i], deadline)]
\* The NtMemoryHooks and the CustomSymbolHooks, if there are any.
VmSeq == IF VmChannels = << >> THEN << >> ELSE << Vm >>
CustomSeq == IF PointSeq = << >> THEN << >> ELSE << None >>

\* WindowsMemoryHooks::install, then begin_capture.
InstallAll ==
    ForEach("arm", RtlHooks \o VmChannels, "late") \o ForEach("point", PointSeq, "late")
        \o << Step("begin", None, "late") >>

Init ==
    /\ HB!Init
    /\ state = [o \in Objects |-> "inactive"]
    /\ active = [o \in Objects |-> FALSE] /\ alive = [o \in Objects |-> TRUE]
    /\ quiescent = {} /\ flushed = {} /\ leased = {}
    /\ point = [p \in PointIds |-> "declared"] /\ hooked = {} /\ failures = << >>
    /\ thunk = [c \in Funcs |-> None]
    /\ route = [l \in Lives |-> "target"]
    /\ queue = TRUE /\ gate = "open"
    /\ frames = [t \in Threads |-> None]
    /\ todo = InstallAll /\ phase = "starting" /\ done = TRUE

----------------------------------------------------------------------------
(* Target threads.  A call is [c, at, route, orig]; "parked" is a thread waiting *)
(* in the gate, where neither counters nor the rendezvous see it.                *)

Inside(t, at) == frames[t] # None /\ frames[t].at = at
Go(t, f) == frames' = [frames EXCEPT ![t] = f]
TargetStep == UNCHANGED <<backend, objects, custom, thunk, route, queue, gate, control>>

Arrive(t, c) ==
    /\ frames[t] = None /\ c \in jump
    /\ Go(t, [c |-> c, at |-> "arrived", life |-> thunk[c], route |-> "target", orig |-> None])
    /\ TargetStep

\* enter_unscoped: the gate, then the counters and the route.
Enter(t) ==
    /\ Inside(t, "arrived") \/ Inside(t, "parked")
    /\ IF gate = "closed"
       THEN Inside(t, "arrived") /\ Go(t, [frames[t] EXCEPT !.at = "parked"])
       ELSE LET r == route[frames[t].life]
            IN  Go(t, [frames[t] EXCEPT !.route = r,
                          !.at = IF r = "target" THEN "calling" ELSE "entered"])
    /\ TargetStep

\* The hook state and the original; null aborts the process (RoutesHold).
LoadOriginal(t) ==
    /\ Inside(t, "entered") /\ slot[frames[t].c] # None
    /\ Go(t, [frames[t] EXCEPT !.at = "calling", !.orig = slot[frames[t].c]])
    /\ TargetStep

\* The original returns or raises; the event is published, the finally block leaves.
Leave(t) ==
    /\ Inside(t, "calling")
    /\ Go(t, None)
    /\ TargetStep

Counted(l, routes) ==
    \E t \in Threads : /\ Inside(t, "entered") \/ Inside(t, "calling")
                       /\ frames[t].life = l /\ frames[t].route \in routes
AnyRoute == {"target", "original", "record"}

\* No program counter in the section of the replacements.
Evacuated == \A t \in Threads : ~Inside(t, "arrived") /\ ~Inside(t, "entered")

----------------------------------------------------------------------------
(* The control thread. *)

Doing(step, x) == todo # << >> /\ Head(todo)[1] = step /\ Head(todo)[2] = x
Deadline == Head(todo)[3]
Push(steps) == todo' = steps \o Tail(todo)
Routes(ls, r) == route' = [l \in Lives |-> IF l \in ls THEN r ELSE route[l]]

\* A step of a call that could not be proved complete within its deadline.
GiveUp == done' = (done /\ Deadline = "now") /\ Push(<< >>)

HeapUninstall(deadline) ==
    ForEach("uninstall", RtlHooks, "now") \o ForEach("flush", Reverse(RtlHooks), deadline)

\* The family that fails takes its hooks back (steps); WindowsMemoryHooks::install
\* repeats it, with the NT family first; the runtime then destroys hooks and backend.
StartFails(steps) ==
    /\ todo' = steps \o HeapUninstall("late") \o
               << Step("destroy", None, "late"), Step("destroy", Agent, "late") >>
    /\ phase' = "failed"

\* install up to the patch: lease, hook state, restored target and route.
Arm(c) ==
    LET o == ObjectOf(c)
    IN  /\ Doing("arm", c) /\ state[o] \in {"inactive", "installed"}
        /\ HB!Acquire(Agent, c) /\ leased' = leased \cup {c}
        /\ active' = [active EXCEPT ![o] = TRUE]
        /\ Routes({LifeOf(c)}, "record")
        /\ thunk' = [thunk EXCEPT ![c] = LifeOf(c)]
        /\ Push(<< Step("patch", c, "late") >>)
        /\ UNCHANGED <<state, alive, quiescent, flushed, custom, queue, gate, frames,
                       phase, done>>

Patch(c) ==
    /\ Doing("patch", c)
    /\ HB!Prepare(Agent, c)
    /\ Push(<< Step("activate", c, "late") >>)
    /\ UNCHANGED <<objects, custom, thunk, route, queue, gate, frames, phase, done>>

Activate(c) ==
    /\ Doing("activate", c)
    /\ HB!Activate(Agent, c)
    /\ state' = [state EXCEPT ![ObjectOf(c)] = "installed"]
    /\ Push(<< >>)
    /\ UNCHANGED <<active, alive, quiescent, flushed, leased, custom, thunk, route, queue,
                   gate, frames, phase, done>>

\* The first function of an object is refused: release_failed_initial_install.
PatchFails(c) ==
    LET o == ObjectOf(c)
    IN  /\ Doing("patch", c) /\ state[o] = "inactive"
        /\ HB!Release(Agent, c) /\ leased' = leased \ {c}
        /\ active' = [active EXCEPT ![o] = FALSE]
        /\ Routes({LifeOf(c)}, "target")
        /\ StartFails(IF o = Vm THEN << >> ELSE HeapUninstall("late"))
        /\ UNCHANGED <<state, alive, quiescent, flushed, custom, thunk, queue, gate, frames, done>>

\* A later function of NtMemoryHooks is refused: uninstall().
LaterPatchFails(c) ==
    /\ Doing("patch", c) /\ ObjectOf(c) = Vm /\ state[Vm] = "installed"
    /\ StartFails(<< Step("uninstall", Vm, "late"), Step("uninstall", Vm, "late") >>)
    /\ UNCHANGED <<backend, objects, custom, thunk, route, queue, gate, frames, done>>

\* begin_capture, which may fail with the hooks live.
BeginCapture ==
    /\ Doing("begin", None)
    /\ \/ Push(<< >>) /\ phase' = "capturing"
       \/ /\ todo' = << Step("destroy", None, "late"), Step("destroy", Agent, "late") >>
          /\ phase' = "failed"
    /\ UNCHANGED <<backend, objects, custom, thunk, route, queue, gate, frames, done>>

----------------------------------------------------------------------------
(* Custom points. *)

Fail(p, reason) == failures' = Append(failures, <<p, reason>>)

\* The declaration, the module, the image identity or a role does not resolve:
\* nothing has been changed.
Unresolved(p) ==
    /\ Doing("point", p)
    /\ Fail(p, "declaration")
    /\ point' = [point EXCEPT ![p] = "failed"]
    /\ Push(<< >>)
    /\ UNCHANGED <<backend, objects, hooked, thunk, route, queue, gate, frames, phase, done>>

\* install_point with every role resolved.
InstallPoint(p) ==
    /\ Doing("point", p)
    /\ Routes({p}, "record")
    /\ Push(<< Step("lease", RolesOf(p)[1], "late") >>)
    /\ UNCHANGED <<backend, objects, custom, thunk, queue, gate, frames, phase, done>>

LeaseRole(r) ==
    /\ Doing("lease", r)
    /\ HB!Acquire(Agent, r) /\ leased' = leased \cup {r}
    /\ Push(<< Step("role", r, "late") >>)
    /\ UNCHANGED <<state, active, alive, quiescent, flushed, custom, thunk, route, queue,
                   gate, frames, phase, done>>

PatchRole(r) ==
    /\ Doing("role", r)
    /\ HB!Prepare(Agent, r)
    /\ thunk' = [thunk EXCEPT ![r] = PointOf(r)]
    /\ Push(<< Step("activateRole", r, "late") >>)
    /\ UNCHANGED <<objects, custom, route, queue, gate, frames, phase, done>>

\* The next role of the point, if there is one.
NextStep(r) ==
    LET p == PointOf(r)
        i == CHOOSE k \in 1 .. Len(RolesOf(p)) : RolesOf(p)[k] = r
    IN  IF i = Len(RolesOf(p)) THEN Step("live", p, "late")
        ELSE Step("lease", RolesOf(p)[i + 1], "late")

ActivateRole(r) ==
    /\ Doing("activateRole", r)
    /\ HB!Activate(Agent, r)
    /\ hooked' = hooked \cup {r}
    /\ Push(<< NextStep(r) >>)
    /\ UNCHANGED <<objects, point, failures, thunk, route, queue, gate, frames, phase, done>>

\* Why install_fast refuses: the backend, or this role.
Refusal(r) == IF pending[Agent] THEN "backend unavailable" ELSE "own"

\* install_role fails: its lease goes, the roles of the point already patched are
\* reverted and their leases released, role by role, and the point is routed.
RoleFails(r) ==
    LET p == PointOf(r)
    IN  /\ Doing("role", r)
        /\ HB!Release(Agent, r) /\ leased' = leased \ {r}
        /\ Fail(p, Refusal(r))
        /\ point' = [point EXCEPT ![p] = "failed"]
        /\ Push(ForEach("revertRole", RolesOf(p), "now") \o << Step("rolled", p, "now") >>)
        /\ UNCHANGED <<state, active, alive, quiescent, flushed, hooked, thunk, route, queue,
                       gate, frames, phase, done>>

DropLease(r) ==
    /\ Doing("dropLease", r)
    /\ HB!Release(Agent, r) /\ leased' = leased \ {r}
    /\ Push(<< >>)
    /\ UNCHANGED <<state, active, alive, quiescent, flushed, custom, thunk, route, queue,
                   gate, frames, phase, done>>

\* route_to_target, then stop_recording: the point ends on the original route.
RolledBack(p) ==
    /\ Doing("rolled", p)
    /\ Routes({p}, "original")
    /\ Push(<< >>)
    /\ UNCHANGED <<backend, objects, custom, thunk, queue, gate, frames, phase, done>>

PointLive(p) ==
    /\ Doing("live", p)
    /\ point' = [point EXCEPT ![p] = "installed"]
    /\ Push(<< >>)
    /\ UNCHANGED <<backend, objects, hooked, failures, thunk, route, queue, gate, frames,
                   phase, done>>

\* backend_->uninstall with an expired deadline: reverted, never flushed.  A rolled
\* back role releases its lease next.
Revert(step, c) ==
    /\ Doing(step, c)
    /\ IF c \in entries[Agent] THEN HB!Uninstall(Agent, c) /\ pending'[Agent]
       ELSE UNCHANGED backend
    /\ hooked' = IF step = "revertRole" THEN hooked \ {c} ELSE hooked
    /\ Push(IF step = "revertRole" /\ c \in hooked THEN << Step("dropLease", c, "now") >>
            ELSE << >>)
    /\ UNCHANGED <<objects, point, failures, thunk, route, queue, gate, frames, phase, done>>

----------------------------------------------------------------------------
(* Stopping.  A session stop closes the gate twice; a timed one leaves it open   *)
(* while the hooks are taken out.                                                *)

CoordinatorUninstall ==
    ForEach("custom", CustomSeq, "now") \o ForEach("uninstall", VmSeq, "now")
    \o HeapUninstall("now") \o ForEach("custom", CustomSeq, "late")
    \o ForEach("uninstall", VmSeq, "late") \o HeapUninstall("late")

Stop ==
    /\ phase = "capturing" /\ todo = << >>
    /\ \/ phase' = "stopping" /\ todo' = << Step("close", None, "late"),
              Step("original", None, "late"), Step("open", None, "late"),
              Step("close", None, "late") >> \o CoordinatorUninstall
              \o << Step("finalize", None, "late") >>
       \/ phase' = "timed" /\ todo' = << Step("close", None, "late"),
              Step("original", None, "late"), Step("open", None, "late") >>
              \o CoordinatorUninstall
              \o << Step("destroy", None, "late"), Step("destroy", Agent, "late") >>
    /\ UNCHANGED <<backend, objects, custom, thunk, route, queue, gate, frames, done>>

\* close_and_wait: no call of any replacement is active.
CloseGate ==
    /\ Doing("close", None)
    /\ \A t \in Threads : ~Inside(t, "entered") /\ ~Inside(t, "calling")
    /\ gate' = "closed" /\ Push(<< >>)
    /\ UNCHANGED <<backend, objects, custom, thunk, route, queue, frames, phase, done>>

\* The gate is not reached in time: it opens and the stop fails; the capture goes
\* on, or stays drained (WindowsStop tells the outcomes apart).
CloseTimesOut ==
    /\ Doing("close", None)
    /\ phase' = "abandoned" /\ todo' = << >>
    /\ UNCHANGED <<backend, objects, custom, thunk, route, queue, gate, frames, done>>

OpenGate ==
    /\ Doing("open", None)
    /\ gate' = "open" /\ Push(<< >>)
    /\ UNCHANGED <<backend, objects, custom, thunk, route, queue, frames, phase, done>>

Live(p) == point[p] = "installed"

\* WindowsMemoryHooks::stop_recording: every installed family, then the waits, which
\* the closed gate or destruction find without recorders or give up on.
StopRecording ==
    /\ Doing("original", None)
    /\ Routes({LifeOf(c) : c \in {x \in Builtin : state[ObjectOf(x)] = "installed"}}
                \cup {p \in PointIds : Live(p)}, "original")
    /\ Push(<< >>)
    /\ UNCHANGED <<backend, objects, custom, thunk, queue, gate, frames, phase, done>>

\* uninstall of an object; RTL hooks leave a pending one to flush().
Uninstall(o) ==
    /\ Doing("uninstall", o)
    /\ CASE state[o] \in {"inactive", "retired"} -> UNCHANGED <<state, route>> /\ Push(<< >>)
         [] state[o] = "pending" ->
                /\ UNCHANGED <<state, route>>
                /\ Push(IF o = Vm THEN << Step("finish", o, Deadline) >> ELSE << >>)
         [] state[o] = "installed" ->
                /\ state' = [state EXCEPT ![o] = "pending"]
                /\ Routes({l \in LivesOf(o) : route[l] # "target"}, "original")
                /\ Push(ForEach("revert", Channels(o), "now") \o
                        << Step("target", o, "now"), Step("finish", o, Deadline) >>)
    /\ UNCHANGED <<backend, active, alive, quiescent, flushed, leased, custom, thunk, queue,
                   gate, frames, phase, done>>

RouteToTarget_Kept(o) ==
    /\ Doing("target", o)
    /\ Push(<< >>)
    /\ UNCHANGED <<backend, objects, custom, thunk, route, queue, gate, frames, phase, done>>

RouteToTarget(o) ==
    /\ Doing("target", o)
    /\ Routes(LivesOf(o), "target")
    /\ Push(<< >>)
    /\ UNCHANGED <<backend, objects, custom, thunk, queue, gate, frames, phase, done>>

Flush(o) ==
    /\ Doing("flush", o)
    /\ Push(IF state[o] = "pending" THEN << Step("finish", o, Deadline) >> ELSE << >>)
    /\ UNCHANGED <<backend, objects, custom, thunk, route, queue, gate, frames, phase, done>>

Unsettled(o) == LivesOf(o) \ quiescent
Held(l) == {c \in Builtin : LifeOf(c) = l} \cap leased

\* The lifecycle try_finish_teardown has come to.
Awaited(o, l) ==
    \E i \in 1 .. Len(Channels(o)) :
        /\ l = LifeOf(Channels(o)[i]) /\ l \notin quiescent
        /\ \A j \in 1 .. i - 1 : LifeOf(Channels(o)[j]) \in quiescent

\* try_finish_teardown: lifecycle after lifecycle, wait and release its leases, ...
Settle_NoWait(o) ==
    /\ Doing("finish", o)
    /\ \E l \in Unsettled(o) :
           /\ Awaited(o, l)
           /\ IF Held(l) = {} THEN quiescent' = quiescent \cup {l} /\ UNCHANGED <<backend, leased>>
              ELSE \E c \in Held(l) : HB!Release(Agent, c) /\ leased' = leased \ {c}
                                      /\ UNCHANGED quiescent
    /\ UNCHANGED <<state, active, alive, flushed, custom, thunk, route, queue, gate, frames,
                   control>>

Settle(o) ==
    /\ Doing("finish", o)
    /\ \E l \in Unsettled(o) :
           /\ Awaited(o, l) /\ ~Counted(l, AnyRoute)
           /\ IF Held(l) = {} THEN quiescent' = quiescent \cup {l} /\ UNCHANGED <<backend, leased>>
              ELSE \E c \in Held(l) : HB!Release(Agent, c) /\ leased' = leased \ {c}
                                      /\ UNCHANGED quiescent
    /\ UNCHANGED <<state, active, alive, flushed, custom, thunk, route, queue, gate, frames,
                   control>>

\* ... or give up while a call is counted.
SettleExpires(o) ==
    /\ Doing("finish", o)
    /\ \E l \in Unsettled(o) : Awaited(o, l) /\ Counted(l, AnyRoute)
    /\ GiveUp
    /\ UNCHANGED <<backend, objects, custom, thunk, route, queue, gate, frames, phase>>

\* ... flush the backend, which any other lease forbids, ...
FinishStep(x) == IF x = None THEN "customFinish" ELSE "finish"

FlushBackend(x) ==
    /\ Doing(FinishStep(x), x) /\ x \notin flushed
    /\ IF x = None THEN \A p \in PointIds : point[p] # "pending" ELSE Unsettled(x) = {}
    /\ \/ /\ Deadline = "late" /\ interceptor[Agent] /\ HB!Flush(Agent)
          /\ flushed' = flushed \cup {x} /\ UNCHANGED <<todo, done>>
       \/ /\ GiveUp /\ UNCHANGED <<backend, flushed>>
    /\ UNCHANGED <<state, active, alive, quiescent, leased, custom, thunk, route, queue,
                   gate, frames, phase>>

\* ... prove the section empty, and finish_teardown.
Finish(o) ==
    /\ Doing("finish", o) /\ o \in flushed /\ Evacuated
    /\ slot' = [c \in Funcs |-> IF c \in Elements(Channels(o)) THEN None ELSE slot[c]]
    /\ state' = [state EXCEPT ![o] = "retired"]
    /\ active' = [active EXCEPT ![o] = FALSE]
    /\ Push(<< >>)
    /\ UNCHANGED <<interceptor, stopping, leases, pending, entries, installing, jump, original,
                   contents, free, retained, holders, guard, alive, quiescent, flushed, leased,
                   custom, thunk, route, queue, gate, frames, phase, done>>

EvacuationFails(x) ==
    /\ Doing(FinishStep(x), x) /\ x \in flushed
    /\ GiveUp
    /\ UNCHANGED <<backend, objects, custom, thunk, route, queue, gate, frames, phase>>

\* CustomSymbolHooks::uninstall: every live point in turn, then try_finish_teardown.
CustomUninstall ==
    /\ Doing("custom", None)
    /\ Push(ForEach("retire", PointSeq, Deadline) \o << Step("customFinish", None, Deadline) >>)
    /\ UNCHANGED <<backend, objects, custom, thunk, route, queue, gate, frames, phase, done>>

RetirePoint(p) ==
    /\ Doing("retire", p)
    /\ IF Live(p)
       THEN /\ point' = [point EXCEPT ![p] = "pending"]
            /\ Routes({p}, "original")
            /\ Push(ForEach("revertRoleKept", RolesOf(p), "now") \o << Step("targetPoint", p, "now") >>)
       ELSE UNCHANGED <<point, route>> /\ Push(<< >>)
    /\ UNCHANGED <<backend, objects, hooked, failures, thunk, queue, gate, frames, phase, done>>

PointToTarget(p) ==
    /\ Doing("targetPoint", p)
    /\ Routes({p}, "target")
    /\ Push(<< >>)
    /\ UNCHANGED <<backend, objects, custom, thunk, queue, gate, frames, phase, done>>

\* A quiescent point releases the leases of its roles, role by role.
SettlePoint(p) ==
    LET mine == hooked \cap Elements(RolesOf(p))
    IN  /\ todo # << >> /\ Head(todo)[1] = "customFinish"
        /\ point[p] = "pending" /\ ~Counted(p, AnyRoute)
        /\ IF mine = {} THEN /\ point' = [point EXCEPT ![p] = "retired"]
                             /\ UNCHANGED <<backend, leased, hooked>>
           ELSE \E r \in mine : /\ HB!Release(Agent, r) /\ leased' = leased \ {r}
                                /\ hooked' = hooked \ {r} /\ UNCHANGED point
        /\ UNCHANGED <<state, active, alive, quiescent, flushed, failures, thunk, route, queue,
                       gate, frames, control>>

\* Some point is still counted at its deadline.
CustomExpires ==
    /\ Doing("customFinish", None)
    /\ \E p \in PointIds : point[p] = "pending" /\ Counted(p, AnyRoute)
    /\ GiveUp
    /\ UNCHANGED <<backend, objects, custom, thunk, route, queue, gate, frames, phase>>

CustomFinish ==
    /\ Doing("customFinish", None) /\ None \in flushed /\ Evacuated
    /\ Push(<< >>)
    /\ UNCHANGED <<backend, objects, custom, thunk, route, queue, gate, frames, phase, done>>

----------------------------------------------------------------------------
(* The end. *)

\* finalize(): the stop fails with its hooks in place, or the backend is shut down,
\* the gate opens and, if the parked threads leave in time, the hooks are destroyed.
Finalize ==
    /\ Doing("finalize", None)
    /\ gate' = "open"
    /\ IF ~done THEN phase' = "abandoned" /\ Push(<< >>) /\ UNCHANGED backend
       ELSE \E ended \in BOOLEAN :
                /\ HB!Shutdown(Agent, ended)
                /\ phase' = IF ended THEN "finalized" ELSE "abandoned"
                /\ Push(IF ended THEN << Step("drained", None, "late") >> ELSE << >>)
    /\ UNCHANGED <<objects, custom, thunk, route, queue, frames, done>>

Drained ==
    /\ Doing("drained", None)
    /\ \/ /\ \A t \in Threads : frames[t] = None
          /\ Push(<< Step("destroy", None, "late") >>)
       \/ Push(<< >>)
    /\ UNCHANGED <<backend, objects, custom, thunk, route, queue, gate, frames, phase, done>>

\* ~WindowsMemoryHooks: stop_recording, uninstall, and the members in reverse order.
DestroyHooks ==
    /\ Doing("destroy", None)
    /\ Push(<< Step("original", None, "late"), Step("attempt", None, "late") >>)
    /\ UNCHANGED <<backend, objects, custom, thunk, route, queue, gate, frames, phase, done>>

Recording == \E l \in Lives : route[l] = "record" \/ Counted(l, {"record"})

\* uninstall refuses while something records.
Attempt ==
    /\ Doing("attempt", None)
    /\ done' = ~Recording
    /\ Push((IF Recording THEN << >> ELSE CoordinatorUninstall) \o << Step("members", None, "late") >>)
    /\ UNCHANGED <<backend, objects, custom, thunk, route, queue, gate, frames, phase>>

\* The custom hooks, the NT hooks, the RTL hooks (~RtlHeapHooks) and the queue; a
\* coordinator that could not prove the teardown leaves the queue to the process.
DestroyMembers ==
    /\ Doing("members", None)
    /\ Push(ForEach("destroyCustom", CustomSeq, "late") \o ForEach("destroyHook", VmSeq, "late")
            \o HeapUninstall("late") \o ForEach("destroyHook", Reverse(RtlHooks), "late")
            \o (IF done THEN << Step("queue", None, "late") >> ELSE << >>))
    /\ UNCHANGED <<backend, objects, custom, thunk, route, queue, gate, frames, phase, done>>

\* ~Implementation: is_installed() asks for every point.
DestroyCustom ==
    /\ Doing("destroyCustom", None)
    /\ Push((IF \A p \in PointIds : Live(p) THEN << Step("custom", None, "late") >> ELSE << >>)
            \o << Step("flushCustom", None, "late"), Step("abandonPoints", None, "late") >>)
    /\ UNCHANGED <<backend, objects, custom, thunk, route, queue, gate, frames, phase, done>>

FlushCustom ==
    /\ Doing("flushCustom", None)
    /\ Push(IF \E p \in PointIds : point[p] = "pending" THEN << Step("customFinish", None, "late") >>
            ELSE << >>)
    /\ UNCHANGED <<backend, objects, custom, thunk, route, queue, gate, frames, phase, done>>

\* ~Hook: uninstall what is installed, flush what is pending, abandon what still is.
DestroyHook(o) ==
    /\ Doing("destroyHook", o)
    /\ Push((IF state[o] = "installed" THEN << Step("uninstall", o, "late") >> ELSE << >>)
            \o << Step("flush", o, "late"), Step("abandon", o, "late") >>)
    /\ UNCHANGED <<backend, objects, custom, thunk, route, queue, gate, frames, phase, done>>

FreeQueue ==
    /\ Doing("queue", None)
    /\ queue' = FALSE /\ Push(<< >>)
    /\ UNCHANGED <<backend, objects, custom, thunk, route, gate, frames, phase, done>>

AbandonPoints ==
    /\ Doing("abandonPoints", None)
    /\ Routes({p \in PointIds : point[p] = "pending"}, "target")
    /\ point' = [p \in PointIds |-> IF point[p] = "pending" THEN "retired" ELSE point[p]]
    /\ Push(<< >>)
    /\ UNCHANGED <<backend, objects, hooked, failures, thunk, queue, gate, frames, phase, done>>

\* abandon_pending_teardown and the members: what is pending with a lease keeps its
\* hook state for the process.
Abandon_FreesState(o) ==
    /\ Doing("abandon", o)
    /\ LET held == state[o] = "pending" /\ \E c \in Elements(Channels(o)) : c \in leased
       IN  /\ alive' = [alive EXCEPT ![o] = FALSE]
           /\ active' = [active EXCEPT ![o] = @ /\ held]
    /\ Routes(IF state[o] = "pending" THEN LivesOf(o) ELSE {}, "target")
    /\ state' = [state EXCEPT ![o] = IF @ = "pending" THEN "retired" ELSE @]
    /\ Push(<< >>)
    /\ UNCHANGED <<backend, quiescent, flushed, leased, custom, thunk, queue, gate, frames,
                   phase, done>>

Abandon(o) ==
    /\ Doing("abandon", o)
    /\ LET held == state[o] = "pending" /\ \E c \in Elements(Channels(o)) : c \in leased
       IN  /\ alive' = [alive EXCEPT ![o] = held]
           /\ active' = [active EXCEPT ![o] = @ /\ held]
    /\ Routes(IF state[o] = "pending" THEN LivesOf(o) ELSE {}, "target")
    /\ state' = [state EXCEPT ![o] = IF @ = "pending" THEN "retired" ELSE @]
    /\ Push(<< >>)
    /\ UNCHANGED <<backend, quiescent, flushed, leased, custom, thunk, queue, gate, frames,
                   phase, done>>

\* backend_->shutdown() and backend_.reset(), whatever the shutdown says.
DestroyBackend ==
    /\ Doing("destroy", Agent)
    /\ IF interceptor[Agent] THEN HB!Destroy(Agent) ELSE UNCHANGED backend
    /\ Push(<< >>)
    /\ UNCHANGED <<objects, custom, thunk, route, queue, gate, frames, phase, done>>

----------------------------------------------------------------------------

Thread(t) == (\E c \in Funcs : Arrive(t, c)) \/ Enter(t) \/ LoadOriginal(t) \/ Leave(t)

Control ==
    \/ \E c \in Builtin : Arm(c) \/ Patch(c) \/ Activate(c) \/ PatchFails(c)
                          \/ LaterPatchFails(c) \/ Revert("revert", c)
    \/ \E p \in PointIds : Unresolved(p) \/ InstallPoint(p) \/ RolledBack(p) \/ PointLive(p)
                           \/ RetirePoint(p) \/ PointToTarget(p) \/ SettlePoint(p)
    \/ \E r \in Roles : LeaseRole(r) \/ PatchRole(r) \/ ActivateRole(r) \/ RoleFails(r)
                        \/ DropLease(r) \/ Revert("revertRole", r)
                        \/ Revert("revertRoleKept", r)
    \/ \E o \in Objects : Uninstall(o) \/ RouteToTarget(o) \/ Flush(o) \/ Settle(o)
                          \/ SettleExpires(o) \/ Finish(o) \/ DestroyHook(o) \/ Abandon(o)
    \/ \E x \in Objects \cup {None} : FlushBackend(x) \/ EvacuationFails(x)
    \/ BeginCapture \/ Stop \/ CloseGate \/ CloseTimesOut \/ OpenGate \/ StopRecording
    \/ CustomUninstall \/ CustomExpires \/ CustomFinish
    \/ Finalize \/ Drained \/ DestroyHooks \/ Attempt \/ DestroyMembers \/ DestroyCustom
    \/ FlushCustom \/ AbandonPoints \/ FreeQueue \/ DestroyBackend

Next == Control \/ \E t \in Threads : Thread(t)

Spec == Init /\ [][Next]_vars

\* The control thread is scheduled; target threads may stop anywhere for good.
FairSpec == Spec /\ WF_vars(Control)

----------------------------------------------------------------------------

RolledPoint(f) == f.life \in PointIds /\ point[f.life] = "failed"
Calls == {frames[t] : t \in {u \in Threads : frames[u] # None}}
Routed == {f \in Calls : f.at \in {"entered", "calling"} /\ f.route # "target"}

\* fail_broken_replacement_route is never reached, and no replacement touches a
\* freed hook state or publishes into a freed queue: whatever part of a failed
\* start, a rollback, a stop or a destruction runs meanwhile (the comments of
\* abandon_pending_teardown and of ~WindowsMemoryHooks).
RoutesHold ==
    \A f \in Routed :
        /\ f.at = "entered" => slot[f.c] # None
        /\ f.life \notin PointIds => alive[ObjectOf(f.c)] /\ (f.at = "entered" => active[ObjectOf(f.c)])
        /\ f.route = "record" => queue

\* The trampoline a replacement has loaded is the one of its function, neither reused
\* nor unmapped, until it returns; rolled back points are the exception.
OriginalsUsable ==
    \A f \in Routed : f.at = "calling" /\ ~RolledPoint(f) => contents[f.orig] = f.c

\* After kFinalized the process is as before the capture: no jump, no lease, no
\* pending teardown, and every thread that is still parked will take a target route,
\* unless it came through a rolled back point, which is left on the original route.
FinalizedLeavesNothing ==
    phase = "finalized" =>
        /\ jump = {} /\ leases[Agent] = 0 /\ ~interceptor[Agent]
        /\ \A f \in Calls : ~RolledPoint(f) => route[f.life] = "target"

\* Claimed, and false: "one bad declaration must not silence the rest of the capture"
\* (custom_symbol_hooks.cpp:757): a point is refused for a reason of its own.
FailuresAreOwn == \A i \in 1 .. Len(failures) : failures[i][2] # "backend unavailable"

\* Claimed, and false: rolled back points too call an original that is still there.
RolledBackUsable == \A f \in Routed : f.at = "calling" => contents[f.orig] = f.c

----------------------------------------------------------------------------
(* The inductive invariant. *)

\* The steps of an installation; those that stand only in front; the stores of an
\* uninstallation; those by which the hook objects are destroyed, once.
Starting == {"arm", "patch", "activate", "point", "lease", "role", "activateRole", "live",
             "begin", "revertRole", "dropLease", "rolled"}
Foremost == {"patch", "activate", "lease", "role", "activateRole", "live"}
Inner == {"revert", "target", "revertRoleKept", "targetPoint"}
Kinds == Starting \cup Inner \cup
         {"close", "original", "open", "uninstall", "flush", "finish", "custom", "retire",
          "customFinish", "finalize", "drained", "destroy", "attempt", "members",
          "destroyCustom", "flushCustom", "abandonPoints", "destroyHook", "abandon", "queue"}
Named == Funcs \cup Objects \cup PointIds \cup {None, Agent}
Steps == Kinds \X Named \X {"now", "late"}

Calling == [c : Funcs, at : {"arrived", "parked", "entered", "calling"}, life : Lives,
            route : AnyRoute, orig : Slices \cup {None}]

TypeOK ==
    /\ HB!BackendInv /\ leased = holders[Agent]
    /\ state \in [Objects -> {"inactive", "installed", "pending", "retired"}]
    /\ active \in [Objects -> BOOLEAN] /\ alive \in [Objects -> BOOLEAN]
    /\ quiescent \subseteq Lives /\ flushed \subseteq Objects \cup {None}
    /\ point \in [PointIds -> {"declared", "installed", "pending", "retired", "failed"}]
    /\ thunk \in [Funcs -> Lives \cup {None}] /\ route \in [Lives -> AnyRoute]
    /\ queue \in BOOLEAN /\ done \in BOOLEAN
    /\ frames \in [Threads -> Calling \cup {None}]
    /\ todo \in Seq(Steps)

Due(step, x) == \E s \in Elements(todo) : s[1] = step /\ s[2] = x

Final(s) == s[1] \in {"finalize", "drained", "attempt", "members"}
            \/ (s[1] = "destroy" /\ s[2] = None)

\* The point a step of the installation works on.
Installs(s, p) == \/ s[1] \in {"point", "live"} /\ s[2] = p
                  \/ s[1] \in {"lease", "role", "activateRole"} /\ PointOf(s[2]) = p

\* The step u may stand behind s.
Follows(s, u) ==
    /\ u[1] \notin Foremost /\ s[1] # "begin"
    /\ u[1] \in Inner \cup {"finish"} => s[1] \in Inner
    /\ u[1] = "point" => ~Installs(s, u[2])
    /\ s[1] \in {"destroyHook", "abandon"} /\ u[1] \in {"uninstall", "destroyHook", "abandon"} =>
           s[2] # u[2]
    /\ Final(s) => u[1] \notin {"uninstall", "destroyHook", "abandon"}
    /\ Final(u) => ~Final(s) /\ s[1] \notin {"destroyHook", "abandon"}

Ordered(q) == \A i, j \in 1 .. Len(q) : i < j => Follows(q[i], q[j])

PhaseFits ==
    /\ \A s \in Elements(todo) : s[1] \in Starting <=> phase = "starting"
    /\ phase = "starting" =>
           /\ quiescent = {} /\ queue
           /\ \A o \in Objects : alive[o] /\ state[o] \in {"inactive", "installed"}
           /\ \A p \in PointIds : point[p] \in {"declared", "installed", "failed"}
    /\ phase = "capturing" => todo = << >>
    /\ phase = "finalized" => jump = {} /\ leased = {} /\ ~interceptor[Agent]

\* The lifecycle of a function; whether a thread may be, or come, inside; the lease
\* that keeps its trampoline.
Lifecycle(c) == IF c \in Roles THEN PointOf(c) ELSE LifeOf(c)
Seen(c) == c \in jump \/ \E f \in Calls : f.c = c
Guarded(c) == c \in leased /\ HB!Callable(c, slot[c], c)
Backed(c) == Guarded(c) /\ (c \in Builtin => alive[ObjectOf(c)] /\ active[ObjectOf(c)])

JumpsLead ==
    /\ \A c \in jump : thunk[c] = Lifecycle(c)
    /\ \A f \in Calls : f.life = Lifecycle(f.c)

\* A thread that comes may take another route than the target's.
InUse(c) ==
    IF c \in Roles THEN \/ point[PointOf(c)] \in {"declared", "installed"}
                        \/ point[PointOf(c)] # "failed" /\ route[PointOf(c)] # "target"
    ELSE state[ObjectOf(c)] = "installed" \/ route[LifeOf(c)] # "target"

RoutesBacked ==
    \A c \in Funcs : Seen(c) =>
        /\ InUse(c) => Backed(c)
        /\ IF c \in Roles THEN slot[c] # None ELSE state[ObjectOf(c)] # "inactive"

CallsBacked ==
    \A f \in Routed : ~RolledPoint(f) => Backed(f.c) /\ (f.at = "calling" => f.orig = slot[f.c])

\* What the installation has come to.
InstallFits ==
    /\ \A c \in Builtin : Due("patch", c) \/ Due("activate", c) =>
           /\ ~Seen(c) /\ c \in leased /\ thunk[c] = LifeOf(c) /\ active[ObjectOf(c)]
           /\ Due("activate", c) => Guarded(c)
    /\ \A r \in Roles : Due("role", r) \/ Due("activateRole", r) =>
           /\ ~Seen(r) /\ r \in leased
           /\ Due("activateRole", r) => Guarded(r) /\ thunk[r] = PointOf(r)
    /\ \A s \in Elements(todo), p \in PointIds : Installs(s, p) => point[p] = "declared"
    /\ \A r \in Roles : Due("revertRole", r) \/ Due("dropLease", r) => point[PointOf(r)] = "failed"

\* What a teardown has come to.
TeardownFits ==
    /\ \A o \in Objects :
           /\ Due("finish", o) => state[o] = "pending"
           /\ state[o] = "pending" /\ (\E l \in LivesOf(o) : route[l] # "target") => Due("target", o)
           /\ state[o] = "installed" /\ Due("abandon", o) => Due("uninstall", o)
           /\ o \in flushed => LivesOf(o) \subseteq quiescent
    /\ \A c \in Builtin :
           state[ObjectOf(c)] = "pending" /\ c \in entries[Agent] => Due("revert", c)
    /\ \A p \in PointIds : point[p] = "pending" /\ route[p] # "target" => Due("targetPoint", p)
    /\ \A l \in quiescent : Held(l) = {}

\* A hook that was abandoned with its lease has been destroyed.
AbandonedOnce ==
    \A c \in Builtin : state[ObjectOf(c)] = "retired" /\ c \in leased =>
        /\ ~Due("abandon", ObjectOf(c)) /\ ~Due("destroyHook", ObjectOf(c))
        /\ \A s \in Elements(todo) : ~Final(s)
        /\ phase \notin {"starting", "capturing"}

\* The queue goes after the last record.
QueueFits ==
    /\ ~queue \/ Due("queue", None) \/ (Due("members", None) /\ done) => ~Recording

HookInv ==
    /\ TypeOK /\ Ordered(todo) /\ PhaseFits /\ JumpsLead /\ RoutesBacked /\ CallsBacked
    /\ InstallFits /\ TeardownFits /\ AbandonedOnce /\ QueueFits

============================================================================
