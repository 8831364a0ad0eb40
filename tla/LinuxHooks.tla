----------------------------- MODULE LinuxHooks -----------------------------
(***************************************************************************)
(* The hook families of the Linux agent on their shared backend: how       *)
(* GlibcHeapHooks and VirtualMemoryHooks install, stop, uninstall, retry   *)
(* and abandon, driven by LinuxCaptureRuntime from the start of a capture  *)
(* to its finalisation, while target threads run the replacements.         *)
(*                                                                         *)
(* The backend is HookBackend.  A channel's ReplacementLifecycle is        *)
(* abstracted to what ReplacementLifecycle is shown to guarantee: a thread *)
(* is counted and reads its route in one step, and a wait that succeeds    *)
(* finds no counted thread.  The control thread works through todo, a      *)
(* sequence of <<step, group or channel>>; a call pushes its steps.        *)
(***************************************************************************)
EXTENDS Naturals, Sequences, FiniteSets

CONSTANTS
    Channels,   \* group -> the hooked functions, in installation order
    Threads,
    MaxDepth,   \* bound: replacements a thread may be inside at once
    Slices, None,
    MayMiss     \* TRUE: deadlines pass and evacuation attempts run out

Groups == DOMAIN Channels      \* {"heap"}, {"vm"} or both (linux-native)
Agent  == "agent"              \* the one HookBackend
Funcs  == UNION {{Channels[g][i] : i \in 1 .. Len(Channels[g])} : g \in Groups}
Exit   == "exit"               \* exit and _exit, hooked without a lifecycle
GroupOf(c) == CHOOSE g \in Groups : \E i \in 1 .. Len(Channels[g]) : Channels[g][i] = c
\* The family whose object owns the event queue; the other shares it.
QueueOwner == IF "heap" \in Groups THEN "heap" ELSE "vm"

\* Each family hooks some functions, each function once, and no two families the same one.
ASSUME HooksAssumption ==
    /\ Groups \subseteq {"heap", "vm"}
    /\ \A g \in Groups : Channels[g] \in Seq(Funcs) \ {<< >>}
    /\ \A g, h \in Groups : \A i \in 1 .. Len(Channels[g]) : \A j \in 1 .. Len(Channels[h]) :
           Channels[g][i] = Channels[h][j] => g = h /\ i = j
    /\ Exit \notin Funcs /\ MaxDepth \in Nat \ {0}
    /\ None \notin Funcs \cup {Exit} \cup Slices \cup ({Agent} \X (Funcs \cup {Exit}))

VARIABLES
    interceptor, stopping, leases, pending, entries, installing,
    jump, original, contents, free, retained, slot, holders, guard,
    \* each family
    state, leased, quiescent, flushed,
    published,   \* active_channel_set points to the family's channel set
    alive,       \* the channel set has not been freed
    queue,       \* the event queue has not been freed
    route,       \* channel -> route_
    \* threads: the replacements each is inside
    frames,
    \* the control thread
    todo, settling, phase,
    unpatched,   \* what finalize accumulates
    missed       \* history: some deadline has passed

HB == INSTANCE HookBackend WITH
        Backends <- {Agent}, Targets <- Funcs \cup {Exit}, Clients <- Groups

backend == <<interceptor, stopping, leases, pending, entries, installing,
             jump, original, contents, free, retained, slot, holders, guard>>
family  == <<state, leased, quiescent, flushed, published, alive, queue, route>>
control == <<todo, settling, phase, unpatched, missed>>
vars    == <<backend, family, frames, control>>

\* A family the profile does not select is a null pointer: its steps fall away.
OfFamily(step, g) == IF g \in Groups THEN << <<step, g>> >> ELSE << >>

Install == OfFamily("install", "heap") \o OfFamily("install", "vm")
             \o << <<"patch", Exit>>, <<"begin", "writer">> >>

Init ==
    /\ HB!Init
    /\ state = [g \in Groups |-> "inactive"]
    /\ leased = [g \in Groups |-> FALSE]
    /\ quiescent = [g \in Groups |-> FALSE]
    /\ flushed = [g \in Groups |-> FALSE]
    /\ published = [g \in Groups |-> FALSE]
    /\ alive = [g \in Groups |-> TRUE]
    /\ queue = TRUE
    /\ route = [c \in Funcs |-> "target"]
    /\ frames = [t \in Threads |-> << >>]
    /\ todo = Install /\ settling = 1 /\ phase = "starting"
    /\ unpatched = TRUE /\ missed = FALSE

----------------------------------------------------------------------------
(* Target threads. *)

Depth(t) == Len(frames[t])
Top(t)   == frames[t][Depth(t)]
At(t, where) == frames[t] # << >> /\ Top(t).at = where
Move(t, f) == frames' = [frames EXCEPT ![t][Depth(t)] = f]

\* The patched jump; a function called by an original may be hooked too.
Arrive(t, c) ==
    /\ c \in jump
    /\ frames[t] # << >> => At(t, "calling") /\ Depth(t) < MaxDepth
    /\ frames' = [frames EXCEPT ![t] =
                     Append(@, [c |-> c, at |-> "arrived", route |-> "target", orig |-> None])]
    /\ UNCHANGED <<backend, family, control>>

\* enter_unscoped; the target route goes on to the restored target.
Enter(t) ==
    /\ At(t, "arrived")
    /\ LET r == route[Top(t).c]
       IN  Move(t, [Top(t) EXCEPT !.route = r,
                                  !.at = IF r = "target" THEN "calling" ELSE "entered"])
    /\ UNCHANGED <<backend, family, control>>

\* The two loads that abort on null: active_channel_set ...
LoadSet(t) ==
    /\ At(t, "entered") /\ published[GroupOf(Top(t).c)]
    /\ Move(t, [Top(t) EXCEPT !.at = "set"])
    /\ UNCHANGED <<backend, family, control>>

\* ... and the channel's original_trampoline.
LoadOriginal(t) ==
    /\ At(t, "set") /\ slot[Top(t).c] # None
    /\ Move(t, [Top(t) EXCEPT !.at = "loaded", !.orig = slot[Top(t).c]])
    /\ UNCHANGED <<backend, family, control>>

CallOriginal(t) ==
    /\ At(t, "loaded")
    /\ Move(t, [Top(t) EXCEPT !.at = "calling"])
    /\ UNCHANGED <<backend, family, control>>

\* The original returns; a recording outermost call publishes its event; leave.
Leave(t) ==
    /\ At(t, "calling")
    /\ frames' = [frames EXCEPT ![t] = SubSeq(@, 1, Depth(t) - 1)]
    /\ UNCHANGED <<backend, family, control>>

Counted(c, routes) ==
    \E t \in Threads : \E i \in 1 .. Depth(t) :
        frames[t][i].c = c /\ frames[t][i].at # "arrived" /\ frames[t][i].route \in routes

\* No program counter is inside the replacements of the agent, whatever family
\* they belong to: they share one section.
Evacuated == \A t \in Threads : frames[t] # << >> => Top(t).at = "calling"

----------------------------------------------------------------------------
(* The control thread. *)

Doing(step, x) == todo # << >> /\ Head(todo) = <<step, x>>
Push(steps) == todo' = steps \o Tail(todo)
Each(step, g) == [i \in 1 .. Len(Channels[g]) |-> <<step, Channels[g][i]>>]

\* ~LinuxCaptureRuntime destroys its members in reverse order.
Destructors == OfFamily("destroy", "vm") \o OfFamily("destroy", "heap")
                 \o << <<"destroy", Agent>> >>

\* start() fails: a failed vm installation takes the heap hooks back first.
StartFails(steps) ==
    /\ todo' = steps \o Destructors
    /\ phase' = "failed"

\* install(): every routing input is published before any target is patched.
InstallGroup(g) ==
    /\ Doing("install", g) /\ state[g] = "inactive"
    /\ HB!Acquire(Agent, g)
    /\ leased' = [leased EXCEPT ![g] = TRUE]
    /\ published' = [published EXCEPT ![g] = TRUE]
    /\ route' = [c \in Funcs |-> IF GroupOf(c) = g THEN "record" ELSE route[c]]
    /\ state' = [state EXCEPT ![g] = "installed"]
    /\ Push(Each("patch", g))
    /\ UNCHANGED <<quiescent, flushed, alive, queue, frames, settling, phase,
                   unpatched, missed>>

\* A symbol is missing: nothing has been changed.
InstallGroupFails(g) ==
    /\ Doing("install", g) /\ g \in Groups
    /\ StartFails(IF g = "vm" THEN OfFamily("uninstall", "heap") ELSE << >>)
    /\ UNCHANGED <<backend, family, frames, settling, unpatched, missed>>

Patch(c) ==
    /\ Doing("patch", c)
    /\ HB!Prepare(Agent, c)
    /\ Push(<< <<"activate", c>> >>)
    /\ UNCHANGED <<family, frames, settling, phase, unpatched, missed>>

Activate(c) ==
    /\ Doing("activate", c)
    /\ HB!Activate(Agent, c)
    /\ Push(<< >>)
    /\ UNCHANGED <<family, frames, settling, phase, unpatched, missed>>

\* A refused channel rolls the family back through uninstall(); a refused exit
\* hook is ignored.
PatchFails(c) ==
    /\ Doing("patch", c)
    /\ UNCHANGED backend \/ HB!Abandon(Agent, c)
    /\ IF c = Exit
       THEN Push(<< >>) /\ UNCHANGED phase
       ELSE StartFails(<< <<"uninstall", GroupOf(c)>> >> \o
                       IF GroupOf(c) = "vm" THEN OfFamily("uninstall", "heap") ELSE << >>)
    /\ UNCHANGED <<family, frames, settling, unpatched, missed>>

\* begin_capture, which may fail with the hooks live.
BeginCapture ==
    /\ Doing("begin", "writer")
    /\ \/ Push(<< >>) /\ phase' = "capturing"
       \/ StartFails(<< >>)
    /\ UNCHANGED <<backend, family, frames, settling, unpatched, missed>>

\* drain: stop_recording of each family, which waits for the recording calls ...
Drain ==
    /\ phase = "capturing" /\ todo = << >>
    /\ phase' = "draining"
    /\ todo' = OfFamily("stop", "heap") \o OfFamily("stop", "vm")
    /\ UNCHANGED <<backend, family, frames, settling, unpatched, missed>>

StopRecording(g) ==
    /\ Doing("stop", g) /\ g \in Groups
    /\ state[g] = "installed"
    /\ Push(Each("original", g) \o << <<"recorders", g>> >>)
    /\ UNCHANGED <<backend, family, frames, settling, phase, unpatched, missed>>

RouteTo(step, c, r) ==
    /\ Doing(step, c)
    /\ route' = [route EXCEPT ![c] = r]
    /\ Push(<< >>)
    /\ UNCHANGED <<backend, state, leased, quiescent, flushed, published, alive, queue,
                   frames, settling, phase, unpatched, missed>>

\* wait_for_recording_quiescence, channel after channel.
AwaitRecorders(g) ==
    /\ Doing("recorders", g)
    /\ \/ /\ ~Counted(Channels[g][settling], {"record"})
          /\ missed' = missed
          /\ IF settling = Len(Channels[g])
             THEN settling' = 1 /\ Push(<< >>)
             ELSE settling' = settling + 1 /\ todo' = todo
       \/ /\ MayMiss /\ missed' = TRUE
          /\ settling' = 1 /\ Push(<< >>)
    /\ UNCHANGED <<backend, family, frames, phase, unpatched>>

\* ... finalize: an attach capture keeps its patches and is dormant as it stands
\* (here "retained"), a launch capture tears them down.
Finalize ==
    /\ phase = "draining" /\ todo = << >>
    /\ \/ phase' = "retained" /\ todo' = << >>
       \/ /\ phase' = "unpatching"
          /\ todo' = OfFamily("uninstall", "vm") \o OfFamily("uninstall", "heap")
                        \o << <<"shutdown", Agent>> >>
    /\ UNCHANGED <<backend, family, frames, settling, unpatched, missed>>

Uninstall_KeepsRoute(g) ==
    /\ Doing("uninstall", g) /\ g \in Groups
    /\ CASE state[g] \in {"inactive", "retired"} ->
                UNCHANGED state /\ Push(<< >>)
         [] state[g] = "pending" ->
                UNCHANGED state /\ Push(<< <<"finish", g>> >>)
         [] state[g] = "installed" ->
                /\ state' = [state EXCEPT ![g] = "pending"]
                /\ Push(Each("original", g) \o
                         [i \in 1 .. 2 * Len(Channels[g]) |->
                             <<"revert",
                               Channels[g][(i + 1) \div 2]>>] \o
                         << <<"finish", g>> >>)
    /\ UNCHANGED <<backend, leased, quiescent, flushed, published, alive, queue, route,
                   frames, settling, phase, unpatched, missed>>

Uninstall(g) ==
    /\ Doing("uninstall", g) /\ g \in Groups
    /\ CASE state[g] \in {"inactive", "retired"} ->
                UNCHANGED state /\ Push(<< >>)
         [] state[g] = "pending" ->
                UNCHANGED state /\ Push(<< <<"finish", g>> >>)
         [] state[g] = "installed" ->
                /\ state' = [state EXCEPT ![g] = "pending"]
                /\ Push(Each("original", g) \o
                         [i \in 1 .. 2 * Len(Channels[g]) |->
                             <<IF i % 2 = 1 THEN "revert" ELSE "target",
                               Channels[g][(i + 1) \div 2]>>] \o
                         << <<"finish", g>> >>)
    /\ UNCHANGED <<backend, leased, quiescent, flushed, published, alive, queue, route,
                   frames, settling, phase, unpatched, missed>>

\* backend uninstall with an expired deadline: no flush is attempted.
Revert(c) ==
    /\ Doing("revert", c)
    /\ IF c \in entries[Agent]
       THEN HB!Uninstall(Agent, c) /\ pending'[Agent]
       ELSE UNCHANGED backend
    /\ Push(<< >>)
    /\ UNCHANGED <<family, frames, settling, phase, unpatched, missed>>

\* flush(): another attempt at a pending teardown.
FlushGroup(g) ==
    /\ Doing("flush", g) /\ g \in Groups
    /\ Push(IF state[g] = "pending" THEN << <<"finish", g>> >> ELSE << >>)
    /\ UNCHANGED <<backend, family, frames, settling, phase, unpatched, missed>>

GiveUp ==
    /\ unpatched' = FALSE /\ settling' = 1
    /\ Push(<< >>)

Settle_NoWait(g) ==
    /\ Doing("finish", g) /\ ~quiescent[g]
    /\ IF settling = Len(Channels[g])
       THEN /\ settling' = 1
            /\ quiescent' = [quiescent EXCEPT ![g] = TRUE]
            /\ leased' = [leased EXCEPT ![g] = FALSE]
            /\ IF leased[g] THEN HB!Release(Agent, g) ELSE UNCHANGED backend
       ELSE /\ settling' = settling + 1
            /\ UNCHANGED <<quiescent, leased, backend>>
    /\ UNCHANGED <<state, flushed, published, alive, queue, route, frames, todo, phase,
                   unpatched, missed>>

\* try_finish_teardown: wait for every channel, release the lease, ...
Settle(g) ==
    /\ Doing("finish", g) /\ ~quiescent[g]
    /\ ~Counted(Channels[g][settling], {"target", "original", "record"})
    /\ IF settling = Len(Channels[g])
       THEN /\ settling' = 1
            /\ quiescent' = [quiescent EXCEPT ![g] = TRUE]
            /\ leased' = [leased EXCEPT ![g] = FALSE]
            /\ IF leased[g] THEN HB!Release(Agent, g) ELSE UNCHANGED backend
       ELSE /\ settling' = settling + 1
            /\ UNCHANGED <<quiescent, leased, backend>>
    /\ UNCHANGED <<state, flushed, published, alive, queue, route, frames, todo, phase,
                   unpatched, missed>>

SettleExpires_Unbounded(g) == Settle(g) /\ FALSE

SettleExpires(g) ==
    /\ Doing("finish", g) /\ ~quiescent[g]
    /\ MayMiss /\ missed' = TRUE
    /\ GiveUp
    /\ UNCHANGED <<backend, family, frames, phase>>

\* ... flush the backend, which another family's lease forbids, ...
FlushBackend(g) ==
    /\ Doing("finish", g) /\ quiescent[g] /\ ~flushed[g]
    /\ \/ /\ interceptor[Agent] /\ HB!Flush(Agent)
          /\ flushed' = [flushed EXCEPT ![g] = TRUE]
          /\ UNCHANGED <<todo, settling, unpatched, missed>>
       \/ /\ leases[Agent] # 0
          /\ GiveUp
          /\ UNCHANGED <<backend, flushed, missed>>
       \/ /\ leases[Agent] = 0 /\ MayMiss
          /\ GiveUp /\ missed' = TRUE
          /\ UNCHANGED <<backend, flushed>>
    /\ UNCHANGED <<state, leased, quiescent, published, alive, queue, route, frames, phase>>

\* ... see every thread outside the replacements, and finish_teardown.
FinishTeardown(g) ==
    /\ Doing("finish", g) /\ quiescent[g] /\ flushed[g]
    /\ Evacuated
    /\ slot' = [x \in Funcs \cup {Exit} |->
                   IF x # Exit /\ GroupOf(x) = g THEN None ELSE slot[x]]
    /\ state' = [state EXCEPT ![g] = "retired"]
    /\ published' = [published EXCEPT ![g] = FALSE]
    /\ Push(<< >>)
    /\ UNCHANGED <<interceptor, stopping, leases, pending, entries, installing, jump,
                   original, contents, free, retained, holders, guard, leased, quiescent,
                   flushed, alive, queue, route, frames, settling, phase, unpatched, missed>>

EvacuationFails(g) ==
    /\ Doing("finish", g) /\ quiescent[g] /\ flushed[g]
    /\ MayMiss /\ missed' = TRUE
    /\ GiveUp
    /\ UNCHANGED <<backend, family, frames, phase>>

\* backend_->shutdown, and the state finalize ends in.
ShutdownBackend ==
    /\ Doing("shutdown", Agent)
    /\ \E done \in BOOLEAN :
           /\ HB!Shutdown(Agent, done)
           /\ leases[Agent] = 0 /\ ~done => MayMiss
           /\ missed' = (missed \/ (leases[Agent] = 0 /\ ~done))
           /\ unpatched' = (unpatched /\ done)
           /\ phase' = IF unpatched /\ done THEN "finalized" ELSE "dormant"
    /\ Push(<< >>)
    /\ UNCHANGED <<family, frames, settling>>

\* The destructor of a family: uninstall, flush, and abandon what is pending.
DestroyGroup(g) ==
    /\ Doing("destroy", g) /\ g \in Groups
    /\ Push(<< <<"uninstall", g>>, <<"flush", g>>, <<"abandon", g>> >>)
    /\ UNCHANGED <<backend, family, frames, settling, phase, unpatched, missed>>

\* With the lease still held, the channel set and the owned queue are left to the
\* process; otherwise they are freed with the object.
AbandonGroup(g) ==
    /\ Doing("abandon", g)
    /\ route' = [c \in Funcs |->
                    IF GroupOf(c) = g /\ state[g] = "pending" THEN "target" ELSE route[c]]
    /\ published' = [published EXCEPT ![g] = @ /\ leased[g]]
    /\ alive' = [alive EXCEPT ![g] = leased[g]]
    /\ queue' = IF g = QueueOwner THEN leased[g] ELSE queue
    /\ state' = [state EXCEPT ![g] = IF @ = "pending" THEN "retired" ELSE @]
    /\ Push(<< >>)
    /\ UNCHANGED <<backend, leased, quiescent, flushed, frames, settling, phase,
                   unpatched, missed>>

DestroyBackend ==
    /\ Doing("destroy", Agent)
    /\ HB!Destroy(Agent)
    /\ Push(<< >>)
    /\ UNCHANGED <<family, frames, settling, phase, unpatched, missed>>

----------------------------------------------------------------------------

Thread(t) ==
    \/ \E c \in Funcs : Arrive(t, c)
    \/ Enter(t) \/ LoadSet(t) \/ LoadOriginal(t) \/ CallOriginal(t) \/ Leave(t)

Control ==
    \/ \E g \in Groups :
           \/ InstallGroup(g) \/ InstallGroupFails(g) \/ StopRecording(g)
           \/ AwaitRecorders(g) \/ Uninstall(g) \/ FlushGroup(g) \/ Settle(g)
           \/ SettleExpires(g) \/ FlushBackend(g) \/ FinishTeardown(g)
           \/ EvacuationFails(g) \/ DestroyGroup(g) \/ AbandonGroup(g)
    \/ \E c \in Funcs \cup {Exit} : Patch(c) \/ Activate(c) \/ PatchFails(c)
    \/ \E c \in Funcs : RouteTo("original", c, "original") \/ RouteTo("target", c, "target")
                        \/ Revert(c)
    \/ BeginCapture \/ Drain \/ Finalize \/ ShutdownBackend \/ DestroyBackend

Next == Control \/ \E t \in Threads : Thread(t)

Spec == Init /\ [][Next]_vars

\* The control thread is scheduled; target threads may stop anywhere for good.
FairSpec == Spec /\ WF_vars(Control)

----------------------------------------------------------------------------

Frames == [c : Funcs, at : {"arrived", "entered", "set", "loaded", "calling"},
           route : {"target", "original", "record"}, orig : Slices \cup {None}]

Steps ==
    ({"install", "stop", "recorders", "uninstall", "finish", "flush", "destroy", "abandon"} \X Groups)
    \cup ({"patch", "activate"} \X (Funcs \cup {Exit})) \cup ({"original", "revert", "target"} \X Funcs)
    \cup {<<"begin", "writer">>, <<"shutdown", Agent>>, <<"destroy", Agent>>}

FamiliesTyped ==
    /\ state \in [Groups -> {"inactive", "installed", "pending", "retired"}]
    /\ leased \in [Groups -> BOOLEAN] /\ quiescent \in [Groups -> BOOLEAN]
    /\ flushed \in [Groups -> BOOLEAN] /\ published \in [Groups -> BOOLEAN]
    /\ alive \in [Groups -> BOOLEAN] /\ queue \in BOOLEAN
    /\ route \in [Funcs -> {"target", "original", "record"}]
FramesTyped == frames \in [Threads -> Seq(Frames)] /\ \A t \in Threads : Depth(t) <= MaxDepth
ControlTyped ==
    /\ todo \in Seq(Steps) /\ settling \in Nat \ {0}
    /\ phase \in {"starting", "capturing", "draining", "unpatching", "finalized",
                   "dormant", "retained", "failed"}
    /\ unpatched \in BOOLEAN /\ missed \in BOOLEAN
TypeOK == HB!TypeOK /\ FamiliesTyped /\ FramesTyped /\ ControlTyped

\* What a family believes of its lease is what the backend counts, and the
\* invariant of the backend holds for the way the families use it.
FamilyInv ==
    /\ TypeOK /\ HB!BackendInv
    /\ \A g \in Groups : leased[g] <=> g \in holders[Agent]

\* The frames that read a route other than target.
Routed == {f \in UNION {{frames[t][i] : i \in 1 .. Depth(t)} : t \in Threads} :
               f.at # "arrived" /\ f.route # "target"}

\* A replacement that has loaded its original calls the trampoline of its own
\* function: neither reuse nor unmapping has touched it, because the lease that
\* keeps it is the one the backend counts.
TrampolinesIntact ==
    /\ FamilyInv
    /\ \A f \in Routed : f.at \in {"loaded", "calling"} => contents[f.orig] = f.c

\* Replacements update the counters of a channel set that has not been freed.
ChannelSetRetained == \A f \in Routed : alive[GroupOf(f.c)]

\* Claimed, and false: "session, original trampoline, event queue ...
\* are all retained for the process"
\* when a hook object is destroyed with a replacement still counted
\* (docs/HOOK_QUIESCENCE.md:62): a recording call finds the queue it publishes to.
QueueRetained == \A f \in Routed : f.route = "record" => queue

\* The target route calls the target only when its jump is gone; otherwise the
\* call would arrive in the same replacement again, without end.
TargetRouteEnds ==
    \A t \in Threads : \A i \in 1 .. Depth(t) :
        LET f == frames[t][i]
        IN  f.at = "calling" /\ f.route = "target" => f.c \notin jump

\* Claimed, and false: "kDormant plus the unpatch-incomplete flag" is for "a teardown that cannot prove
\* completion within its budget" (agent_runtime.cpp:575): a launch capture whose
\* waits all succeed ends finalized.
DormantMeansMissed == phase = "dormant" => missed

\* The end of a capture removes what the capture installed, except what it says
\* is left: after kFinalized no jump, no lease and no Hoox reference remain.
FinalizedIsClean ==
    phase = "finalized" =>
        /\ jump = {} /\ leases[Agent] = 0 /\ ~interceptor[Agent]
        /\ \A g \in Groups : state[g] = "retired" /\ ~published[g]

\* fail_broken_replacement_route is never reached: whoever reads the record or the
\* original route finds the channel set and then the trampoline slot, whichever
\* step of installation, rollback, teardown or destruction runs meanwhile; the
\* target route calls the target itself, and nothing is left after kFinalized.
RoutesComplete ==
    /\ \A f \in Routed :
           /\ f.at = "entered" => published[GroupOf(f.c)]
           /\ f.at \in {"entered", "set"} => slot[f.c] # None
    /\ ChannelSetRetained /\ TargetRouteEnds /\ FinalizedIsClean

----------------------------------------------------------------------------
(* The inductive invariant. *)

Starting == {"install", "patch", "activate", "begin"}
Inner    == {"original", "revert", "target"}    \* the stores of a call, channel by channel
Has(q, s) == \E i \in 1 .. Len(q) : q[i] = s
Due(step, x) == Has(todo, <<step, x>>)

\* The order of what is left to do: the start on its own; the stores of a call and the
\* wait that ends them before anything else; route_to_original first; a jump is
\* reverted before its channel is routed to the target.
Shaped(q, ph, patched) ==
    \A i \in 1 .. Len(q) :
        /\ q[i][1] \in Starting <=> ph = "starting"
        /\ q[i][1] \in {"begin", "shutdown"} => i = Len(q)
        /\ q[i][1] = "shutdown" => ph = "unpatching"
        /\ q[i][1] \in {"destroy", "flush", "abandon"} => ph = "failed"
        /\ q[i][1] \in Inner \cup {"finish"} => \A k \in 1 .. i - 1 : q[k][1] \in Inner
        /\ q[i][1] = "original" => \A k \in 1 .. i : q[k][1] = "original"
        /\ q[i][1] = "target" =>
               q[i][2] \notin patched \/ \E k \in 1 .. i : q[k] = <<"revert", q[i][2]>>
TodoShape ==
    /\ Shaped(todo, phase, entries[Agent])
    /\ phase = "finalized" => todo = << >>

\* A family whose channels may be routed away from the target.
Live(g) == state[g] = "installed" \/ (state[g] = "pending" /\ ~quiescent[g])

\* What is left to do fits the families.
WorkFits ==
    \A c \in Funcs :
        /\ Due("patch", c) \/ Due("activate", c) => state[GroupOf(c)] = "installed"
        /\ Due("target", c) => state[GroupOf(c)] = "pending"
        /\ Due("original", c) => route[c] # "target"
        /\ state[GroupOf(c)] = "pending" /\ route[c] # "target" => Due("target", c)

\* The families come up together and, in a teardown without a failure, go together.
Progress ==
    \A g \in Groups :
        /\ phase = "starting" /\ state[g] = "inactive" => Due("install", g)
        /\ phase \notin {"starting", "failed"} => state[g] # "inactive"
        /\ phase # "failed" => alive[g] /\ (state[g] = "retired" => ~published[g])
        /\ phase = "unpatching" /\ unpatched =>
               state[g] = "retired" \/ Due("uninstall", g) \/ Due("finish", g)
        /\ Due("finish", g) => state[g] = "pending"

FamilyStages ==
    /\ \A g \in Groups : /\ Live(g) => leased[g] /\ published[g] /\ alive[g]
                         /\ quiescent[g] => ~leased[g] /\ state[g] \in {"pending", "retired"}
    /\ \A c \in Funcs : /\ route[c] # "target" => Live(GroupOf(c))
                        /\ state[GroupOf(c)] = "installed" => route[c] # "target"
                        /\ c \in entries[Agent] => route[c] # "target"

\* The calls that depend on channel set and trampoline, or will when they enter now.
Dependent(f) == IF f.at = "arrived" THEN route[f.c] # "target" ELSE f.route # "target"
Trampoline(f) == IF f.at \in {"loaded", "calling"} THEN f.orig ELSE slot[f.c]

FramesBacked ==
    \A t \in Threads : \A i \in 1 .. Depth(t) :
        LET f == frames[t][i]
            g == GroupOf(f.c)
        IN  /\ state[g] # "inactive"
            /\ f.at \in {"entered", "set", "loaded"} => f.route # "target"
            /\ f.at = "calling" /\ f.route = "target" => state[g] # "installed" /\ f.c \notin jump
            /\ Dependent(f) => leased[g] /\ published[g] /\ alive[g]
                               /\ HB!Callable(f.c, Trampoline(f), g)

\* The waits of try_finish_teardown that have succeeded stay true until the last one has.
WaitsHold ==
    settling # 1 =>
        /\ todo # << >>
        /\ \/ Head(todo)[1] = "recorders"
           \/ LET g == Head(todo)[2]
              IN  /\ Head(todo) = <<"finish", g>> /\ ~quiescent[g]
                  /\ settling <= Len(Channels[g])
                  /\ \A f \in Routed : \A j \in 1 .. settling - 1 : f.c # Channels[g][j]

HooksInv ==
    /\ FamilyInv /\ TodoShape /\ WorkFits /\ Progress /\ FamilyStages /\ FramesBacked
    /\ WaitsHold /\ FinalizedIsClean

----------------------------------------------------------------------------

\* "never retries forever": the control thread ends its work even when target
\* threads stay inside replacements for good.
ControlEnds == (todo # << >>) ~> (todo = << >>)

============================================================================
