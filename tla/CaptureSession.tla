--------------------------- MODULE CaptureSession ---------------------------
(***************************************************************************)
(* One Linux capture from its start to its end: LinuxCaptureRuntime with   *)
(* the session thread that serves the controller (or the duration timer of *)
(* a standalone capture), the target threads that leave through the hooked *)
(* exit, and the controller's CaptureSession at the other end of the       *)
(* socket.                                                                 *)
(*                                                                         *)
(* The runtime state_ is one atomic, so a load and a later store are two   *)
(* steps.  What stop_recording, the writer and the physical teardown do is *)
(* left to LinuxHooks and to the writer: here each is one step with the    *)
(* outcomes it can have.                                                   *)
(***************************************************************************)
EXTENDS Naturals, FiniteSets

CONSTANTS
    Exiting,     \* target threads that may call exit or _exit
    Kinds,       \* captures started: subset of {"launch", "attach", "standalone"}
    DrainBudget, \* kDrainQuiescenceBudget, in seconds
    StopTimeout, \* the controller's wait for CaptureDrained, in seconds
    MaxQueries,  \* bound: QueryStatus requests
    None

ASSUME SessionAssumption ==
    /\ Kinds \subseteq {"launch", "attach", "standalone"}
    /\ "session" \notin Exiting /\ None \notin {"writer", "protocol"}
    /\ DrainBudget \in Nat /\ StopTimeout \in Nat /\ MaxQueries \in Nat

Session == "session"
Actors  == Exiting \cup {Session}

VARIABLES
    kind, stuck,      \* the request; whether some replacement call never leaves
    state, flags,     \* state_, status_flags_
    trace,            \* the writer's file: "open", "closed" or "error"
    patched, mapped,  \* exit is hooked; its trampoline is mapped
    claimed,          \* exit_finalize_started
    pc, task, saw,    \* each agent thread: step, operation, the state it loaded
    process, death,   \* the target: "running", "dying", "gone"; what ended it
    request, reply,   \* the socket, one message each way
    peer,             \* the controller's end is open
    cpc, verdict, queries

runtime    == <<state, flags, trace, patched, mapped, claimed>>
threads    == <<pc, task, saw>>
target     == <<process, death>>
wire       == <<request, reply, peer>>
controller == <<cpc, verdict, queries>>
given      == <<kind, stuck>>
vars       == <<given, runtime, threads, target, wire, controller>>

States == {"capturing", "draining", "drained", "unpatching", "finalized", "dormant", "failed"}

\* session_bootstrap has returned: hooks and writer are live.
Init ==
    /\ kind \in Kinds /\ stuck \in BOOLEAN
    /\ state = "capturing" /\ flags = {} /\ trace = "open"
    /\ patched = TRUE /\ mapped = TRUE /\ claimed = FALSE
    /\ pc = [a \in Actors |-> IF a = Session THEN "ready" ELSE "running"]
    /\ task = [a \in Actors |-> "exit"]
    /\ saw = [a \in Actors |-> "capturing"]
    /\ process = "running" /\ death = None
    /\ request = None /\ reply = None /\ peer = (kind # "standalone")
    /\ cpc = (IF kind = "standalone" THEN "left" ELSE "ready")
    /\ verdict = None /\ queries = 0

----------------------------------------------------------------------------
(* drain(), on the session thread, the timer or an exiting thread. *)

Running == process = "running"
At(a, step) == Running /\ pc[a] = step
Goto(a, step) == pc' = [pc EXCEPT ![a] = step]

AfterDrain(a) ==
    CASE task[a] = "stop" -> "reply"
      [] task[a] = "finalize" -> "inspect"
      [] task[a] = "exit" -> "retire"

DrainBegin_Reentrant(a) ==
    /\ At(a, "drain")
    /\ IF state \in {"capturing", "draining"}
       THEN state' = "draining" /\ Goto(a, "quiesce")
       ELSE UNCHANGED state /\ Goto(a, AfterDrain(a))
    /\ UNCHANGED <<given, flags, trace, patched, mapped, claimed, task, saw, target, wire,
                   controller>>

\* The compare-exchange; whoever loses it returns at once.
DrainBegin(a) ==
    /\ At(a, "drain")
    /\ IF state = "capturing"
       THEN state' = "draining" /\ Goto(a, "quiesce")
       ELSE UNCHANGED state /\ Goto(a, AfterDrain(a))
    /\ UNCHANGED <<given, flags, trace, patched, mapped, claimed, task, saw, target, wire,
                   controller>>

\* stop_recording of every family.
Quiesce(a) ==
    /\ At(a, "quiesce") /\ ~stuck
    /\ Goto(a, "finish")
    /\ UNCHANGED <<given, runtime, task, saw, target, wire, controller>>

QuiesceExpires_Waits(a) == Quiesce(a) /\ stuck

\* The deadline passes first.  It was taken after the controller began to wait for
\* the answer, so a longer budget outlasts the controller.
QuiesceExpires(a) ==
    /\ At(a, "quiesce")
    /\ a = Session /\ cpc \in {"drained", "finalized"} => DrainBudget <= StopTimeout
    /\ flags' = flags \cup {"drain"}
    /\ Goto(a, "finish")
    /\ UNCHANGED <<given, state, trace, patched, mapped, claimed, task, saw, target, wire,
                   controller>>

\* writer_->finish()
Finish(a) ==
    /\ At(a, "finish")
    /\ trace' \in {"closed", "error"}
    /\ Goto(a, "settle")
    /\ UNCHANGED <<given, state, flags, patched, mapped, claimed, task, saw, target, wire,
                   controller>>

Settle(a) ==
    /\ At(a, "settle")
    /\ state' = IF trace = "error" THEN "failed" ELSE "drained"
    /\ Goto(a, AfterDrain(a))
    /\ UNCHANGED <<given, flags, trace, patched, mapped, claimed, task, saw, target, wire,
                   controller>>

----------------------------------------------------------------------------
(* finalize(), on the session thread only. *)

FinalizeBegin ==
    /\ At(Session, "finalize")
    /\ Goto(Session, IF state = "capturing" THEN "drain" ELSE "inspect")
    /\ UNCHANGED <<given, runtime, task, saw, target, wire, controller>>

Inspect_AnyState ==
    /\ At(Session, "inspect")
    /\ saw' = [saw EXCEPT ![Session] = state]
    /\ Goto(Session, IF kind = "attach" THEN "retain" ELSE "cas")
    /\ UNCHANGED <<given, runtime, task, target, wire, controller>>

Inspect ==
    /\ At(Session, "inspect")
    /\ saw' = [saw EXCEPT ![Session] = state]
    /\ Goto(Session, IF state \notin {"drained", "failed"} THEN "reply"
                     ELSE IF kind = "attach" THEN "retain" ELSE "cas")
    /\ UNCHANGED <<given, runtime, task, target, wire, controller>>

\* An attach capture keeps its patches.
Retain ==
    /\ At(Session, "retain")
    /\ state' = IF saw[Session] = "failed" THEN "failed" ELSE "dormant"
    /\ Goto(Session, "reply")
    /\ UNCHANGED <<given, flags, trace, patched, mapped, claimed, task, saw, target, wire,
                   controller>>

BeginUnpatch ==
    /\ At(Session, "cas")
    /\ IF state = saw[Session]
       THEN state' = "unpatching" /\ Goto(Session, "teardown")
       ELSE UNCHANGED state /\ Goto(Session, "reply")
    /\ UNCHANGED <<given, flags, trace, patched, mapped, claimed, task, saw, target, wire,
                   controller>>

\* Every family is uninstalled and the backend shut down, which reverts the exit
\* hooks and, unless a lease or a deadline forbids it, unmaps every trampoline.
Teardown ==
    /\ At(Session, "teardown")
    /\ patched' = FALSE
    /\ \/ mapped' = FALSE /\ UNCHANGED flags
       \/ mapped' \in BOOLEAN /\ flags' = flags \cup {"unpatch"}
    /\ Goto(Session, "conclude")
    /\ UNCHANGED <<given, state, trace, claimed, task, saw, target, wire, controller>>

Conclude ==
    /\ At(Session, "conclude")
    /\ state' = IF saw[Session] = "failed" THEN "failed"
                ELSE IF "unpatch" \in flags THEN "dormant" ELSE "finalized"
    /\ Goto(Session, "reply")
    /\ UNCHANGED <<given, flags, trace, patched, mapped, claimed, task, saw, target, wire,
                   controller>>

----------------------------------------------------------------------------
(* serve_session. *)

Answer(t) == CASE t = "query" -> "status" [] t = "stop" -> "drained"
               [] t = "finalize" -> "finalized" [] t = "start" -> "ready"

\* CaptureReady answers StartCapture; a standalone capture has a timer instead.
Ready ==
    /\ At(Session, "ready")
    /\ IF kind = "standalone"
       THEN Goto(Session, "drain") /\ UNCHANGED task
       ELSE Goto(Session, "reply") /\ task' = [task EXCEPT ![Session] = "start"]
    /\ UNCHANGED <<given, runtime, saw, target, wire, controller>>

Serve ==
    /\ At(Session, "serve") /\ request # None
    /\ request' = None
    /\ task' = [task EXCEPT ![Session] = request]
    /\ Goto(Session, CASE request = "query" -> "reply" [] request = "stop" -> "drain"
                       [] request = "finalize" -> "finalize")
    /\ UNCHANGED <<given, runtime, saw, target, reply, peer, controller>>

\* receive throws: the controller has gone, or has asked nothing for a day.  The
\* capture goes on.
Unattended ==
    /\ At(Session, "serve") /\ request = None
    /\ Goto(Session, "ended")
    /\ UNCHANGED <<given, runtime, task, saw, target, wire, controller>>

Dies(cause) == process' = "dying" /\ death' = cause

\* send; nothing catches the error of a closed peer before the thread's end, and
\* an exception that leaves a thread calls std::terminate.
Reply ==
    /\ At(Session, "reply")
    /\ IF peer
       THEN /\ reply' = [type |-> Answer(task[Session]), state |-> state]
            /\ Goto(Session, IF task[Session] = "finalize" THEN "ended" ELSE "serve")
            /\ UNCHANGED target
       ELSE Dies("terminate") /\ UNCHANGED <<reply, pc>>
    /\ UNCHANGED <<given, runtime, task, saw, request, peer, controller>>

----------------------------------------------------------------------------
(* The exit hooks. *)

\* exit() runs the replacement when it is patched.
Exit(a) ==
    /\ a \in Exiting /\ At(a, "running")
    /\ IF patched THEN Goto(a, "claim") /\ UNCHANGED target
                  ELSE Dies("exit") /\ UNCHANGED pc
    /\ UNCHANGED <<given, runtime, task, saw, wire, controller>>

\* finalize_on_exit: the first caller wins.
Claim(a) ==
    /\ At(a, "claim")
    /\ Goto(a, IF claimed THEN "chain" ELSE "drain")
    /\ claimed' = TRUE
    /\ UNCHANGED <<given, state, flags, trace, patched, mapped, task, saw, target, wire,
                   controller>>

AfterRetire(a) == IF a = Session THEN "ended" ELSE "chain"

Retire_AnyState(a) ==
    /\ At(a, "retire")
    /\ Goto(a, "park")
    /\ UNCHANGED <<given, runtime, task, saw, target, wire, controller>>

\* retire_to_dormant: the test ...
Retire(a) ==
    /\ At(a, "retire")
    /\ Goto(a, IF state = "drained" THEN "park" ELSE AfterRetire(a))
    /\ UNCHANGED <<given, runtime, task, saw, target, wire, controller>>

\* ... and the store.
Park(a) ==
    /\ At(a, "park")
    /\ state' = "dormant"
    /\ Goto(a, AfterRetire(a))
    /\ UNCHANGED <<given, flags, trace, patched, mapped, claimed, task, saw, target, wire,
                   controller>>

\* The original exit, through its trampoline.  (It ends in _exit, whose hook finds
\* the finalisation claimed and goes on.)
Chain(a) ==
    /\ At(a, "chain")
    /\ Dies(IF mapped THEN "exit" ELSE "trampoline")
    /\ UNCHANGED <<given, runtime, threads, wire, controller>>

\* abort or a signal.
Killed ==
    /\ Running /\ Dies("signal")
    /\ UNCHANGED <<given, runtime, threads, wire, controller>>

\* The sockets of a dying process close before its parent can wait for it.
Reaped ==
    /\ process = "dying" /\ process' = "gone"
    /\ UNCHANGED <<given, runtime, threads, death, wire, controller>>

----------------------------------------------------------------------------
(* The controller: execute_capture over CaptureSession. *)

Waiting == cpc \in {"ready", "status", "drained", "finalized"}
AgentOpen == Running /\ pc[Session] # "ended"

Leave(v) == cpc' = "left" /\ verdict' = v /\ peer' = FALSE

\* note_target_exit decides what a broken session means.
Broken == Leave(IF process = "gone" THEN "exited" ELSE "crashed")

Ask(what, wait) ==
    /\ IF AgentOpen THEN request' = what /\ cpc' = wait /\ UNCHANGED <<verdict, peer>>
                    ELSE Broken /\ UNCHANGED request
    /\ UNCHANGED <<given, runtime, threads, target>>

QueryStatus ==
    /\ cpc = "watch" /\ queries < MaxQueries
    /\ queries' = queries + 1
    /\ Ask("query", "status") /\ UNCHANGED reply

Stop ==
    /\ cpc = "watch"
    /\ Ask("stop", "drained") /\ UNCHANGED <<reply, queries>>

\* receive: the answer the step waits for, or a protocol error.
Receive ==
    /\ Waiting /\ reply # None
    /\ reply' = None
    /\ CASE reply.type # cpc -> /\ Leave("protocol")
                                /\ UNCHANGED <<given, runtime, threads, target, request>>
         [] reply.type = cpc /\ cpc \in {"ready", "status"} ->
                /\ cpc' = "watch"
                /\ UNCHANGED <<given, runtime, threads, target, request, peer, verdict>>
         [] reply.type = cpc /\ cpc = "drained" -> Ask("finalize", "finalized")
         [] reply.type = cpc /\ cpc = "finalized" ->
                /\ Leave(IF reply.state = "failed" THEN "writer" ELSE "stopped")
                /\ UNCHANGED <<given, runtime, threads, target, request>>
    /\ UNCHANGED queries

\* LaunchChildGuard: a launch that fails in its handshake kills and reaps the child
\* before its socket closes.
KillChild == process' = "gone" /\ death' = (IF Running THEN "signal" ELSE death)

GivesUp_Retries ==
    /\ Waiting /\ reply = None
    /\ cpc' = "watch"
    /\ UNCHANGED <<given, runtime, threads, target, wire, verdict, queries>>

\* The socket is closed, or the wait times out.
GivesUp ==
    /\ Waiting /\ reply = None
    /\ Broken
    /\ IF cpc = "ready" /\ kind = "launch" THEN KillChild ELSE UNCHANGED target
    /\ UNCHANGED <<given, runtime, threads, request, reply, queries>>

\* The target's end, or Ctrl+C.
StopsWatching ==
    /\ cpc = "watch"
    /\ \/ process = "gone" /\ Leave("exited")
       \/ Leave("detached")
    /\ UNCHANGED <<given, runtime, threads, target, request, reply, queries>>

ControllerDies ==
    /\ cpc # "left" /\ Leave("died")
    /\ UNCHANGED <<given, runtime, threads, target, request, reply, queries>>

----------------------------------------------------------------------------

Step(a) ==
    \/ DrainBegin(a) \/ Quiesce(a) \/ QuiesceExpires(a) \/ Finish(a) \/ Settle(a)
    \/ Claim(a) \/ Retire(a) \/ Park(a) \/ Chain(a)

SessionStep ==
    \/ FinalizeBegin \/ Inspect \/ Retain \/ BeginUnpatch \/ Teardown \/ Conclude
    \/ Ready \/ Serve \/ Unattended \/ Reply

Controller == QueryStatus \/ Stop \/ Receive \/ GivesUp \/ StopsWatching \/ ControllerDies

Next ==
    \/ \E a \in Actors : Step(a) \/ Exit(a)
    \/ SessionStep \/ Controller \/ Killed \/ Reaped

Spec == Init /\ [][Next]_vars

\* Threads of a live process are scheduled, and so is the controller's wait.
Fairness ==
    /\ \A a \in Exiting : WF_vars(Step(a))
    /\ WF_vars(Step(Session) \/ SessionStep)
    /\ WF_vars(Receive \/ GivesUp)

FairSpec == Spec /\ Fairness

----------------------------------------------------------------------------

Draining == {"quiesce", "finish", "settle"}

\* Type invariant.
TypeOK ==
    /\ kind \in Kinds /\ stuck \in BOOLEAN
    /\ state \in States /\ flags \subseteq {"drain", "unpatch"}
    /\ trace \in {"open", "closed", "error"}
    /\ patched \in BOOLEAN /\ mapped \in BOOLEAN /\ claimed \in BOOLEAN
    /\ pc \in [Actors -> {"ready", "running", "serve", "drain", "finalize", "inspect", "retain",
                          "cas", "teardown", "conclude", "reply", "claim", "retire", "park",
                          "chain", "ended"} \cup Draining]
    /\ task \in [Actors -> {"start", "query", "stop", "finalize", "exit"}]
    /\ saw \in [Actors -> States]
    /\ process \in {"running", "dying", "gone"}
    /\ death \in {None, "exit", "signal", "terminate", "trampoline"}
    /\ request \in {None, "query", "stop", "finalize"}
    /\ reply \in {None} \cup [type : {"ready", "status", "drained", "finalized"}, state : States]
    /\ peer \in BOOLEAN
    /\ cpc \in {"ready", "watch", "status", "drained", "finalized", "left"}
    /\ verdict \in {None, "exited", "crashed", "protocol", "writer", "stopped", "detached", "died"}
    /\ queries \in Nat

\* The writer is finished once, by the one thread that took the capture out of
\* kCapturing, however session, timer and exiting threads race: finish() joins the
\* writer thread and must not run twice.
OneDrainer ==
    /\ \A a, b \in Actors : pc[a] \in Draining /\ pc[b] \in Draining => a = b
    /\ trace # "open" => \A a \in Actors : pc[a] \notin {"quiesce", "finish"}

\* Hooks are reverted, and the capture is reported over, only with the trace
\* closed: the physical teardown never starts under a running writer.
TeardownAfterTrace ==
    state \in {"drained", "unpatching", "finalized", "dormant", "failed"} \/ ~patched
        => trace # "open"

\* A failed writer stays visible: no path turns it into a drained, dormant or
\* finalized capture, and the controller reports a writer failure only for one.
WriterErrorVisible ==
    /\ trace = "error" => state \in {"draining", "failed", "unpatching"}
    /\ verdict = "writer" => trace = "error"

\* Every answer the controller reads is the answer to the request it last sent, even
\* when it gives up on one: a late CaptureStatus is never taken for a CaptureDrained.
AnswersMatch == verdict # "protocol"

\* kFinalized is reported only when the trampolines are gone.
FinalizedMeansUnmapped == state = "finalized" => ~patched /\ ~mapped

\* The session thread answers and returns to the socket, and a thread that has called
\* exit leaves the process, although a replacement call never ends: the drain budget
\* bounds the stop.
SessionReturns ==
    /\ (pc[Session] \notin {"serve", "ended"})
           ~> (pc[Session] \in {"serve", "ended"} \/ ~Running)
    /\ \A a \in Exiting : (pc[a] # "running") ~> ~Running

----------------------------------------------------------------------------
(* An inductive invariant that implies the safety properties above. *)

Over == state \notin {"capturing", "draining"}

TasksMatch ==
    /\ \A a \in Exiting : task[a] = "exit"
    /\ pc[Session] \in {"drain"} \cup Draining => task[Session] \in {"stop", "finalize", "exit"}
    /\ pc[Session] \in {"finalize", "inspect", "retain", "cas", "teardown", "conclude"} =>
           task[Session] = "finalize"
    /\ pc[Session] = "reply" => task[Session] # "exit"
    /\ pc[Session] = "ready" => task[Session] = "exit"
    /\ pc[Session] \notin {"running", "claim", "chain"}

\* The state belongs to the one drainer until it settles.
DrainOwned ==
    /\ state = "capturing" => trace = "open"
    /\ \A a \in Actors : pc[a] \in Draining =>
           state = "draining" /\ (trace = "open" <=> pc[a] # "settle")
    /\ \A a, b \in Actors : pc[a] \in Draining /\ pc[b] \in Draining => a = b

\* Once it has, the state tells how the trace ended.
StateTells ==
    /\ Over => trace # "open"
    /\ ~patched => Over
    /\ state \in {"drained", "dormant", "finalized"} => trace = "closed"
    /\ state = "failed" => trace = "error"
    /\ \A a \in Actors : pc[a] = "park" => Over /\ trace = "closed"

\* What finalize() loaded stays true of the trace while it works.
TeardownKnows ==
    /\ pc[Session] \in {"retain", "cas", "teardown", "conclude"} =>
           Over /\ saw[Session] = IF trace = "error" THEN "failed" ELSE "drained"
    /\ pc[Session] = "conclude" => ~patched /\ ("unpatch" \in flags \/ ~mapped)
    /\ state = "finalized" =>
           /\ ~patched /\ ~mapped
           /\ pc[Session] \in {"reply", "ended"} /\ task[Session] = "finalize"

Reported ==
    /\ reply # None => (reply.state = "failed" => trace = "error")
    /\ verdict = "writer" => trace = "error"

RuntimeInv ==
    /\ TypeOK /\ TasksMatch /\ DrainOwned /\ StateTells /\ TeardownKnows /\ Reported

\* One request is under way at a time, as a message, in the session thread or as an
\* answer, and it is the one the controller waits for.
Paired ==
    LET busy == pc[Session] \notin {"ready", "serve", "ended"}
    IN  /\ verdict # "protocol"
        /\ kind = "standalone" => cpc = "left"
        /\ cpc # "left" =>
            /\ reply # None => /\ reply.type = cpc /\ request = None
                               /\ ~busy /\ pc[Session] # "ready"
            /\ request # None => /\ Answer(request) = cpc
                                 /\ ~busy /\ pc[Session] # "ready"
            /\ busy => Answer(task[Session]) = cpc /\ task[Session] # "exit"
            /\ pc[Session] = "ready" => cpc = "ready"

\* However session, timer, exiting threads and controller interleave, state_ tells
\* who drains, how the trace ended and what the teardown may still do, and the
\* answer under way is the one awaited.
SessionInv == RuntimeInv /\ Paired

----------------------------------------------------------------------------

\* Claimed, and false: "a broken session channel mid-capture never stops the
\* capture (controller detach semantics)" (agent_runtime.cpp:17): the agent never ends the target.
TargetSurvives == death # "terminate"

\* Claimed, and false: "exit ... first finishes the capture (stop recording, drain the writer, flush, close
\* the trace), then passes on to the original" (docs/LINUX_LAUNCH_INJECTION.md:62).
ExitClosesTrace == death = "exit" => trace # "open"

============================================================================
