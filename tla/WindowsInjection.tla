------------------------- MODULE WindowsInjection -------------------------
(***************************************************************************)
(* How a capture starts on Windows.  The controller creates a suspended    *)
(* process or opens a running one and brings the agent into it by a remote *)
(* thread, by redirecting a suspended thread into a stub, by a jump at the *)
(* entry point of the image, or by a stub the image already carries.  The  *)
(* stub loads the agent, calls its bootstrap and may wait until the agent  *)
(* is ready; the controller waits for the handshake of the pipe or, when   *)
(* the agent works on its own, for a named event.  Every wait is bounded.  *)
(***************************************************************************)
EXTENDS Naturals

CONSTANTS
    Threads,      \* threads of a process that is attached to
    Main,         \* the main thread of a launched one, a member of Threads
    Flows,        \* [kind, direct, method] combinations
    MaxMoves,     \* bound on the moves of a thread in its own code
    NoThread

Methods == {"remote", "hijack", "entrypoint", "static"}
Requests == [kind : {"launch", "attach"}, direct : BOOLEAN, method : Methods]

ASSUME StartAssumption == Flows \subseteq Requests /\ Main \in Threads /\ NoThread \notin Threads

VARIABLES
    flow,         \* what is asked of the controller
    pc, again,    \* where the controller is; finish() has used its first budget
    left, best,   \* threads acquire_thread has not looked at; its best candidate
    proc,         \* "none" | "alive" | "gone"
    at, sus,      \* thread -> what its instruction pointer is in; suspended
    moves, early, \* thread -> moves made; the target's own code ran before the capture did
    hij, saved,   \* the redirected thread; the context to give back to it
    stub, stage,  \* where the executor of the stub is; the stage word of its data block
    done,         \* the done or restored word
    pages,        \* remote pages: "none" | "mapped" | "freed" | "leaked"
    entry,        \* entry point of the image: [jump, writable]
    locks,        \* locks a teleported thread left behind: "no" | "silent" | "reported"
    mod,          \* the agent is mapped in the target
    worker,       \* "none" | "connect" | "hello" | "start" | "capturing" | "dead"
    ready, event, \* capture_ready; the named event is set
    result,       \* "none" | "session" | "error"
    broke         \* a call failed whose failure the controller takes no care of

target == <<proc, at, sus, moves, early>>
executor == <<hij, saved, stub, stage, done, pages, entry, locks>>
agent == <<mod, worker, ready, event>>
vars == <<flow, pc, again, left, best, target, executor, agent, result, broke>>

Places == {"start", "app", "system", "wait", "locked", "stub", "dead"}
Alive == {t \in Threads : at[t] # "dead"}
Launch == flow.kind = "launch"
Awaited == flow.method # "remote" /\ Launch   \* wait_for_ready

\* What each entry of the controller does with each method: the step it goes on to.
\* A method that is not there is refused.
LaunchOrder ==
    [remote |-> [check |-> "load", load |-> "await", await |-> "return"],
     hijack |-> [check |-> "acquire", start |-> "await", await |-> "finish", finish |-> "return"],
     entrypoint |-> [check |-> "patch", patch |-> "await", await |-> "finish", finish |-> "return"],
     static |-> [check |-> "params", params |-> "await", await |-> "return"]]

\* Attach restores the hijacked thread before it waits for the pipe.
AttachOrder ==
    [remote |-> [check |-> "load", load |-> "await", await |-> "return"],
     hijack |-> [check |-> "acquire", start |-> "finish", finish |-> "await", await |-> "return"]]

\* The flows without a session wait for the ready event where launch waits for the pipe.
LaunchAgentOrder == LaunchOrder

AttachAgentOrder ==
    [remote |-> [check |-> "load", load |-> "await", await |-> "return"],
     hijack |-> [check |-> "acquire", start |-> "await", await |-> "finish", finish |-> "return"]]

Order == IF Launch THEN (IF flow.direct THEN LaunchAgentOrder ELSE LaunchOrder)
         ELSE IF flow.direct THEN AttachAgentOrder ELSE AttachOrder
After(step) == Order[flow.method][step]
Own(t) == at[t] \notin {"stub", "dead"}

Init ==
    /\ flow \in Flows /\ pc = "open" /\ again = FALSE /\ left = {} /\ best = NoThread
    /\ proc = IF Launch THEN "none" ELSE "alive"
    /\ at \in [Threads -> {"start"}] \cup [Threads -> {"app", "system", "wait", "locked"}]
    /\ \A t \in Threads : (at[t] = "start") = Launch
    /\ sus = [t \in Threads |-> FALSE]
    /\ moves = [t \in Threads |-> 0] /\ early = FALSE
    /\ hij = NoThread /\ saved = "app" /\ stub = "none" /\ stage = 0 /\ done = FALSE
    /\ pages = "none" /\ entry = [jump |-> FALSE, writable |-> FALSE] /\ locks = "no"
    /\ mod = FALSE /\ worker = "none" /\ ready = FALSE /\ event = FALSE /\ result = "none"
    /\ broke = FALSE

----------------------------------------------------------------------------
(* The target. *)

Runs(t) == proc = "alive" /\ ~sus[t] /\ (Launch => t = Main)
Executor == IF flow.method = "hijack" THEN hij ELSE Main

\* A thread runs its own code.  The loader takes the main thread of a launched
\* process to the entry point, where the jump of the patch may wait for it.
Run(t) ==
    /\ Runs(t) /\ Own(t) /\ moves[t] < MaxMoves
    /\ moves' = [moves EXCEPT ![t] = @ + 1]
    /\ IF at[t] = "start" /\ (entry.jump \/ flow.method = "static") /\ stub # "out"
       THEN at' = [at EXCEPT ![t] = "stub"] /\ stub' = "load" /\ UNCHANGED early
       ELSE /\ \E p \in {"app", "system", "wait", "locked"} : at' = [at EXCEPT ![t] = p]
            /\ early' = (early \/ (Launch /\ worker # "capturing"))
            /\ UNCHANGED stub
    /\ UNCHANGED <<flow, pc, again, left, best, proc, sus, hij, saved, stage, done, pages, entry,
                   locks, agent, result, broke>>

\* A thread of an attached process ends, in its own code or in the stub.
Exits(t) ==
    /\ Runs(t) /\ at[t] # "dead" /\ ~Launch /\ moves[t] < MaxMoves
    /\ at' = [at EXCEPT ![t] = "dead"] /\ moves' = [moves EXCEPT ![t] = @ + 1]
    /\ stub' = IF at[t] = "stub" THEN "out" ELSE stub
    /\ UNCHANGED <<flow, pc, again, left, best, proc, sus, early, hij, saved, stage, done, pages,
                   entry, locks, agent, result, broke>>

----------------------------------------------------------------------------
(* The stub, and the remote threads, which run the same two calls. *)

Stubbing == proc = "alive" /\ (flow.method = "remote" \/ (Executor \in Alive /\ ~sus[Executor]))
StubQuiet == UNCHANGED <<flow, pc, again, left, best, proc, sus, moves, early, hij, saved, pages,
                         locks, result, broke>>

\* Where the stub goes when it has no more to do.
Leaves == IF flow.method = "hijack" THEN "spin"
          ELSE IF flow.method = "entrypoint" THEN "restore" ELSE "out"
Finished(next) ==
    /\ stub' = next
    /\ done' = (done \/ next = "spin")
    /\ at' = IF next = "out" /\ flow.method = "static" THEN [at EXCEPT ![Main] = "start"] ELSE at

\* LdrLoadDll returns.
LoadReturns ==
    /\ Stubbing /\ stub = "load" /\ stage' = 1
    /\ \E ok \in BOOLEAN :
          /\ mod' = (mod \/ ok)
          /\ Finished(IF ~ok THEN Leaves ELSE IF flow.method = "remote" THEN "loaded" ELSE "boot")
    /\ UNCHANGED <<entry, worker, ready, event>> /\ StubQuiet

\* noleax_agent_bootstrap: it checks and copies its parameters and starts a worker.
BootReturns ==
    /\ Stubbing /\ stub = "boot" /\ stage' = 2
    /\ \E ok \in BOOLEAN :
          /\ worker' = IF ok THEN "connect" ELSE worker
          /\ Finished(IF ok /\ flow.method # "remote" THEN "poll"
                      ELSE IF ok THEN "booted"
                      ELSE Leaves)
    /\ UNCHANGED <<entry, mod, ready, event>> /\ StubQuiet

\* The bounded poll of noleax_agent_capture_is_ready; attach does not ask for it.
PollEnds ==
    /\ Stubbing /\ stub = "poll" /\ stage' = IF ready \/ ~Awaited THEN 3 ELSE 4
    /\ Finished(Leaves)
    /\ UNCHANGED <<entry, agent>> /\ StubQuiet

\* The entry stub writes the original bytes back, sets restored, restores the
\* registers from its data block and jumps to the entry point.
RestoresEntry ==
    /\ Stubbing /\ stub = "restore" /\ entry.writable
    /\ entry' = [entry EXCEPT !.jump = FALSE] /\ done' = TRUE /\ stub' = "tail"
    /\ UNCHANGED <<at, stage, agent>> /\ StubQuiet

JumpsToEntry ==
    /\ Stubbing /\ stub = "tail" /\ stub' = "out"
    /\ at' = [at EXCEPT ![Main] = "start"]
    /\ UNCHANGED <<entry, stage, done, agent>> /\ StubQuiet

\* A stub whose pages are gone takes the process with it.
Faults ==
    /\ Stubbing /\ flow.method \in {"remote", "hijack"} /\ pages = "freed"
    /\ stub \in {"load", "boot", "poll", "spin"} /\ proc' = "gone"
    /\ UNCHANGED <<flow, pc, again, left, best, at, sus, moves, early, executor, agent, result,
                   broke>>

----------------------------------------------------------------------------
(* The agent: the worker the bootstrap started. *)

AgentQuiet == UNCHANGED <<flow, pc, again, left, best, target, executor, mod, result, broke>>
Listening == result = "none" /\ pc \notin {"unwind", "terminate"}

\* agent_worker connects, checks the server and says hello.
WorkerConnects ==
    /\ proc = "alive" /\ worker = "connect" /\ ~flow.direct /\ Listening /\ worker' = "hello"
    /\ UNCHANGED <<ready, event>> /\ AgentQuiet

\* The capture starts: capture_ready before kCaptureReady.
WorkerStarts ==
    /\ proc = "alive" /\ worker = "start"
    /\ worker' = "capturing" /\ ready' = TRUE /\ UNCHANGED event /\ AgentQuiet

WorkerFails ==
    /\ proc = "alive" /\ worker \in {"connect", "hello", "start"} /\ ~flow.direct
    /\ worker' = "dead" /\ UNCHANGED <<ready, event>> /\ AgentQuiet

\* standalone_worker: the exit hook is armed before the stub is released.  A
\* failure releases it, and the controller, all the same.
StandaloneStarts ==
    /\ proc = "alive" /\ worker = "connect" /\ flow.direct
    /\ worker' = "capturing" /\ ready' = TRUE /\ event' = TRUE /\ AgentQuiet

StandaloneFails ==
    /\ proc = "alive" /\ worker = "connect" /\ flow.direct
    /\ worker' = "dead" /\ ready' = TRUE /\ event' = TRUE /\ AgentQuiet

----------------------------------------------------------------------------
(* The controller. *)

Goes(p) == pc' = p /\ UNCHANGED result
CtlStill == UNCHANGED <<flow, moves, early, mod, ready, event>>
CtlQuiet == CtlStill /\ UNCHANGED broke
Fails == Goes("unwind")

\* SuspendedProcess::create or OpenProcess; the pipe is listening by then.
Opens ==
    /\ pc = "open"
    /\ \/ /\ Goes("check") /\ proc' = "alive"
          /\ sus' = [t \in Threads |-> Launch /\ t = Main]
       \/ pc' = "ended" /\ result' = "error" /\ UNCHANGED <<proc, sus>>
    /\ UNCHANGED <<again, left, best, at, executor, worker>> /\ CtlQuiet

\* Paths, parameters, "already loaded", and every address the stub needs, before
\* anything of the target is touched; a method the flow does not support fails too.
Resolves ==
    /\ pc = "check"
    /\ \/ /\ flow.method \in DOMAIN Order /\ Goes(After("check"))
          /\ left' = IF Launch THEN {} ELSE Alive
       \/ Fails /\ UNCHANGED left
    /\ UNCHANGED <<again, best, proc, at, sus, executor, worker>> /\ CtlQuiet

\* --- remote thread

Calls(p) ==
    /\ stub' = p /\ pages' = "mapped"
    /\ UNCHANGED <<hij, saved, stage, done, entry, locks>>

\* inject_remote_thread: one remote thread per call; both must end in time.
LoadRemoteLibrary ==
    /\ pc = "load" /\ Goes("loading") /\ Calls("load")
    /\ UNCHANGED <<again, left, best, proc, at, sus, worker>> /\ CtlQuiet

RunBootstrap ==
    /\ pc = "loading" /\ stub = "loaded"
    /\ \/ Goes("booting") /\ Calls("boot")
       \/ Fails /\ stub' = "out" /\ pages' = "freed"      \* no local image: try_unload
          /\ UNCHANGED <<hij, saved, stage, done, entry, locks>>
    /\ UNCHANGED <<again, left, best, proc, at, sus, worker>> /\ CtlQuiet

RemoteReturns ==
    /\ pc \in {"loading", "booting"} /\ stub \in {"booted", "out"}
    /\ pages' = "freed"
    /\ IF stub = "booted" THEN Goes(After("load")) ELSE Fails
    /\ UNCHANGED <<again, left, best, proc, at, sus, worker, hij, saved, stub, stage, done, entry,
                   locks>>
    /\ CtlQuiet

\* preserve_for_timed_out_remote_thread.
RemoteTimesOut_Frees ==
    /\ pc \in {"loading", "booting"} /\ stub \in {"load", "boot"}
    /\ pages' = "freed" /\ Fails
    /\ UNCHANGED <<again, left, best, proc, at, sus, worker, hij, saved, stub, stage, done, entry,
                   locks>>
    /\ CtlQuiet

RemoteTimesOut ==
    /\ pc \in {"loading", "booting"} /\ stub \in {"load", "boot"}
    /\ pages' = "leaked" /\ Fails
    /\ UNCHANGED <<again, left, best, proc, at, sus, worker, hij, saved, stub, stage, done, entry,
                   locks>>
    /\ CtlQuiet

\* A wait that fails (not one that times out) frees the pages with the error.
RemoteWaitFails ==
    /\ pc \in {"loading", "booting"} /\ stub \in {"load", "boot"}
    /\ pages' = "freed" /\ Fails /\ broke' = TRUE
    /\ UNCHANGED <<again, left, best, proc, at, sus, worker, hij, saved, stub, stage, done, entry,
                   locks>>
    /\ CtlStill

\* --- thread hijack

\* classify_rip and thread_score: ntdll is usable only right behind the system
\* call of a wait primitive.
Score == [start |-> 2, app |-> 0, system |-> 1, wait |-> 2, locked |-> 100, stub |-> 100]
ScoreOf(t) == IF t = NoThread THEN 100 ELSE Score[at[t]]

\* One thread of the selection loop; the best one so far stays suspended.
AcquireThread(t) ==
    /\ pc = "acquire" /\ ~Launch /\ t \in left
    /\ IF at[t] # "dead" /\ ScoreOf(t) < ScoreOf(best)
       THEN /\ best' = t /\ sus' = [u \in Threads |-> u = t]
            /\ left' = IF ScoreOf(t) = 0 THEN {} ELSE left \ {t}
       ELSE left' = left \ {t} /\ UNCHANGED <<best, sus>>
    /\ pc' = pc /\ UNCHANGED <<again, proc, at, executor, worker, result>> /\ CtlQuiet

\* The redirected thread: stub and data pages, then the new context.
RedirectThread ==
    /\ pc = "acquire" /\ left = {} /\ (Launch \/ best # NoThread)
    /\ hij' = (IF Launch THEN Main ELSE best) /\ saved' = at[hij']
    /\ \/ /\ pages' = "mapped" /\ stub' = "load" /\ at' = [at EXCEPT ![hij'] = "stub"]
          /\ Goes("start") /\ UNCHANGED sus
       \/ /\ sus' = [sus EXCEPT ![hij'] = FALSE] /\ Fails        \* restore_and_resume
          /\ UNCHANGED <<pages, stub, at>>
    /\ UNCHANGED <<again, left, best, proc, stage, done, entry, locks, worker>> /\ CtlQuiet

NoCandidate ==
    /\ pc = "acquire" /\ left = {} /\ ~Launch /\ best = NoThread /\ Fails
    /\ UNCHANGED <<again, left, best, proc, at, sus, executor, worker>> /\ CtlQuiet

StartHijack ==
    /\ pc = "start" /\ sus' = [sus EXCEPT ![hij] = FALSE]
    /\ Goes(After("start"))
    /\ UNCHANGED <<again, left, best, proc, at, executor, worker>> /\ CtlQuiet

\* restore_and_resume: the thread gets its own context back wherever it is.  Inside
\* the loader or the bootstrap it leaves their locks behind.
RestoreAndResume(report) ==
    /\ UNCHANGED broke /\ sus' = [sus EXCEPT ![hij] = FALSE]
    /\ IF at[hij] = "stub"
       THEN /\ at' = [at EXCEPT ![hij] = saved] /\ stub' = "out"
            /\ locks' = IF stub \notin {"load", "boot"} THEN locks
                        ELSE IF report THEN "reported" ELSE "silent"
       ELSE UNCHANGED <<at, stub, locks>>

\* SuspendThread or SetThreadContext fails, and nobody asks: the thread stays in the stub.
RestoreFails ==
    /\ at[hij] = "stub" /\ sus' = [sus EXCEPT ![hij] = FALSE] /\ broke' = TRUE
    /\ UNCHANGED <<at, stub, locks>>

\* finish(): a second budget for a thread that may hold a lock.
FinishWaits ==
    /\ pc = "finish" /\ flow.method = "hijack" /\ ~done /\ ~again /\ stage < 2 /\ hij \in Alive
    /\ again' = TRUE
    /\ UNCHANGED <<pc, left, best, proc, at, sus, executor, worker, result>> /\ CtlQuiet

FinishHijack ==
    /\ pc = "finish" /\ flow.method = "hijack"
    /\ done \/ again \/ stage >= 2 \/ hij \notin Alive
    /\ RestoreAndResume(TRUE) \/ RestoreFails
    /\ pages' = "freed"
    /\ IF done /\ stage = 3 THEN Goes(After("finish")) ELSE Fails
    /\ UNCHANGED <<again, left, best, proc, hij, saved, stage, done, entry, worker>> /\ CtlStill

\* --- entry point and patched image

\* write_stub and apply_jump_patch; then the main thread runs.
PatchEntry ==
    /\ pc = "patch"
    /\ \/ /\ pages' = "mapped" /\ entry' = [jump |-> TRUE, writable |-> TRUE]
          /\ sus' = [sus EXCEPT ![Main] = FALSE] /\ Goes(After("patch"))
       \/ Fails /\ pages' = "mapped" /\ UNCHANGED <<entry, sus>>
    /\ UNCHANGED <<again, left, best, proc, at, hij, saved, stub, stage, done, locks, worker>>
    /\ CtlQuiet

\* finish(): the stub has written the bytes back; check them, protect the page.  The
\* object is destroyed and its pages freed.
FinishEntry ==
    /\ pc = "finish" /\ flow.method = "entrypoint" /\ done
    /\ entry' = [entry EXCEPT !.writable = FALSE] /\ pages' = "freed"
    /\ IF stage = 3 /\ ~entry.jump THEN Goes(After("finish")) ELSE Fails
    /\ UNCHANGED <<again, left, best, proc, at, sus, hij, saved, stub, stage, done, locks, worker>>
    /\ CtlQuiet

EntryTimesOut ==
    /\ pc = "finish" /\ flow.method = "entrypoint" /\ ~done /\ Fails
    /\ UNCHANGED <<again, left, best, proc, at, sus, executor, worker>> /\ CtlQuiet

\* The parameters of a patched image, then its main thread.
PassParameters ==
    /\ pc = "params"
    /\ \/ sus' = [sus EXCEPT ![Main] = FALSE] /\ Goes(After("params"))
       \/ Fails /\ UNCHANGED sus
    /\ UNCHANGED <<again, left, best, proc, at, executor, worker>> /\ CtlQuiet

\* --- the handshake

\* accept, the checks of the hello, StartCapture.
SendsStart ==
    /\ pc = "await" /\ ~flow.direct /\ worker = "hello" /\ worker' = "start"
    /\ UNCHANGED <<pc, again, left, best, proc, at, sus, executor, result>> /\ CtlQuiet

\* kCaptureReady with the capturing state.
HearsReady ==
    /\ pc = "await" /\ ~flow.direct /\ worker = "capturing" /\ Goes(After("await"))
    /\ UNCHANGED <<again, left, best, proc, at, sus, executor, worker>> /\ CtlQuiet

\* The named event, which says nothing about how the agent's start ended.
EventIsSet ==
    /\ pc = "await" /\ flow.direct /\ event /\ Goes(After("await"))
    /\ UNCHANGED <<again, left, best, proc, at, sus, executor, worker>> /\ CtlQuiet

\* A timeout, a closed pipe, an error of the agent or a foreign client.
HandshakeFails ==
    /\ pc = "await" /\ Fails
    /\ UNCHANGED <<again, left, best, proc, at, sus, executor, worker>> /\ CtlQuiet

\* --- the end

\* The remote thread method leaves the main thread of a launch suspended until now.
Returns ==
    /\ pc = "return" /\ pc' = "ended" /\ result' = "session"
    /\ sus' = IF Launch THEN [sus EXCEPT ![Main] = FALSE] ELSE sus
    /\ UNCHANGED <<again, left, best, proc, at, executor, worker>> /\ CtlQuiet

\* The injector objects are destroyed: an unfinished hijack is aborted, entry bytes
\* are put back and protected only behind the stub's own restore, pages are freed.
Unwinds_NoAbort ==
    /\ pc = "unwind" /\ UNCHANGED <<at, stub, locks, sus>>
    /\ pages' = IF pages = "mapped" THEN "freed" ELSE pages
    /\ entry' = IF entry.jump THEN [jump |-> FALSE, writable |-> ~done] ELSE entry
    /\ IF Launch THEN Goes("terminate") ELSE pc' = "ended" /\ result' = "error"
    /\ UNCHANGED <<again, left, best, proc, hij, saved, stage, done, worker>> /\ CtlQuiet

Unwinds ==
    /\ pc = "unwind"
    /\ IF flow.method = "hijack" /\ hij # NoThread THEN RestoreAndResume(FALSE) \/ RestoreFails
       ELSE UNCHANGED <<at, stub, locks, sus, broke>>
    /\ pages' = IF pages = "mapped" THEN "freed" ELSE pages
    /\ entry' = IF entry.jump THEN [jump |-> FALSE, writable |-> ~done] ELSE entry
    /\ IF Launch THEN Goes("terminate") ELSE pc' = "ended" /\ result' = "error"
    /\ UNCHANGED <<again, left, best, proc, hij, saved, stage, done, worker>> /\ CtlStill

Terminates ==
    /\ pc = "terminate" /\ proc' = "gone" /\ pc' = "ended" /\ result' = "error"
    /\ UNCHANGED <<again, left, best, at, sus, executor, worker>> /\ CtlQuiet

----------------------------------------------------------------------------
Target == \E t \in Threads : Run(t) \/ Exits(t)
Stub == LoadReturns \/ BootReturns \/ PollEnds \/ RestoresEntry \/ JumpsToEntry \/ Faults
Agent == WorkerConnects \/ WorkerStarts \/ WorkerFails \/ StandaloneStarts \/ StandaloneFails
Controller ==
    \/ Opens \/ Resolves \/ LoadRemoteLibrary \/ RunBootstrap \/ RemoteReturns \/ RemoteTimesOut
    \/ RemoteWaitFails \/ (\E t \in Threads : AcquireThread(t)) \/ RedirectThread \/ NoCandidate \/ StartHijack
    \/ FinishWaits \/ FinishHijack \/ PatchEntry \/ FinishEntry \/ EntryTimesOut
    \/ PassParameters \/ SendsStart \/ HearsReady \/ EventIsSet \/ HandshakeFails
    \/ Returns \/ Unwinds \/ Terminates

Next == Target \/ Stub \/ Agent \/ Controller

Spec == Init /\ [][Next]_vars

----------------------------------------------------------------------------
(* Properties. *)

\* The pages of stub and parameters are never freed under a remote thread or under a
\* redirected thread, timeouts included.  (A wait that fails and a context that cannot be
\* set are the calls whose failure the code does not provide for.)
StubPagesLive ==
    ~broke /\ proc = "alive" /\ flow.method \in {"remote", "hijack"} /\ stub \in {"load", "boot", "poll", "spin"}
        => pages \in {"mapped", "leaked"}

\* A session means that the agent captures, and has done so since before the launched
\* program ran a single instruction of its own; its entry point is as it was.  (The
\* stub of a patched image gives up waiting without telling the controller.)
SessionMeansCapturing ==
    result = "session" /\ ~flow.direct =>
        /\ worker = "capturing" /\ (early => flow.method = "static") /\ ~entry.jump /\ ~entry.writable
        /\ \A t \in Threads : ~sus[t] /\ (flow.method = "hijack" => at[t] # "stub")

\* Whatever fails, a failed launch leaves no process behind and a failed attach no
\* thread suspended or in the stub; and what succeeds captures.  (The calls nobody asks
\* about set aside, as above.)
NothingLeftBehind ==
    /\ ~broke => SessionMeansCapturing
    /\ result = "error" /\ ~broke =>
        IF Launch THEN proc # "alive"
        ELSE \A t \in Threads : ~sus[t] /\ at[t] # "stub"

\* The parts of the inductive invariant.
Steps == {"open", "check", "load", "loading", "booting", "acquire", "start", "patch", "params",
          "await", "finish", "return", "unwind", "terminate", "ended"}
StubSteps == {"none", "load", "loaded", "boot", "booted", "poll", "spin", "restore", "tail", "out"}
WorkerSteps == {"none", "connect", "hello", "start", "capturing", "dead"}
TargetTyped ==
    /\ left \in SUBSET Threads /\ best \in Threads \cup {NoThread}
    /\ hij \in Threads \cup {NoThread} /\ saved \in Places
    /\ at \in [Threads -> Places] /\ sus \in [Threads -> BOOLEAN]
    /\ entry \in [jump : BOOLEAN, writable : BOOLEAN]
FlagsTyped ==
    again \in BOOLEAN /\ early \in BOOLEAN /\ done \in BOOLEAN /\ mod \in BOOLEAN
    /\ ready \in BOOLEAN /\ event \in BOOLEAN
StagesTyped ==
    /\ flow \in Requests /\ pc \in Steps /\ stub \in StubSteps /\ stage \in 0 .. 4
    /\ proc \in {"none", "alive", "gone"} /\ pages \in {"none", "mapped", "freed", "leaked"}
    /\ locks \in {"no", "silent", "reported"} /\ worker \in WorkerSteps
    /\ result \in {"none", "session", "error"}
TypeOK == TargetTyped /\ FlagsTyped /\ StagesTyped

\* Each step belongs to some of the methods; a verdict ends the controller.
StepsOfMethods ==
    /\ pc \in {"load", "loading", "booting"} => flow.method = "remote"
    /\ pc \in {"acquire", "start"} => flow.method = "hijack"
    /\ pc = "patch" => flow.method = "entrypoint" /\ Launch
    /\ pc = "params" => flow.method = "static" /\ Launch
    /\ pc = "finish" => flow.method = "hijack" \/ (flow.method = "entrypoint" /\ Launch)
    /\ pc \in {"await", "return"} /\ ~Launch => flow.method \in {"remote", "hijack"}
    /\ pc = "terminate" => Launch
    /\ result # "none" <=> pc = "ended"
    /\ pc = "open" /\ Launch => proc = "none"
    /\ result = "error" /\ Launch => proc # "alive"

\* Who runs the stub is in it, and nobody else is; it is started once.
StubInPlace ==
    /\ flow.method = "remote" => stub \in {"none", "load", "loaded", "boot", "booted", "out"}
    /\ flow.method = "hijack" => stub \in {"none", "load", "boot", "poll", "spin", "out"}
    /\ flow.method \in {"entrypoint", "static"} /\ ~Launch => stub = "none"
    /\ pc \in {"open", "check", "load", "acquire", "patch", "params"} => stub = "none"
    /\ flow.method # "remote" /\ stub \notin {"none", "out"} =>
           Executor \in Threads /\ at[Executor] = "stub"
    /\ \A t \in Threads : at[t] = "stub" =>
           flow.method # "remote" /\ t = Executor /\ stub \notin {"none", "out"}
    /\ flow.method = "hijack" /\ (pc \in {"return", "terminate", "ended"}
                                    \/ (pc = "await" /\ ~Launch /\ ~flow.direct)) =>
           stub \in {"none", "out"}
    /\ saved # "stub" /\ (~Launch => saved # "start" /\ \A t \in Threads : at[t] # "start")

\* The pages a remote thread or a redirected one runs on.
PagesHeld ==
    /\ flow.method = "remote" => /\ stub \in {"load", "boot"} => pages \in {"mapped", "leaked"}
                                 /\ pages = "mapped" => pc \in {"loading", "booting"}
    /\ flow.method = "hijack" /\ stub \notin {"none", "out"} => pages = "mapped"

\* The suspended threads: the candidate of a hijack, or the main thread of a launch until
\* the method lets it go.
Suspensions ==
    /\ \A t \in Threads : sus[t] =>
           IF Launch THEN t = Main
           ELSE (pc = "acquire" /\ t = best) \/ (pc = "start" /\ t = hij)
    /\ Launch /\ (pc \in {"check", "load", "loading", "booting", "acquire", "start", "patch", "params"}
                    \/ (flow.method = "remote" /\ pc \in {"await", "return"})) => sus[Main]
    /\ result = "session" => \A t \in Threads : ~sus[t]

\* The entry point of the image: only its own method touches it, and finish() checks it.
EntryRestored ==
    /\ flow.method # "entrypoint" \/ pc = "return" \/ result = "session" => ~entry.jump /\ ~entry.writable
    /\ flow.method = "entrypoint" /\ Launch /\ stage = 3 => ready
    /\ stage = 3 => stub \in {"spin", "restore", "tail", "out"}
    /\ flow.method = "entrypoint" /\ (pc = "return" \/ result = "session") => stage = 3
    /\ flow.method = "entrypoint" /\ Launch /\ pc \in {"open", "check", "patch"} => at[Main] = "start"
    /\ flow.method = "entrypoint" /\ pc = "await" /\ stub = "none" => entry.jump /\ at[Main] = "start"

\* The worker exists once the bootstrap has returned, and captures when the controller
\* has heard so.
WorkerOrder ==
    /\ worker # "none" => stub \notin {"none", "load", "loaded", "boot"}
    /\ ready /\ ~flow.direct => worker = "capturing"
    /\ ~flow.direct /\ (pc = "return" \/ result = "session" \/ (pc = "finish" /\ Launch)) =>
           worker = "capturing"

\* A launched program runs before the capture only where the controller will not report
\* a session.
NotEarly ==
    /\ early => Launch
    /\ Launch /\ flow.method = "hijack" /\ pc \in {"start", "await"} => stub \notin {"none", "out"} /\ hij = Main
    /\ Launch /\ ~flow.direct /\ pc \notin {"unwind", "terminate"} /\ result # "error" /\ early =>
           flow.method = "static" \/ (flow.method = "entrypoint" /\ stub = "out" /\ stage # 3)

Sound ==
    /\ TypeOK /\ StepsOfMethods /\ StubInPlace /\ PagesHeld /\ Suspensions /\ EntryRestored
    /\ WorkerOrder /\ NotEarly
StartInv == broke \/ Sound

\* Claimed, and false: the stub "sets restored, restores the registers and jumps to
\* the entry" (docs/ENTRYPOINT_INJECTION.md:28), all of it from pages that the
\* controller frees once it has seen the flag.
EntryPagesLive ==
    result = "session" /\ flow.method = "entrypoint" /\ pages = "freed" =>
        stub \notin {"restore", "tail"}

\* Claimed, and false: locks are abandoned only with a report, after a second budget
\* (thread_hijack_injector.cpp:397).
NoSilentAbandon == proc = "alive" /\ result = "error" => locks # "silent"
============================================================================
