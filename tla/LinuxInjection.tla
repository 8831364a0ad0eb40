-------------------------- MODULE LinuxInjection --------------------------
(***************************************************************************)
(* How a capture starts on Linux: the controller forks a child with the    *)
(* agent preloaded, or seizes a running process with ptrace, steps its     *)
(* threads out of the code about to be patched, and makes one of them load *)
(* the agent and call its bootstrap.  The bootstrap, the handshake of the  *)
(* controller and the injection run concurrently, each with its deadlines. *)
(*                                                                         *)
(* Registers are abstracted to whose they are, where they point and how    *)
(* many instructions of its own the thread has executed under the tracer.  *)
(***************************************************************************)
EXTENDS Naturals

CONSTANTS
    Threads,      \* every thread the target may ever have
    First,        \* those it has when the controller starts
    MaxSteps,     \* kMaxEvacuationSteps
    Modes,        \* subset of {"launch", "attach"}
    Targets,      \* the images a target may have mapped
    MaxMoves,     \* bound on the moves a thread makes on its own
    NoThread

ASSUME InjectionAssumption ==
    First \subseteq Threads /\ First # {} /\ MaxSteps \in Nat \ {0} /\ NoThread \notin Threads

\* Where the instruction pointer of a thread is: "window" is the inside of a
\* prologue the agent overwrites, "linker" is ld.so.
Places == {"app", "syscall", "linker", "window"}
Registers == [ctx : {"own", "stub"}, at : Places, n : 0 .. MaxSteps]

VARIABLES
    mode, target,   \* how the capture starts; what the target has mapped
    life,           \* thread -> "none" | "run" | "stop" (ptrace) | "dead"
    traced, intr,   \* thread -> seized by the worker; interrupt still to be taken
    regs, moves,    \* thread -> its registers; how often it has moved
    seized,         \* thread -> the SeizedThread of the injector
    phase, todo,    \* injector: what it does; the threads it still has to do it to
    fresh,          \* a pass over the thread list has found a new thread
    hijack, stage,  \* the thread that runs the stub; the call it makes
    inflight,       \* that call is between its entry and its trap
    abandoned,      \* abandon_
    agent,          \* "absent" | "loaded" | "hello" | "capturing" | "failed"
    patched,        \* the agent's jumps are in place
    ctl,            \* handshake: "accept" | "starting" | "ready" | "failed" | "late" (failed
                    \* after the agent has been told to start)
    outcome         \* of the constructor: "none" | "session" | "error"

kernel == <<life, traced, intr, regs, moves>>
injector == <<seized, phase, todo, fresh, hijack, stage, inflight, abandoned>>
remote == <<agent, patched>>
vars == <<mode, target, kernel, injector, remote, ctl, outcome>>

Alive == {t \in Threads : life[t] \in {"run", "stop"}}
Known == {t \in Threads : seized[t].known}
Usable(t) == seized[t].stopped /\ seized[t].valid

Nobody == [known |-> FALSE, stopped |-> FALSE, running |-> FALSE, valid |-> FALSE,
           pending |-> FALSE, saved |-> [ctx |-> "own", at |-> "app", n |-> 0]]

Init ==
    /\ mode \in Modes /\ target \in Targets
    /\ life = [t \in Threads |-> IF t \in First /\ mode = "attach" THEN "run" ELSE "none"]
    /\ traced = [t \in Threads |-> FALSE] /\ intr = [t \in Threads |-> FALSE]
    /\ regs = [t \in Threads |-> [ctx |-> "own", at |-> "app", n |-> 0]]
    /\ moves = [t \in Threads |-> 0]
    /\ seized = [t \in Threads |-> Nobody]
    /\ phase = IF mode = "attach" THEN "prepare" ELSE "fork"
    /\ todo = {} /\ fresh = FALSE /\ hijack = NoThread /\ stage = "map"
    /\ inflight = FALSE /\ abandoned = FALSE
    /\ agent = "absent" /\ patched = FALSE /\ ctl = "accept" /\ outcome = "none"

----------------------------------------------------------------------------
(* The target and the kernel. *)

\* A thread runs its own code; what is patched is entered through the jump.
Move(t) ==
    /\ life[t] = "run" /\ regs[t].ctx = "own" /\ moves[t] < MaxMoves
    /\ \E p \in Places \ (IF patched THEN {"window"} ELSE {}) : regs' = [regs EXCEPT ![t].at = p]
    /\ moves' = [moves EXCEPT ![t] = @ + 1]
    /\ UNCHANGED <<mode, target, life, traced, intr, injector, remote, ctl, outcome>>

\* clone(2): PTRACE_SEIZE was asked for no options, so the new thread is not traced.
Clone(t, u) ==
    /\ life[t] = "run" /\ regs[t].ctx = "own" /\ life[u] = "none" /\ mode = "attach"
    /\ life' = [life EXCEPT ![u] = "run"]
    /\ UNCHANGED <<mode, target, traced, intr, regs, moves, injector, remote, ctl, outcome>>

Die(t) ==
    /\ life[t] = "run" /\ regs[t].ctx = "own" /\ mode = "attach"
    /\ life' = [life EXCEPT ![t] = "dead"]
    /\ UNCHANGED <<mode, target, traced, intr, regs, moves, injector, remote, ctl, outcome>>

\* PTRACE_INTERRUPT takes effect.
Stops(t) ==
    /\ intr[t] /\ life[t] = "run"
    /\ life' = [life EXCEPT ![t] = "stop"] /\ intr' = [intr EXCEPT ![t] = FALSE]
    /\ UNCHANGED <<mode, target, traced, regs, moves, injector, remote, ctl, outcome>>

----------------------------------------------------------------------------
(* What the injector needs of the images on disk. *)

Parses(image) == image.elf
FindDynamicSymbol(image, name) == Parses(image) /\ name \in image.symbols
FindExecutableBytes(image, bytes) == Parses(image) /\ bytes \in image.bytes
Dlopen(m) ==
    \/ FindDynamicSymbol(m.libc, "dlopen")
    \/ m.libdl.mapped /\ FindDynamicSymbol(m.libdl, "dlopen")
Located(m) ==
    /\ m.libc.mapped /\ Dlopen(m)
    /\ FindExecutableBytes(m.libc, "syscall_ret") /\ FindExecutableBytes(m.libc, "int3")

----------------------------------------------------------------------------
(* The injector, on a worker thread of the controller. *)

Doing(p) == phase = p /\ mode = "attach"
Unwind == phase' = "release" /\ todo' = Known
Quiet == UNCHANGED <<mode, target, remote, ctl, outcome>>

\* Nothing of the target has been touched yet.
Prepare ==
    /\ Doing("prepare")
    /\ \/ /\ FindDynamicSymbol(target.agent, "bootstrap")
          /\ phase' = "list" /\ UNCHANGED todo
       \/ /\ ~FindDynamicSymbol(target.agent, "bootstrap") /\ Unwind
    /\ UNCHANGED <<kernel, seized, fresh, hijack, stage, inflight, abandoned>> /\ Quiet

\* One pass over /proc/<pid>/task; an unchanged list ends the walk.
List ==
    /\ Doing("list")
    /\ fresh' = FALSE
    /\ IF Alive = {} THEN Unwind ELSE todo' = Alive \ Known /\ phase' = "seize"
    /\ UNCHANGED <<kernel, seized, hijack, stage, inflight, abandoned>> /\ Quiet

\* A thread that has gone meanwhile is skipped.
SeizeThread(t) ==
    /\ Doing("seize") /\ t \in todo /\ todo' = todo \ {t}
    /\ \/ /\ life[t] = "dead" /\ UNCHANGED <<traced, seized, fresh>>
       \/ /\ life[t] # "dead" /\ fresh' = TRUE
          /\ traced' = [traced EXCEPT ![t] = TRUE]
          /\ seized' = [seized EXCEPT ![t].known = TRUE]
    /\ UNCHANGED <<life, intr, regs, moves, phase, hijack, stage, inflight, abandoned>> /\ Quiet

EndPass ==
    /\ Doing("seize") /\ todo = {}
    /\ IF fresh THEN phase' = "list" /\ UNCHANGED todo
       ELSE phase' = "interrupt" /\ todo' = Known
    /\ UNCHANGED <<kernel, seized, fresh, hijack, stage, inflight, abandoned>> /\ Quiet

\* Not permitted, or the list keeps changing until the deadline.
SeizeFails ==
    /\ Doing("seize") /\ (todo # {} \/ fresh) /\ Unwind
    /\ UNCHANGED <<kernel, seized, fresh, hijack, stage, inflight, abandoned>> /\ Quiet

Interrupt(t) ==
    /\ Doing("interrupt") /\ t \in todo
    /\ intr' = [intr EXCEPT ![t] = life[t] = "run"]
    /\ IF todo = {t} THEN phase' = "collect" /\ todo' = Known
       ELSE todo' = todo \ {t} /\ UNCHANGED phase
    /\ UNCHANGED <<life, traced, regs, moves, seized, fresh, hijack, stage, inflight, abandoned>>
    /\ Quiet

\* wait_for_thread, then the registers; a signal that raced the stop is kept.
Collect(t) ==
    /\ Doing("collect") /\ t \in todo /\ life[t] # "run"
    /\ \E signal \in BOOLEAN :
          seized' = IF life[t] = "dead" THEN seized
                    ELSE [seized EXCEPT ![t] = [@ EXCEPT !.stopped = TRUE, !.valid = TRUE,
                                                         !.saved = regs[t], !.pending = signal]]
    /\ IF todo = {t} THEN phase' = "locate" /\ todo' = {}
       ELSE todo' = todo \ {t} /\ UNCHANGED phase
    /\ UNCHANGED <<kernel, fresh, hijack, stage, inflight, abandoned>> /\ Quiet

CollectTimesOut_Waits ==
    /\ Doing("collect") /\ (\E t \in todo : life[t] = "run")
    /\ UNCHANGED vars

CollectTimesOut ==
    /\ Doing("collect") /\ (\E t \in todo : life[t] = "run") /\ Unwind
    /\ UNCHANGED <<kernel, seized, fresh, hijack, stage, inflight, abandoned>> /\ Quiet

\* The addresses of dlopen, of the gadgets and of the patch windows.
Locate ==
    /\ Doing("locate")
    /\ IF Located(target) THEN phase' = "evacuate" /\ todo' = {t \in Known : Usable(t)}
       ELSE Unwind
    /\ UNCHANGED <<kernel, seized, fresh, hijack, stage, inflight, abandoned>> /\ Quiet

InsidePatchWindow(t) == regs[t].at = "window"

\* evacuate_thread_from_patch_windows: the thread is outside every window.
Evacuated_KeepsSaved(t) ==
    /\ Doing("evacuate") /\ t \in todo /\ life[t] = "stop" /\ ~InsidePatchWindow(t)
    /\ todo' = todo \ {t}
    /\ UNCHANGED <<kernel, seized, phase, fresh, hijack, stage, inflight, abandoned>> /\ Quiet

Evacuated(t) ==
    /\ Doing("evacuate") /\ t \in todo /\ life[t] = "stop" /\ ~InsidePatchWindow(t)
    /\ seized' = [seized EXCEPT ![t].saved = regs[t]]
    /\ todo' = todo \ {t}
    /\ UNCHANGED <<kernel, phase, fresh, hijack, stage, inflight, abandoned>> /\ Quiet

\* One PTRACE_SINGLESTEP: the instruction executes, a signal comes first, or the
\* thread dies.
EvacuationStep(t) ==
    /\ Doing("evacuate") /\ t \in todo /\ life[t] = "stop"
    /\ InsidePatchWindow(t) /\ regs[t].n < MaxSteps
    /\ \/ /\ \E p \in {"app", "window"} :
                regs' = [regs EXCEPT ![t] = [@ EXCEPT !.at = p, !.n = regs[t].n + 1]]
          /\ UNCHANGED <<life, seized, todo>>
       \/ /\ ~seized[t].pending /\ seized' = [seized EXCEPT ![t].pending = TRUE]
          /\ UNCHANGED <<life, regs, todo>>
       \/ /\ life' = [life EXCEPT ![t] = "dead"]
          /\ seized' = [seized EXCEPT ![t] = [@ EXCEPT !.stopped = FALSE, !.valid = FALSE]]
          /\ todo' = todo \ {t} /\ UNCHANGED regs
    /\ UNCHANGED <<traced, intr, moves, phase, fresh, hijack, stage, inflight, abandoned>>
    /\ Quiet

\* The steps are used up, or one of them does not end: the thread is left running.
EvacuationFails(t) ==
    /\ Doing("evacuate") /\ t \in todo /\ life[t] = "stop" /\ InsidePatchWindow(t)
    /\ \/ regs[t].n = MaxSteps /\ UNCHANGED <<life, seized>>
       \/ /\ life' = [life EXCEPT ![t] = "run"]
          /\ seized' = [seized EXCEPT ![t] = [@ EXCEPT !.stopped = FALSE, !.running = TRUE]]
    /\ Unwind
    /\ UNCHANGED <<traced, intr, regs, moves, fresh, hijack, stage, inflight, abandoned>> /\ Quiet

\* Never a thread in the dynamic linker, preferably one in a system call.
Candidates == {t \in Known : Usable(t) /\ seized[t].saved.at # "linker"}
Preferred == {t \in Candidates : seized[t].saved.at = "syscall"}

SelectInjectionThread ==
    /\ Doing("evacuate") /\ todo = {}
    /\ \/ Candidates = {} /\ Unwind /\ UNCHANGED hijack
       \/ \E t \in IF Preferred # {} THEN Preferred ELSE Candidates :
             hijack' = t /\ phase' = "redirect" /\ UNCHANGED todo
    /\ UNCHANGED <<kernel, seized, fresh, stage, inflight, abandoned>> /\ Quiet

\* redirect_registers, PTRACE_SETREGS and PTRACE_CONT: the thread makes one call.
Redirect ==
    /\ Doing("redirect")
    /\ regs' = [regs EXCEPT ![hijack] = [seized[hijack].saved EXCEPT !.ctx = "stub"]]
    /\ life' = [life EXCEPT ![hijack] = "run"]
    /\ seized' = [seized EXCEPT ![hijack] = [@ EXCEPT !.stopped = FALSE, !.running = TRUE]]
    /\ inflight' = TRUE /\ phase' = "call"
    /\ UNCHANGED <<traced, intr, moves, todo, fresh, hijack, stage, abandoned>> /\ Quiet

\* An unrelated signal stops the stub: it is kept for the detach and the stub goes on.
CallSignalled ==
    /\ Doing("call") /\ ~seized[hijack].pending
    /\ seized' = [seized EXCEPT ![hijack].pending = TRUE]
    /\ UNCHANGED <<kernel, phase, todo, fresh, hijack, stage, inflight, abandoned>> /\ Quiet

\* The three calls of the injection.
After == [map |-> "dlopen", dlopen |-> "bootstrap", bootstrap |-> "done"]

\* The completion trap: what the call returned decides.
Trap(ok) ==
    /\ Doing("call") /\ inflight
    /\ life' = [life EXCEPT ![hijack] = "stop"]
    /\ seized' = [seized EXCEPT ![hijack] = [@ EXCEPT !.stopped = TRUE, !.running = FALSE]]
    /\ inflight' = FALSE
    /\ stage' = IF ok THEN After[stage] ELSE stage
    /\ IF ok /\ stage # "bootstrap" THEN phase' = "redirect" /\ UNCHANGED todo ELSE Unwind
    /\ UNCHANGED <<traced, intr, regs, moves, fresh, hijack, abandoned>>

MapReturns ==
    /\ stage = "map" /\ \E ok \in BOOLEAN : Trap(ok)
    /\ UNCHANGED <<mode, target, remote, ctl, outcome>>

DlopenReturns ==
    /\ stage = "dlopen"
    /\ \E ok \in BOOLEAN : Trap(ok) /\ agent' = IF ok THEN "loaded" ELSE agent
    /\ UNCHANGED <<mode, target, patched, ctl, outcome>>

\* A synchronous fault of the stub is swallowed and ends the injection.
CallFaults ==
    /\ Doing("call") /\ inflight
    /\ life' = [life EXCEPT ![hijack] = "stop"]
    /\ seized' = [seized EXCEPT ![hijack] = [@ EXCEPT !.stopped = TRUE, !.running = FALSE]]
    /\ inflight' = FALSE /\ Unwind
    /\ UNCHANGED <<traced, intr, regs, moves, fresh, hijack, stage, abandoned>> /\ Quiet

\* The thread dies inside the stub.
CallDies ==
    /\ Doing("call") /\ inflight
    /\ life' = [life EXCEPT ![hijack] = "dead"]
    /\ seized' = [seized EXCEPT ![hijack] = [@ EXCEPT !.stopped = FALSE, !.running = FALSE]]
    /\ inflight' = FALSE /\ Unwind
    /\ UNCHANGED <<traced, intr, regs, moves, fresh, hijack, stage, abandoned>> /\ Quiet

\* Neither the deadline nor the grace was enough: abandon() re-stops the thread at
\* best and gives everything up.
Abandon_Releases ==
    /\ Doing("call") /\ inflight /\ Unwind
    /\ UNCHANGED <<kernel, seized, fresh, hijack, stage, inflight, abandoned>> /\ Quiet

Abandon ==
    /\ Doing("call") /\ inflight
    /\ \E stops \in BOOLEAN :
          /\ life' = [life EXCEPT ![hijack] = IF stops THEN "stop" ELSE @]
          /\ intr' = [intr EXCEPT ![hijack] = ~stops]
          /\ seized' = [seized EXCEPT ![hijack] = [@ EXCEPT !.stopped = stops, !.running = FALSE]]
    /\ abandoned' = TRUE /\ Unwind
    /\ UNCHANGED <<traced, regs, moves, fresh, hijack, stage, inflight>> /\ Quiet

\* release_all, for one thread: a resumed one is stopped first if it will; its
\* registers are restored; PTRACE_DETACH succeeds for a stopped thread only.
Release_NoRestore(t) ==
    /\ Doing("release") /\ ~abandoned /\ t \in todo /\ todo' = todo \ {t}
    /\ traced' = [traced EXCEPT ![t] = life[t] = "run"]
    /\ life' = [life EXCEPT ![t] = IF @ = "stop" THEN "run" ELSE @]
    /\ seized' = [seized EXCEPT ![t].running = FALSE]
    /\ UNCHANGED <<intr, regs, moves, phase, fresh, hijack, stage, inflight, abandoned>> /\ Quiet

Release(t) ==
    /\ Doing("release") /\ ~abandoned /\ t \in todo /\ todo' = todo \ {t}
    /\ \E stops \in IF seized[t].running THEN BOOLEAN ELSE {seized[t].stopped} :
          LET halted == life[t] = "stop" \/ (seized[t].running /\ stops /\ life[t] = "run")
          IN  /\ regs' = IF stops /\ seized[t].valid /\ halted
                         THEN [regs EXCEPT ![t] = seized[t].saved] ELSE regs
              /\ life' = [life EXCEPT ![t] = IF halted THEN "run" ELSE @]
              /\ traced' = [traced EXCEPT ![t] = ~halted]
              /\ intr' = [intr EXCEPT ![t] = ~halted /\ (@ \/ seized[t].running)]
    /\ seized' = [seized EXCEPT ![t].running = FALSE]
    /\ UNCHANGED <<moves, phase, fresh, hijack, stage, inflight, abandoned>> /\ Quiet

\* The worker thread ends.  It is the tracer, so the kernel detaches and restarts
\* whatever it still traces (ptrace(2)).
WorkerEnds ==
    /\ Doing("release") /\ (abandoned \/ todo = {})
    /\ phase' = "ended" /\ todo' = {}
    /\ life' = [t \in Threads |-> IF traced[t] /\ life[t] = "stop" THEN "run" ELSE life[t]]
    /\ traced' = [t \in Threads |-> FALSE] /\ intr' = [t \in Threads |-> FALSE]
    /\ UNCHANGED <<regs, moves, seized, fresh, hijack, stage, inflight, abandoned>> /\ Quiet

\* The wedged call faults, or reaches its trap after all: with no tracer to take it the
\* signal ends the process.
WedgedEnds ==
    /\ mode = "attach" /\ abandoned /\ life[hijack] = "run" /\ ~traced[hijack]
    /\ life' = [t \in Threads |-> IF life[t] = "none" THEN "none" ELSE "dead"]
    /\ UNCHANGED <<traced, intr, regs, moves, injector>> /\ Quiet

----------------------------------------------------------------------------
(* Launch: fork, execve with LD_PRELOAD, the constructor of the agent. *)

Main == CHOOSE t \in First : TRUE

\* The error pipe reports a failed execve.
ForkExec ==
    /\ mode = "launch" /\ phase = "fork"
    /\ \/ phase' = "running" /\ life' = [life EXCEPT ![Main] = "run"] /\ agent' = "loaded"
       \/ phase' = "ended" /\ UNCHANGED <<life, agent>>
    /\ UNCHANGED <<mode, target, traced, intr, regs, moves, seized, todo, fresh, hijack, stage,
                   inflight, abandoned, patched, ctl, outcome>>

\* The constructor is done, with or without a session, and main() runs.
ConstructorReturns ==
    /\ mode = "launch" /\ phase = "running" /\ life[Main] = "run"
    /\ agent \in {"capturing", "failed"} /\ phase' = "ended"
    /\ UNCHANGED <<mode, target, kernel, seized, todo, fresh, hijack, stage, inflight, abandoned,
                   remote, ctl, outcome>>

----------------------------------------------------------------------------
(* The bootstrap of the agent, in the stub or in the constructor. *)

\* The thread that runs it runs: also when the injector has given it up and before the
\* interrupt takes effect, or after the kernel has restarted everything.
Bootstrapping ==
    \/ mode = "attach" /\ stage = "bootstrap" /\ inflight /\ life[hijack] = "run"
    \/ mode = "launch" /\ phase = "running" /\ life[Main] = "run"

\* Connects and says hello.
BootstrapConnects ==
    /\ Bootstrapping /\ agent = "loaded" /\ outcome = "none"
    /\ agent' = "hello"
    /\ UNCHANGED <<mode, target, kernel, injector, patched, ctl, outcome>>

\* The capture starts: the hooks are in place before it returns.  A controller that has
\* stopped waiting does not call its request back.
BootstrapStarts ==
    /\ Bootstrapping /\ agent = "hello" /\ ctl \in {"starting", "late"}
    /\ agent' = "capturing" /\ patched' = TRUE
    /\ UNCHANGED <<mode, target, kernel, injector, ctl, outcome>>

\* No connection, no request in time, or a failed start with its hooks rolled back.
BootstrapFails ==
    /\ Bootstrapping /\ agent \in {"loaded", "hello"}
    /\ agent' = "failed"
    /\ UNCHANGED <<mode, target, kernel, injector, patched, ctl, outcome>>

BootstrapReturns ==
    /\ stage = "bootstrap" /\ agent \in {"capturing", "failed"}
    /\ Trap(agent = "capturing")
    /\ UNCHANGED <<mode, target, remote, ctl, outcome>>

----------------------------------------------------------------------------
(* The controller: the handshake on its own thread, then the verdict. *)

Started == phase # "fork" /\ (phase = "ended" => mode = "attach" \/ life[Main] # "none")

\* accept, hello, validation, StartCapture.
Accept ==
    /\ outcome = "none" /\ ctl = "accept" /\ Started /\ agent = "hello" /\ ctl' = "starting"
    /\ UNCHANGED <<mode, target, kernel, injector, remote, outcome>>

Ready ==
    /\ outcome = "none" /\ ctl = "starting" /\ agent = "capturing" /\ ctl' = "ready"
    /\ UNCHANGED <<mode, target, kernel, injector, remote, outcome>>

\* A timeout, a closed socket, an error response or a protocol violation, before or after
\* the agent has been told to start.
HandshakeFails ==
    /\ outcome = "none" /\ Started
    /\ \/ ctl = "accept" /\ ctl' = "failed"
       \/ ctl = "starting" /\ ctl' = "late"
    /\ UNCHANGED <<mode, target, kernel, injector, remote, outcome>>

\* Attach: both threads have ended; the handshake error is reported first.
JoinWorker ==
    /\ mode = "attach" /\ phase = "ended" /\ ctl \in {"ready", "failed", "late"} /\ outcome = "none"
    /\ outcome' = IF ctl = "ready" /\ stage = "done" THEN "session" ELSE "error"
    /\ UNCHANGED <<mode, target, kernel, injector, remote, ctl>>

\* Launch: on every error path LaunchChildGuard kills and reaps the child.
LaunchReturns ==
    /\ mode = "launch" /\ outcome = "none"
    /\ \/ ctl = "ready" /\ outcome' = "session" /\ UNCHANGED life
       \/ /\ ctl \in {"failed", "late"} \/ (~Started /\ phase = "ended")
          /\ outcome' = "error"
          /\ life' = [t \in Threads |-> IF life[t] = "run" THEN "dead" ELSE life[t]]
    /\ UNCHANGED <<mode, target, traced, intr, regs, moves, injector, remote, ctl>>

----------------------------------------------------------------------------
Target == \E t \in Threads : Move(t) \/ Die(t) \/ \E u \in Threads : Clone(t, u)

Injector ==
    \/ Prepare \/ List \/ EndPass \/ SeizeFails \/ CollectTimesOut \/ Locate
    \/ SelectInjectionThread \/ Redirect \/ CallSignalled \/ Abandon \/ WorkerEnds
    \/ \E t \in Threads :
          \/ SeizeThread(t) \/ Interrupt(t) \/ Collect(t) \/ Evacuated(t)
          \/ EvacuationStep(t) \/ EvacuationFails(t) \/ Release(t)

Stub == MapReturns \/ DlopenReturns \/ CallFaults \/ CallDies \/ WedgedEnds

Agent ==
    BootstrapConnects \/ BootstrapStarts \/ BootstrapFails \/ BootstrapReturns
    \/ ConstructorReturns

Controller == Accept \/ Ready \/ HandshakeFails \/ JoinWorker \/ ForkExec \/ LaunchReturns

Next == Target \/ Injector \/ Stub \/ Agent \/ Controller \/ \E t \in Threads : Stops(t)

Spec == Init /\ [][Next]_vars

\* Every wait of the injector, of the bootstrap and of the handshake has a
\* deadline; the target may do what it likes.
FairSpec == Spec /\ WF_vars(Injector) /\ WF_vars(Agent) /\ WF_vars(Controller)

----------------------------------------------------------------------------
(* Properties. *)

SeizedThread == [known : BOOLEAN, stopped : BOOLEAN, running : BOOLEAN, valid : BOOLEAN,
                 pending : BOOLEAN, saved : Registers]

TypeOK ==
    /\ life \in [Threads -> {"none", "run", "stop", "dead"}]
    /\ traced \in [Threads -> BOOLEAN] /\ intr \in [Threads -> BOOLEAN]
    /\ regs \in [Threads -> Registers]
    /\ seized \in [Threads -> SeizedThread]
    /\ phase \in {"fork", "running", "prepare", "list", "seize", "interrupt", "collect", "locate",
                  "evacuate", "redirect", "call", "release", "ended"}
    /\ todo \in SUBSET Threads /\ hijack \in Threads \cup {NoThread}
    /\ stage \in {"map", "dlopen", "bootstrap", "done"}
    /\ fresh \in BOOLEAN /\ inflight \in BOOLEAN /\ abandoned \in BOOLEAN /\ patched \in BOOLEAN
    /\ agent \in {"absent", "loaded", "hello", "capturing", "failed"}
    /\ ctl \in {"accept", "starting", "ready", "failed", "late"}
    /\ outcome \in {"none", "session", "error"}

\* An injection that was given up: its tracer is gone, and everything runs again.
LetGo == abandoned /\ phase = "ended"

\* No thread of the seized set resumes inside a prologue that now holds a jump, as long
\* as the injector has not let go of a wedged bootstrap.
ResumesOutsidePatches ==
    ~LetGo => \A t \in Known :
        patched /\ life[t] = "run" /\ regs[t].ctx = "own" => regs[t].at # "window"

\* The registers of a thread are never put back while it is still inside the call
\* the injector made it do: it may hold the locks of the loader or of the agent.
NeverTeleported ==
    [][\A t \in Threads : inflight /\ t = hijack => (regs[t].ctx = "stub" => regs'[t].ctx = "stub")]_vars

\* A session is handed out only when the capture runs, no thread of the target is
\* left under the tracer, and a failed launch leaves no child behind.
VerdictMatches ==
    /\ outcome = "session" => agent = "capturing" /\ patched /\ \A t \in Threads : ~traced[t]
    /\ outcome = "error" /\ mode = "launch" => Alive = {}

\* "All GP registers ... of every seized thread are saved at the interrupt stop and
\* restored before detach" (ptrace_injector.cpp:6): whatever fails and whoever dies,
\* no thread leaves the injector with the stub's registers, unless it was abandoned,
\* and the caller's verdict says so.
OwnRegisters ==
    /\ VerdictMatches
    /\ \A t \in Threads : life[t] = "run" /\ ~traced[t] /\ ~abandoned => regs[t].ctx = "own"

\* The parts of the inductive invariant.  A launch does not use ptrace.
LaunchUntraced ==
    IF mode = "attach" THEN phase \notin {"fork", "running"}
    ELSE /\ phase \in {"fork", "running", "ended"} /\ ~inflight /\ ~abandoned
         /\ \A t \in Threads : /\ ~traced[t] /\ ~intr[t] /\ ~seized[t].known
                               /\ life[t] # "stop" /\ regs[t].ctx = "own"

\* The kernel traces the seized threads, until they are released.
SeizedAreTraced ==
    /\ \A t \in Threads : (traced[t] \/ intr[t] => seized[t].known)
                          /\ (seized[t].known => life[t] # "none")
                          /\ (life[t] = "stop" => ~intr[t])
    /\ phase \notin {"release", "ended"} => \A t \in Threads : seized[t].known => traced[t]
    /\ phase = "ended" => \A t \in Threads : ~traced[t] /\ ~intr[t]
    /\ phase = "seize" => \A t \in todo : life[t] # "none"
    /\ phase \in {"interrupt", "collect", "evacuate", "release"} => \A t \in todo : seized[t].known

\* What the injector has recorded of a seized thread is true of it: nothing before it
\* has been collected; afterwards it is frozen unless it has died, until the injector
\* itself lets it run.
Frozen(t) ==
    \/ life[t] = "stop" /\ ~intr[t] /\ seized[t].stopped /\ seized[t].valid /\ ~seized[t].running
    \/ life[t] = "dead" /\ ~seized[t].stopped

\* The target is held for the call: it is under way, or just given up.
Calling == phase = "call" \/ (phase = "release" /\ abandoned)

RecordsHold ==
    \A t \in Threads :
        /\ seized[t].saved.ctx = "own"
        /\ phase \in {"prepare", "list", "seize", "interrupt"} \/ (phase = "collect" /\ t \in todo) =>
               ~seized[t].stopped /\ ~seized[t].valid /\ ~seized[t].running
        /\ seized[t].known
             /\ (phase \in {"locate", "evacuate", "redirect"} \/ (phase = "collect" /\ t \notin todo)
                   \/ (Calling /\ t # hijack)) => Frozen(t)

\* No seized thread is in a window once it has been evacuated, nor do the registers
\* saved for it point into one; the jumps are written after that, unless by a bootstrap
\* the injector has let go.
OutOfWindows(t) == life[t] = "dead" \/ (regs[t].at # "window" /\ seized[t].saved.at # "window")

WindowsClear ==
    /\ \A t \in Threads :
           seized[t].known /\ ((patched /\ ~LetGo) \/ phase = "redirect" \/ Calling
                                 \/ (phase = "evacuate" /\ t \notin todo)) => OutOfWindows(t)
    /\ patched /\ mode = "attach" => phase \in {"call", "release", "ended"}

\* The call of the stub: one thread, running while the call is under way.
CallUnderWay ==
    /\ inflight => phase = "call" \/ abandoned
    /\ abandoned => /\ phase \in {"release", "ended"} /\ inflight /\ hijack \in Threads
                    /\ regs[hijack].ctx = "stub"
    /\ stage = "done" => phase \in {"release", "ended"}
    /\ phase \in {"redirect", "call"} =>
           hijack \in Threads /\ seized[hijack].known /\ seized[hijack].valid
    /\ phase = "redirect" => seized[hijack].stopped
    /\ phase = "call" => inflight /\ life[hijack] = "run" /\ ~intr[hijack] /\ regs[hijack].ctx = "stub"

\* Only the hijacked thread ever has the stub's registers; unless it dies in the stub
\* or is given up there, it stands stopped with its own registers saved until it is
\* released.
StubContext ==
    \A t \in Threads : regs[t].ctx = "stub" =>
        /\ t = hijack /\ life[t] # "none"
        /\ phase \in {"redirect", "call", "release", "ended"}
        /\ phase # "ended" => traced[t]
        /\ phase = "release" /\ ~abandoned =>
               life[t] = "dead" \/ (/\ t \in todo /\ life[t] = "stop" /\ seized[t].stopped
                                    /\ seized[t].valid /\ ~seized[t].running)
        /\ phase = "ended" /\ ~abandoned => life[t] = "dead"

\* The agent goes through its stages in the order of the injector's calls, the
\* controller follows it, and the verdict follows both.
StagesInOrder ==
    /\ patched <=> agent = "capturing"
    /\ mode = "attach" /\ agent \in {"hello", "capturing", "failed"} => stage \in {"bootstrap", "done"}
    /\ ctl = "ready" => agent = "capturing"
    /\ phase = "fork" => agent = "absent" /\ ctl = "accept" /\ outcome = "none"
    /\ outcome = "session" => agent = "capturing" /\ (mode = "attach" => phase = "ended")
    /\ outcome = "error" /\ mode = "launch" => \A t \in Threads : life[t] \in {"none", "dead"}

InjectionInv ==
    /\ TypeOK /\ LaunchUntraced /\ SeizedAreTraced /\ RecordsHold /\ WindowsClear /\ CallUnderWay
    /\ StubContext /\ StagesInOrder

\* The target is never left frozen: every thread the injector stopped runs again,
\* whatever the injection ran into.
FreezeEnds == \A t \in Threads : life[t] = "stop" ~> life[t] # "stop"

\* Claimed, and false: "the detach-time restore never rewinds real target progress"
\* (ptrace_injector.cpp:842) by more than the instruction in flight.
NoRewind ==
    [][\A t \in Threads : regs'[t].n + 1 >= regs[t].n]_vars

\* Claimed, and false: a wedged injection leaves "every thread seized and stopped"
\* (ptrace_injector.cpp:523).
WedgedStaysFrozen ==
    abandoned => \A t \in Known : seized[t].stopped => life[t] # "run"
============================================================================
