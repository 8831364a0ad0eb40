-------------------------- MODULE MCWindowsSession --------------------------
(* Model-checking instance of the two ends of a session on Windows: how it is *)
(* started (WindowsInjection) and how it is stopped (WindowsStop).  The two   *)
(* share no step, so a behaviour is one of either.                            *)
EXTENDS WindowsInjection

CONSTANTS MaxCalls, Stops

ASSUME StopsAssumption == Stops \subseteq {"session", "standalone"}

VARIABLES
    half,        \* "start" or "stop"
    way, profile, th, calls, lock, frozen, gate, closed, recording, patched, hooks, state,
    trace, w, lost, mapped, unseen, wire, c, slot, ptr, x, process

S == INSTANCE WindowsStop WITH sus <- frozen, proc <- process

ending == <<way, profile, th, calls, lock, frozen, gate, closed, recording, patched, hooks,
            state, trace, w, lost, mapped, unseen, wire, c, slot, ptr, x, process>>

MCFlows ==
    [kind : {"launch"}, direct : BOOLEAN, method : Methods]
    \cup [kind : {"attach"}, direct : BOOLEAN, method : {"remote", "hijack", "static"}]

\* The half that does not run has one initial state.
MCInit ==
    /\ half \in {"start", "stop"} /\ Init /\ S!Init
    /\ half = "start" => way = "session" /\ profile = "heap"
    /\ half = "stop" => /\ flow = [kind |-> "attach", direct |-> FALSE, method |-> "remote"]
                        /\ at = [t \in Threads |-> "app"]
Starts == half = "start" /\ Next /\ UNCHANGED <<half, ending>>
Ends   == half = "stop" /\ S!Next /\ UNCHANGED <<half, vars>>

\* Every wait of the controller is bounded; the target and the agent owe it nothing.
MCSpec ==
    /\ MCInit /\ [][Starts \/ Ends]_<<half, vars, ending>>
    /\ WF_vars(half = "start" /\ Controller /\ UNCHANGED <<half, ending>>)

\* Every launch and attach comes to a verdict, whatever the target and the agent do,
\* and from the verdict on nothing is left behind (WindowsInjection!NothingLeftBehind).
StartsSettle ==
    /\ half = "start" => <>(result # "none")
    /\ [](result # "none" => []NothingLeftBehind)

\* S!FrozenHoldNoLock: the threads the controller freezes for the removal hold no
\* heap lock the agent needs.
FrozenHoldNoLock == S!FrozenHoldNoLock

\* S!StopLeavesNothing: however a stop ends, nothing is left behind or pulled away,
\* and the exit hook and the duration thread finish the trace once.
StopLeavesNothing == S!StopLeavesNothing /\ S!OneFinalizer

============================================================================
