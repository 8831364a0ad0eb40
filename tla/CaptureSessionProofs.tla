------------------------ MODULE CaptureSessionProofs ------------------------
(***************************************************************************)
(* The safety properties of CaptureSession for any number of exiting       *)
(* threads, any kinds of capture and any budgets.                          *)
(***************************************************************************)
EXTENDS CaptureSession, TLAPS

\* The invariant holds when the capture has started.
LEMMA RuntimeInit == Init => RuntimeInv
  <1> SUFFICES ASSUME Init PROVE RuntimeInv OBVIOUS
  <1> USE SessionAssumption DEF Init, Actors, Session, Draining, Over
  <1>1. TypeOK BY DEF TypeOK, States
  <1>2. TasksMatch BY DEF TasksMatch
  <1>3. DrainOwned BY DEF DrainOwned
  <1>4. StateTells BY DEF StateTells
  <1>5. TeardownKnows /\ Reported BY DEF TeardownKnows, Reported
  <1> QED BY <1>1, <1>2, <1>3, <1>4, <1>5 DEF RuntimeInv

\* The steps of drain() keep it: only the thread that won the compare-exchange writes.
LEMMA DrainSteps ==
  ASSUME RuntimeInv, NEW a \in Actors,
         DrainBegin(a) \/ Quiesce(a) \/ QuiesceExpires(a) \/ Finish(a) \/ Settle(a)
  PROVE  RuntimeInv'
  <1> USE SessionAssumption
      DEF At, Goto, AfterDrain, given, runtime, threads, target, wire, controller,
          Actors, Session, Draining, Over
  <1>1. CASE DrainBegin(a)
    <2>1. TypeOK' BY <1>1 DEF DrainBegin, RuntimeInv, TypeOK, TasksMatch, States
    <2>2. TasksMatch' BY <1>1 DEF DrainBegin, RuntimeInv, TypeOK, TasksMatch
    <2>3. DrainOwned' BY <1>1 DEF DrainBegin, RuntimeInv, TypeOK, TasksMatch, DrainOwned
    <2>4. StateTells' BY <1>1 DEF DrainBegin, RuntimeInv, TypeOK, TasksMatch, StateTells
    <2>5. TeardownKnows'
      BY <1>1 DEF DrainBegin, RuntimeInv, TypeOK, TasksMatch, TeardownKnows, StateTells
    <2>6. Reported' BY <1>1 DEF DrainBegin, RuntimeInv, Reported
    <2> QED BY <2>1, <2>2, <2>3, <2>4, <2>5, <2>6 DEF RuntimeInv
  <1>2. CASE Quiesce(a)
    <2>1. TypeOK' BY <1>2 DEF Quiesce, RuntimeInv, TypeOK
    <2>2. TasksMatch' BY <1>2 DEF Quiesce, RuntimeInv, TypeOK, TasksMatch
    <2>3. DrainOwned' BY <1>2 DEF Quiesce, RuntimeInv, TypeOK, DrainOwned
    <2>4. StateTells' BY <1>2 DEF Quiesce, RuntimeInv, TypeOK, StateTells
    <2>5. TeardownKnows' BY <1>2 DEF Quiesce, RuntimeInv, TypeOK, TeardownKnows
    <2>6. Reported' BY <1>2 DEF Quiesce, RuntimeInv, Reported
    <2> QED BY <2>1, <2>2, <2>3, <2>4, <2>5, <2>6 DEF RuntimeInv
  <1>3. CASE QuiesceExpires(a)
    <2>1. TypeOK' BY <1>3 DEF QuiesceExpires, RuntimeInv, TypeOK
    <2>2. TasksMatch' BY <1>3 DEF QuiesceExpires, RuntimeInv, TypeOK, TasksMatch
    <2>3. DrainOwned' BY <1>3 DEF QuiesceExpires, RuntimeInv, TypeOK, DrainOwned
    <2>4. StateTells' BY <1>3 DEF QuiesceExpires, RuntimeInv, TypeOK, StateTells
    <2>5. TeardownKnows' BY <1>3 DEF QuiesceExpires, RuntimeInv, TypeOK, TeardownKnows
    <2>6. Reported' BY <1>3 DEF QuiesceExpires, RuntimeInv, Reported
    <2> QED BY <2>1, <2>2, <2>3, <2>4, <2>5, <2>6 DEF RuntimeInv
  <1>4. CASE Finish(a)
    \* The trace is open and nobody but a is in drain().
    <2>0. state = "draining" /\ trace = "open"
      BY <1>4 DEF Finish, RuntimeInv, DrainOwned
    <2>1. TypeOK' BY <1>4 DEF Finish, RuntimeInv, TypeOK
    <2>2. TasksMatch' BY <1>4 DEF Finish, RuntimeInv, TypeOK, TasksMatch
    <2>3. DrainOwned' BY <1>4, <2>0 DEF Finish, RuntimeInv, TypeOK, DrainOwned
    <2>4. StateTells' BY <1>4, <2>0 DEF Finish, RuntimeInv, TypeOK, StateTells
    <2>5. TeardownKnows' BY <1>4, <2>0 DEF Finish, RuntimeInv, TypeOK, TeardownKnows
    <2>6. Reported' BY <1>4, <2>0 DEF Finish, RuntimeInv, Reported
    <2> QED BY <2>1, <2>2, <2>3, <2>4, <2>5, <2>6 DEF RuntimeInv
  <1>5. CASE Settle(a)
    <2>0. state = "draining" /\ trace \in {"closed", "error"}
      BY <1>5 DEF Settle, RuntimeInv, TypeOK, DrainOwned
    <2>1. TypeOK' BY <1>5 DEF Settle, RuntimeInv, TypeOK, TasksMatch, States
    <2>2. TasksMatch' BY <1>5 DEF Settle, RuntimeInv, TypeOK, TasksMatch
    <2>3. DrainOwned' BY <1>5, <2>0 DEF Settle, RuntimeInv, TypeOK, TasksMatch, DrainOwned
    <2>4. StateTells' BY <1>5, <2>0 DEF Settle, RuntimeInv, TypeOK, TasksMatch, StateTells
    <2>5. TeardownKnows'
      BY <1>5, <2>0 DEF Settle, RuntimeInv, TypeOK, TasksMatch, TeardownKnows
    <2>6. Reported' BY <1>5, <2>0 DEF Settle, RuntimeInv, Reported
    <2> QED BY <2>1, <2>2, <2>3, <2>4, <2>5, <2>6 DEF RuntimeInv
  <1> QED BY <1>1, <1>2, <1>3, <1>4, <1>5

\* So do the steps of finalize(), which acts on what it loaded.
LEMMA FinalizeSteps ==
  ASSUME RuntimeInv,
         FinalizeBegin \/ Inspect \/ Retain \/ BeginUnpatch \/ Teardown \/ Conclude
  PROVE  RuntimeInv'
  <1> USE SessionAssumption
      DEF At, Goto, given, runtime, threads, target, wire, controller,
          Actors, Session, Draining, Over
  <1>1. CASE FinalizeBegin
    <2>1. TypeOK' BY <1>1 DEF FinalizeBegin, RuntimeInv, TypeOK, TasksMatch, States
    <2>2. TasksMatch' BY <1>1 DEF FinalizeBegin, RuntimeInv, TypeOK, TasksMatch
    <2>3. DrainOwned'
      BY <1>1 DEF FinalizeBegin, RuntimeInv, TypeOK, DrainOwned, StateTells, TeardownKnows
    <2>4. StateTells' BY <1>1 DEF FinalizeBegin, RuntimeInv, TypeOK, StateTells, TeardownKnows
    <2>5. TeardownKnows' BY <1>1 DEF FinalizeBegin, RuntimeInv, TypeOK, StateTells, TeardownKnows
    <2>6. Reported' BY <1>1 DEF FinalizeBegin, RuntimeInv, TypeOK, StateTells, Reported
    <2> QED BY <2>1, <2>2, <2>3, <2>4, <2>5, <2>6 DEF RuntimeInv
  <1>2. CASE Inspect
    <2>1. TypeOK' BY <1>2 DEF Inspect, RuntimeInv, TypeOK, TasksMatch, States
    <2>2. TasksMatch' BY <1>2 DEF Inspect, RuntimeInv, TypeOK, TasksMatch
    <2>3. DrainOwned'
      BY <1>2 DEF Inspect, RuntimeInv, TypeOK, DrainOwned, StateTells, TeardownKnows
    <2>4. StateTells' BY <1>2 DEF Inspect, RuntimeInv, TypeOK, StateTells, TeardownKnows
    <2>5. TeardownKnows' BY <1>2 DEF Inspect, RuntimeInv, TypeOK, StateTells, TeardownKnows
    <2>6. Reported' BY <1>2 DEF Inspect, RuntimeInv, TypeOK, StateTells, Reported
    <2> QED BY <2>1, <2>2, <2>3, <2>4, <2>5, <2>6 DEF RuntimeInv
  <1>3. CASE Retain
    <2>1. TypeOK' BY <1>3 DEF Retain, RuntimeInv, TypeOK, TasksMatch, States
    <2>2. TasksMatch' BY <1>3 DEF Retain, RuntimeInv, TypeOK, TasksMatch
    <2>3. DrainOwned'
      BY <1>3 DEF Retain, RuntimeInv, TypeOK, DrainOwned, StateTells, TeardownKnows
    <2>4. StateTells' BY <1>3 DEF Retain, RuntimeInv, TypeOK, StateTells, TeardownKnows
    <2>5. TeardownKnows' BY <1>3 DEF Retain, RuntimeInv, TypeOK, StateTells, TeardownKnows
    <2>6. Reported' BY <1>3 DEF Retain, RuntimeInv, TypeOK, StateTells, Reported
    <2> QED BY <2>1, <2>2, <2>3, <2>4, <2>5, <2>6 DEF RuntimeInv
  <1>4. CASE BeginUnpatch
    <2>1. TypeOK' BY <1>4 DEF BeginUnpatch, RuntimeInv, TypeOK, TasksMatch, States
    <2>2. TasksMatch' BY <1>4 DEF BeginUnpatch, RuntimeInv, TypeOK, TasksMatch
    <2>3. DrainOwned'
      BY <1>4 DEF BeginUnpatch, RuntimeInv, TypeOK, DrainOwned, StateTells, TeardownKnows
    <2>4. StateTells' BY <1>4 DEF BeginUnpatch, RuntimeInv, TypeOK, StateTells, TeardownKnows
    <2>5. TeardownKnows' BY <1>4 DEF BeginUnpatch, RuntimeInv, TypeOK, StateTells, TeardownKnows
    <2>6. Reported' BY <1>4 DEF BeginUnpatch, RuntimeInv, TypeOK, StateTells, Reported
    <2> QED BY <2>1, <2>2, <2>3, <2>4, <2>5, <2>6 DEF RuntimeInv
  <1>5. CASE Teardown
    <2>0. /\ patched' \in BOOLEAN /\ mapped' \in BOOLEAN
          /\ ~patched' /\ ("unpatch" \in flags' \/ ~mapped')
      <3>1. ~patched' /\ patched' \in BOOLEAN /\ mapped' \in BOOLEAN
        BY <1>5, Zenon DEF Teardown
      <3>2. mapped' = FALSE \/ "unpatch" \in flags'
        BY <1>5 DEF Teardown
      <3> QED BY <3>1, <3>2, Zenon
    <2>a. /\ pc[Session] = "teardown" /\ pc' = [pc EXCEPT ![Session] = "conclude"]
          /\ UNCHANGED <<kind, stuck, state, trace, claimed, task, saw, process, death,
                         request, reply, peer, cpc, verdict, queries>>
      BY <1>5 DEF Teardown
    <2>b. flags' \subseteq {"drain", "unpatch"} BY <1>5 DEF Teardown, RuntimeInv, TypeOK
    <2>1. TypeOK' BY <2>0, <2>a, <2>b DEF RuntimeInv, TypeOK
    <2>2. TasksMatch' BY <1>5 DEF Teardown, RuntimeInv, TypeOK, TasksMatch
    <2>3. DrainOwned'
      BY <1>5 DEF Teardown, RuntimeInv, TypeOK, DrainOwned, StateTells, TeardownKnows
    <2>4. StateTells' BY <1>5 DEF Teardown, RuntimeInv, TypeOK, StateTells, TeardownKnows
    <2>5. TeardownKnows'
      <3>1. Over' /\ saw'[Session] = IF trace' = "error" THEN "failed" ELSE "drained"
        BY <2>a DEF RuntimeInv, TeardownKnows
      <3>2. state' # "finalized" BY <2>a DEF RuntimeInv, TeardownKnows
      <3> QED BY <2>0, <3>1, <3>2, Zenon DEF TeardownKnows
    <2>6. Reported' BY <1>5 DEF Teardown, RuntimeInv, TypeOK, StateTells, Reported
    <2> QED BY <2>1, <2>2, <2>3, <2>4, <2>5, <2>6 DEF RuntimeInv
  <1>6. CASE Conclude
    <2>1. TypeOK' BY <1>6 DEF Conclude, RuntimeInv, TypeOK, TasksMatch, States
    <2>2. TasksMatch' BY <1>6 DEF Conclude, RuntimeInv, TypeOK, TasksMatch
    <2>3. DrainOwned'
      BY <1>6 DEF Conclude, RuntimeInv, TypeOK, DrainOwned, StateTells, TeardownKnows
    <2>4. StateTells' BY <1>6 DEF Conclude, RuntimeInv, TypeOK, StateTells, TeardownKnows
    <2>5. TeardownKnows'
      BY <1>6 DEF Conclude, RuntimeInv, TypeOK, TasksMatch, StateTells, TeardownKnows
    <2>6. Reported' BY <1>6 DEF Conclude, RuntimeInv, TypeOK, StateTells, Reported
    <2> QED BY <2>1, <2>2, <2>3, <2>4, <2>5, <2>6 DEF RuntimeInv
  <1> QED BY <1>1, <1>2, <1>3, <1>4, <1>5, <1>6

\* The session loop changes no runtime state; its answers carry the state.
LEMMA ServeSteps ==
  ASSUME RuntimeInv, Ready \/ Serve \/ Unattended \/ Reply
  PROVE  RuntimeInv'
  <1> USE SessionAssumption
      DEF At, Goto, given, runtime, threads, target, wire, controller,
          Actors, Session, Draining, Over
  <1>1. CASE Ready
    <2>1. TypeOK' BY <1>1 DEF Ready, RuntimeInv, TypeOK, TasksMatch, States
    <2>2. TasksMatch' BY <1>1 DEF Ready, RuntimeInv, TypeOK, TasksMatch
    <2>3. DrainOwned' BY <1>1 DEF Ready, RuntimeInv, TypeOK, DrainOwned, StateTells, TeardownKnows
    <2>4. StateTells' BY <1>1 DEF Ready, RuntimeInv, TypeOK, StateTells, TeardownKnows
    <2>5. TeardownKnows' BY <1>1 DEF Ready, RuntimeInv, TypeOK, StateTells, TeardownKnows
    <2>6. Reported' BY <1>1 DEF Ready, RuntimeInv, TypeOK, StateTells, Reported
    <2> QED BY <2>1, <2>2, <2>3, <2>4, <2>5, <2>6 DEF RuntimeInv
  <1>2. CASE Serve
    <2>1. TypeOK' BY <1>2 DEF Serve, RuntimeInv, TypeOK, TasksMatch, States
    <2>2. TasksMatch' BY <1>2 DEF Serve, RuntimeInv, TypeOK, TasksMatch
    <2>3. DrainOwned' BY <1>2 DEF Serve, RuntimeInv, TypeOK, DrainOwned, StateTells, TeardownKnows
    <2>4. StateTells' BY <1>2 DEF Serve, RuntimeInv, TypeOK, StateTells, TeardownKnows
    <2>5. TeardownKnows' BY <1>2 DEF Serve, RuntimeInv, TypeOK, StateTells, TeardownKnows
    <2>6. Reported' BY <1>2 DEF Serve, RuntimeInv, TypeOK, StateTells, Reported
    <2> QED BY <2>1, <2>2, <2>3, <2>4, <2>5, <2>6 DEF RuntimeInv
  <1>3. CASE Unattended
    <2>1. TypeOK' BY <1>3 DEF Unattended, RuntimeInv, TypeOK, TasksMatch, States
    <2>2. TasksMatch' BY <1>3 DEF Unattended, RuntimeInv, TypeOK, TasksMatch
    <2>3. DrainOwned'
      BY <1>3 DEF Unattended, RuntimeInv, TypeOK, DrainOwned, StateTells, TeardownKnows
    <2>4. StateTells' BY <1>3 DEF Unattended, RuntimeInv, TypeOK, StateTells, TeardownKnows
    <2>5. TeardownKnows' BY <1>3 DEF Unattended, RuntimeInv, TypeOK, StateTells, TeardownKnows
    <2>6. Reported' BY <1>3 DEF Unattended, RuntimeInv, TypeOK, StateTells, Reported
    <2> QED BY <2>1, <2>2, <2>3, <2>4, <2>5, <2>6 DEF RuntimeInv
  <1>4. CASE Reply
    <2>1. TypeOK' BY <1>4 DEF Reply, RuntimeInv, TypeOK, TasksMatch, States, Answer, Dies
    <2>2. TasksMatch' BY <1>4 DEF Reply, RuntimeInv, TypeOK, TasksMatch, Answer, Dies
    <2>3. DrainOwned'
      BY <1>4 DEF Reply, RuntimeInv, TypeOK, DrainOwned, StateTells, TeardownKnows, Answer, Dies
    <2>4. StateTells'
      BY <1>4 DEF Reply, RuntimeInv, TypeOK, StateTells, TeardownKnows, Answer, Dies
    <2>5. TeardownKnows'
      BY <1>4 DEF Reply, RuntimeInv, TypeOK, StateTells, TeardownKnows, Answer, Dies
    <2>6. Reported' BY <1>4 DEF Reply, RuntimeInv, TypeOK, StateTells, Reported, Answer, Dies
    <2> QED BY <2>1, <2>2, <2>3, <2>4, <2>5, <2>6 DEF RuntimeInv
  <1> QED BY <1>1, <1>2, <1>3, <1>4

\* The exit hooks: the store of retire_to_dormant meets a settled capture.
LEMMA ExitSteps ==
  ASSUME RuntimeInv, NEW a \in Actors,
         Exit(a) \/ Claim(a) \/ Retire(a) \/ Park(a) \/ Chain(a)
  PROVE  RuntimeInv'
  <1> USE SessionAssumption
      DEF At, Goto, given, runtime, threads, target, wire, controller,
          Actors, Session, Draining, Over
  <1>1. CASE Exit(a)
    <2>1. TypeOK' BY <1>1 DEF Exit, RuntimeInv, TypeOK, TasksMatch, States, Dies
    <2>2. TasksMatch' BY <1>1 DEF Exit, RuntimeInv, TypeOK, TasksMatch, Dies
    <2>3. DrainOwned'
      BY <1>1 DEF Exit, RuntimeInv, TypeOK, DrainOwned, StateTells, TeardownKnows, Dies
    <2>4. StateTells' BY <1>1 DEF Exit, RuntimeInv, TypeOK, StateTells, TeardownKnows, Dies
    <2>5. TeardownKnows' BY <1>1 DEF Exit, RuntimeInv, TypeOK, StateTells, TeardownKnows, Dies
    <2>6. Reported' BY <1>1 DEF Exit, RuntimeInv, TypeOK, StateTells, Reported, Dies
    <2> QED BY <2>1, <2>2, <2>3, <2>4, <2>5, <2>6 DEF RuntimeInv
  <1>2. CASE Claim(a)
    <2>1. TypeOK' BY <1>2 DEF Claim, RuntimeInv, TypeOK, TasksMatch, States
    <2>2. TasksMatch' BY <1>2 DEF Claim, RuntimeInv, TypeOK, TasksMatch
    <2>3. DrainOwned' BY <1>2 DEF Claim, RuntimeInv, TypeOK, DrainOwned, StateTells, TeardownKnows
    <2>4. StateTells' BY <1>2 DEF Claim, RuntimeInv, TypeOK, StateTells, TeardownKnows
    <2>5. TeardownKnows' BY <1>2 DEF Claim, RuntimeInv, TypeOK, StateTells, TeardownKnows
    <2>6. Reported' BY <1>2 DEF Claim, RuntimeInv, TypeOK, StateTells, Reported
    <2> QED BY <2>1, <2>2, <2>3, <2>4, <2>5, <2>6 DEF RuntimeInv
  <1>3. CASE Retire(a)
    <2>1. TypeOK' BY <1>3 DEF Retire, RuntimeInv, TypeOK, TasksMatch, States, AfterRetire
    <2>2. TasksMatch' BY <1>3 DEF Retire, RuntimeInv, TypeOK, TasksMatch, AfterRetire
    <2>3. DrainOwned'
      BY <1>3 DEF Retire, RuntimeInv, TypeOK, DrainOwned, StateTells, TeardownKnows, AfterRetire
    <2>4. StateTells'
      BY <1>3 DEF Retire, RuntimeInv, TypeOK, StateTells, TeardownKnows, AfterRetire
    <2>5. TeardownKnows'
      BY <1>3 DEF Retire, RuntimeInv, TypeOK, StateTells, TeardownKnows, AfterRetire
    <2>6. Reported' BY <1>3 DEF Retire, RuntimeInv, TypeOK, StateTells, Reported, AfterRetire
    <2> QED BY <2>1, <2>2, <2>3, <2>4, <2>5, <2>6 DEF RuntimeInv
  <1>4. CASE Park(a)
    <2>1. TypeOK' BY <1>4 DEF Park, RuntimeInv, TypeOK, TasksMatch, States, AfterRetire
    <2>2. TasksMatch' BY <1>4 DEF Park, RuntimeInv, TypeOK, TasksMatch, AfterRetire
    <2>3. DrainOwned'
      BY <1>4 DEF Park, RuntimeInv, TypeOK, DrainOwned, StateTells, TeardownKnows, AfterRetire
    <2>4. StateTells' BY <1>4 DEF Park, RuntimeInv, TypeOK, StateTells, TeardownKnows, AfterRetire
    <2>5. TeardownKnows'
      BY <1>4 DEF Park, RuntimeInv, TypeOK, StateTells, TeardownKnows, AfterRetire
    <2>6. Reported' BY <1>4 DEF Park, RuntimeInv, TypeOK, StateTells, Reported, AfterRetire
    <2> QED BY <2>1, <2>2, <2>3, <2>4, <2>5, <2>6 DEF RuntimeInv
  <1>5. CASE Chain(a)
    <2>1. TypeOK' BY <1>5 DEF Chain, RuntimeInv, TypeOK, TasksMatch, States, Dies
    <2>2. TasksMatch' BY <1>5 DEF Chain, RuntimeInv, TypeOK, TasksMatch, Dies
    <2>3. DrainOwned'
      BY <1>5 DEF Chain, RuntimeInv, TypeOK, DrainOwned, StateTells, TeardownKnows, Dies
    <2>4. StateTells' BY <1>5 DEF Chain, RuntimeInv, TypeOK, StateTells, TeardownKnows, Dies
    <2>5. TeardownKnows' BY <1>5 DEF Chain, RuntimeInv, TypeOK, StateTells, TeardownKnows, Dies
    <2>6. Reported' BY <1>5 DEF Chain, RuntimeInv, TypeOK, StateTells, Reported, Dies
    <2> QED BY <2>1, <2>2, <2>3, <2>4, <2>5, <2>6 DEF RuntimeInv
  <1> QED BY <1>1, <1>2, <1>3, <1>4, <1>5

\* The end of the target, and the controller, leave the runtime alone.
LEMMA OtherSteps ==
  ASSUME RuntimeInv,
         Killed \/ Reaped \/ QueryStatus \/ Stop \/ Receive \/ GivesUp \/ StopsWatching
             \/ ControllerDies
  PROVE  RuntimeInv'
  <1> USE SessionAssumption
      DEF At, Goto, given, runtime, threads, target, wire, controller,
          Actors, Session, Draining, Over
  <1>1. CASE Killed
    <2>1. TypeOK' BY <1>1 DEF Killed, RuntimeInv, TypeOK, TasksMatch, States, Dies, Running
    <2>2. TasksMatch' BY <1>1 DEF Killed, RuntimeInv, TypeOK, TasksMatch, Dies, Running
    <2>3. DrainOwned'
      BY <1>1 DEF Killed, RuntimeInv, TypeOK, DrainOwned, StateTells, TeardownKnows, Dies, Running
    <2>4. StateTells'
      BY <1>1 DEF Killed, RuntimeInv, TypeOK, StateTells, TeardownKnows, Dies, Running
    <2>5. TeardownKnows'
      BY <1>1 DEF Killed, RuntimeInv, TypeOK, StateTells, TeardownKnows, Dies, Running
    <2>6. Reported' BY <1>1 DEF Killed, RuntimeInv, TypeOK, StateTells, Reported, Dies, Running
    <2> QED BY <2>1, <2>2, <2>3, <2>4, <2>5, <2>6 DEF RuntimeInv
  <1>2. CASE Reaped
    <2>1. TypeOK' BY <1>2 DEF Reaped, RuntimeInv, TypeOK, TasksMatch, States
    <2>2. TasksMatch' BY <1>2 DEF Reaped, RuntimeInv, TypeOK, TasksMatch
    <2>3. DrainOwned'
      BY <1>2 DEF Reaped, RuntimeInv, TypeOK, DrainOwned, StateTells, TeardownKnows
    <2>4. StateTells' BY <1>2 DEF Reaped, RuntimeInv, TypeOK, StateTells, TeardownKnows
    <2>5. TeardownKnows' BY <1>2 DEF Reaped, RuntimeInv, TypeOK, StateTells, TeardownKnows
    <2>6. Reported' BY <1>2 DEF Reaped, RuntimeInv, TypeOK, StateTells, Reported
    <2> QED BY <2>1, <2>2, <2>3, <2>4, <2>5, <2>6 DEF RuntimeInv
  <1>3. CASE QueryStatus
    <2>0. peer' \in BOOLEAN BY <1>3, Zenon DEF QueryStatus, RuntimeInv, TypeOK, Ask, Broken, Leave
    <2>1. TypeOK'
      BY <1>3, <2>0 DEF QueryStatus, RuntimeInv, TypeOK, TasksMatch, States, Ask, Broken, Leave
    <2>2. TasksMatch' BY <1>3 DEF QueryStatus, RuntimeInv, TypeOK, TasksMatch, Ask, Broken, Leave
    <2>3. DrainOwned'
      BY <1>3 DEF QueryStatus, RuntimeInv, TypeOK, DrainOwned, StateTells, TeardownKnows, Ask,
             Broken, Leave
    <2>4. StateTells'
      BY <1>3 DEF QueryStatus, RuntimeInv, TypeOK, StateTells, TeardownKnows, Ask, Broken, Leave
    <2>5. TeardownKnows'
      BY <1>3 DEF QueryStatus, RuntimeInv, TypeOK, StateTells, TeardownKnows, Ask, Broken, Leave
    <2>6. Reported'
      BY <1>3 DEF QueryStatus, RuntimeInv, TypeOK, StateTells, Reported, Ask, Broken, Leave
    <2> QED BY <2>1, <2>2, <2>3, <2>4, <2>5, <2>6 DEF RuntimeInv
  <1>4. CASE Stop
    <2>0. peer' \in BOOLEAN BY <1>4, Zenon DEF Stop, RuntimeInv, TypeOK, Ask, Broken, Leave
    <2>1. TypeOK'
      BY <1>4, <2>0 DEF Stop, RuntimeInv, TypeOK, TasksMatch, States, Ask, Broken, Leave
    <2>2. TasksMatch' BY <1>4 DEF Stop, RuntimeInv, TypeOK, TasksMatch, Ask, Broken, Leave
    <2>3. DrainOwned'
      BY <1>4 DEF Stop, RuntimeInv, TypeOK, DrainOwned, StateTells, TeardownKnows, Ask, Broken,
             Leave
    <2>4. StateTells'
      BY <1>4 DEF Stop, RuntimeInv, TypeOK, StateTells, TeardownKnows, Ask, Broken, Leave
    <2>5. TeardownKnows'
      BY <1>4 DEF Stop, RuntimeInv, TypeOK, StateTells, TeardownKnows, Ask, Broken, Leave
    <2>6. Reported' BY <1>4 DEF Stop, RuntimeInv, TypeOK, StateTells, Reported, Ask, Broken, Leave
    <2> QED BY <2>1, <2>2, <2>3, <2>4, <2>5, <2>6 DEF RuntimeInv
  <1>5. CASE Receive
    <2>0. peer' \in BOOLEAN
      BY <1>5, Zenon DEF Receive, RuntimeInv, TypeOK, Ask, Broken, Leave, Waiting
    <2>a. reply' = None /\ UNCHANGED <<given, runtime, threads, target, queries>>
      BY <1>5 DEF Receive, RuntimeInv, TypeOK, Ask, Broken, Leave, Waiting
    <2>b. /\ request' \in {None, "query", "stop", "finalize"}
          /\ cpc' \in {"ready", "watch", "status", "drained", "finalized", "left"}
          /\ verdict' \in {None, "exited", "crashed", "protocol", "writer", "stopped",
                           "detached", "died"}
      BY <1>5 DEF Receive, RuntimeInv, TypeOK, Ask, Broken, Leave, Waiting
    <2>1. TypeOK' BY <2>0, <2>a, <2>b DEF RuntimeInv, TypeOK
    <2>2. TasksMatch'
      BY <1>5 DEF Receive, RuntimeInv, TypeOK, TasksMatch, Ask, Broken, Leave, Waiting
    <2>3. DrainOwned'
      BY <1>5 DEF Receive, RuntimeInv, TypeOK, DrainOwned, StateTells, TeardownKnows, Ask,
             Broken, Leave, Waiting
    <2>4. StateTells'
      BY <1>5 DEF Receive, RuntimeInv, TypeOK, StateTells, TeardownKnows, Ask, Broken, Leave,
             Waiting
    <2>5. TeardownKnows'
      BY <1>5 DEF Receive, RuntimeInv, TypeOK, StateTells, TeardownKnows, Ask, Broken, Leave,
             Waiting
    <2>6. Reported'
      BY <1>5 DEF Receive, RuntimeInv, TypeOK, StateTells, Reported, Ask, Broken, Leave, Waiting
    <2> QED BY <2>1, <2>2, <2>3, <2>4, <2>5, <2>6 DEF RuntimeInv
  <1>6. CASE GivesUp
    <2>0. peer' \in BOOLEAN
      BY <1>6, Zenon DEF GivesUp, RuntimeInv, TypeOK, Broken, Leave, KillChild
    <2>1. TypeOK'
      BY <1>6, <2>0 DEF GivesUp, RuntimeInv, TypeOK, TasksMatch, States, Broken, Leave, KillChild
    <2>2. TasksMatch'
      BY <1>6 DEF GivesUp, RuntimeInv, TypeOK, TasksMatch, Broken, Leave, KillChild
    <2>3. DrainOwned'
      BY <1>6 DEF GivesUp, RuntimeInv, TypeOK, DrainOwned, StateTells, TeardownKnows, Broken,
             Leave, KillChild
    <2>4. StateTells'
      BY <1>6 DEF GivesUp, RuntimeInv, TypeOK, StateTells, TeardownKnows, Broken, Leave, KillChild
    <2>5. TeardownKnows'
      BY <1>6 DEF GivesUp, RuntimeInv, TypeOK, StateTells, TeardownKnows, Broken, Leave, KillChild
    <2>6. Reported'
      BY <1>6 DEF GivesUp, RuntimeInv, TypeOK, StateTells, Reported, Broken, Leave, KillChild
    <2> QED BY <2>1, <2>2, <2>3, <2>4, <2>5, <2>6 DEF RuntimeInv
  <1>7. CASE StopsWatching
    <2>0. peer' \in BOOLEAN BY <1>7, Zenon DEF StopsWatching, RuntimeInv, TypeOK, Leave
    <2>1. TypeOK' BY <1>7, <2>0 DEF StopsWatching, RuntimeInv, TypeOK, TasksMatch, States, Leave
    <2>2. TasksMatch' BY <1>7 DEF StopsWatching, RuntimeInv, TypeOK, TasksMatch, Leave
    <2>3. DrainOwned'
      BY <1>7 DEF StopsWatching, RuntimeInv, TypeOK, DrainOwned, StateTells, TeardownKnows, Leave
    <2>4. StateTells'
      BY <1>7 DEF StopsWatching, RuntimeInv, TypeOK, StateTells, TeardownKnows, Leave
    <2>5. TeardownKnows'
      BY <1>7 DEF StopsWatching, RuntimeInv, TypeOK, StateTells, TeardownKnows, Leave
    <2>6. Reported' BY <1>7 DEF StopsWatching, RuntimeInv, TypeOK, StateTells, Reported, Leave
    <2> QED BY <2>1, <2>2, <2>3, <2>4, <2>5, <2>6 DEF RuntimeInv
  <1>8. CASE ControllerDies
    <2>0. peer' \in BOOLEAN BY <1>8, Zenon DEF ControllerDies, RuntimeInv, TypeOK, Leave
    <2>1. TypeOK' BY <1>8, <2>0 DEF ControllerDies, RuntimeInv, TypeOK, TasksMatch, States, Leave
    <2>2. TasksMatch' BY <1>8 DEF ControllerDies, RuntimeInv, TypeOK, TasksMatch, Leave
    <2>3. DrainOwned'
      BY <1>8 DEF ControllerDies, RuntimeInv, TypeOK, DrainOwned, StateTells, TeardownKnows, Leave
    <2>4. StateTells'
      BY <1>8 DEF ControllerDies, RuntimeInv, TypeOK, StateTells, TeardownKnows, Leave
    <2>5. TeardownKnows'
      BY <1>8 DEF ControllerDies, RuntimeInv, TypeOK, StateTells, TeardownKnows, Leave
    <2>6. Reported' BY <1>8 DEF ControllerDies, RuntimeInv, TypeOK, StateTells, Reported, Leave
    <2> QED BY <2>1, <2>2, <2>3, <2>4, <2>5, <2>6 DEF RuntimeInv
  <1> QED BY <1>1, <1>2, <1>3, <1>4, <1>5, <1>6, <1>7, <1>8

\* The controller's request, the session thread's work and the answer stay paired:
\* no step of an exiting thread touches them, and the controller never asks twice.
LEMMA PairedNext ==
  ASSUME RuntimeInv, Paired, Next PROVE Paired'
  <1> USE SessionAssumption
      DEF At, Goto, given, runtime, threads, target, wire, controller, Actors, Session,
          Draining, RuntimeInv, TypeOK, TasksMatch, Paired, Answer
  <1>1. ASSUME NEW a \in Actors, Step(a) \/ Exit(a) PROVE Paired'
    <2>1. CASE DrainBegin(a) BY <2>1 DEF DrainBegin, AfterDrain
    <2>2. CASE Quiesce(a) BY <2>2 DEF Quiesce
    <2>3. CASE QuiesceExpires(a) BY <2>3 DEF QuiesceExpires
    <2>4. CASE Finish(a) BY <2>4 DEF Finish
    <2>5. CASE Settle(a) BY <2>5 DEF Settle, AfterDrain
    <2>6. CASE Claim(a) BY <2>6 DEF Claim
    <2>7. CASE Retire(a) BY <2>7 DEF Retire, AfterRetire
    <2>8. CASE Park(a) BY <2>8 DEF Park, AfterRetire
    <2>9. CASE Chain(a) BY <2>9 DEF Chain, Dies
    <2>10. CASE Exit(a) BY <2>10 DEF Exit, Dies
    <2> QED BY <1>1, <2>1, <2>2, <2>3, <2>4, <2>5, <2>6, <2>7, <2>8, <2>9, <2>10 DEF Step
  <1>2. CASE FinalizeBegin BY <1>2 DEF FinalizeBegin
  <1>3. CASE Inspect BY <1>3 DEF Inspect
  <1>4. CASE Retain BY <1>4 DEF Retain
  <1>5. CASE BeginUnpatch BY <1>5 DEF BeginUnpatch
  <1>6. CASE Teardown BY <1>6 DEF Teardown
  <1>7. CASE Conclude BY <1>7 DEF Conclude
  <1>8. CASE Ready BY <1>8 DEF Ready
  <1>9. CASE Serve BY <1>9 DEF Serve
  <1>10. CASE Unattended BY <1>10 DEF Unattended
  <1>11. CASE Reply BY <1>11 DEF Reply, Dies
  <1>12. CASE QueryStatus BY <1>12 DEF QueryStatus, Ask, Broken, Leave
  <1>13. CASE Stop BY <1>13 DEF Stop, Ask, Broken, Leave
  <1>14. CASE Receive BY <1>14 DEF Receive, Ask, Broken, Leave, Waiting
  <1>15. CASE GivesUp BY <1>15 DEF GivesUp, Broken, Leave, KillChild
  <1>16. CASE StopsWatching BY <1>16 DEF StopsWatching, Leave
  <1>17. CASE ControllerDies BY <1>17 DEF ControllerDies, Leave
  <1>18. CASE Killed BY <1>18 DEF Killed, Dies
  <1>19. CASE Reaped BY <1>19 DEF Reaped
  <1> QED BY <1>1, <1>2, <1>3, <1>4, <1>5, <1>6, <1>7, <1>8, <1>9, <1>10, <1>11,
             <1>12, <1>13, <1>14, <1>15, <1>16, <1>17, <1>18, <1>19
          DEF Next, SessionStep, Controller

\* The invariant holds at first ...
LEMMA SessionInit == Init => SessionInv
  <1>1. Init => Paired BY SessionAssumption DEF Init, Paired, Actors, Session
  <1> QED BY <1>1, RuntimeInit DEF SessionInv

\* ... and every step keeps it.
LEMMA SessionNext == SessionInv /\ [Next]_vars => SessionInv'
  <1> SUFFICES ASSUME SessionInv, [Next]_vars PROVE SessionInv' OBVIOUS
  <1>1. CASE Next
    <2>1. RuntimeInv'
      BY <1>1, DrainSteps, FinalizeSteps, ServeSteps, ExitSteps, OtherSteps
         DEF Next, Step, SessionStep, Controller, SessionInv
    <2>2. Paired' BY <1>1, PairedNext DEF SessionInv
    <2> QED BY <2>1, <2>2 DEF SessionInv
  <1>2. CASE UNCHANGED vars
    BY <1>2 DEF vars, given, runtime, threads, target, wire, controller, SessionInv, RuntimeInv,
                TypeOK, TasksMatch, DrainOwned, StateTells, TeardownKnows, Reported, Over, Paired
  <1> QED BY <1>1, <1>2

\* state_ always tells who drains, how the trace ended and what the teardown may do.
THEOREM SessionInvariant == Spec => []SessionInv
  BY SessionInit, SessionNext, PTL DEF Spec

\* However many threads exit while the session stops the capture, one of them
\* finishes the writer, once.
THEOREM DrainsOnce == Spec => []OneDrainer
  <1>1. SessionInv => OneDrainer
    BY DEF SessionInv, RuntimeInv, DrainOwned, OneDrainer, Draining
  <1> QED BY <1>1, SessionInvariant, PTL

\* No capture is reported over, and no hook reverted, with the trace still open.
THEOREM TraceClosesFirst == Spec => []TeardownAfterTrace
  <1>1. SessionInv => TeardownAfterTrace
    BY DEF SessionInv, RuntimeInv, TypeOK, States, StateTells, Over, TeardownAfterTrace
  <1> QED BY <1>1, SessionInvariant, PTL

\* A failed writer is never reported as a clean capture.
THEOREM WriterErrorsStayVisible == Spec => []WriterErrorVisible
  <1>1. SessionInv => WriterErrorVisible
    BY DEF SessionInv, RuntimeInv, TypeOK, States, DrainOwned, StateTells, Reported, Over,
           WriterErrorVisible
  <1> QED BY <1>1, SessionInvariant, PTL

\* kFinalized is never reported while a trampoline is mapped.
THEOREM FinalizedIsUnmapped == Spec => []FinalizedMeansUnmapped
  <1>1. SessionInv => FinalizedMeansUnmapped
    BY DEF SessionInv, RuntimeInv, TeardownKnows, FinalizedMeansUnmapped
  <1> QED BY <1>1, SessionInvariant, PTL

\* A late answer is never read as the answer to another request.
THEOREM AnswersAreMatched == Spec => []AnswersMatch
  <1>1. SessionInv => AnswersMatch BY DEF SessionInv, Paired, AnswersMatch
  <1> QED BY <1>1, SessionInvariant, PTL

============================================================================
