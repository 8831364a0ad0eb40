------------------------ MODULE WindowsSessionProofs ------------------------
(***************************************************************************)
(* The two ends of a session on Windows, for any target and any request.   *)
(***************************************************************************)
EXTENDS MCWindowsSession, TLAPS

\* Which step follows which, by method and by kind of request.
LEMMA Orders ==
  ASSUME flow \in Requests
  PROVE  /\ flow.method \in DOMAIN Order =>
                After("check") = IF flow.method = "remote" THEN "load"
                                 ELSE IF flow.method = "hijack" THEN "acquire"
                                 ELSE IF flow.method = "entrypoint" THEN "patch" ELSE "params"
         /\ flow.method \in DOMAIN Order => Launch \/ flow.method \in {"remote", "hijack"}
         /\ flow.method = "remote" => After("load") = "await" /\ After("await") = "return"
         /\ flow.method = "hijack" =>
                IF ~Launch /\ ~flow.direct
                THEN After("start") = "finish" /\ After("finish") = "await" /\ After("await") = "return"
                ELSE After("start") = "await" /\ After("await") = "finish" /\ After("finish") = "return"
         /\ flow.method = "entrypoint" /\ Launch =>
                After("patch") = "await" /\ After("await") = "finish" /\ After("finish") = "return"
         /\ flow.method = "static" /\ Launch => After("params") = "await" /\ After("await") = "return"
  <1> USE DEF Requests, Methods, Order, Launch, LaunchOrder, AttachOrder, LaunchAgentOrder,
              AttachAgentOrder
  <1>1. CASE flow.method = "remote" BY <1>1 DEF After
  <1>2. CASE flow.method = "hijack" BY <1>2 DEF After
  <1>3. CASE flow.method = "entrypoint" BY <1>3 DEF After
  <1>4. CASE flow.method = "static" BY <1>4 DEF After
  <1> QED BY <1>1, <1>2, <1>3, <1>4

\* The invariant holds before anything is touched.
LEMMA StartInit == ASSUME Init PROVE StartInv
  <1> USE StartAssumption DEF Init, Launch
  <1>0. flow \in Requests BY DEF Requests
  <1>1. TargetTyped BY DEF TargetTyped, Places
  <1>2. FlagsTyped BY DEF FlagsTyped
  <1>3. StagesTyped BY <1>0 DEF StagesTyped, Steps, StubSteps, WorkerSteps
  <1>4. StepsOfMethods BY <1>0 DEF StepsOfMethods
  <1>5. StubInPlace BY <1>0, <1>1 DEF StubInPlace
  <1>6. PagesHeld /\ Suspensions BY DEF PagesHeld, Suspensions
  <1>7. EntryRestored /\ WorkerOrder /\ NotEarly BY DEF EntryRestored, WorkerOrder, NotEarly
  <1> QED BY <1>1, <1>2, <1>3, <1>4, <1>5, <1>6, <1>7 DEF StartInv, Sound, TypeOK

\* The threads of the target keep the invariant: only the executor of the stub is in it,
\* and a launched program is held until the method lets it go.
LEMMA TargetSteps ==
  ASSUME Sound, NEW t \in Threads,
         Run(t) \/ Exits(t)
  PROVE  Sound'
  <1> USE DEF Launch, Runs, Own, Executor, agent
  <1>1. CASE Run(t)
    <2>a. flow' = flow /\ pc' = pc /\ proc = "alive" /\ ~sus[t] /\ Own(t) /\ (Launch => t = Main)
      BY <1>1 DEF Run
    <2>b. \/ /\ Launch /\ t = Main /\ flow.method \in {"entrypoint", "static"} /\ stub = "none"
             /\ at[t] = "start" /\ at' = [at EXCEPT ![t] = "stub"] /\ stub' = "load" /\ early' = early
             /\ worker = "none" /\ pc \notin {"open", "check", "patch", "params"}
          \/ /\ \E p \in {"app", "system", "wait", "locked"} : at' = [at EXCEPT ![t] = p]
             /\ early' = (early \/ (Launch /\ worker # "capturing")) /\ stub' = stub
             /\ (stub \in {"out"} \/ at[t] # "start" \/ (~entry.jump /\ flow.method # "static"))
      <3>1. CASE at[t] = "start" /\ (entry.jump \/ flow.method = "static") /\ stub # "out"
        <4>1. Launch /\ t = Main /\ flow.method \in {"entrypoint", "static"}
          BY <3>1, <2>a DEF Sound, StubInPlace, EntryRestored
        <4>2. stub = "none" BY <3>1, <4>1 DEF Sound, StubInPlace
        <4>3. worker = "none" BY <4>2 DEF Sound, WorkerOrder
        <4>4. pc \notin {"open", "check", "patch", "params"}
          BY <2>a, <4>1 DEF Sound, StepsOfMethods, Suspensions
        <4> QED BY <1>1, <3>1, <4>1, <4>2, <4>3, <4>4 DEF Run
      <3>2. CASE ~(at[t] = "start" /\ (entry.jump \/ flow.method = "static") /\ stub # "out")
        BY <1>1, <3>2 DEF Run
      <3> QED BY <3>1, <3>2
    <2>c. UNCHANGED <<proc, sus, hij, saved, stage, done, pages, entry, worker, ready, result>>
      BY <1>1 DEF Run
    <2>1. TargetTyped' BY <1>1 DEF Run, Sound, TypeOK, TargetTyped, Places
    <2>2. FlagsTyped' BY <1>1, Zenon DEF Run, Sound, TypeOK, FlagsTyped
    <2>3. StagesTyped' BY <1>1 DEF Run, Sound, TypeOK, StagesTyped, StubSteps
    <2>4. StepsOfMethods' BY <1>1 DEF Run, Sound, StepsOfMethods
    <2>5. StubInPlace'
      BY <2>a, <2>b, <2>c DEF Sound, TypeOK, TargetTyped, StepsOfMethods, StubInPlace
    <2>6. PagesHeld' BY <2>a, <2>b, <2>c DEF Sound, PagesHeld
    <2>7. Suspensions' BY <1>1 DEF Run, Sound, Suspensions
    <2>8. EntryRestored'
      BY <1>1 DEF Run, Sound, EntryRestored, StepsOfMethods, StubInPlace, Suspensions
    <2>9. WorkerOrder' BY <2>a, <2>b, <2>c DEF Sound, WorkerOrder
    <2>10. NotEarly'
      <3>1. CASE stub' = stub
        <4>1. Launch /\ flow.method = "hijack" => pc \notin {"start", "await"}
          BY <2>a, StartAssumption DEF Sound, StubInPlace, NotEarly
        <4>2. Launch /\ ~flow.direct /\ worker # "capturing" /\ pc \notin {"unwind", "terminate"}
                /\ result # "error" =>
              flow.method = "static" \/ (flow.method = "entrypoint" /\ stub = "out" /\ stage # 3)
          <5> SUFFICES ASSUME Launch, ~flow.direct, worker # "capturing", result # "error",
                              pc \notin {"unwind", "terminate"}, flow.method # "static"
                       PROVE  flow.method = "entrypoint" /\ stub = "out" /\ stage # 3
            OBVIOUS
          <5>1. t = Main /\ pc \notin {"return", "finish", "ended"}
            BY <2>a DEF Sound, TypeOK, StagesTyped, StepsOfMethods, WorkerOrder
          <5>2. pc = "await" /\ flow.method = "entrypoint"
            BY <2>a, <5>1, <4>1 DEF Sound, TypeOK, StagesTyped, Steps, Requests, Methods,
                StepsOfMethods, Suspensions
          <5>3. stub = "out"
            BY <2>a, <2>b, <5>1, <5>2, <3>1 DEF Sound, StubInPlace, EntryRestored
          <5>4. stage # 3 BY <5>2 DEF Sound, EntryRestored, WorkerOrder
          <5> QED BY <5>2, <5>3, <5>4
        <4>3. early' = (early \/ (Launch /\ worker # "capturing"))
          BY <2>b, <3>1
        <4> QED BY <2>a, <2>c, <3>1, <4>1, <4>2, <4>3 DEF Sound, NotEarly
      <3>2. CASE stub' # stub
        BY <2>a, <2>b, <2>c, <3>2 DEF Sound, NotEarly
      <3> QED BY <3>1, <3>2
    <2> QED BY <2>1, <2>2, <2>3, <2>4, <2>5, <2>6, <2>7, <2>8, <2>9, <2>10 DEF Sound, TypeOK
  <1>2. CASE Exits(t)
    <2>1. TargetTyped' BY <1>2 DEF Exits, Sound, TypeOK, TargetTyped, Places
    <2>2. FlagsTyped' BY <1>2, Zenon DEF Exits, Sound, TypeOK, FlagsTyped
    <2>3. StagesTyped' BY <1>2 DEF Exits, Sound, TypeOK, StagesTyped, StubSteps
    <2>4. StepsOfMethods' BY <1>2 DEF Exits, Sound, StepsOfMethods
    <2>5. StubInPlace' BY <1>2 DEF Exits, Sound, TypeOK, TargetTyped, StubInPlace
    <2>6. PagesHeld' BY <1>2 DEF Exits, Sound, PagesHeld
    <2>7. Suspensions' BY <1>2 DEF Exits, Sound, Suspensions
    <2>8. EntryRestored' BY <1>2 DEF Exits, Sound, EntryRestored, StepsOfMethods
    <2>9. WorkerOrder' BY <1>2 DEF Exits, Sound, WorkerOrder
    <2>10. NotEarly' BY <1>2 DEF Exits, Sound, NotEarly
    <2> QED BY <2>1, <2>2, <2>3, <2>4, <2>5, <2>6, <2>7, <2>8, <2>9, <2>10 DEF Sound, TypeOK
  <1> QED BY <1>1, <1>2

\* So does the stub, up to the point where it gives its thread back,
LEMMA StubCalls ==
  ASSUME Sound,
         LoadReturns \/ BootReturns \/ PollEnds \/ RestoresEntry \/ JumpsToEntry \/ Faults
  PROVE  Sound'
  <1> USE DEF Launch, Stubbing, Leaves, Finished, StubQuiet, Executor, Alive, Awaited, agent
  <1>1. CASE LoadReturns
    <2>1. TargetTyped' BY <1>1 DEF LoadReturns, Sound, TypeOK, TargetTyped, Places
    <2>2. FlagsTyped' BY <1>1, Zenon DEF LoadReturns, Sound, TypeOK, FlagsTyped
    <2>3. StagesTyped' BY <1>1 DEF LoadReturns, Sound, TypeOK, StagesTyped, StubSteps
    <2>4. StepsOfMethods' BY <1>1 DEF LoadReturns, Sound, StepsOfMethods
    <2>5. StubInPlace'
      BY <1>1 DEF LoadReturns, Sound, TypeOK, TargetTyped, StagesTyped, Requests, Methods,
          StubInPlace
    <2>6. PagesHeld' BY <1>1 DEF LoadReturns, Sound, PagesHeld
    <2>7. Suspensions' BY <1>1 DEF LoadReturns, Sound, Suspensions
    <2>8. EntryRestored' BY <1>1 DEF LoadReturns, Sound, EntryRestored
    <2>9. WorkerOrder' BY <1>1 DEF LoadReturns, Sound, WorkerOrder
    <2>10. NotEarly' BY <1>1 DEF LoadReturns, Sound, NotEarly
    <2> QED BY <2>1, <2>2, <2>3, <2>4, <2>5, <2>6, <2>7, <2>8, <2>9, <2>10 DEF Sound, TypeOK
  <1>2. CASE BootReturns
    <2>1. TargetTyped' BY <1>2 DEF BootReturns, Sound, TypeOK, TargetTyped, Places
    <2>2. FlagsTyped' BY <1>2, Zenon DEF BootReturns, Sound, TypeOK, FlagsTyped
    <2>3. StagesTyped'
      BY <1>2 DEF BootReturns, Sound, TypeOK, StagesTyped, StubSteps, WorkerSteps
    <2>4. StepsOfMethods' BY <1>2 DEF BootReturns, Sound, StepsOfMethods
    <2>5. StubInPlace'
      BY <1>2 DEF BootReturns, Sound, TypeOK, TargetTyped, StagesTyped, Requests, Methods,
          StubInPlace
    <2>6. PagesHeld' BY <1>2 DEF BootReturns, Sound, PagesHeld
    <2>7. Suspensions' BY <1>2 DEF BootReturns, Sound, Suspensions
    <2>8. EntryRestored' BY <1>2 DEF BootReturns, Sound, EntryRestored
    <2>9. WorkerOrder' BY <1>2 DEF BootReturns, Sound, WorkerOrder
    <2>10. NotEarly' BY <1>2 DEF BootReturns, Sound, NotEarly
    <2> QED BY <2>1, <2>2, <2>3, <2>4, <2>5, <2>6, <2>7, <2>8, <2>9, <2>10 DEF Sound, TypeOK
  <1>3. CASE PollEnds
    <2>1. TargetTyped' BY <1>3 DEF PollEnds, Sound, TypeOK, TargetTyped, Places
    <2>2. FlagsTyped' BY <1>3, Zenon DEF PollEnds, Sound, TypeOK, FlagsTyped
    <2>3. StagesTyped' BY <1>3 DEF PollEnds, Sound, TypeOK, StagesTyped, StubSteps
    <2>4. StepsOfMethods' BY <1>3 DEF PollEnds, Sound, StepsOfMethods
    <2>5. StubInPlace'
      BY <1>3 DEF PollEnds, Sound, TypeOK, TargetTyped, StagesTyped, Requests, Methods,
          StubInPlace
    <2>6. PagesHeld' BY <1>3 DEF PollEnds, Sound, PagesHeld
    <2>7. Suspensions' BY <1>3 DEF PollEnds, Sound, Suspensions
    <2>8. EntryRestored' BY <1>3 DEF PollEnds, Sound, EntryRestored
    <2>9. WorkerOrder' BY <1>3 DEF PollEnds, Sound, WorkerOrder
    <2>10. NotEarly' BY <1>3 DEF PollEnds, Sound, NotEarly
    <2> QED BY <2>1, <2>2, <2>3, <2>4, <2>5, <2>6, <2>7, <2>8, <2>9, <2>10 DEF Sound, TypeOK
  <1>4. CASE RestoresEntry
    <2>1. TargetTyped' BY <1>4 DEF RestoresEntry, Sound, TypeOK, TargetTyped
    <2>2. FlagsTyped' BY <1>4, Zenon DEF RestoresEntry, Sound, TypeOK, FlagsTyped
    <2>3. StagesTyped' BY <1>4 DEF RestoresEntry, Sound, TypeOK, StagesTyped, StubSteps
    <2>4. StepsOfMethods' BY <1>4 DEF RestoresEntry, Sound, StepsOfMethods
    <2>5. StubInPlace' BY <1>4 DEF RestoresEntry, Sound, StubInPlace
    <2>6. PagesHeld' BY <1>4 DEF RestoresEntry, Sound, PagesHeld
    <2>7. Suspensions' BY <1>4 DEF RestoresEntry, Sound, Suspensions
    <2>8. EntryRestored' BY <1>4 DEF RestoresEntry, Sound, EntryRestored
    <2>9. WorkerOrder' BY <1>4 DEF RestoresEntry, Sound, WorkerOrder
    <2>10. NotEarly' BY <1>4 DEF RestoresEntry, Sound, NotEarly
    <2> QED BY <2>1, <2>2, <2>3, <2>4, <2>5, <2>6, <2>7, <2>8, <2>9, <2>10 DEF Sound, TypeOK
  <1>5. CASE JumpsToEntry
    <2>1. TargetTyped' BY <1>5 DEF JumpsToEntry, Sound, TypeOK, TargetTyped, Places
    <2>2. FlagsTyped' BY <1>5, Zenon DEF JumpsToEntry, Sound, TypeOK, FlagsTyped
    <2>3. StagesTyped' BY <1>5 DEF JumpsToEntry, Sound, TypeOK, StagesTyped, StubSteps
    <2>4. StepsOfMethods' BY <1>5 DEF JumpsToEntry, Sound, StepsOfMethods
    <2>5. StubInPlace'
      BY <1>5 DEF JumpsToEntry, Sound, TypeOK, TargetTyped, StagesTyped, Requests, Methods,
          StubInPlace
    <2>6. PagesHeld' BY <1>5 DEF JumpsToEntry, Sound, PagesHeld
    <2>7. Suspensions' BY <1>5 DEF JumpsToEntry, Sound, Suspensions
    <2>8. EntryRestored' BY <1>5 DEF JumpsToEntry, Sound, EntryRestored
    <2>9. WorkerOrder' BY <1>5 DEF JumpsToEntry, Sound, WorkerOrder
    <2>10. NotEarly' BY <1>5 DEF JumpsToEntry, Sound, NotEarly, StubInPlace
    <2> QED BY <2>1, <2>2, <2>3, <2>4, <2>5, <2>6, <2>7, <2>8, <2>9, <2>10 DEF Sound, TypeOK
  <1>6. ~Faults BY DEF Faults, Sound, PagesHeld, StubInPlace
  <1> QED BY <1>1, <1>2, <1>3, <1>4, <1>5, <1>6

\* the agent's worker,
LEMMA AgentSteps ==
  ASSUME Sound,
         WorkerConnects \/ WorkerStarts \/ WorkerFails \/ StandaloneStarts \/ StandaloneFails
  PROVE  Sound'
  <1> USE DEF Launch, AgentQuiet, Listening, Executor, target, executor
  <1>1. CASE WorkerConnects
    <2>1. TargetTyped' BY <1>1 DEF WorkerConnects, Sound, TypeOK, TargetTyped
    <2>2. FlagsTyped' BY <1>1, Zenon DEF WorkerConnects, Sound, TypeOK, FlagsTyped
    <2>3. StagesTyped' BY <1>1 DEF WorkerConnects, Sound, TypeOK, StagesTyped, WorkerSteps
    <2>4. StepsOfMethods' BY <1>1 DEF WorkerConnects, Sound, StepsOfMethods
    <2>5. StubInPlace' BY <1>1 DEF WorkerConnects, Sound, StubInPlace
    <2>6. PagesHeld' BY <1>1 DEF WorkerConnects, Sound, PagesHeld
    <2>7. Suspensions' BY <1>1 DEF WorkerConnects, Sound, Suspensions
    <2>8. EntryRestored' BY <1>1 DEF WorkerConnects, Sound, EntryRestored
    <2>9. WorkerOrder' BY <1>1 DEF WorkerConnects, Sound, WorkerOrder
    <2>10. NotEarly' BY <1>1 DEF WorkerConnects, Sound, NotEarly
    <2> QED BY <2>1, <2>2, <2>3, <2>4, <2>5, <2>6, <2>7, <2>8, <2>9, <2>10 DEF Sound, TypeOK
  <1>2. CASE WorkerStarts
    <2>1. TargetTyped' BY <1>2 DEF WorkerStarts, Sound, TypeOK, TargetTyped
    <2>2. FlagsTyped' BY <1>2, Zenon DEF WorkerStarts, Sound, TypeOK, FlagsTyped
    <2>3. StagesTyped' BY <1>2 DEF WorkerStarts, Sound, TypeOK, StagesTyped, WorkerSteps
    <2>4. StepsOfMethods' BY <1>2 DEF WorkerStarts, Sound, StepsOfMethods
    <2>5. StubInPlace' BY <1>2 DEF WorkerStarts, Sound, StubInPlace
    <2>6. PagesHeld' BY <1>2 DEF WorkerStarts, Sound, PagesHeld
    <2>7. Suspensions' BY <1>2 DEF WorkerStarts, Sound, Suspensions
    <2>8. EntryRestored' BY <1>2 DEF WorkerStarts, Sound, EntryRestored
    <2>9. WorkerOrder' BY <1>2 DEF WorkerStarts, Sound, WorkerOrder
    <2>10. NotEarly' BY <1>2 DEF WorkerStarts, Sound, NotEarly
    <2> QED BY <2>1, <2>2, <2>3, <2>4, <2>5, <2>6, <2>7, <2>8, <2>9, <2>10 DEF Sound, TypeOK
  <1>3. CASE WorkerFails
    <2>1. TargetTyped' BY <1>3 DEF WorkerFails, Sound, TypeOK, TargetTyped
    <2>2. FlagsTyped' BY <1>3, Zenon DEF WorkerFails, Sound, TypeOK, FlagsTyped
    <2>3. StagesTyped' BY <1>3 DEF WorkerFails, Sound, TypeOK, StagesTyped, WorkerSteps
    <2>4. StepsOfMethods' BY <1>3 DEF WorkerFails, Sound, StepsOfMethods
    <2>5. StubInPlace' BY <1>3 DEF WorkerFails, Sound, StubInPlace
    <2>6. PagesHeld' BY <1>3 DEF WorkerFails, Sound, PagesHeld
    <2>7. Suspensions' BY <1>3 DEF WorkerFails, Sound, Suspensions
    <2>8. EntryRestored' BY <1>3 DEF WorkerFails, Sound, EntryRestored
    <2>9. WorkerOrder' BY <1>3 DEF WorkerFails, Sound, WorkerOrder
    <2>10. NotEarly' BY <1>3 DEF WorkerFails, Sound, NotEarly
    <2> QED BY <2>1, <2>2, <2>3, <2>4, <2>5, <2>6, <2>7, <2>8, <2>9, <2>10 DEF Sound, TypeOK
  <1>4. CASE StandaloneStarts
    <2>1. TargetTyped' BY <1>4 DEF StandaloneStarts, Sound, TypeOK, TargetTyped
    <2>2. FlagsTyped' BY <1>4, Zenon DEF StandaloneStarts, Sound, TypeOK, FlagsTyped
    <2>3. StagesTyped' BY <1>4 DEF StandaloneStarts, Sound, TypeOK, StagesTyped, WorkerSteps
    <2>4. StepsOfMethods' BY <1>4 DEF StandaloneStarts, Sound, StepsOfMethods
    <2>5. StubInPlace' BY <1>4 DEF StandaloneStarts, Sound, StubInPlace
    <2>6. PagesHeld' BY <1>4 DEF StandaloneStarts, Sound, PagesHeld
    <2>7. Suspensions' BY <1>4 DEF StandaloneStarts, Sound, Suspensions
    <2>8. EntryRestored' BY <1>4 DEF StandaloneStarts, Sound, EntryRestored
    <2>9. WorkerOrder' BY <1>4 DEF StandaloneStarts, Sound, WorkerOrder
    <2>10. NotEarly' BY <1>4 DEF StandaloneStarts, Sound, NotEarly
    <2> QED BY <2>1, <2>2, <2>3, <2>4, <2>5, <2>6, <2>7, <2>8, <2>9, <2>10 DEF Sound, TypeOK
  <1>5. CASE StandaloneFails
    <2>1. TargetTyped' BY <1>5 DEF StandaloneFails, Sound, TypeOK, TargetTyped
    <2>2. FlagsTyped' BY <1>5, Zenon DEF StandaloneFails, Sound, TypeOK, FlagsTyped
    <2>3. StagesTyped' BY <1>5 DEF StandaloneFails, Sound, TypeOK, StagesTyped, WorkerSteps
    <2>4. StepsOfMethods' BY <1>5 DEF StandaloneFails, Sound, StepsOfMethods
    <2>5. StubInPlace' BY <1>5 DEF StandaloneFails, Sound, StubInPlace
    <2>6. PagesHeld' BY <1>5 DEF StandaloneFails, Sound, PagesHeld
    <2>7. Suspensions' BY <1>5 DEF StandaloneFails, Sound, Suspensions
    <2>8. EntryRestored' BY <1>5 DEF StandaloneFails, Sound, EntryRestored
    <2>9. WorkerOrder' BY <1>5 DEF StandaloneFails, Sound, WorkerOrder
    <2>10. NotEarly' BY <1>5 DEF StandaloneFails, Sound, NotEarly
    <2> QED BY <2>1, <2>2, <2>3, <2>4, <2>5, <2>6, <2>7, <2>8, <2>9, <2>10 DEF Sound, TypeOK
  <1> QED BY <1>1, <1>2, <1>3, <1>4, <1>5

\* the controller as it opens the target and chooses a way in,
LEMMA OpenSteps ==
  ASSUME Sound,
         Opens \/ Resolves
  PROVE  Sound'
  <1> USE DEF Launch, Goes, Fails, CtlQuiet, CtlStill, Executor, Alive, executor
  <1>1. CASE Opens
    <2>1. TargetTyped' BY <1>1, StartAssumption DEF Opens, Sound, TypeOK, TargetTyped
    <2>2. FlagsTyped' BY <1>1, StartAssumption, Zenon DEF Opens, Sound, TypeOK, FlagsTyped
    <2>3. StagesTyped' BY <1>1, StartAssumption DEF Opens, Sound, TypeOK, StagesTyped, Steps
    <2>4. StepsOfMethods' BY <1>1, StartAssumption DEF Opens, Sound, StepsOfMethods
    <2>5. StubInPlace' BY <1>1, StartAssumption DEF Opens, Sound, StubInPlace
    <2>6. PagesHeld' BY <1>1, StartAssumption DEF Opens, Sound, PagesHeld
    <2>7. Suspensions' BY <1>1, StartAssumption DEF Opens, Sound, Suspensions, StepsOfMethods
    <2>8. EntryRestored' BY <1>1, StartAssumption DEF Opens, Sound, EntryRestored
    <2>9. WorkerOrder' BY <1>1, StartAssumption DEF Opens, Sound, WorkerOrder
    <2>10. NotEarly' BY <1>1, StartAssumption DEF Opens, Sound, NotEarly
    <2> QED BY <2>1, <2>2, <2>3, <2>4, <2>5, <2>6, <2>7, <2>8, <2>9, <2>10 DEF Sound, TypeOK
  <1>2. CASE Resolves
    <2>1. TargetTyped' BY <1>2, Orders DEF Resolves, Sound, TypeOK, TargetTyped
    <2>2. FlagsTyped' BY <1>2, Orders, Zenon DEF Resolves, Sound, TypeOK, FlagsTyped
    <2>3. StagesTyped' BY <1>2, Orders DEF Resolves, Sound, TypeOK, StagesTyped, Steps
    <2>4. StepsOfMethods'
      BY <1>2, Orders DEF Resolves, Sound, TypeOK, StagesTyped, Requests, Methods,
          StepsOfMethods
    <2>5. StubInPlace' BY <1>2, Orders DEF Resolves, Sound, StubInPlace
    <2>6. PagesHeld' BY <1>2, Orders DEF Resolves, Sound, PagesHeld
    <2>7. Suspensions' BY <1>2, Orders DEF Resolves, Sound, Suspensions
    <2>8. EntryRestored'
      BY <1>2, Orders DEF Resolves, Sound, TypeOK, StagesTyped, EntryRestored
    <2>9. WorkerOrder' BY <1>2, Orders DEF Resolves, Sound, TypeOK, StagesTyped, WorkerOrder
    <2>10. NotEarly' BY <1>2, Orders DEF Resolves, Sound, TypeOK, StagesTyped, NotEarly
    <2> QED BY <2>1, <2>2, <2>3, <2>4, <2>5, <2>6, <2>7, <2>8, <2>9, <2>10 DEF Sound, TypeOK
  <1> QED BY <1>1, <1>2

\* by remote threads,
LEMMA RemoteSteps ==
  ASSUME Sound,
         LoadRemoteLibrary \/ RunBootstrap \/ RemoteReturns \/ RemoteTimesOut
  PROVE  Sound'
  <1> USE DEF Launch, Goes, Fails, CtlQuiet, CtlStill, Calls, Executor, executor
  <1>1. CASE LoadRemoteLibrary
    <2>1. TargetTyped' BY <1>1 DEF LoadRemoteLibrary, Sound, TypeOK, TargetTyped
    <2>2. FlagsTyped' BY <1>1, Zenon DEF LoadRemoteLibrary, Sound, TypeOK, FlagsTyped
    <2>3. StagesTyped'
      BY <1>1 DEF LoadRemoteLibrary, Sound, TypeOK, StagesTyped, StubSteps, Steps
    <2>4. StepsOfMethods' BY <1>1 DEF LoadRemoteLibrary, Sound, StepsOfMethods
    <2>5. StubInPlace' BY <1>1 DEF LoadRemoteLibrary, Sound, StubInPlace, StepsOfMethods
    <2>6. PagesHeld' BY <1>1 DEF LoadRemoteLibrary, Sound, PagesHeld
    <2>7. Suspensions' BY <1>1 DEF LoadRemoteLibrary, Sound, Suspensions
    <2>8. EntryRestored' BY <1>1 DEF LoadRemoteLibrary, Sound, EntryRestored, StubInPlace
    <2>9. WorkerOrder' BY <1>1 DEF LoadRemoteLibrary, Sound, WorkerOrder, StubInPlace
    <2>10. NotEarly' BY <1>1 DEF LoadRemoteLibrary, Sound, NotEarly, StepsOfMethods
    <2> QED BY <2>1, <2>2, <2>3, <2>4, <2>5, <2>6, <2>7, <2>8, <2>9, <2>10 DEF Sound, TypeOK
  <1>2. CASE RunBootstrap
    <2>1. TargetTyped' BY <1>2 DEF RunBootstrap, Sound, TypeOK, TargetTyped
    <2>2. FlagsTyped' BY <1>2, Zenon DEF RunBootstrap, Sound, TypeOK, FlagsTyped
    <2>3. StagesTyped' BY <1>2 DEF RunBootstrap, Sound, TypeOK, StagesTyped, StubSteps, Steps
    <2>4. StepsOfMethods' BY <1>2 DEF RunBootstrap, Sound, StepsOfMethods
    <2>5. StubInPlace' BY <1>2 DEF RunBootstrap, Sound, StubInPlace, StepsOfMethods
    <2>6. PagesHeld' BY <1>2 DEF RunBootstrap, Sound, PagesHeld
    <2>7. Suspensions' BY <1>2 DEF RunBootstrap, Sound, Suspensions
    <2>8. EntryRestored' BY <1>2 DEF RunBootstrap, Sound, EntryRestored
    <2>9. WorkerOrder' BY <1>2 DEF RunBootstrap, Sound, WorkerOrder
    <2>10. NotEarly' BY <1>2 DEF RunBootstrap, Sound, NotEarly
    <2> QED BY <2>1, <2>2, <2>3, <2>4, <2>5, <2>6, <2>7, <2>8, <2>9, <2>10 DEF Sound, TypeOK
  <1>3. CASE RemoteReturns
    <2>1. TargetTyped' BY <1>3, Orders DEF RemoteReturns, Sound, TypeOK, TargetTyped
    <2>2. FlagsTyped' BY <1>3, Orders, Zenon DEF RemoteReturns, Sound, TypeOK, FlagsTyped
    <2>3. StagesTyped'
      BY <1>3, Orders DEF RemoteReturns, Sound, TypeOK, StagesTyped, Steps, StepsOfMethods
    <2>4. StepsOfMethods'
      BY <1>3, Orders DEF RemoteReturns, Sound, TypeOK, StagesTyped, StepsOfMethods
    <2>5. StubInPlace'
      BY <1>3, Orders DEF RemoteReturns, Sound, TypeOK, StagesTyped, StubInPlace,
          StepsOfMethods
    <2>6. PagesHeld' BY <1>3, Orders DEF RemoteReturns, Sound, PagesHeld, StubInPlace
    <2>7. Suspensions' BY <1>3, Orders DEF RemoteReturns, Sound, Suspensions
    <2>8. EntryRestored'
      BY <1>3, Orders DEF RemoteReturns, Sound, EntryRestored, StepsOfMethods
    <2>9. WorkerOrder'
      BY <1>3, Orders DEF RemoteReturns, Sound, TypeOK, StagesTyped, WorkerOrder,
          StepsOfMethods
    <2>10. NotEarly' BY <1>3, Orders DEF RemoteReturns, Sound, NotEarly, StepsOfMethods
    <2> QED BY <2>1, <2>2, <2>3, <2>4, <2>5, <2>6, <2>7, <2>8, <2>9, <2>10 DEF Sound, TypeOK
  <1>4. CASE RemoteTimesOut
    <2>1. TargetTyped' BY <1>4 DEF RemoteTimesOut, Sound, TypeOK, TargetTyped
    <2>2. FlagsTyped' BY <1>4, Zenon DEF RemoteTimesOut, Sound, TypeOK, FlagsTyped
    <2>3. StagesTyped' BY <1>4 DEF RemoteTimesOut, Sound, TypeOK, StagesTyped, Steps
    <2>4. StepsOfMethods' BY <1>4 DEF RemoteTimesOut, Sound, StepsOfMethods
    <2>5. StubInPlace' BY <1>4 DEF RemoteTimesOut, Sound, StubInPlace
    <2>6. PagesHeld' BY <1>4 DEF RemoteTimesOut, Sound, PagesHeld, StepsOfMethods
    <2>7. Suspensions' BY <1>4 DEF RemoteTimesOut, Sound, Suspensions
    <2>8. EntryRestored' BY <1>4 DEF RemoteTimesOut, Sound, EntryRestored
    <2>9. WorkerOrder' BY <1>4 DEF RemoteTimesOut, Sound, WorkerOrder
    <2>10. NotEarly' BY <1>4 DEF RemoteTimesOut, Sound, NotEarly
    <2> QED BY <2>1, <2>2, <2>3, <2>4, <2>5, <2>6, <2>7, <2>8, <2>9, <2>10 DEF Sound, TypeOK
  <1> QED BY <1>1, <1>2, <1>3, <1>4

\* by a thread it selects
LEMMA SelectSteps ==
  ASSUME Sound, NEW t \in Threads,
         AcquireThread(t) \/ RedirectThread \/ NoCandidate
  PROVE  Sound'
  <1> USE DEF Launch, Goes, Fails, CtlQuiet, CtlStill, Executor, executor
  <1>1. CASE AcquireThread(t)
    <2>1. TargetTyped' BY <1>1 DEF AcquireThread, Sound, TypeOK, TargetTyped
    <2>2. FlagsTyped' BY <1>1, Zenon DEF AcquireThread, Sound, TypeOK, FlagsTyped
    <2>3. StagesTyped' BY <1>1 DEF AcquireThread, Sound, TypeOK, StagesTyped
    <2>4. StepsOfMethods' BY <1>1 DEF AcquireThread, Sound, StepsOfMethods
    <2>5. StubInPlace' BY <1>1 DEF AcquireThread, Sound, StubInPlace
    <2>6. PagesHeld' BY <1>1 DEF AcquireThread, Sound, PagesHeld
    <2>7. Suspensions' BY <1>1 DEF AcquireThread, Sound, Suspensions, StepsOfMethods
    <2>8. EntryRestored' BY <1>1 DEF AcquireThread, Sound, EntryRestored
    <2>9. WorkerOrder' BY <1>1 DEF AcquireThread, Sound, WorkerOrder
    <2>10. NotEarly' BY <1>1 DEF AcquireThread, Sound, NotEarly
    <2> QED BY <2>1, <2>2, <2>3, <2>4, <2>5, <2>6, <2>7, <2>8, <2>9, <2>10 DEF Sound, TypeOK
  <1>2. CASE RedirectThread
    <2>a. hij' \in Threads /\ hij' = (IF Launch THEN Main ELSE best) /\ at[hij'] \in Places
      BY <1>2, StartAssumption DEF RedirectThread, Sound, TypeOK, TargetTyped
    <2>b. UNCHANGED <<flow, left, best, proc, stage, done, entry, worker, result>> /\ saved' = at[hij']
      BY <1>2 DEF RedirectThread
    <2>c. \/ /\ pages' = "mapped" /\ stub' = "load" /\ at' = [at EXCEPT ![hij'] = "stub"]
             /\ pc' = "start" /\ sus' = sus
          \/ /\ sus' = [sus EXCEPT ![hij'] = FALSE] /\ pc' = "unwind" /\ pages' = pages
             /\ stub' = stub /\ at' = at
      BY <1>2 DEF RedirectThread
    <2>d. pc = "acquire" /\ flow.method = "hijack" /\ stub = "none" /\ \A t0 \in Threads : at[t0] # "stub"
      BY <1>2 DEF RedirectThread, Sound, StepsOfMethods, StubInPlace
    <2>1. TargetTyped' BY <2>a, <2>b, <2>c DEF Sound, TypeOK, TargetTyped, Places
    <2>2. FlagsTyped'
      BY <1>2, StartAssumption, Zenon DEF RedirectThread, Sound, TypeOK, FlagsTyped
    <2>3. StagesTyped'
      BY <1>2, StartAssumption DEF RedirectThread, Sound, TypeOK, StagesTyped, StubSteps, Steps
    <2>4. StepsOfMethods' BY <1>2, StartAssumption DEF RedirectThread, Sound, StepsOfMethods
    <2>5. StubInPlace' BY <2>a, <2>b, <2>c, <2>d DEF Sound, TypeOK, TargetTyped, StubInPlace
    <2>6. PagesHeld'
      BY <1>2, StartAssumption DEF RedirectThread, Sound, PagesHeld, StepsOfMethods
    <2>7. Suspensions'
      BY <1>2, StartAssumption DEF RedirectThread, Sound, TypeOK, TargetTyped, Suspensions
    <2>8. EntryRestored'
      BY <1>2, StartAssumption DEF RedirectThread, Sound, EntryRestored, StubInPlace
    <2>9. WorkerOrder'
      BY <1>2, StartAssumption DEF RedirectThread, Sound, WorkerOrder, StubInPlace
    <2>10. NotEarly'
      BY <1>2, StartAssumption DEF RedirectThread, Sound, NotEarly, StepsOfMethods
    <2> QED BY <2>1, <2>2, <2>3, <2>4, <2>5, <2>6, <2>7, <2>8, <2>9, <2>10 DEF Sound, TypeOK
  <1>3. CASE NoCandidate
    <2>1. TargetTyped' BY <1>3, StartAssumption DEF NoCandidate, Sound, TypeOK, TargetTyped
    <2>2. FlagsTyped'
      BY <1>3, StartAssumption, Zenon DEF NoCandidate, Sound, TypeOK, FlagsTyped
    <2>3. StagesTyped'
      BY <1>3, StartAssumption DEF NoCandidate, Sound, TypeOK, StagesTyped, Steps
    <2>4. StepsOfMethods' BY <1>3, StartAssumption DEF NoCandidate, Sound, StepsOfMethods
    <2>5. StubInPlace' BY <1>3, StartAssumption DEF NoCandidate, Sound, StubInPlace
    <2>6. PagesHeld' BY <1>3, StartAssumption DEF NoCandidate, Sound, PagesHeld
    <2>7. Suspensions' BY <1>3, StartAssumption DEF NoCandidate, Sound, Suspensions
    <2>8. EntryRestored' BY <1>3, StartAssumption DEF NoCandidate, Sound, EntryRestored
    <2>9. WorkerOrder' BY <1>3, StartAssumption DEF NoCandidate, Sound, WorkerOrder
    <2>10. NotEarly' BY <1>3, StartAssumption DEF NoCandidate, Sound, NotEarly
    <2> QED BY <2>1, <2>2, <2>3, <2>4, <2>5, <2>6, <2>7, <2>8, <2>9, <2>10 DEF Sound, TypeOK
  <1> QED BY <1>1, <1>2, <1>3

\* and redirects,
LEMMA HijackSteps ==
  ASSUME Sound, ~broke',
         StartHijack \/ FinishWaits \/ FinishHijack
  PROVE  Sound'
  <1> USE DEF Launch, Goes, Fails, CtlQuiet, CtlStill, Executor, RestoreAndResume, RestoreFails, Alive, executor
  <1>1. CASE StartHijack
    <2>1. TargetTyped'
      BY <1>1, Orders, StartAssumption DEF StartHijack, Sound, TypeOK, TargetTyped
    <2>2. FlagsTyped'
      BY <1>1, Orders, StartAssumption, Zenon DEF StartHijack, Sound, TypeOK, FlagsTyped
    <2>3. StagesTyped'
      BY <1>1, Orders, StartAssumption DEF StartHijack, Sound, TypeOK, StagesTyped, Steps,
          StepsOfMethods
    <2>4. StepsOfMethods'
      BY <1>1, Orders, StartAssumption DEF StartHijack, Sound, TypeOK, StagesTyped,
          StepsOfMethods
    <2>5. StubInPlace'
      BY <1>1, Orders, StartAssumption DEF StartHijack, Sound, TypeOK, StagesTyped,
          StubInPlace, StepsOfMethods
    <2>6. PagesHeld' BY <1>1, Orders, StartAssumption DEF StartHijack, Sound, PagesHeld
    <2>7. Suspensions'
      BY <1>1, Orders, StartAssumption DEF StartHijack, Sound, TypeOK, TargetTyped,
          StagesTyped, Suspensions, StepsOfMethods
    <2>8. EntryRestored'
      BY <1>1, Orders, StartAssumption DEF StartHijack, Sound, EntryRestored, StepsOfMethods
    <2>9. WorkerOrder'
      BY <1>1, Orders, StartAssumption DEF StartHijack, Sound, TypeOK, StagesTyped,
          WorkerOrder, StepsOfMethods
    <2>10. NotEarly' BY <1>1, Orders, StartAssumption DEF StartHijack, Sound, NotEarly
    <2> QED BY <2>1, <2>2, <2>3, <2>4, <2>5, <2>6, <2>7, <2>8, <2>9, <2>10 DEF Sound, TypeOK
  <1>2. CASE FinishWaits
    <2>1. TargetTyped' BY <1>2 DEF FinishWaits, Sound, TypeOK, TargetTyped
    <2>2. FlagsTyped' BY <1>2, Zenon DEF FinishWaits, Sound, TypeOK, FlagsTyped
    <2>3. StagesTyped' BY <1>2 DEF FinishWaits, Sound, TypeOK, StagesTyped
    <2>4. StepsOfMethods' BY <1>2 DEF FinishWaits, Sound, StepsOfMethods
    <2>5. StubInPlace' BY <1>2 DEF FinishWaits, Sound, StubInPlace
    <2>6. PagesHeld' BY <1>2 DEF FinishWaits, Sound, PagesHeld
    <2>7. Suspensions' BY <1>2 DEF FinishWaits, Sound, Suspensions
    <2>8. EntryRestored' BY <1>2 DEF FinishWaits, Sound, EntryRestored
    <2>9. WorkerOrder' BY <1>2 DEF FinishWaits, Sound, WorkerOrder
    <2>10. NotEarly' BY <1>2 DEF FinishWaits, Sound, NotEarly
    <2> QED BY <2>1, <2>2, <2>3, <2>4, <2>5, <2>6, <2>7, <2>8, <2>9, <2>10 DEF Sound, TypeOK
  <1>3. CASE FinishHijack
    <2>1. TargetTyped'
      BY <1>3, Orders, StartAssumption, ZenonT(30) DEF FinishHijack, Sound, TypeOK, TargetTyped,
          StagesTyped, Places
    <2>2. FlagsTyped'
      BY <1>3, Orders, StartAssumption, Zenon DEF FinishHijack, Sound, TypeOK, FlagsTyped
    <2>3. StagesTyped'
      BY <1>3, Orders, StartAssumption DEF FinishHijack, Sound, TypeOK, StagesTyped,
          StubSteps, Steps
    <2>4. StepsOfMethods'
      BY <1>3, Orders, StartAssumption DEF FinishHijack, Sound, TypeOK, StagesTyped,
          StepsOfMethods
    <2>5. StubInPlace'
      BY <1>3, Orders, StartAssumption DEF FinishHijack, Sound, TypeOK, TargetTyped,
          StagesTyped, StubInPlace
    <2>6. PagesHeld'
      BY <1>3, Orders, StartAssumption DEF FinishHijack, Sound, PagesHeld, StubInPlace
    <2>7. Suspensions'
      <3>1. /\ pc = "finish" /\ flow.method = "hijack" /\ flow' = flow /\ result' = result
            /\ sus' = [sus EXCEPT ![hij] = FALSE]
        BY <1>3 DEF FinishHijack
      <3>2. pc' \in {"await", "return", "unwind"}
        BY <1>3, <3>1, Orders DEF FinishHijack, Sound, TypeOK, StagesTyped
      <3> QED BY <3>1, <3>2 DEF Sound, TypeOK, TargetTyped, Suspensions
    <2>8. EntryRestored'
      BY <1>3, Orders, StartAssumption DEF FinishHijack, Sound, EntryRestored
    <2>9. WorkerOrder'
      BY <1>3, Orders, StartAssumption DEF FinishHijack, Sound, TypeOK, StagesTyped,
          WorkerOrder
    <2>10. NotEarly'
      BY <1>3, Orders, StartAssumption DEF FinishHijack, Sound, TypeOK, StagesTyped, NotEarly
    <2> QED BY <2>1, <2>2, <2>3, <2>4, <2>5, <2>6, <2>7, <2>8, <2>9, <2>10 DEF Sound, TypeOK
  <1> QED BY <1>1, <1>2, <1>3

\* or by the entry point of the image;
LEMMA EntrySteps ==
  ASSUME Sound,
         PatchEntry \/ FinishEntry \/ EntryTimesOut \/ PassParameters
  PROVE  Sound'
  <1> USE DEF Launch, Goes, Fails, CtlQuiet, CtlStill, Executor, executor
  <1>1. CASE PatchEntry
    <2>1. TargetTyped'
      <3>3. entry' = entry \/ entry' = [jump |-> TRUE, writable |-> TRUE] BY <1>1 DEF PatchEntry
      <3>4. [jump |-> TRUE, writable |-> TRUE] \in [jump : BOOLEAN, writable : BOOLEAN] OBVIOUS
      <3>5. entry \in [jump : BOOLEAN, writable : BOOLEAN] BY DEF Sound, TypeOK, TargetTyped
      <3>1. entry' \in [jump : BOOLEAN, writable : BOOLEAN] BY <3>3, <3>4, <3>5, Zenon
      <3>2. sus' \in [Threads -> BOOLEAN]
        BY <1>1 DEF PatchEntry, Sound, TypeOK, TargetTyped
      <3> QED BY <1>1, <3>1, <3>2 DEF PatchEntry, Sound, TypeOK, TargetTyped
    <2>2. FlagsTyped'
      BY <1>1, Orders, StartAssumption, Zenon DEF PatchEntry, Sound, TypeOK, FlagsTyped
    <2>3. StagesTyped'
      BY <1>1, Orders, StartAssumption DEF PatchEntry, Sound, TypeOK, StagesTyped, Steps,
          StepsOfMethods
    <2>4. StepsOfMethods'
      BY <1>1, Orders, StartAssumption DEF PatchEntry, Sound, TypeOK, StagesTyped,
          StepsOfMethods
    <2>5. StubInPlace' BY <1>1, Orders, StartAssumption DEF PatchEntry, Sound, StubInPlace
    <2>6. PagesHeld'
      BY <1>1, Orders, StartAssumption DEF PatchEntry, Sound, PagesHeld, StepsOfMethods
    <2>7. Suspensions'
      BY <1>1, Orders, StartAssumption DEF PatchEntry, Sound, TypeOK, TargetTyped,
          StagesTyped, Suspensions, StepsOfMethods
    <2>8. EntryRestored'
      BY <1>1, Orders, StartAssumption DEF PatchEntry, Sound, TypeOK, StagesTyped,
          EntryRestored, StepsOfMethods
    <2>9. WorkerOrder'
      BY <1>1, Orders, StartAssumption DEF PatchEntry, Sound, TypeOK, StagesTyped,
          WorkerOrder, StepsOfMethods
    <2>10. NotEarly'
      BY <1>1, Orders, StartAssumption DEF PatchEntry, Sound, NotEarly, StepsOfMethods
    <2> QED BY <2>1, <2>2, <2>3, <2>4, <2>5, <2>6, <2>7, <2>8, <2>9, <2>10 DEF Sound, TypeOK
  <1>2. CASE FinishEntry
    <2>1. TargetTyped' BY <1>2, Orders DEF FinishEntry, Sound, TypeOK, TargetTyped
    <2>2. FlagsTyped' BY <1>2, Orders, Zenon DEF FinishEntry, Sound, TypeOK, FlagsTyped
    <2>3. StagesTyped'
      BY <1>2, Orders DEF FinishEntry, Sound, TypeOK, StagesTyped, Steps, StepsOfMethods
    <2>4. StepsOfMethods'
      BY <1>2, Orders DEF FinishEntry, Sound, TypeOK, StagesTyped, StepsOfMethods
    <2>5. StubInPlace'
      BY <1>2, Orders DEF FinishEntry, Sound, TypeOK, StagesTyped, StubInPlace
    <2>6. PagesHeld' BY <1>2, Orders DEF FinishEntry, Sound, PagesHeld
    <2>7. Suspensions'
      BY <1>2, Orders DEF FinishEntry, Sound, TypeOK, StagesTyped, Suspensions
    <2>8. EntryRestored'
      BY <1>2, Orders DEF FinishEntry, Sound, TypeOK, StagesTyped, EntryRestored
    <2>9. WorkerOrder' BY <1>2, Orders DEF FinishEntry, Sound, WorkerOrder, StepsOfMethods
    <2>10. NotEarly' BY <1>2, Orders DEF FinishEntry, Sound, NotEarly
    <2> QED BY <2>1, <2>2, <2>3, <2>4, <2>5, <2>6, <2>7, <2>8, <2>9, <2>10 DEF Sound, TypeOK
  <1>3. CASE EntryTimesOut
    <2>1. TargetTyped' BY <1>3 DEF EntryTimesOut, Sound, TypeOK, TargetTyped
    <2>2. FlagsTyped' BY <1>3, Zenon DEF EntryTimesOut, Sound, TypeOK, FlagsTyped
    <2>3. StagesTyped' BY <1>3 DEF EntryTimesOut, Sound, TypeOK, StagesTyped, Steps
    <2>4. StepsOfMethods' BY <1>3 DEF EntryTimesOut, Sound, StepsOfMethods
    <2>5. StubInPlace' BY <1>3 DEF EntryTimesOut, Sound, StubInPlace
    <2>6. PagesHeld' BY <1>3 DEF EntryTimesOut, Sound, PagesHeld
    <2>7. Suspensions' BY <1>3 DEF EntryTimesOut, Sound, Suspensions
    <2>8. EntryRestored' BY <1>3 DEF EntryTimesOut, Sound, EntryRestored
    <2>9. WorkerOrder' BY <1>3 DEF EntryTimesOut, Sound, WorkerOrder
    <2>10. NotEarly' BY <1>3 DEF EntryTimesOut, Sound, NotEarly
    <2> QED BY <2>1, <2>2, <2>3, <2>4, <2>5, <2>6, <2>7, <2>8, <2>9, <2>10 DEF Sound, TypeOK
  <1>4. CASE PassParameters
    <2>1. TargetTyped'
      BY <1>4, Orders, StartAssumption DEF PassParameters, Sound, TypeOK, TargetTyped
    <2>2. FlagsTyped'
      BY <1>4, Orders, StartAssumption, Zenon DEF PassParameters, Sound, TypeOK, FlagsTyped
    <2>3. StagesTyped'
      BY <1>4, Orders, StartAssumption DEF PassParameters, Sound, TypeOK, StagesTyped,
          Steps, StepsOfMethods
    <2>4. StepsOfMethods'
      BY <1>4, Orders, StartAssumption DEF PassParameters, Sound, TypeOK, StagesTyped,
          StepsOfMethods
    <2>5. StubInPlace'
      BY <1>4, Orders, StartAssumption DEF PassParameters, Sound, StubInPlace
    <2>6. PagesHeld' BY <1>4, Orders, StartAssumption DEF PassParameters, Sound, PagesHeld
    <2>7. Suspensions'
      BY <1>4, Orders, StartAssumption DEF PassParameters, Sound, TypeOK, TargetTyped,
          StagesTyped, Suspensions, StepsOfMethods
    <2>8. EntryRestored'
      BY <1>4, Orders, StartAssumption DEF PassParameters, Sound, EntryRestored, StepsOfMethods
    <2>9. WorkerOrder'
      BY <1>4, Orders, StartAssumption DEF PassParameters, Sound, TypeOK, StagesTyped,
          WorkerOrder, StepsOfMethods
    <2>10. NotEarly'
      BY <1>4, Orders, StartAssumption DEF PassParameters, Sound, NotEarly, StepsOfMethods
    <2> QED BY <2>1, <2>2, <2>3, <2>4, <2>5, <2>6, <2>7, <2>8, <2>9, <2>10 DEF Sound, TypeOK
  <1> QED BY <1>1, <1>2, <1>3, <1>4

\* the handshake;
LEMMA AwaitSteps ==
  ASSUME Sound,
         SendsStart \/ HearsReady \/ EventIsSet \/ HandshakeFails
  PROVE  Sound'
  <1> USE DEF Launch, Goes, Fails, CtlQuiet, CtlStill, Executor, executor
  <1>1. CASE SendsStart
    <2>1. TargetTyped' BY <1>1 DEF SendsStart, Sound, TypeOK, TargetTyped
    <2>2. FlagsTyped' BY <1>1, Zenon DEF SendsStart, Sound, TypeOK, FlagsTyped
    <2>3. StagesTyped' BY <1>1 DEF SendsStart, Sound, TypeOK, StagesTyped, WorkerSteps
    <2>4. StepsOfMethods' BY <1>1 DEF SendsStart, Sound, StepsOfMethods
    <2>5. StubInPlace' BY <1>1 DEF SendsStart, Sound, StubInPlace
    <2>6. PagesHeld' BY <1>1 DEF SendsStart, Sound, PagesHeld
    <2>7. Suspensions' BY <1>1 DEF SendsStart, Sound, Suspensions
    <2>8. EntryRestored' BY <1>1 DEF SendsStart, Sound, EntryRestored
    <2>9. WorkerOrder' BY <1>1 DEF SendsStart, Sound, WorkerOrder
    <2>10. NotEarly' BY <1>1 DEF SendsStart, Sound, NotEarly
    <2> QED BY <2>1, <2>2, <2>3, <2>4, <2>5, <2>6, <2>7, <2>8, <2>9, <2>10 DEF Sound, TypeOK
  <1>2. CASE HearsReady
    <2>1. TargetTyped' BY <1>2, Orders DEF HearsReady, Sound, TypeOK, TargetTyped
    <2>2. FlagsTyped' BY <1>2, Orders, Zenon DEF HearsReady, Sound, TypeOK, FlagsTyped
    <2>3. StagesTyped'
      BY <1>2, Orders DEF HearsReady, Sound, TypeOK, StagesTyped, Requests, Methods, Steps,
          StepsOfMethods
    <2>4. StepsOfMethods'
      BY <1>2, Orders DEF HearsReady, Sound, TypeOK, StagesTyped, Requests, Methods,
          StepsOfMethods
    <2>5. StubInPlace'
      BY <1>2, Orders DEF HearsReady, Sound, TypeOK, StagesTyped, Requests, Methods,
          StubInPlace
    <2>6. PagesHeld' BY <1>2, Orders DEF HearsReady, Sound, PagesHeld
    <2>7. Suspensions'
      BY <1>2, Orders DEF HearsReady, Sound, TypeOK, StagesTyped, Requests, Methods,
          Suspensions
    <2>8. EntryRestored'
      BY <1>2, Orders DEF HearsReady, Sound, TypeOK, StagesTyped, EntryRestored, StepsOfMethods
    <2>9. WorkerOrder' BY <1>2, Orders DEF HearsReady, Sound, WorkerOrder
    <2>10. NotEarly' BY <1>2, Orders DEF HearsReady, Sound, NotEarly
    <2> QED BY <2>1, <2>2, <2>3, <2>4, <2>5, <2>6, <2>7, <2>8, <2>9, <2>10 DEF Sound, TypeOK
  <1>3. CASE EventIsSet
    <2>1. TargetTyped' BY <1>3, Orders DEF EventIsSet, Sound, TypeOK, TargetTyped
    <2>2. FlagsTyped' BY <1>3, Orders, Zenon DEF EventIsSet, Sound, TypeOK, FlagsTyped
    <2>3. StagesTyped'
      BY <1>3, Orders DEF EventIsSet, Sound, TypeOK, StagesTyped, Requests, Methods, Steps,
          StepsOfMethods
    <2>4. StepsOfMethods'
      BY <1>3, Orders DEF EventIsSet, Sound, TypeOK, StagesTyped, Requests, Methods,
          StepsOfMethods
    <2>5. StubInPlace'
      BY <1>3, Orders DEF EventIsSet, Sound, TypeOK, StagesTyped, Requests, Methods,
          StubInPlace
    <2>6. PagesHeld' BY <1>3, Orders DEF EventIsSet, Sound, PagesHeld
    <2>7. Suspensions'
      BY <1>3, Orders DEF EventIsSet, Sound, TypeOK, StagesTyped, Requests, Methods,
          Suspensions
    <2>8. EntryRestored'
      BY <1>3, Orders DEF EventIsSet, Sound, TypeOK, StagesTyped, EntryRestored, StepsOfMethods
    <2>9. WorkerOrder' BY <1>3, Orders DEF EventIsSet, Sound, WorkerOrder
    <2>10. NotEarly' BY <1>3, Orders DEF EventIsSet, Sound, NotEarly
    <2> QED BY <2>1, <2>2, <2>3, <2>4, <2>5, <2>6, <2>7, <2>8, <2>9, <2>10 DEF Sound, TypeOK
  <1>4. CASE HandshakeFails
    <2>1. TargetTyped' BY <1>4 DEF HandshakeFails, Sound, TypeOK, TargetTyped
    <2>2. FlagsTyped' BY <1>4, Zenon DEF HandshakeFails, Sound, TypeOK, FlagsTyped
    <2>3. StagesTyped' BY <1>4 DEF HandshakeFails, Sound, TypeOK, StagesTyped, Steps
    <2>4. StepsOfMethods' BY <1>4 DEF HandshakeFails, Sound, StepsOfMethods
    <2>5. StubInPlace' BY <1>4 DEF HandshakeFails, Sound, StubInPlace
    <2>6. PagesHeld' BY <1>4 DEF HandshakeFails, Sound, PagesHeld
    <2>7. Suspensions' BY <1>4 DEF HandshakeFails, Sound, Suspensions
    <2>8. EntryRestored' BY <1>4 DEF HandshakeFails, Sound, EntryRestored
    <2>9. WorkerOrder' BY <1>4 DEF HandshakeFails, Sound, WorkerOrder
    <2>10. NotEarly' BY <1>4 DEF HandshakeFails, Sound, NotEarly
    <2> QED BY <2>1, <2>2, <2>3, <2>4, <2>5, <2>6, <2>7, <2>8, <2>9, <2>10 DEF Sound, TypeOK
  <1> QED BY <1>1, <1>2, <1>3, <1>4

\* and the verdict, with what is undone before it.
LEMMA EndSteps ==
  ASSUME Sound, ~broke',
         Returns \/ Unwinds \/ Terminates
  PROVE  Sound'
  <1> USE DEF Launch, Goes, CtlQuiet, CtlStill, Executor, RestoreAndResume, RestoreFails, executor
  <1>1. CASE Returns
    <2>1. TargetTyped' BY <1>1, StartAssumption DEF Returns, Sound, TypeOK, TargetTyped
    <2>2. FlagsTyped' BY <1>1, StartAssumption, Zenon DEF Returns, Sound, TypeOK, FlagsTyped
    <2>3. StagesTyped'
      BY <1>1, StartAssumption DEF Returns, Sound, TypeOK, StagesTyped, Steps
    <2>4. StepsOfMethods' BY <1>1, StartAssumption DEF Returns, Sound, StepsOfMethods
    <2>5. StubInPlace' BY <1>1, StartAssumption DEF Returns, Sound, StubInPlace
    <2>6. PagesHeld' BY <1>1, StartAssumption DEF Returns, Sound, PagesHeld
    <2>7. Suspensions'
      BY <1>1, StartAssumption DEF Returns, Sound, TypeOK, TargetTyped, Suspensions
    <2>8. EntryRestored' BY <1>1, StartAssumption DEF Returns, Sound, EntryRestored
    <2>9. WorkerOrder' BY <1>1, StartAssumption DEF Returns, Sound, WorkerOrder
    <2>10. NotEarly' BY <1>1, StartAssumption DEF Returns, Sound, NotEarly, StepsOfMethods
    <2> QED BY <2>1, <2>2, <2>3, <2>4, <2>5, <2>6, <2>7, <2>8, <2>9, <2>10 DEF Sound, TypeOK
  <1>2. CASE Unwinds
    <2>a. flow' = flow /\ hij' = hij /\ saved' = saved /\ pc = "unwind" /\ pc' \in {"terminate", "ended"}
      BY <1>2 DEF Unwinds
    <2>b. hij \in Threads /\ flow.method = "hijack" =>
            /\ sus' = [sus EXCEPT ![hij] = FALSE]
            /\ at[hij] = "stub" => at' = [at EXCEPT ![hij] = saved] /\ stub' = "out"
            /\ at[hij] # "stub" => at' = at /\ stub' = stub
      BY <1>2, StartAssumption DEF Unwinds
    <2>c. hij \notin Threads \/ flow.method # "hijack" => at' = at /\ stub' = stub /\ sus' = sus
      BY <1>2 DEF Unwinds, Sound, TypeOK, TargetTyped
    <2>d. pages' = IF pages = "mapped" THEN "freed" ELSE pages BY <1>2 DEF Unwinds
    <2>e. flow.method = "hijack" => stub' \in {"none", "out"}
      BY <2>a, <2>b, <2>c DEF Sound, StubInPlace
    <2>1. TargetTyped' BY <1>2, StartAssumption DEF Unwinds, Sound, TypeOK, TargetTyped
    <2>2. FlagsTyped' BY <1>2, StartAssumption, Zenon DEF Unwinds, Sound, TypeOK, FlagsTyped
    <2>3. StagesTyped'
      BY <1>2, StartAssumption DEF Unwinds, Sound, TypeOK, StagesTyped, StubSteps, Steps
    <2>4. StepsOfMethods' BY <1>2, StartAssumption DEF Unwinds, Sound, StepsOfMethods
    <2>5. StubInPlace' BY <2>a, <2>b, <2>c, <2>e DEF Sound, TypeOK, TargetTyped, StubInPlace
    <2>6. PagesHeld' BY <2>a, <2>b, <2>c, <2>d, <2>e DEF Sound, PagesHeld
    <2>7. Suspensions'
      BY <1>2, StartAssumption DEF Unwinds, Sound, TypeOK, TargetTyped, Suspensions
    <2>8. EntryRestored' BY <1>2, StartAssumption DEF Unwinds, Sound, EntryRestored
    <2>9. WorkerOrder' BY <1>2, StartAssumption DEF Unwinds, Sound, WorkerOrder
    <2>10. NotEarly' BY <1>2, StartAssumption DEF Unwinds, Sound, NotEarly
    <2> QED BY <2>1, <2>2, <2>3, <2>4, <2>5, <2>6, <2>7, <2>8, <2>9, <2>10 DEF Sound, TypeOK
  <1>3. CASE Terminates
    <2>1. TargetTyped' BY <1>3 DEF Terminates, Sound, TypeOK, TargetTyped
    <2>2. FlagsTyped' BY <1>3, Zenon DEF Terminates, Sound, TypeOK, FlagsTyped
    <2>3. StagesTyped' BY <1>3 DEF Terminates, Sound, TypeOK, StagesTyped, Steps
    <2>4. StepsOfMethods' BY <1>3 DEF Terminates, Sound, StepsOfMethods
    <2>5. StubInPlace' BY <1>3 DEF Terminates, Sound, StubInPlace
    <2>6. PagesHeld' BY <1>3 DEF Terminates, Sound, PagesHeld
    <2>7. Suspensions' BY <1>3 DEF Terminates, Sound, Suspensions
    <2>8. EntryRestored' BY <1>3 DEF Terminates, Sound, EntryRestored
    <2>9. WorkerOrder' BY <1>3 DEF Terminates, Sound, WorkerOrder
    <2>10. NotEarly' BY <1>3 DEF Terminates, Sound, NotEarly
    <2> QED BY <2>1, <2>2, <2>3, <2>4, <2>5, <2>6, <2>7, <2>8, <2>9, <2>10 DEF Sound, TypeOK
  <1> QED BY <1>1, <1>2, <1>3

\* A step without one of the failures nobody asks about keeps the rest.
LEMMA SoundNext == ASSUME Sound, ~broke', [Next]_vars PROVE Sound'
  <1>1. CASE Target BY <1>1, TargetSteps DEF Target
  <1>2. CASE Stub BY <1>2, StubCalls DEF Stub
  <1>3. CASE Agent BY <1>3, AgentSteps DEF Agent
  <1>4. CASE Controller
    <2>1. CASE Opens \/ Resolves BY <2>1, OpenSteps
    <2>2. CASE LoadRemoteLibrary \/ RunBootstrap \/ RemoteReturns \/ RemoteTimesOut
      BY <2>2, RemoteSteps
    <2>8. ~RemoteWaitFails BY DEF RemoteWaitFails
    <2>3. CASE (\E t \in Threads : AcquireThread(t)) \/ RedirectThread \/ NoCandidate
      BY <2>3, SelectSteps, StartAssumption
    <2>4. CASE StartHijack \/ FinishWaits \/ FinishHijack BY <2>4, HijackSteps
    <2>5. CASE PatchEntry \/ FinishEntry \/ EntryTimesOut \/ PassParameters BY <2>5, EntrySteps
    <2>6. CASE SendsStart \/ HearsReady \/ EventIsSet \/ HandshakeFails BY <2>6, AwaitSteps
    <2>7. CASE Returns \/ Unwinds \/ Terminates BY <2>7, EndSteps
    <2> QED BY <1>4, <2>1, <2>2, <2>3, <2>4, <2>5, <2>6, <2>7, <2>8 DEF Controller
  <1>5. CASE UNCHANGED vars
    <2> USE <1>5 DEF vars, target, executor, agent, Sound, Launch, Executor
    <2>1. TargetTyped' BY DEF TypeOK, TargetTyped
    <2>2. FlagsTyped' BY DEF TypeOK, FlagsTyped
    <2>3. StagesTyped' BY DEF TypeOK, StagesTyped
    <2>4. StepsOfMethods' BY DEF StepsOfMethods
    <2>5. StubInPlace' BY DEF StubInPlace
    <2>6. PagesHeld' /\ Suspensions' BY DEF PagesHeld, Suspensions
    <2>7. EntryRestored' /\ WorkerOrder' /\ NotEarly' BY DEF EntryRestored, WorkerOrder, NotEarly
    <2> QED BY <2>1, <2>2, <2>3, <2>4, <2>5, <2>6, <2>7 DEF TypeOK
  <1> QED BY <1>1, <1>2, <1>3, <1>4, <1>5 DEF Next

\* Such a failure is not forgotten.
LEMMA BrokenStays == ASSUME broke, [Next]_vars PROVE broke'
  <1> USE DEF CtlQuiet, RestoreAndResume, RestoreFails
  <1>1. CASE Target BY <1>1 DEF Target, Run, Exits
  <1>2. CASE Stub
    BY <1>2 DEF Stub, LoadReturns, BootReturns, PollEnds, RestoresEntry, JumpsToEntry, Faults,
       StubQuiet
  <1>3. CASE Agent
    BY <1>3 DEF Agent, WorkerConnects, WorkerStarts, WorkerFails, StandaloneStarts,
       StandaloneFails, AgentQuiet
  <1>4. CASE Controller
    BY <1>4 DEF Controller, Opens, Resolves, LoadRemoteLibrary, RunBootstrap, RemoteReturns,
       RemoteTimesOut, RemoteWaitFails, AcquireThread, RedirectThread, NoCandidate, StartHijack,
       FinishWaits, FinishHijack, PatchEntry, FinishEntry, EntryTimesOut, PassParameters,
       SendsStart, HearsReady, EventIsSet, HandshakeFails, Returns, Unwinds, Terminates
  <1>5. CASE UNCHANGED vars BY <1>5 DEF vars
  <1> QED BY <1>1, <1>2, <1>3, <1>4, <1>5 DEF Next

\* Every step keeps the invariant.
LEMMA StartNext == ASSUME StartInv, [Next]_vars PROVE StartInv'
  BY SoundNext, BrokenStays DEF StartInv

\* What it says: the pages of a running stub are there, and a verdict leaves nothing behind.
LEMMA StartSafe == ASSUME StartInv PROVE StubPagesLive /\ NothingLeftBehind
  <1>0. CASE broke BY <1>0 DEF StubPagesLive, NothingLeftBehind
  <1> SUFFICES ASSUME Sound PROVE StubPagesLive /\ NothingLeftBehind BY <1>0 DEF StartInv
  <1> USE DEF Sound, Launch
  <1>1. StubPagesLive BY DEF StubPagesLive, PagesHeld, StubInPlace
  <1>2. SessionMeansCapturing
    <2> SUFFICES ASSUME result = "session", ~flow.direct
                 PROVE  /\ worker = "capturing" /\ (early => flow.method = "static")
                        /\ ~entry.jump /\ ~entry.writable
                        /\ \A t \in Threads : ~sus[t] /\ (flow.method = "hijack" => at[t] # "stub")
      BY DEF SessionMeansCapturing
    <2>1. pc = "ended" BY DEF StepsOfMethods
    <2>2. worker = "capturing" /\ ~entry.jump /\ ~entry.writable BY DEF WorkerOrder, EntryRestored
    <2>3. early => flow.method = "static" BY <2>1 DEF NotEarly, EntryRestored
    <2>4. \A t \in Threads : ~sus[t] BY DEF Suspensions
    <2>5. flow.method = "hijack" => \A t \in Threads : at[t] # "stub" BY <2>1 DEF StubInPlace
    <2> QED BY <2>2, <2>3, <2>4, <2>5
  <1>3. result = "error" => IF Launch THEN proc # "alive"
                            ELSE \A t \in Threads : ~sus[t] /\ at[t] # "stub"
    <2> SUFFICES ASSUME result = "error" PROVE IF Launch THEN proc # "alive"
                            ELSE \A t \in Threads : ~sus[t] /\ at[t] # "stub"
      OBVIOUS
    <2>1. pc = "ended" /\ (Launch => proc # "alive") BY DEF StepsOfMethods
    <2>2. ~Launch => \A t \in Threads : ~sus[t] BY <2>1 DEF Suspensions
    <2>3. ~Launch => \A t \in Threads : at[t] # "stub"
      BY <2>1 DEF StubInPlace, TypeOK, StagesTyped, Requests, Methods
    <2> QED BY <2>1, <2>2, <2>3
  <1> QED BY <1>1, <1>2, <1>3 DEF NothingLeftBehind

----------------------------------------------------------------------------
(* The end: the invariant of WindowsStop. *)

\* The invariant holds when the capture has started.
LEMMA StopInit ==
  ASSUME Stops \subseteq {"session", "standalone"}, S!Init
  PROVE  S!StopInv
  <1> USE DEF S!Init
  <1>1. S!TypeOK
    BY DEF S!TypeOK, S!ThreadsTyped, S!FlagsTyped, S!StagesTyped, S!Places, S!WorkerStages,
       S!ExitStages, S!StopStages, S!Messages, S!RuntimeStates, S!HookStates
  <1>2. S!WaysApart /\ S!LocksInside BY DEF S!WaysApart, S!LocksInside
  <1>3. S!DrainHolds /\ S!FreezeHolds BY DEF S!DrainHolds, S!FreezeHolds
  <1>4. S!TornDownInOrder /\ S!OnlyUnseen /\ S!SlotClaimedOnce
    BY DEF S!TornDownInOrder, S!OnlyUnseen, S!Inside, S!SlotClaimedOnce
  <1> QED BY <1>1, <1>2, <1>3, <1>4 DEF S!StopInv

\* The threads of the target keep the invariant: what is closed they do not pass, and what
\* is frozen does not move.  Freezing one more keeps it too.
LEMMA CallSteps ==
  ASSUME S!StopInv, NEW t \in Threads,
         S!Call(t) \/ S!PassesGate(t) \/ S!Wakes(t) \/ S!Notifies(t) \/ S!Leaves(t) \/
         S!Locks(t) \/ S!Unlocks(t) \/ S!Suspend(t)
  PROVE  S!StopInv'
  <1> USE DEF S!Free, S!Moves, S!TargetQuiet, S!CtlQuiet, S!Places, S!agent, S!runtime
  <1>1. CASE S!Call(t)
    <2>1. S!ThreadsTyped'
      BY <1>1 DEF S!Call, S!StopInv, S!TypeOK, S!ThreadsTyped
    <2>2. S!FlagsTyped'
      BY <1>1, Zenon DEF S!Call, S!StopInv, S!TypeOK, S!FlagsTyped
    <2>3. S!StagesTyped'
      BY <1>1 DEF S!Call, S!StopInv, S!TypeOK, S!StagesTyped
    <2>4. S!WaysApart'
      BY <1>1 DEF S!Call, S!StopInv, S!TypeOK, S!ThreadsTyped, S!StagesTyped, S!RuntimeStates,
         S!WaysApart
    <2>5. S!LocksInside'
      BY <1>1 DEF S!Call, S!StopInv, S!TypeOK, S!ThreadsTyped, S!StagesTyped, S!RuntimeStates,
         S!LocksInside
    <2>6. S!DrainHolds'
      BY <1>1 DEF S!Call, S!StopInv, S!TypeOK, S!ThreadsTyped, S!StagesTyped, S!RuntimeStates,
         S!DrainHolds, S!Quiesced, S!WaysApart, S!FreezeHolds, S!TornDownInOrder, S!Active
    <2>7. S!FreezeHolds'
      BY <1>1 DEF S!Call, S!StopInv, S!TypeOK, S!ThreadsTyped, S!StagesTyped, S!RuntimeStates,
         S!FreezeHolds, S!LocksInside, S!TornDownInOrder, S!WaysApart, S!DrainHolds, S!Quiesced,
         S!Turned, S!Active
    <2>8. S!TornDownInOrder'
      BY <1>1 DEF S!Call, S!StopInv, S!TypeOK, S!ThreadsTyped, S!StagesTyped, S!RuntimeStates,
         S!TornDownInOrder, S!WaysApart, S!DrainHolds, S!Quiesced
    <2>9. S!OnlyUnseen'
      BY <1>1 DEF S!Call, S!StopInv, S!TypeOK, S!ThreadsTyped, S!StagesTyped, S!RuntimeStates,
         S!OnlyUnseen, S!TornDownInOrder, S!WaysApart, S!FreezeHolds, S!Inside, S!Turned,
         S!Notify, S!Parked, S!Active
    <2>10. S!SlotClaimedOnce'
      BY <1>1 DEF S!Call, S!StopInv, S!TypeOK, S!ThreadsTyped, S!StagesTyped, S!RuntimeStates,
         S!SlotClaimedOnce, S!WaysApart
    <2> QED BY <2>1, <2>2, <2>3, <2>4, <2>5, <2>6, <2>7, <2>8, <2>9, <2>10 DEF S!StopInv, S!TypeOK
  <1>2. CASE S!PassesGate(t)
    <2>1. S!ThreadsTyped'
      BY <1>2 DEF S!PassesGate, S!StopInv, S!TypeOK, S!ThreadsTyped
    <2>2. S!FlagsTyped'
      BY <1>2, Zenon DEF S!PassesGate, S!StopInv, S!TypeOK, S!FlagsTyped
    <2>3. S!StagesTyped'
      BY <1>2 DEF S!PassesGate, S!StopInv, S!TypeOK, S!StagesTyped
    <2>4. S!WaysApart'
      BY <1>2 DEF S!PassesGate, S!StopInv, S!TypeOK, S!ThreadsTyped, S!StagesTyped,
         S!RuntimeStates, S!WaysApart
    <2>5. S!LocksInside'
      BY <1>2 DEF S!PassesGate, S!StopInv, S!TypeOK, S!ThreadsTyped, S!StagesTyped,
         S!RuntimeStates, S!LocksInside
    <2>6. S!DrainHolds'
      BY <1>2 DEF S!PassesGate, S!StopInv, S!TypeOK, S!ThreadsTyped, S!StagesTyped,
         S!RuntimeStates, S!DrainHolds, S!Quiesced, S!WaysApart, S!FreezeHolds, S!TornDownInOrder,
         S!Active
    <2>7. S!FreezeHolds'
      BY <1>2 DEF S!PassesGate, S!StopInv, S!TypeOK, S!ThreadsTyped, S!StagesTyped,
         S!RuntimeStates, S!FreezeHolds, S!LocksInside, S!TornDownInOrder, S!WaysApart,
         S!DrainHolds, S!Quiesced, S!Turned, S!Active
    <2>8. S!TornDownInOrder'
      BY <1>2 DEF S!PassesGate, S!StopInv, S!TypeOK, S!ThreadsTyped, S!StagesTyped,
         S!RuntimeStates, S!TornDownInOrder, S!WaysApart, S!DrainHolds, S!Quiesced
    <2>9. S!OnlyUnseen'
      BY <1>2 DEF S!PassesGate, S!StopInv, S!TypeOK, S!ThreadsTyped, S!StagesTyped,
         S!RuntimeStates, S!OnlyUnseen, S!TornDownInOrder, S!WaysApart, S!FreezeHolds, S!Inside,
         S!Turned, S!Notify, S!Parked, S!Active
    <2>10. S!SlotClaimedOnce'
      BY <1>2 DEF S!PassesGate, S!StopInv, S!TypeOK, S!ThreadsTyped, S!StagesTyped,
         S!RuntimeStates, S!SlotClaimedOnce, S!WaysApart
    <2> QED BY <2>1, <2>2, <2>3, <2>4, <2>5, <2>6, <2>7, <2>8, <2>9, <2>10 DEF S!StopInv, S!TypeOK
  <1>3. CASE S!Wakes(t)
    <2>1. S!ThreadsTyped'
      BY <1>3 DEF S!Wakes, S!StopInv, S!TypeOK, S!ThreadsTyped, S!Parked
    <2>2. S!FlagsTyped'
      BY <1>3, Zenon DEF S!Wakes, S!StopInv, S!TypeOK, S!FlagsTyped
    <2>3. S!StagesTyped'
      BY <1>3 DEF S!Wakes, S!StopInv, S!TypeOK, S!StagesTyped
    <2>4. S!WaysApart'
      BY <1>3 DEF S!Wakes, S!StopInv, S!TypeOK, S!ThreadsTyped, S!StagesTyped, S!RuntimeStates,
         S!WaysApart
    <2>5. S!LocksInside'
      BY <1>3 DEF S!Wakes, S!StopInv, S!TypeOK, S!ThreadsTyped, S!StagesTyped, S!RuntimeStates,
         S!LocksInside, S!Parked
    <2>6. S!DrainHolds'
      BY <1>3 DEF S!Wakes, S!StopInv, S!TypeOK, S!ThreadsTyped, S!StagesTyped, S!RuntimeStates,
         S!DrainHolds, S!Quiesced, S!WaysApart, S!FreezeHolds, S!TornDownInOrder, S!Active,
         S!Parked
    <2>7. S!FreezeHolds'
      BY <1>3 DEF S!Wakes, S!StopInv, S!TypeOK, S!ThreadsTyped, S!StagesTyped, S!RuntimeStates,
         S!FreezeHolds, S!LocksInside, S!TornDownInOrder, S!WaysApart, S!DrainHolds, S!Quiesced,
         S!Turned, S!Active, S!Parked
    <2>8. S!TornDownInOrder'
      BY <1>3 DEF S!Wakes, S!StopInv, S!TypeOK, S!ThreadsTyped, S!StagesTyped, S!RuntimeStates,
         S!TornDownInOrder, S!WaysApart, S!DrainHolds, S!Quiesced
    <2>9. S!OnlyUnseen'
      BY <1>3 DEF S!Wakes, S!StopInv, S!TypeOK, S!ThreadsTyped, S!StagesTyped, S!RuntimeStates,
         S!OnlyUnseen, S!TornDownInOrder, S!WaysApart, S!FreezeHolds, S!Inside, S!Turned,
         S!Notify, S!Parked, S!Active
    <2>10. S!SlotClaimedOnce'
      BY <1>3 DEF S!Wakes, S!StopInv, S!TypeOK, S!ThreadsTyped, S!StagesTyped, S!RuntimeStates,
         S!SlotClaimedOnce, S!WaysApart
    <2> QED BY <2>1, <2>2, <2>3, <2>4, <2>5, <2>6, <2>7, <2>8, <2>9, <2>10 DEF S!StopInv, S!TypeOK
  <1>4. CASE S!Notifies(t)
    <2>1. S!ThreadsTyped'
      BY <1>4 DEF S!Notifies, S!StopInv, S!TypeOK, S!ThreadsTyped, S!Turned
    <2>2. S!FlagsTyped'
      BY <1>4, Zenon DEF S!Notifies, S!StopInv, S!TypeOK, S!FlagsTyped
    <2>3. S!StagesTyped'
      BY <1>4 DEF S!Notifies, S!StopInv, S!TypeOK, S!StagesTyped
    <2>4. S!WaysApart'
      BY <1>4 DEF S!Notifies, S!StopInv, S!TypeOK, S!ThreadsTyped, S!StagesTyped, S!RuntimeStates,
         S!WaysApart
    <2>5. S!LocksInside'
      BY <1>4 DEF S!Notifies, S!StopInv, S!TypeOK, S!ThreadsTyped, S!StagesTyped, S!RuntimeStates,
         S!LocksInside, S!Turned
    <2>6. S!DrainHolds'
      BY <1>4 DEF S!Notifies, S!StopInv, S!TypeOK, S!ThreadsTyped, S!StagesTyped, S!RuntimeStates,
         S!DrainHolds, S!Quiesced, S!WaysApart, S!FreezeHolds, S!TornDownInOrder, S!Active,
         S!Turned
    <2>7. S!FreezeHolds'
      BY <1>4 DEF S!Notifies, S!StopInv, S!TypeOK, S!ThreadsTyped, S!StagesTyped, S!RuntimeStates,
         S!FreezeHolds, S!LocksInside, S!TornDownInOrder, S!WaysApart, S!DrainHolds, S!Quiesced,
         S!Turned, S!Active
    <2>8. S!TornDownInOrder'
      BY <1>4 DEF S!Notifies, S!StopInv, S!TypeOK, S!ThreadsTyped, S!StagesTyped, S!RuntimeStates,
         S!TornDownInOrder, S!WaysApart, S!DrainHolds, S!Quiesced
    <2>9. S!OnlyUnseen'
      BY <1>4 DEF S!Notifies, S!StopInv, S!TypeOK, S!ThreadsTyped, S!StagesTyped, S!RuntimeStates,
         S!OnlyUnseen, S!TornDownInOrder, S!WaysApart, S!FreezeHolds, S!Inside, S!Turned,
         S!Notify, S!Parked, S!Active
    <2>10. S!SlotClaimedOnce'
      BY <1>4 DEF S!Notifies, S!StopInv, S!TypeOK, S!ThreadsTyped, S!StagesTyped, S!RuntimeStates,
         S!SlotClaimedOnce, S!WaysApart
    <2> QED BY <2>1, <2>2, <2>3, <2>4, <2>5, <2>6, <2>7, <2>8, <2>9, <2>10 DEF S!StopInv, S!TypeOK
  <1>5. CASE S!Leaves(t)
    <2>1. S!ThreadsTyped'
      BY <1>5 DEF S!Leaves, S!StopInv, S!TypeOK, S!ThreadsTyped, S!Active
    <2>2. S!FlagsTyped'
      BY <1>5, Zenon DEF S!Leaves, S!StopInv, S!TypeOK, S!FlagsTyped
    <2>3. S!StagesTyped'
      BY <1>5 DEF S!Leaves, S!StopInv, S!TypeOK, S!StagesTyped
    <2>4. S!WaysApart'
      BY <1>5 DEF S!Leaves, S!StopInv, S!TypeOK, S!ThreadsTyped, S!StagesTyped, S!RuntimeStates,
         S!WaysApart
    <2>5. S!LocksInside'
      BY <1>5 DEF S!Leaves, S!StopInv, S!TypeOK, S!ThreadsTyped, S!StagesTyped, S!RuntimeStates,
         S!LocksInside, S!Active
    <2>6. S!DrainHolds'
      BY <1>5 DEF S!Leaves, S!StopInv, S!TypeOK, S!ThreadsTyped, S!StagesTyped, S!RuntimeStates,
         S!DrainHolds, S!Quiesced, S!WaysApart, S!FreezeHolds, S!TornDownInOrder, S!Active
    <2>7. S!FreezeHolds'
      BY <1>5 DEF S!Leaves, S!StopInv, S!TypeOK, S!ThreadsTyped, S!StagesTyped, S!RuntimeStates,
         S!FreezeHolds, S!LocksInside, S!TornDownInOrder, S!WaysApart, S!DrainHolds, S!Quiesced,
         S!Turned, S!Active
    <2>8. S!TornDownInOrder'
      BY <1>5 DEF S!Leaves, S!StopInv, S!TypeOK, S!ThreadsTyped, S!StagesTyped, S!RuntimeStates,
         S!TornDownInOrder, S!WaysApart, S!DrainHolds, S!Quiesced
    <2>9. S!OnlyUnseen'
      BY <1>5 DEF S!Leaves, S!StopInv, S!TypeOK, S!ThreadsTyped, S!StagesTyped, S!RuntimeStates,
         S!OnlyUnseen, S!TornDownInOrder, S!WaysApart, S!FreezeHolds, S!Inside, S!Turned,
         S!Notify, S!Parked, S!Active
    <2>10. S!SlotClaimedOnce'
      BY <1>5 DEF S!Leaves, S!StopInv, S!TypeOK, S!ThreadsTyped, S!StagesTyped, S!RuntimeStates,
         S!SlotClaimedOnce, S!WaysApart
    <2> QED BY <2>1, <2>2, <2>3, <2>4, <2>5, <2>6, <2>7, <2>8, <2>9, <2>10 DEF S!StopInv, S!TypeOK
  <1>6. CASE S!Locks(t)
    <2>1. S!ThreadsTyped'
      BY <1>6 DEF S!Locks, S!StopInv, S!TypeOK, S!ThreadsTyped, S!Active
    <2>2. S!FlagsTyped'
      BY <1>6, Zenon DEF S!Locks, S!StopInv, S!TypeOK, S!FlagsTyped
    <2>3. S!StagesTyped'
      BY <1>6 DEF S!Locks, S!StopInv, S!TypeOK, S!StagesTyped
    <2>4. S!WaysApart'
      BY <1>6 DEF S!Locks, S!StopInv, S!TypeOK, S!ThreadsTyped, S!StagesTyped, S!RuntimeStates,
         S!WaysApart
    <2>5. S!LocksInside'
      BY <1>6 DEF S!Locks, S!StopInv, S!TypeOK, S!ThreadsTyped, S!StagesTyped, S!RuntimeStates,
         S!LocksInside, S!Active
    <2>6. S!DrainHolds'
      BY <1>6 DEF S!Locks, S!StopInv, S!TypeOK, S!ThreadsTyped, S!StagesTyped, S!RuntimeStates,
         S!DrainHolds, S!Quiesced, S!WaysApart, S!FreezeHolds, S!TornDownInOrder, S!Active
    <2>7. S!FreezeHolds'
      BY <1>6 DEF S!Locks, S!StopInv, S!TypeOK, S!ThreadsTyped, S!StagesTyped, S!RuntimeStates,
         S!FreezeHolds, S!LocksInside, S!TornDownInOrder, S!WaysApart, S!DrainHolds, S!Quiesced,
         S!Turned, S!Active
    <2>8. S!TornDownInOrder'
      BY <1>6 DEF S!Locks, S!StopInv, S!TypeOK, S!ThreadsTyped, S!StagesTyped, S!RuntimeStates,
         S!TornDownInOrder, S!WaysApart, S!DrainHolds, S!Quiesced
    <2>9. S!OnlyUnseen'
      BY <1>6 DEF S!Locks, S!StopInv, S!TypeOK, S!ThreadsTyped, S!StagesTyped, S!RuntimeStates,
         S!OnlyUnseen, S!TornDownInOrder, S!WaysApart, S!FreezeHolds, S!Inside, S!Turned,
         S!Notify, S!Parked, S!Active
    <2>10. S!SlotClaimedOnce'
      BY <1>6 DEF S!Locks, S!StopInv, S!TypeOK, S!ThreadsTyped, S!StagesTyped, S!RuntimeStates,
         S!SlotClaimedOnce, S!WaysApart
    <2> QED BY <2>1, <2>2, <2>3, <2>4, <2>5, <2>6, <2>7, <2>8, <2>9, <2>10 DEF S!StopInv, S!TypeOK
  <1>7. CASE S!Unlocks(t)
    <2>1. S!ThreadsTyped'
      BY <1>7 DEF S!Unlocks, S!StopInv, S!TypeOK, S!ThreadsTyped
    <2>2. S!FlagsTyped'
      BY <1>7, Zenon DEF S!Unlocks, S!StopInv, S!TypeOK, S!FlagsTyped
    <2>3. S!StagesTyped'
      BY <1>7 DEF S!Unlocks, S!StopInv, S!TypeOK, S!StagesTyped
    <2>4. S!WaysApart'
      BY <1>7 DEF S!Unlocks, S!StopInv, S!TypeOK, S!ThreadsTyped, S!StagesTyped, S!RuntimeStates,
         S!WaysApart
    <2>5. S!LocksInside'
      BY <1>7 DEF S!Unlocks, S!StopInv, S!TypeOK, S!ThreadsTyped, S!StagesTyped, S!RuntimeStates,
         S!LocksInside
    <2>6. S!DrainHolds'
      BY <1>7 DEF S!Unlocks, S!StopInv, S!TypeOK, S!ThreadsTyped, S!StagesTyped, S!RuntimeStates,
         S!DrainHolds, S!Quiesced, S!WaysApart, S!FreezeHolds, S!TornDownInOrder, S!Active
    <2>7. S!FreezeHolds'
      BY <1>7 DEF S!Unlocks, S!StopInv, S!TypeOK, S!ThreadsTyped, S!StagesTyped, S!RuntimeStates,
         S!FreezeHolds, S!LocksInside, S!TornDownInOrder, S!WaysApart, S!DrainHolds, S!Quiesced,
         S!Turned, S!Active
    <2>8. S!TornDownInOrder'
      BY <1>7 DEF S!Unlocks, S!StopInv, S!TypeOK, S!ThreadsTyped, S!StagesTyped, S!RuntimeStates,
         S!TornDownInOrder, S!WaysApart, S!DrainHolds, S!Quiesced
    <2>9. S!OnlyUnseen'
      BY <1>7 DEF S!Unlocks, S!StopInv, S!TypeOK, S!ThreadsTyped, S!StagesTyped, S!RuntimeStates,
         S!OnlyUnseen, S!TornDownInOrder, S!WaysApart, S!FreezeHolds, S!Inside, S!Turned,
         S!Notify, S!Parked, S!Active
    <2>10. S!SlotClaimedOnce'
      BY <1>7 DEF S!Unlocks, S!StopInv, S!TypeOK, S!ThreadsTyped, S!StagesTyped, S!RuntimeStates,
         S!SlotClaimedOnce, S!WaysApart
    <2> QED BY <2>1, <2>2, <2>3, <2>4, <2>5, <2>6, <2>7, <2>8, <2>9, <2>10 DEF S!StopInv, S!TypeOK
  <1>8. CASE S!Suspend(t)
    <2>1. S!ThreadsTyped'
      BY <1>8 DEF S!Suspend, S!StopInv, S!TypeOK, S!ThreadsTyped
    <2>2. S!FlagsTyped'
      BY <1>8, Zenon DEF S!Suspend, S!StopInv, S!TypeOK, S!FlagsTyped
    <2>3. S!StagesTyped'
      BY <1>8 DEF S!Suspend, S!StopInv, S!TypeOK, S!StagesTyped
    <2>4. S!WaysApart'
      BY <1>8 DEF S!Suspend, S!StopInv, S!TypeOK, S!ThreadsTyped, S!StagesTyped, S!RuntimeStates,
         S!WaysApart
    <2>5. S!LocksInside'
      BY <1>8 DEF S!Suspend, S!StopInv, S!TypeOK, S!ThreadsTyped, S!StagesTyped, S!RuntimeStates,
         S!LocksInside
    <2>6. S!DrainHolds'
      BY <1>8 DEF S!Suspend, S!StopInv, S!TypeOK, S!ThreadsTyped, S!StagesTyped, S!RuntimeStates,
         S!DrainHolds, S!Quiesced, S!WaysApart, S!FreezeHolds, S!TornDownInOrder, S!Active
    <2>7. S!FreezeHolds'
      BY <1>8 DEF S!Suspend, S!StopInv, S!TypeOK, S!ThreadsTyped, S!StagesTyped, S!RuntimeStates,
         S!FreezeHolds, S!LocksInside, S!TornDownInOrder, S!WaysApart, S!DrainHolds, S!Quiesced,
         S!Turned, S!Active
    <2>8. S!TornDownInOrder'
      BY <1>8 DEF S!Suspend, S!StopInv, S!TypeOK, S!ThreadsTyped, S!StagesTyped, S!RuntimeStates,
         S!TornDownInOrder, S!WaysApart, S!DrainHolds, S!Quiesced
    <2>9. S!OnlyUnseen'
      BY <1>8 DEF S!Suspend, S!StopInv, S!TypeOK, S!ThreadsTyped, S!StagesTyped, S!RuntimeStates,
         S!OnlyUnseen, S!TornDownInOrder, S!WaysApart, S!FreezeHolds, S!Inside, S!Turned,
         S!Notify, S!Parked, S!Active
    <2>10. S!SlotClaimedOnce'
      BY <1>8 DEF S!Suspend, S!StopInv, S!TypeOK, S!ThreadsTyped, S!StagesTyped, S!RuntimeStates,
         S!SlotClaimedOnce, S!WaysApart
    <2> QED BY <2>1, <2>2, <2>3, <2>4, <2>5, <2>6, <2>7, <2>8, <2>9, <2>10 DEF S!StopInv, S!TypeOK
  <1> QED BY <1>1, <1>2, <1>3, <1>4, <1>5, <1>6, <1>7, <1>8

\* So does the first closing of the gate, by the worker or by the exiting thread,
LEMMA GateSteps ==
  ASSUME S!StopInv, NEW a \in {"w", "x"},
         S!CloseGate(a) \/ S!GateQuiet(a) \/ S!GateTimesOut(a) \/ S!StopRecording(a) \/
         S!FinishWriter(a) \/ S!FinishThrows(a) \/ S!GracefulThrew(a)
  PROVE  S!StopInv'
  <1> USE DEF S!At, S!Step, S!Works, S!RunQuiet, S!TearQuiet, S!target
  <1>1. CASE S!CloseGate(a)
    <2>1. S!ThreadsTyped'
      BY <1>1 DEF S!CloseGate, S!StopInv, S!TypeOK, S!ThreadsTyped, S!Places
    <2>2. S!FlagsTyped'
      BY <1>1, Zenon DEF S!CloseGate, S!StopInv, S!TypeOK, S!FlagsTyped
    <2>3. S!StagesTyped'
      BY <1>1 DEF S!CloseGate, S!StopInv, S!TypeOK, S!StagesTyped, S!WorkerStages, S!ExitStages
    <2>4. S!WaysApart'
      BY <1>1 DEF S!CloseGate, S!StopInv, S!TypeOK, S!ThreadsTyped, S!StagesTyped,
         S!RuntimeStates, S!WaysApart
    <2>5. S!LocksInside'
      BY <1>1 DEF S!CloseGate, S!StopInv, S!TypeOK, S!ThreadsTyped, S!StagesTyped,
         S!RuntimeStates, S!LocksInside
    <2>6. S!DrainHolds'
      BY <1>1 DEF S!CloseGate, S!StopInv, S!TypeOK, S!ThreadsTyped, S!StagesTyped,
         S!RuntimeStates, S!DrainHolds, S!Quiesced, S!WaysApart, S!FreezeHolds, S!TornDownInOrder,
         S!Active
    <2>7. S!FreezeHolds'
      BY <1>1 DEF S!CloseGate, S!StopInv, S!TypeOK, S!ThreadsTyped, S!StagesTyped,
         S!RuntimeStates, S!FreezeHolds, S!LocksInside, S!TornDownInOrder, S!WaysApart,
         S!DrainHolds, S!Quiesced, S!Turned, S!Active
    <2>8. S!TornDownInOrder'
      BY <1>1 DEF S!CloseGate, S!StopInv, S!TypeOK, S!ThreadsTyped, S!StagesTyped,
         S!RuntimeStates, S!TornDownInOrder, S!WaysApart, S!DrainHolds, S!Quiesced
    <2>9. S!OnlyUnseen'
      BY <1>1 DEF S!CloseGate, S!StopInv, S!TypeOK, S!ThreadsTyped, S!StagesTyped,
         S!RuntimeStates, S!OnlyUnseen, S!TornDownInOrder, S!WaysApart, S!FreezeHolds, S!Inside,
         S!Turned, S!Notify, S!Parked, S!Active
    <2>10. S!SlotClaimedOnce'
      BY <1>1 DEF S!CloseGate, S!StopInv, S!TypeOK, S!ThreadsTyped, S!StagesTyped,
         S!RuntimeStates, S!SlotClaimedOnce, S!WaysApart
    <2> QED BY <2>1, <2>2, <2>3, <2>4, <2>5, <2>6, <2>7, <2>8, <2>9, <2>10 DEF S!StopInv, S!TypeOK
  <1>2. CASE S!GateQuiet(a)
    <2>1. S!ThreadsTyped'
      BY <1>2 DEF S!GateQuiet, S!StopInv, S!TypeOK, S!ThreadsTyped, S!Active, S!Places
    <2>2. S!FlagsTyped'
      BY <1>2, Zenon DEF S!GateQuiet, S!StopInv, S!TypeOK, S!FlagsTyped
    <2>3. S!StagesTyped'
      BY <1>2 DEF S!GateQuiet, S!StopInv, S!TypeOK, S!StagesTyped, S!WorkerStages, S!ExitStages
    <2>4. S!WaysApart'
      BY <1>2 DEF S!GateQuiet, S!StopInv, S!TypeOK, S!ThreadsTyped, S!StagesTyped,
         S!RuntimeStates, S!WaysApart
    <2>5. S!LocksInside'
      BY <1>2 DEF S!GateQuiet, S!StopInv, S!TypeOK, S!ThreadsTyped, S!StagesTyped,
         S!RuntimeStates, S!LocksInside, S!Active
    <2>6. S!DrainHolds'
      BY <1>2 DEF S!GateQuiet, S!StopInv, S!TypeOK, S!ThreadsTyped, S!StagesTyped,
         S!RuntimeStates, S!DrainHolds, S!Quiesced, S!WaysApart, S!FreezeHolds, S!TornDownInOrder,
         S!Active
    <2>7. S!FreezeHolds'
      BY <1>2 DEF S!GateQuiet, S!StopInv, S!TypeOK, S!ThreadsTyped, S!StagesTyped,
         S!RuntimeStates, S!FreezeHolds, S!LocksInside, S!TornDownInOrder, S!WaysApart,
         S!DrainHolds, S!Quiesced, S!Turned, S!Active
    <2>8. S!TornDownInOrder'
      BY <1>2 DEF S!GateQuiet, S!StopInv, S!TypeOK, S!ThreadsTyped, S!StagesTyped,
         S!RuntimeStates, S!TornDownInOrder, S!WaysApart, S!DrainHolds, S!Quiesced
    <2>9. S!OnlyUnseen'
      BY <1>2 DEF S!GateQuiet, S!StopInv, S!TypeOK, S!ThreadsTyped, S!StagesTyped,
         S!RuntimeStates, S!OnlyUnseen, S!TornDownInOrder, S!WaysApart, S!FreezeHolds, S!Inside,
         S!Turned, S!Notify, S!Parked, S!Active
    <2>10. S!SlotClaimedOnce'
      BY <1>2 DEF S!GateQuiet, S!StopInv, S!TypeOK, S!ThreadsTyped, S!StagesTyped,
         S!RuntimeStates, S!SlotClaimedOnce, S!WaysApart
    <2> QED BY <2>1, <2>2, <2>3, <2>4, <2>5, <2>6, <2>7, <2>8, <2>9, <2>10 DEF S!StopInv, S!TypeOK
  <1>3. CASE S!GateTimesOut(a)
    <2>1. S!ThreadsTyped'
      BY <1>3 DEF S!GateTimesOut, S!StopInv, S!TypeOK, S!ThreadsTyped, S!Active, S!Places
    <2>2. S!FlagsTyped'
      BY <1>3, Zenon DEF S!GateTimesOut, S!StopInv, S!TypeOK, S!FlagsTyped
    <2>3. S!StagesTyped'
      BY <1>3 DEF S!GateTimesOut, S!StopInv, S!TypeOK, S!StagesTyped, S!WorkerStages, S!ExitStages
    <2>4. S!WaysApart'
      BY <1>3 DEF S!GateTimesOut, S!StopInv, S!TypeOK, S!ThreadsTyped, S!StagesTyped,
         S!RuntimeStates, S!WaysApart
    <2>5. S!LocksInside'
      BY <1>3 DEF S!GateTimesOut, S!StopInv, S!TypeOK, S!ThreadsTyped, S!StagesTyped,
         S!RuntimeStates, S!LocksInside, S!Active
    <2>6. S!DrainHolds'
      BY <1>3 DEF S!GateTimesOut, S!StopInv, S!TypeOK, S!ThreadsTyped, S!StagesTyped,
         S!RuntimeStates, S!DrainHolds, S!Quiesced, S!WaysApart, S!FreezeHolds, S!TornDownInOrder,
         S!Active
    <2>7. S!FreezeHolds'
      BY <1>3 DEF S!GateTimesOut, S!StopInv, S!TypeOK, S!ThreadsTyped, S!StagesTyped,
         S!RuntimeStates, S!FreezeHolds, S!LocksInside, S!TornDownInOrder, S!WaysApart,
         S!DrainHolds, S!Quiesced, S!Turned, S!Active
    <2>8. S!TornDownInOrder'
      BY <1>3 DEF S!GateTimesOut, S!StopInv, S!TypeOK, S!ThreadsTyped, S!StagesTyped,
         S!RuntimeStates, S!TornDownInOrder, S!WaysApart, S!DrainHolds, S!Quiesced
    <2>9. S!OnlyUnseen'
      BY <1>3 DEF S!GateTimesOut, S!StopInv, S!TypeOK, S!ThreadsTyped, S!StagesTyped,
         S!RuntimeStates, S!OnlyUnseen, S!TornDownInOrder, S!WaysApart, S!FreezeHolds, S!Inside,
         S!Turned, S!Notify, S!Parked, S!Active
    <2>10. S!SlotClaimedOnce'
      BY <1>3 DEF S!GateTimesOut, S!StopInv, S!TypeOK, S!ThreadsTyped, S!StagesTyped,
         S!RuntimeStates, S!SlotClaimedOnce, S!WaysApart
    <2> QED BY <2>1, <2>2, <2>3, <2>4, <2>5, <2>6, <2>7, <2>8, <2>9, <2>10 DEF S!StopInv, S!TypeOK
  <1>4. CASE S!StopRecording(a)
    <2>1. S!ThreadsTyped'
      BY <1>4 DEF S!StopRecording, S!StopInv, S!TypeOK, S!ThreadsTyped, S!Places
    <2>2. S!FlagsTyped'
      BY <1>4, Zenon DEF S!StopRecording, S!StopInv, S!TypeOK, S!FlagsTyped
    <2>3. S!StagesTyped'
      BY <1>4 DEF S!StopRecording, S!StopInv, S!TypeOK, S!StagesTyped, S!WorkerStages,
         S!ExitStages
    <2>4. S!WaysApart'
      BY <1>4 DEF S!StopRecording, S!StopInv, S!TypeOK, S!ThreadsTyped, S!StagesTyped,
         S!RuntimeStates, S!WaysApart
    <2>5. S!LocksInside'
      BY <1>4 DEF S!StopRecording, S!StopInv, S!TypeOK, S!ThreadsTyped, S!StagesTyped,
         S!RuntimeStates, S!LocksInside
    <2>6. S!DrainHolds'
      BY <1>4 DEF S!StopRecording, S!StopInv, S!TypeOK, S!ThreadsTyped, S!StagesTyped,
         S!RuntimeStates, S!DrainHolds, S!Quiesced, S!WaysApart, S!FreezeHolds, S!TornDownInOrder,
         S!Active
    <2>7. S!FreezeHolds'
      BY <1>4 DEF S!StopRecording, S!StopInv, S!TypeOK, S!ThreadsTyped, S!StagesTyped,
         S!RuntimeStates, S!FreezeHolds, S!LocksInside, S!TornDownInOrder, S!WaysApart,
         S!DrainHolds, S!Quiesced, S!Turned, S!Active
    <2>8. S!TornDownInOrder'
      BY <1>4 DEF S!StopRecording, S!StopInv, S!TypeOK, S!ThreadsTyped, S!StagesTyped,
         S!RuntimeStates, S!TornDownInOrder, S!WaysApart, S!DrainHolds, S!Quiesced
    <2>9. S!OnlyUnseen'
      BY <1>4 DEF S!StopRecording, S!StopInv, S!TypeOK, S!ThreadsTyped, S!StagesTyped,
         S!RuntimeStates, S!OnlyUnseen, S!TornDownInOrder, S!WaysApart, S!FreezeHolds, S!Inside,
         S!Turned, S!Notify, S!Parked, S!Active
    <2>10. S!SlotClaimedOnce'
      BY <1>4 DEF S!StopRecording, S!StopInv, S!TypeOK, S!ThreadsTyped, S!StagesTyped,
         S!RuntimeStates, S!SlotClaimedOnce, S!WaysApart
    <2> QED BY <2>1, <2>2, <2>3, <2>4, <2>5, <2>6, <2>7, <2>8, <2>9, <2>10 DEF S!StopInv, S!TypeOK
  <1>5. CASE S!FinishWriter(a)
    <2>1. S!ThreadsTyped'
      BY <1>5 DEF S!FinishWriter, S!StopInv, S!TypeOK, S!ThreadsTyped, S!Places
    <2>2. S!FlagsTyped'
      BY <1>5, Zenon DEF S!FinishWriter, S!StopInv, S!TypeOK, S!FlagsTyped
    <2>3. S!StagesTyped'
      <3>1. CASE way = "session"
        BY <1>5, <3>1 DEF S!FinishWriter, S!StopInv, S!TypeOK, S!StagesTyped, S!WorkerStages,
           S!WaysApart
      <3>2. CASE way # "session" /\ a = "w"
        BY <1>5, <3>2 DEF S!FinishWriter, S!StopInv, S!TypeOK, S!StagesTyped, S!WorkerStages,
           S!RuntimeStates
      <3>3. CASE way # "session" /\ a = "x"
        BY <1>5, <3>3 DEF S!FinishWriter, S!StopInv, S!TypeOK, S!StagesTyped, S!ExitStages,
           S!RuntimeStates
      <3> QED BY <3>1, <3>2, <3>3
    <2>4. S!WaysApart'
      BY <1>5 DEF S!FinishWriter, S!StopInv, S!TypeOK, S!ThreadsTyped, S!StagesTyped,
         S!RuntimeStates, S!WaysApart
    <2>5. S!LocksInside'
      BY <1>5 DEF S!FinishWriter, S!StopInv, S!TypeOK, S!ThreadsTyped, S!StagesTyped,
         S!RuntimeStates, S!LocksInside
    <2>6. S!DrainHolds'
      BY <1>5 DEF S!FinishWriter, S!StopInv, S!TypeOK, S!ThreadsTyped, S!StagesTyped,
         S!RuntimeStates, S!DrainHolds, S!Quiesced, S!WaysApart, S!FreezeHolds, S!TornDownInOrder,
         S!Active
    <2>7. S!FreezeHolds'
      BY <1>5 DEF S!FinishWriter, S!StopInv, S!TypeOK, S!ThreadsTyped, S!StagesTyped,
         S!RuntimeStates, S!FreezeHolds, S!LocksInside, S!TornDownInOrder, S!WaysApart,
         S!DrainHolds, S!Quiesced, S!Turned, S!Active
    <2>8. S!TornDownInOrder'
      BY <1>5 DEF S!FinishWriter, S!StopInv, S!TypeOK, S!ThreadsTyped, S!StagesTyped,
         S!RuntimeStates, S!TornDownInOrder, S!WaysApart, S!DrainHolds, S!Quiesced
    <2>9. S!OnlyUnseen'
      BY <1>5 DEF S!FinishWriter, S!StopInv, S!TypeOK, S!ThreadsTyped, S!StagesTyped,
         S!RuntimeStates, S!OnlyUnseen, S!TornDownInOrder, S!WaysApart, S!FreezeHolds, S!Inside,
         S!Turned, S!Notify, S!Parked, S!Active
    <2>10. S!SlotClaimedOnce'
      BY <1>5 DEF S!FinishWriter, S!StopInv, S!TypeOK, S!ThreadsTyped, S!StagesTyped,
         S!RuntimeStates, S!SlotClaimedOnce, S!WaysApart
    <2> QED BY <2>1, <2>2, <2>3, <2>4, <2>5, <2>6, <2>7, <2>8, <2>9, <2>10 DEF S!StopInv, S!TypeOK
  <1>6. CASE S!FinishThrows(a)
    <2>1. S!ThreadsTyped'
      BY <1>6 DEF S!FinishThrows, S!StopInv, S!TypeOK, S!ThreadsTyped, S!Places
    <2>2. S!FlagsTyped'
      BY <1>6, Zenon DEF S!FinishThrows, S!StopInv, S!TypeOK, S!FlagsTyped
    <2>3. S!StagesTyped'
      BY <1>6 DEF S!FinishThrows, S!StopInv, S!TypeOK, S!StagesTyped, S!WorkerStages,
         S!ExitStages, S!WaysApart
    <2>4. S!WaysApart'
      BY <1>6 DEF S!FinishThrows, S!StopInv, S!TypeOK, S!ThreadsTyped, S!StagesTyped,
         S!RuntimeStates, S!WaysApart
    <2>5. S!LocksInside'
      BY <1>6 DEF S!FinishThrows, S!StopInv, S!TypeOK, S!ThreadsTyped, S!StagesTyped,
         S!RuntimeStates, S!LocksInside
    <2>6. S!DrainHolds'
      BY <1>6 DEF S!FinishThrows, S!StopInv, S!TypeOK, S!ThreadsTyped, S!StagesTyped,
         S!RuntimeStates, S!DrainHolds, S!Quiesced, S!WaysApart, S!FreezeHolds, S!TornDownInOrder,
         S!Active
    <2>7. S!FreezeHolds'
      BY <1>6 DEF S!FinishThrows, S!StopInv, S!TypeOK, S!ThreadsTyped, S!StagesTyped,
         S!RuntimeStates, S!FreezeHolds, S!LocksInside, S!TornDownInOrder, S!WaysApart,
         S!DrainHolds, S!Quiesced, S!Turned, S!Active
    <2>8. S!TornDownInOrder'
      BY <1>6 DEF S!FinishThrows, S!StopInv, S!TypeOK, S!ThreadsTyped, S!StagesTyped,
         S!RuntimeStates, S!TornDownInOrder, S!WaysApart, S!DrainHolds, S!Quiesced
    <2>9. S!OnlyUnseen'
      BY <1>6 DEF S!FinishThrows, S!StopInv, S!TypeOK, S!ThreadsTyped, S!StagesTyped,
         S!RuntimeStates, S!OnlyUnseen, S!TornDownInOrder, S!WaysApart, S!FreezeHolds, S!Inside,
         S!Turned, S!Notify, S!Parked, S!Active
    <2>10. S!SlotClaimedOnce'
      BY <1>6 DEF S!FinishThrows, S!StopInv, S!TypeOK, S!ThreadsTyped, S!StagesTyped,
         S!RuntimeStates, S!SlotClaimedOnce, S!WaysApart
    <2> QED BY <2>1, <2>2, <2>3, <2>4, <2>5, <2>6, <2>7, <2>8, <2>9, <2>10 DEF S!StopInv, S!TypeOK
  <1>7. CASE S!GracefulThrew(a)
    <2>1. S!ThreadsTyped'
      BY <1>7 DEF S!GracefulThrew, S!DestroyHooks, S!Keeps, S!StopInv, S!TypeOK, S!ThreadsTyped,
         S!Turned, S!Notify, S!Parked, S!Active, S!Places
    <2>2. S!FlagsTyped'
      BY <1>7, Zenon DEF S!GracefulThrew, S!DestroyHooks, S!Keeps, S!StopInv, S!TypeOK,
         S!FlagsTyped
    <2>3. S!StagesTyped'
      BY <1>7 DEF S!GracefulThrew, S!DestroyHooks, S!Keeps, S!StopInv, S!TypeOK, S!StagesTyped,
         S!WorkerStages, S!ExitStages, S!HookStates
    <2>4. S!WaysApart'
      BY <1>7 DEF S!GracefulThrew, S!DestroyHooks, S!Keeps, S!StopInv, S!TypeOK, S!ThreadsTyped,
         S!StagesTyped, S!RuntimeStates, S!WaysApart
    <2>5. S!LocksInside'
      BY <1>7 DEF S!GracefulThrew, S!DestroyHooks, S!Keeps, S!StopInv, S!TypeOK, S!ThreadsTyped,
         S!StagesTyped, S!RuntimeStates, S!LocksInside, S!Turned, S!Notify, S!Parked, S!Active
    <2>6. S!DrainHolds'
      BY <1>7 DEF S!GracefulThrew, S!DestroyHooks, S!Keeps, S!StopInv, S!TypeOK, S!ThreadsTyped,
         S!StagesTyped, S!RuntimeStates, S!DrainHolds, S!Quiesced, S!WaysApart, S!FreezeHolds,
         S!TornDownInOrder, S!Active, S!Turned, S!Notify, S!Parked
    <2>7. S!FreezeHolds'
      BY <1>7 DEF S!GracefulThrew, S!DestroyHooks, S!Keeps, S!StopInv, S!TypeOK, S!ThreadsTyped,
         S!StagesTyped, S!RuntimeStates, S!FreezeHolds, S!LocksInside, S!TornDownInOrder,
         S!WaysApart, S!DrainHolds, S!Quiesced, S!Turned, S!Active, S!Notify, S!Parked
    <2>8. S!TornDownInOrder'
      BY <1>7 DEF S!GracefulThrew, S!DestroyHooks, S!Keeps, S!StopInv, S!TypeOK, S!ThreadsTyped,
         S!StagesTyped, S!RuntimeStates, S!TornDownInOrder, S!WaysApart, S!DrainHolds, S!Quiesced
    <2>9. S!OnlyUnseen'
      <3>1. /\ mapped' = mapped /\ c = "none" /\ c' = c
            /\ a = "w" => hooks = "live" /\ mapped /\ unseen = {}
        BY <1>7 DEF S!GracefulThrew, S!StopInv, S!TypeOK, S!StagesTyped, S!TornDownInOrder,
           S!OnlyUnseen, S!WaysApart
      <3>2. S!Inside = S!Turned \cup S!Notify \cup S!Parked \cup S!Active
        BY DEF S!StopInv, S!TypeOK, S!ThreadsTyped, S!Places, S!Inside, S!Turned, S!Notify,
           S!Parked, S!Active
      <3>3. S!Inside' = S!Inside /\ S!Notify' = S!Notify BY <1>7 DEF S!GracefulThrew, S!Inside, S!Notify
      <3>4. CASE a = "x" BY <1>7, <3>1, <3>3, <3>4 DEF S!GracefulThrew, S!StopInv, S!OnlyUnseen
      <3>5. CASE a = "w" /\ S!Keeps BY <3>1, <3>5 DEF S!Keeps, S!OnlyUnseen
      <3>6. CASE /\ a = "w" /\ patched' = FALSE /\ hooks' = "freed"
                 /\ S!Active \cup S!Turned = {} /\ unseen' = S!Parked \cup S!Notify
        BY <3>1, <3>2, <3>3, <3>6 DEF S!OnlyUnseen
      <3> QED BY <1>7, <3>4, <3>5, <3>6 DEF S!GracefulThrew, S!DestroyHooks
    <2>10. S!SlotClaimedOnce'
      BY <1>7 DEF S!GracefulThrew, S!DestroyHooks, S!Keeps, S!StopInv, S!TypeOK, S!ThreadsTyped,
         S!StagesTyped, S!RuntimeStates, S!SlotClaimedOnce, S!WaysApart
    <2> QED BY <2>1, <2>2, <2>3, <2>4, <2>5, <2>6, <2>7, <2>8, <2>9, <2>10 DEF S!StopInv, S!TypeOK
  <1> QED BY <1>1, <1>2, <1>3, <1>4, <1>5, <1>6, <1>7

\* the second closing and the teardown behind it,
LEMMA RuntimeSteps ==
  ASSUME S!StopInv,
         S!FinishCrashes \/ S!CloseAgain \/ S!Drained \/ S!DrainTimesOut \/ S!Uninstall \/
         S!UninstallFails \/ S!WaitForDrain \/ S!FinalizeTimed
  PROVE  S!StopInv'
  <1> USE DEF S!RunQuiet, S!TearQuiet, S!target, S!agent, S!runtime
  <1>1. CASE S!FinishCrashes
    <2>1. S!ThreadsTyped'
      BY <1>1 DEF S!FinishCrashes, S!StopInv, S!TypeOK, S!ThreadsTyped, S!Places
    <2>2. S!FlagsTyped'
      BY <1>1, Zenon DEF S!FinishCrashes, S!StopInv, S!TypeOK, S!FlagsTyped
    <2>3. S!StagesTyped'
      BY <1>1 DEF S!FinishCrashes, S!StopInv, S!TypeOK, S!StagesTyped, S!StopStages
    <2>4. S!WaysApart'
      BY <1>1 DEF S!FinishCrashes, S!StopInv, S!TypeOK, S!ThreadsTyped, S!StagesTyped,
         S!RuntimeStates, S!WaysApart
    <2>5. S!LocksInside'
      BY <1>1 DEF S!FinishCrashes, S!StopInv, S!TypeOK, S!ThreadsTyped, S!StagesTyped,
         S!RuntimeStates, S!LocksInside
    <2>6. S!DrainHolds'
      BY <1>1 DEF S!FinishCrashes, S!StopInv, S!TypeOK, S!ThreadsTyped, S!StagesTyped,
         S!RuntimeStates, S!DrainHolds, S!Quiesced, S!WaysApart, S!FreezeHolds, S!TornDownInOrder,
         S!Active
    <2>7. S!FreezeHolds'
      BY <1>1 DEF S!FinishCrashes, S!StopInv, S!TypeOK, S!ThreadsTyped, S!StagesTyped,
         S!RuntimeStates, S!FreezeHolds, S!LocksInside, S!TornDownInOrder, S!WaysApart,
         S!DrainHolds, S!Quiesced, S!Turned, S!Active
    <2>8. S!TornDownInOrder'
      BY <1>1 DEF S!FinishCrashes, S!StopInv, S!TypeOK, S!ThreadsTyped, S!StagesTyped,
         S!RuntimeStates, S!TornDownInOrder, S!WaysApart, S!DrainHolds, S!Quiesced
    <2>9. S!OnlyUnseen'
      BY <1>1 DEF S!FinishCrashes, S!StopInv, S!TypeOK, S!ThreadsTyped, S!StagesTyped,
         S!RuntimeStates, S!OnlyUnseen, S!TornDownInOrder, S!WaysApart, S!FreezeHolds, S!Inside,
         S!Turned, S!Notify, S!Parked, S!Active
    <2>10. S!SlotClaimedOnce'
      BY <1>1 DEF S!FinishCrashes, S!StopInv, S!TypeOK, S!ThreadsTyped, S!StagesTyped,
         S!RuntimeStates, S!SlotClaimedOnce, S!WaysApart
    <2> QED BY <2>1, <2>2, <2>3, <2>4, <2>5, <2>6, <2>7, <2>8, <2>9, <2>10 DEF S!StopInv, S!TypeOK
  <1>2. CASE S!CloseAgain
    <2>1. S!ThreadsTyped'
      BY <1>2 DEF S!CloseAgain, S!StopInv, S!TypeOK, S!ThreadsTyped, S!Places
    <2>2. S!FlagsTyped'
      BY <1>2, Zenon DEF S!CloseAgain, S!StopInv, S!TypeOK, S!FlagsTyped
    <2>3. S!StagesTyped'
      BY <1>2 DEF S!CloseAgain, S!StopInv, S!TypeOK, S!StagesTyped, S!WorkerStages
    <2>4. S!WaysApart'
      BY <1>2 DEF S!CloseAgain, S!StopInv, S!TypeOK, S!ThreadsTyped, S!StagesTyped,
         S!RuntimeStates, S!WaysApart
    <2>5. S!LocksInside'
      BY <1>2 DEF S!CloseAgain, S!StopInv, S!TypeOK, S!ThreadsTyped, S!StagesTyped,
         S!RuntimeStates, S!LocksInside
    <2>6. S!DrainHolds'
      BY <1>2 DEF S!CloseAgain, S!StopInv, S!TypeOK, S!ThreadsTyped, S!StagesTyped,
         S!RuntimeStates, S!DrainHolds, S!Quiesced, S!WaysApart, S!FreezeHolds, S!TornDownInOrder,
         S!Active
    <2>7. S!FreezeHolds'
      BY <1>2 DEF S!CloseAgain, S!StopInv, S!TypeOK, S!ThreadsTyped, S!StagesTyped,
         S!RuntimeStates, S!FreezeHolds, S!LocksInside, S!TornDownInOrder, S!WaysApart,
         S!DrainHolds, S!Quiesced, S!Turned, S!Active
    <2>8. S!TornDownInOrder'
      BY <1>2 DEF S!CloseAgain, S!StopInv, S!TypeOK, S!ThreadsTyped, S!StagesTyped,
         S!RuntimeStates, S!TornDownInOrder, S!WaysApart, S!DrainHolds, S!Quiesced
    <2>9. S!OnlyUnseen'
      BY <1>2 DEF S!CloseAgain, S!StopInv, S!TypeOK, S!ThreadsTyped, S!StagesTyped,
         S!RuntimeStates, S!OnlyUnseen, S!TornDownInOrder, S!WaysApart, S!FreezeHolds, S!Inside,
         S!Turned, S!Notify, S!Parked, S!Active
    <2>10. S!SlotClaimedOnce'
      BY <1>2 DEF S!CloseAgain, S!StopInv, S!TypeOK, S!ThreadsTyped, S!StagesTyped,
         S!RuntimeStates, S!SlotClaimedOnce, S!WaysApart
    <2> QED BY <2>1, <2>2, <2>3, <2>4, <2>5, <2>6, <2>7, <2>8, <2>9, <2>10 DEF S!StopInv, S!TypeOK
  <1>3. CASE S!Drained
    <2>1. S!ThreadsTyped'
      BY <1>3 DEF S!Drained, S!StopInv, S!TypeOK, S!ThreadsTyped, S!Active, S!Places
    <2>2. S!FlagsTyped'
      BY <1>3, Zenon DEF S!Drained, S!StopInv, S!TypeOK, S!FlagsTyped
    <2>3. S!StagesTyped'
      BY <1>3 DEF S!Drained, S!StopInv, S!TypeOK, S!StagesTyped, S!WorkerStages, S!RuntimeStates
    <2>4. S!WaysApart'
      BY <1>3 DEF S!Drained, S!StopInv, S!TypeOK, S!ThreadsTyped, S!StagesTyped, S!RuntimeStates,
         S!WaysApart
    <2>5. S!LocksInside'
      BY <1>3 DEF S!Drained, S!StopInv, S!TypeOK, S!ThreadsTyped, S!StagesTyped, S!RuntimeStates,
         S!LocksInside, S!Active
    <2>6. S!DrainHolds'
      BY <1>3 DEF S!Drained, S!StopInv, S!TypeOK, S!ThreadsTyped, S!StagesTyped, S!RuntimeStates,
         S!DrainHolds, S!Quiesced, S!WaysApart, S!FreezeHolds, S!TornDownInOrder, S!Active
    <2>7. S!FreezeHolds'
      BY <1>3 DEF S!Drained, S!StopInv, S!TypeOK, S!ThreadsTyped, S!StagesTyped, S!RuntimeStates,
         S!FreezeHolds, S!LocksInside, S!TornDownInOrder, S!WaysApart, S!DrainHolds, S!Quiesced,
         S!Turned, S!Active
    <2>8. S!TornDownInOrder'
      BY <1>3 DEF S!Drained, S!StopInv, S!TypeOK, S!ThreadsTyped, S!StagesTyped, S!RuntimeStates,
         S!TornDownInOrder, S!WaysApart, S!DrainHolds, S!Quiesced
    <2>9. S!OnlyUnseen'
      BY <1>3 DEF S!Drained, S!StopInv, S!TypeOK, S!ThreadsTyped, S!StagesTyped, S!RuntimeStates,
         S!OnlyUnseen, S!TornDownInOrder, S!WaysApart, S!FreezeHolds, S!Inside, S!Turned,
         S!Notify, S!Parked, S!Active
    <2>10. S!SlotClaimedOnce'
      BY <1>3 DEF S!Drained, S!StopInv, S!TypeOK, S!ThreadsTyped, S!StagesTyped, S!RuntimeStates,
         S!SlotClaimedOnce, S!WaysApart
    <2> QED BY <2>1, <2>2, <2>3, <2>4, <2>5, <2>6, <2>7, <2>8, <2>9, <2>10 DEF S!StopInv, S!TypeOK
  <1>4. CASE S!DrainTimesOut
    <2>1. S!ThreadsTyped'
      BY <1>4 DEF S!DrainTimesOut, S!StopInv, S!TypeOK, S!ThreadsTyped, S!Active, S!Places
    <2>2. S!FlagsTyped'
      BY <1>4, Zenon DEF S!DrainTimesOut, S!StopInv, S!TypeOK, S!FlagsTyped
    <2>3. S!StagesTyped'
      BY <1>4 DEF S!DrainTimesOut, S!StopInv, S!TypeOK, S!StagesTyped, S!WorkerStages
    <2>4. S!WaysApart'
      BY <1>4 DEF S!DrainTimesOut, S!StopInv, S!TypeOK, S!ThreadsTyped, S!StagesTyped,
         S!RuntimeStates, S!WaysApart
    <2>5. S!LocksInside'
      BY <1>4 DEF S!DrainTimesOut, S!StopInv, S!TypeOK, S!ThreadsTyped, S!StagesTyped,
         S!RuntimeStates, S!LocksInside, S!Active
    <2>6. S!DrainHolds'
      BY <1>4 DEF S!DrainTimesOut, S!StopInv, S!TypeOK, S!ThreadsTyped, S!StagesTyped,
         S!RuntimeStates, S!DrainHolds, S!Quiesced, S!WaysApart, S!FreezeHolds, S!TornDownInOrder,
         S!Active
    <2>7. S!FreezeHolds'
      BY <1>4 DEF S!DrainTimesOut, S!StopInv, S!TypeOK, S!ThreadsTyped, S!StagesTyped,
         S!RuntimeStates, S!FreezeHolds, S!LocksInside, S!TornDownInOrder, S!WaysApart,
         S!DrainHolds, S!Quiesced, S!Turned, S!Active
    <2>8. S!TornDownInOrder'
      BY <1>4 DEF S!DrainTimesOut, S!StopInv, S!TypeOK, S!ThreadsTyped, S!StagesTyped,
         S!RuntimeStates, S!TornDownInOrder, S!WaysApart, S!DrainHolds, S!Quiesced
    <2>9. S!OnlyUnseen'
      BY <1>4 DEF S!DrainTimesOut, S!StopInv, S!TypeOK, S!ThreadsTyped, S!StagesTyped,
         S!RuntimeStates, S!OnlyUnseen, S!TornDownInOrder, S!WaysApart, S!FreezeHolds, S!Inside,
         S!Turned, S!Notify, S!Parked, S!Active
    <2>10. S!SlotClaimedOnce'
      BY <1>4 DEF S!DrainTimesOut, S!StopInv, S!TypeOK, S!ThreadsTyped, S!StagesTyped,
         S!RuntimeStates, S!SlotClaimedOnce, S!WaysApart
    <2> QED BY <2>1, <2>2, <2>3, <2>4, <2>5, <2>6, <2>7, <2>8, <2>9, <2>10 DEF S!StopInv, S!TypeOK
  <1>5. CASE S!Uninstall
    <2>1. S!ThreadsTyped'
      BY <1>5 DEF S!Uninstall, S!StopInv, S!TypeOK, S!ThreadsTyped, S!Turned, S!Active, S!Places
    <2>2. S!FlagsTyped'
      BY <1>5, Zenon DEF S!Uninstall, S!StopInv, S!TypeOK, S!FlagsTyped
    <2>3. S!StagesTyped'
      BY <1>5 DEF S!Uninstall, S!StopInv, S!TypeOK, S!StagesTyped, S!WorkerStages
    <2>4. S!WaysApart'
      BY <1>5 DEF S!Uninstall, S!StopInv, S!TypeOK, S!ThreadsTyped, S!StagesTyped,
         S!RuntimeStates, S!WaysApart
    <2>5. S!LocksInside'
      BY <1>5 DEF S!Uninstall, S!StopInv, S!TypeOK, S!ThreadsTyped, S!StagesTyped,
         S!RuntimeStates, S!LocksInside, S!Turned, S!Active
    <2>6. S!DrainHolds'
      BY <1>5 DEF S!Uninstall, S!StopInv, S!TypeOK, S!ThreadsTyped, S!StagesTyped,
         S!RuntimeStates, S!DrainHolds, S!Quiesced, S!WaysApart, S!FreezeHolds, S!TornDownInOrder,
         S!Active, S!Turned
    <2>7. S!FreezeHolds'
      BY <1>5 DEF S!Uninstall, S!StopInv, S!TypeOK, S!ThreadsTyped, S!StagesTyped,
         S!RuntimeStates, S!FreezeHolds, S!LocksInside, S!TornDownInOrder, S!WaysApart,
         S!DrainHolds, S!Quiesced, S!Turned, S!Active
    <2>8. S!TornDownInOrder'
      BY <1>5 DEF S!Uninstall, S!StopInv, S!TypeOK, S!ThreadsTyped, S!StagesTyped,
         S!RuntimeStates, S!TornDownInOrder, S!WaysApart, S!DrainHolds, S!Quiesced
    <2>9. S!OnlyUnseen'
      BY <1>5 DEF S!Uninstall, S!StopInv, S!TypeOK, S!ThreadsTyped, S!StagesTyped,
         S!RuntimeStates, S!OnlyUnseen, S!TornDownInOrder, S!WaysApart, S!FreezeHolds, S!Inside,
         S!Turned, S!Notify, S!Parked, S!Active
    <2>10. S!SlotClaimedOnce'
      BY <1>5 DEF S!Uninstall, S!StopInv, S!TypeOK, S!ThreadsTyped, S!StagesTyped,
         S!RuntimeStates, S!SlotClaimedOnce, S!WaysApart
    <2> QED BY <2>1, <2>2, <2>3, <2>4, <2>5, <2>6, <2>7, <2>8, <2>9, <2>10 DEF S!StopInv, S!TypeOK
  <1>6. CASE S!UninstallFails
    <2>1. S!ThreadsTyped'
      BY <1>6 DEF S!UninstallFails, S!StopInv, S!TypeOK, S!ThreadsTyped, S!Places
    <2>2. S!FlagsTyped'
      BY <1>6, Zenon DEF S!UninstallFails, S!StopInv, S!TypeOK, S!FlagsTyped
    <2>3. S!StagesTyped'
      BY <1>6 DEF S!UninstallFails, S!StopInv, S!TypeOK, S!StagesTyped, S!WorkerStages
    <2>4. S!WaysApart'
      BY <1>6 DEF S!UninstallFails, S!StopInv, S!TypeOK, S!ThreadsTyped, S!StagesTyped,
         S!RuntimeStates, S!WaysApart
    <2>5. S!LocksInside'
      BY <1>6 DEF S!UninstallFails, S!StopInv, S!TypeOK, S!ThreadsTyped, S!StagesTyped,
         S!RuntimeStates, S!LocksInside
    <2>6. S!DrainHolds'
      BY <1>6 DEF S!UninstallFails, S!StopInv, S!TypeOK, S!ThreadsTyped, S!StagesTyped,
         S!RuntimeStates, S!DrainHolds, S!Quiesced, S!WaysApart, S!FreezeHolds, S!TornDownInOrder,
         S!Active
    <2>7. S!FreezeHolds'
      BY <1>6 DEF S!UninstallFails, S!StopInv, S!TypeOK, S!ThreadsTyped, S!StagesTyped,
         S!RuntimeStates, S!FreezeHolds, S!LocksInside, S!TornDownInOrder, S!WaysApart,
         S!DrainHolds, S!Quiesced, S!Turned, S!Active
    <2>8. S!TornDownInOrder'
      BY <1>6 DEF S!UninstallFails, S!StopInv, S!TypeOK, S!ThreadsTyped, S!StagesTyped,
         S!RuntimeStates, S!TornDownInOrder, S!WaysApart, S!DrainHolds, S!Quiesced
    <2>9. S!OnlyUnseen'
      BY <1>6 DEF S!UninstallFails, S!StopInv, S!TypeOK, S!ThreadsTyped, S!StagesTyped,
         S!RuntimeStates, S!OnlyUnseen, S!TornDownInOrder, S!WaysApart, S!FreezeHolds, S!Inside,
         S!Turned, S!Notify, S!Parked, S!Active
    <2>10. S!SlotClaimedOnce'
      BY <1>6 DEF S!UninstallFails, S!StopInv, S!TypeOK, S!ThreadsTyped, S!StagesTyped,
         S!RuntimeStates, S!SlotClaimedOnce, S!WaysApart
    <2> QED BY <2>1, <2>2, <2>3, <2>4, <2>5, <2>6, <2>7, <2>8, <2>9, <2>10 DEF S!StopInv, S!TypeOK
  <1>7. CASE S!WaitForDrain
    <2>1. S!ThreadsTyped'
      BY <1>7 DEF S!WaitForDrain, S!Frees, S!Keeps, S!Finalizes, S!StopInv, S!TypeOK,
         S!ThreadsTyped, S!Turned, S!Notify, S!Parked, S!Active, S!Places
    <2>2. S!FlagsTyped'
      BY <1>7, Zenon DEF S!WaitForDrain, S!Frees, S!Keeps, S!Finalizes, S!StopInv, S!TypeOK,
         S!FlagsTyped
    <2>3. S!StagesTyped'
      BY <1>7 DEF S!WaitForDrain, S!Frees, S!Keeps, S!Finalizes, S!StopInv, S!TypeOK,
         S!StagesTyped, S!WorkerStages, S!RuntimeStates, S!HookStates
    <2>4. S!WaysApart'
      BY <1>7 DEF S!WaitForDrain, S!Frees, S!Keeps, S!Finalizes, S!StopInv, S!TypeOK,
         S!ThreadsTyped, S!StagesTyped, S!RuntimeStates, S!WaysApart
    <2>5. S!LocksInside'
      BY <1>7 DEF S!WaitForDrain, S!Frees, S!Keeps, S!Finalizes, S!StopInv, S!TypeOK,
         S!ThreadsTyped, S!StagesTyped, S!RuntimeStates, S!LocksInside, S!Turned, S!Notify,
         S!Parked, S!Active
    <2>6. S!DrainHolds'
      BY <1>7 DEF S!WaitForDrain, S!Frees, S!Keeps, S!Finalizes, S!StopInv, S!TypeOK,
         S!ThreadsTyped, S!StagesTyped, S!RuntimeStates, S!DrainHolds, S!Quiesced, S!WaysApart,
         S!FreezeHolds, S!TornDownInOrder, S!Active, S!Turned, S!Notify, S!Parked
    <2>7. S!FreezeHolds'
      BY <1>7 DEF S!WaitForDrain, S!Frees, S!Keeps, S!Finalizes, S!StopInv, S!TypeOK,
         S!ThreadsTyped, S!StagesTyped, S!RuntimeStates, S!FreezeHolds, S!LocksInside,
         S!TornDownInOrder, S!WaysApart, S!DrainHolds, S!Quiesced, S!Turned, S!Active, S!Notify,
         S!Parked
    <2>8. S!TornDownInOrder'
      BY <1>7 DEF S!WaitForDrain, S!Frees, S!Keeps, S!Finalizes, S!StopInv, S!TypeOK,
         S!ThreadsTyped, S!StagesTyped, S!RuntimeStates, S!TornDownInOrder, S!WaysApart,
         S!DrainHolds, S!Quiesced
    <2>9. S!OnlyUnseen'
      <3>1. /\ hooks = "live" /\ mapped /\ unseen = {} /\ ~patched /\ patched' = patched
            /\ mapped' = mapped /\ c' = c /\ (c = "finalizing" => S!Turned = {})
        BY <1>7 DEF S!WaitForDrain, S!Finalizes, S!StopInv, S!TornDownInOrder, S!OnlyUnseen,
           S!FreezeHolds
      <3>2. S!Inside = S!Turned \cup S!Notify \cup S!Parked \cup S!Active
        BY DEF S!StopInv, S!TypeOK, S!ThreadsTyped, S!Places, S!Inside, S!Turned, S!Notify,
           S!Parked, S!Active
      <3>3. S!Inside' = S!Inside /\ S!Notify' = S!Notify BY <1>7 DEF S!WaitForDrain, S!Inside, S!Notify, S!Finalizes
      <3>4. CASE S!Keeps BY <3>1, <3>4 DEF S!Keeps, S!OnlyUnseen
      <3>5. CASE S!Parked \cup S!Active = {} /\ S!Frees
        BY <3>1, <3>2, <3>3, <3>5 DEF S!Frees, S!OnlyUnseen
      <3> QED BY <1>7, <3>4, <3>5 DEF S!WaitForDrain
    <2>10. S!SlotClaimedOnce'
      BY <1>7 DEF S!WaitForDrain, S!Frees, S!Keeps, S!Finalizes, S!StopInv, S!TypeOK,
         S!ThreadsTyped, S!StagesTyped, S!RuntimeStates, S!SlotClaimedOnce, S!WaysApart
    <2> QED BY <2>1, <2>2, <2>3, <2>4, <2>5, <2>6, <2>7, <2>8, <2>9, <2>10 DEF S!StopInv, S!TypeOK
  <1>8. CASE S!FinalizeTimed
    <2>1. S!ThreadsTyped'
      BY <1>8 DEF S!FinalizeTimed, S!DestroyHooks, S!Keeps, S!StopInv, S!TypeOK, S!ThreadsTyped,
         S!Turned, S!Notify, S!Parked, S!Active, S!Places
    <2>2. S!FlagsTyped'
      BY <1>8, Zenon DEF S!FinalizeTimed, S!DestroyHooks, S!Keeps, S!StopInv, S!TypeOK,
         S!FlagsTyped
    <2>3. S!StagesTyped'
      BY <1>8 DEF S!FinalizeTimed, S!DestroyHooks, S!Keeps, S!StopInv, S!TypeOK, S!StagesTyped,
         S!WorkerStages, S!HookStates
    <2>4. S!WaysApart'
      BY <1>8 DEF S!FinalizeTimed, S!DestroyHooks, S!Keeps, S!StopInv, S!TypeOK, S!ThreadsTyped,
         S!StagesTyped, S!RuntimeStates, S!WaysApart
    <2>5. S!LocksInside'
      BY <1>8 DEF S!FinalizeTimed, S!DestroyHooks, S!Keeps, S!StopInv, S!TypeOK, S!ThreadsTyped,
         S!StagesTyped, S!RuntimeStates, S!LocksInside, S!Turned, S!Notify, S!Parked, S!Active
    <2>6. S!DrainHolds'
      BY <1>8 DEF S!FinalizeTimed, S!DestroyHooks, S!Keeps, S!StopInv, S!TypeOK, S!ThreadsTyped,
         S!StagesTyped, S!RuntimeStates, S!DrainHolds, S!Quiesced, S!WaysApart, S!FreezeHolds,
         S!TornDownInOrder, S!Active, S!Turned, S!Notify, S!Parked
    <2>7. S!FreezeHolds'
      BY <1>8 DEF S!FinalizeTimed, S!DestroyHooks, S!Keeps, S!StopInv, S!TypeOK, S!ThreadsTyped,
         S!StagesTyped, S!RuntimeStates, S!FreezeHolds, S!LocksInside, S!TornDownInOrder,
         S!WaysApart, S!DrainHolds, S!Quiesced, S!Turned, S!Active, S!Notify, S!Parked
    <2>8. S!TornDownInOrder'
      BY <1>8 DEF S!FinalizeTimed, S!DestroyHooks, S!Keeps, S!StopInv, S!TypeOK, S!ThreadsTyped,
         S!StagesTyped, S!RuntimeStates, S!TornDownInOrder, S!WaysApart, S!DrainHolds, S!Quiesced
    <2>9. S!OnlyUnseen'
      <3>1. /\ hooks = "live" /\ mapped /\ unseen = {} /\ c = "none"
            /\ mapped' = mapped /\ c' = c
        BY <1>8 DEF S!FinalizeTimed, S!StopInv, S!TypeOK, S!StagesTyped, S!TornDownInOrder,
           S!OnlyUnseen, S!WaysApart
      <3>2. S!Inside = S!Turned \cup S!Notify \cup S!Parked \cup S!Active
        BY DEF S!StopInv, S!TypeOK, S!ThreadsTyped, S!Places, S!Inside, S!Turned, S!Notify,
           S!Parked, S!Active
      <3>3. S!Inside' = S!Inside /\ S!Notify' = S!Notify BY <1>8 DEF S!FinalizeTimed, S!Inside, S!Notify
      <3>4. CASE S!Keeps BY <1>8, <3>1, <3>4 DEF S!FinalizeTimed, S!Keeps, S!OnlyUnseen
      <3>5. CASE hooks' = "freed" /\ S!Active \cup S!Turned = {} /\ unseen' = S!Parked \cup S!Notify
        BY <1>8, <3>1, <3>2, <3>3, <3>5 DEF S!FinalizeTimed, S!DestroyHooks, S!OnlyUnseen
      <3> QED BY <1>8, <3>4, <3>5 DEF S!FinalizeTimed, S!DestroyHooks
    <2>10. S!SlotClaimedOnce'
      BY <1>8 DEF S!FinalizeTimed, S!DestroyHooks, S!Keeps, S!StopInv, S!TypeOK, S!ThreadsTyped,
         S!StagesTyped, S!RuntimeStates, S!SlotClaimedOnce, S!WaysApart
    <2> QED BY <2>1, <2>2, <2>3, <2>4, <2>5, <2>6, <2>7, <2>8, <2>9, <2>10 DEF S!StopInv, S!TypeOK
  <1> QED BY <1>1, <1>2, <1>3, <1>4, <1>5, <1>6, <1>7, <1>8

\* the loop of the agent's worker and its way out,
LEMMA ServiceSteps ==
  ASSUME S!StopInv,
         S!Serve \/ S!Answer \/ S!LosesChannel \/ S!Rescue \/ S!KeepForever \/
         S!WorkerReturns \/ S!Unload \/ S!DurationEnds
  PROVE  S!StopInv'
  <1> USE DEF S!PipeUp, S!RunQuiet, S!TearQuiet, S!target, S!agent, S!runtime
  <1>1. CASE S!Serve
    <2>1. S!ThreadsTyped'
      BY <1>1 DEF S!Serve, S!StopInv, S!TypeOK, S!ThreadsTyped, S!Places
    <2>2. S!FlagsTyped'
      BY <1>1, Zenon DEF S!Serve, S!StopInv, S!TypeOK, S!FlagsTyped
    <2>3. S!StagesTyped'
      BY <1>1 DEF S!Serve, S!StopInv, S!TypeOK, S!StagesTyped, S!WorkerStages, S!Messages
    <2>4. S!WaysApart'
      BY <1>1 DEF S!Serve, S!StopInv, S!TypeOK, S!ThreadsTyped, S!StagesTyped, S!RuntimeStates,
         S!WaysApart
    <2>5. S!LocksInside'
      BY <1>1 DEF S!Serve, S!StopInv, S!TypeOK, S!ThreadsTyped, S!StagesTyped, S!RuntimeStates,
         S!LocksInside
    <2>6. S!DrainHolds'
      BY <1>1 DEF S!Serve, S!StopInv, S!TypeOK, S!ThreadsTyped, S!StagesTyped, S!RuntimeStates,
         S!DrainHolds, S!Quiesced, S!WaysApart, S!FreezeHolds, S!TornDownInOrder, S!Active
    <2>7. S!FreezeHolds'
      BY <1>1 DEF S!Serve, S!StopInv, S!TypeOK, S!ThreadsTyped, S!StagesTyped, S!RuntimeStates,
         S!FreezeHolds, S!LocksInside, S!TornDownInOrder, S!WaysApart, S!DrainHolds, S!Quiesced,
         S!Turned, S!Active
    <2>8. S!TornDownInOrder'
      BY <1>1 DEF S!Serve, S!StopInv, S!TypeOK, S!ThreadsTyped, S!StagesTyped, S!RuntimeStates,
         S!TornDownInOrder, S!WaysApart, S!DrainHolds, S!Quiesced
    <2>9. S!OnlyUnseen'
      BY <1>1 DEF S!Serve, S!StopInv, S!TypeOK, S!ThreadsTyped, S!StagesTyped, S!RuntimeStates,
         S!OnlyUnseen, S!TornDownInOrder, S!WaysApart, S!FreezeHolds, S!Inside, S!Turned,
         S!Notify, S!Parked, S!Active
    <2>10. S!SlotClaimedOnce'
      BY <1>1 DEF S!Serve, S!StopInv, S!TypeOK, S!ThreadsTyped, S!StagesTyped, S!RuntimeStates,
         S!SlotClaimedOnce, S!WaysApart
    <2> QED BY <2>1, <2>2, <2>3, <2>4, <2>5, <2>6, <2>7, <2>8, <2>9, <2>10 DEF S!StopInv, S!TypeOK
  <1>2. CASE S!Answer
    <2>1. S!ThreadsTyped'
      BY <1>2 DEF S!Answer, S!StopInv, S!TypeOK, S!ThreadsTyped, S!Places
    <2>2. S!FlagsTyped'
      BY <1>2, Zenon DEF S!Answer, S!StopInv, S!TypeOK, S!FlagsTyped
    <2>3. S!StagesTyped'
      BY <1>2 DEF S!Answer, S!StopInv, S!TypeOK, S!StagesTyped, S!WorkerStages, S!Messages,
         S!RuntimeStates, S!DrainHolds
    <2>4. S!WaysApart'
      BY <1>2 DEF S!Answer, S!StopInv, S!TypeOK, S!ThreadsTyped, S!StagesTyped, S!RuntimeStates,
         S!WaysApart
    <2>5. S!LocksInside'
      BY <1>2 DEF S!Answer, S!StopInv, S!TypeOK, S!ThreadsTyped, S!StagesTyped, S!RuntimeStates,
         S!LocksInside
    <2>6. S!DrainHolds'
      BY <1>2 DEF S!Answer, S!StopInv, S!TypeOK, S!ThreadsTyped, S!StagesTyped, S!RuntimeStates,
         S!DrainHolds, S!Quiesced, S!WaysApart, S!FreezeHolds, S!TornDownInOrder, S!Active
    <2>7. S!FreezeHolds'
      BY <1>2 DEF S!Answer, S!StopInv, S!TypeOK, S!ThreadsTyped, S!StagesTyped, S!RuntimeStates,
         S!FreezeHolds, S!LocksInside, S!TornDownInOrder, S!WaysApart, S!DrainHolds, S!Quiesced,
         S!Turned, S!Active
    <2>8. S!TornDownInOrder'
      BY <1>2 DEF S!Answer, S!StopInv, S!TypeOK, S!ThreadsTyped, S!StagesTyped, S!RuntimeStates,
         S!TornDownInOrder, S!WaysApart, S!DrainHolds, S!Quiesced
    <2>9. S!OnlyUnseen'
      BY <1>2 DEF S!Answer, S!StopInv, S!TypeOK, S!ThreadsTyped, S!StagesTyped, S!RuntimeStates,
         S!OnlyUnseen, S!TornDownInOrder, S!WaysApart, S!FreezeHolds, S!Inside, S!Turned,
         S!Notify, S!Parked, S!Active
    <2>10. S!SlotClaimedOnce'
      BY <1>2 DEF S!Answer, S!StopInv, S!TypeOK, S!ThreadsTyped, S!StagesTyped, S!RuntimeStates,
         S!SlotClaimedOnce, S!WaysApart
    <2> QED BY <2>1, <2>2, <2>3, <2>4, <2>5, <2>6, <2>7, <2>8, <2>9, <2>10 DEF S!StopInv, S!TypeOK
  <1>3. CASE S!LosesChannel
    <2>1. S!ThreadsTyped'
      BY <1>3 DEF S!LosesChannel, S!StopInv, S!TypeOK, S!ThreadsTyped, S!Places
    <2>2. S!FlagsTyped'
      BY <1>3, Zenon DEF S!LosesChannel, S!StopInv, S!TypeOK, S!FlagsTyped
    <2>3. S!StagesTyped'
      BY <1>3 DEF S!LosesChannel, S!StopInv, S!TypeOK, S!StagesTyped, S!WorkerStages
    <2>4. S!WaysApart'
      BY <1>3 DEF S!LosesChannel, S!StopInv, S!TypeOK, S!ThreadsTyped, S!StagesTyped,
         S!RuntimeStates, S!WaysApart
    <2>5. S!LocksInside'
      BY <1>3 DEF S!LosesChannel, S!StopInv, S!TypeOK, S!ThreadsTyped, S!StagesTyped,
         S!RuntimeStates, S!LocksInside
    <2>6. S!DrainHolds'
      BY <1>3 DEF S!LosesChannel, S!StopInv, S!TypeOK, S!ThreadsTyped, S!StagesTyped,
         S!RuntimeStates, S!DrainHolds, S!Quiesced, S!WaysApart, S!FreezeHolds, S!TornDownInOrder,
         S!Active
    <2>7. S!FreezeHolds'
      BY <1>3 DEF S!LosesChannel, S!StopInv, S!TypeOK, S!ThreadsTyped, S!StagesTyped,
         S!RuntimeStates, S!FreezeHolds, S!LocksInside, S!TornDownInOrder, S!WaysApart,
         S!DrainHolds, S!Quiesced, S!Turned, S!Active
    <2>8. S!TornDownInOrder'
      BY <1>3 DEF S!LosesChannel, S!StopInv, S!TypeOK, S!ThreadsTyped, S!StagesTyped,
         S!RuntimeStates, S!TornDownInOrder, S!WaysApart, S!DrainHolds, S!Quiesced
    <2>9. S!OnlyUnseen'
      BY <1>3 DEF S!LosesChannel, S!StopInv, S!TypeOK, S!ThreadsTyped, S!StagesTyped,
         S!RuntimeStates, S!OnlyUnseen, S!TornDownInOrder, S!WaysApart, S!FreezeHolds, S!Inside,
         S!Turned, S!Notify, S!Parked, S!Active
    <2>10. S!SlotClaimedOnce'
      BY <1>3 DEF S!LosesChannel, S!StopInv, S!TypeOK, S!ThreadsTyped, S!StagesTyped,
         S!RuntimeStates, S!SlotClaimedOnce, S!WaysApart
    <2> QED BY <2>1, <2>2, <2>3, <2>4, <2>5, <2>6, <2>7, <2>8, <2>9, <2>10 DEF S!StopInv, S!TypeOK
  <1>4. CASE S!Rescue
    <2>1. S!ThreadsTyped'
      BY <1>4 DEF S!Rescue, S!StopInv, S!TypeOK, S!ThreadsTyped, S!Places
    <2>2. S!FlagsTyped'
      BY <1>4, Zenon DEF S!Rescue, S!StopInv, S!TypeOK, S!FlagsTyped
    <2>3. S!StagesTyped'
      BY <1>4 DEF S!Rescue, S!StopInv, S!TypeOK, S!StagesTyped, S!WorkerStages, S!Messages
    <2>4. S!WaysApart'
      BY <1>4 DEF S!Rescue, S!StopInv, S!TypeOK, S!ThreadsTyped, S!StagesTyped, S!RuntimeStates,
         S!WaysApart
    <2>5. S!LocksInside'
      BY <1>4 DEF S!Rescue, S!StopInv, S!TypeOK, S!ThreadsTyped, S!StagesTyped, S!RuntimeStates,
         S!LocksInside
    <2>6. S!DrainHolds'
      BY <1>4 DEF S!Rescue, S!StopInv, S!TypeOK, S!ThreadsTyped, S!StagesTyped, S!RuntimeStates,
         S!DrainHolds, S!Quiesced, S!WaysApart, S!FreezeHolds, S!TornDownInOrder, S!Active
    <2>7. S!FreezeHolds'
      BY <1>4 DEF S!Rescue, S!StopInv, S!TypeOK, S!ThreadsTyped, S!StagesTyped, S!RuntimeStates,
         S!FreezeHolds, S!LocksInside, S!TornDownInOrder, S!WaysApart, S!DrainHolds, S!Quiesced,
         S!Turned, S!Active
    <2>8. S!TornDownInOrder'
      BY <1>4 DEF S!Rescue, S!StopInv, S!TypeOK, S!ThreadsTyped, S!StagesTyped, S!RuntimeStates,
         S!TornDownInOrder, S!WaysApart, S!DrainHolds, S!Quiesced
    <2>9. S!OnlyUnseen'
      BY <1>4 DEF S!Rescue, S!StopInv, S!TypeOK, S!ThreadsTyped, S!StagesTyped, S!RuntimeStates,
         S!OnlyUnseen, S!TornDownInOrder, S!WaysApart, S!FreezeHolds, S!Inside, S!Turned,
         S!Notify, S!Parked, S!Active
    <2>10. S!SlotClaimedOnce'
      BY <1>4 DEF S!Rescue, S!StopInv, S!TypeOK, S!ThreadsTyped, S!StagesTyped, S!RuntimeStates,
         S!SlotClaimedOnce, S!WaysApart
    <2> QED BY <2>1, <2>2, <2>3, <2>4, <2>5, <2>6, <2>7, <2>8, <2>9, <2>10 DEF S!StopInv, S!TypeOK
  <1>5. CASE S!KeepForever
    <2>1. S!ThreadsTyped'
      BY <1>5 DEF S!KeepForever, S!StopInv, S!TypeOK, S!ThreadsTyped, S!Places
    <2>2. S!FlagsTyped'
      BY <1>5, Zenon DEF S!KeepForever, S!StopInv, S!TypeOK, S!FlagsTyped
    <2>3. S!StagesTyped'
      BY <1>5 DEF S!KeepForever, S!StopInv, S!TypeOK, S!StagesTyped, S!WorkerStages, S!HookStates
    <2>4. S!WaysApart'
      BY <1>5 DEF S!KeepForever, S!StopInv, S!TypeOK, S!ThreadsTyped, S!StagesTyped,
         S!RuntimeStates, S!WaysApart
    <2>5. S!LocksInside'
      BY <1>5 DEF S!KeepForever, S!StopInv, S!TypeOK, S!ThreadsTyped, S!StagesTyped,
         S!RuntimeStates, S!LocksInside
    <2>6. S!DrainHolds'
      BY <1>5 DEF S!KeepForever, S!StopInv, S!TypeOK, S!ThreadsTyped, S!StagesTyped,
         S!RuntimeStates, S!DrainHolds, S!Quiesced, S!WaysApart, S!FreezeHolds, S!TornDownInOrder,
         S!Active
    <2>7. S!FreezeHolds'
      BY <1>5 DEF S!KeepForever, S!StopInv, S!TypeOK, S!ThreadsTyped, S!StagesTyped,
         S!RuntimeStates, S!FreezeHolds, S!LocksInside, S!TornDownInOrder, S!WaysApart,
         S!DrainHolds, S!Quiesced, S!Turned, S!Active
    <2>8. S!TornDownInOrder'
      BY <1>5 DEF S!KeepForever, S!StopInv, S!TypeOK, S!ThreadsTyped, S!StagesTyped,
         S!RuntimeStates, S!TornDownInOrder, S!WaysApart, S!DrainHolds, S!Quiesced
    <2>9. S!OnlyUnseen'
      BY <1>5 DEF S!KeepForever, S!StopInv, S!TypeOK, S!ThreadsTyped, S!StagesTyped,
         S!RuntimeStates, S!OnlyUnseen, S!TornDownInOrder, S!WaysApart, S!FreezeHolds, S!Inside,
         S!Turned, S!Notify, S!Parked, S!Active
    <2>10. S!SlotClaimedOnce'
      BY <1>5 DEF S!KeepForever, S!StopInv, S!TypeOK, S!ThreadsTyped, S!StagesTyped,
         S!RuntimeStates, S!SlotClaimedOnce, S!WaysApart
    <2> QED BY <2>1, <2>2, <2>3, <2>4, <2>5, <2>6, <2>7, <2>8, <2>9, <2>10 DEF S!StopInv, S!TypeOK
  <1>6. CASE S!WorkerReturns
    <2>1. S!ThreadsTyped'
      BY <1>6 DEF S!WorkerReturns, S!StopInv, S!TypeOK, S!ThreadsTyped, S!Places
    <2>2. S!FlagsTyped'
      BY <1>6, Zenon DEF S!WorkerReturns, S!StopInv, S!TypeOK, S!FlagsTyped
    <2>3. S!StagesTyped'
      BY <1>6 DEF S!WorkerReturns, S!StopInv, S!TypeOK, S!StagesTyped, S!WorkerStages
    <2>4. S!WaysApart'
      BY <1>6 DEF S!WorkerReturns, S!StopInv, S!TypeOK, S!ThreadsTyped, S!StagesTyped,
         S!RuntimeStates, S!WaysApart
    <2>5. S!LocksInside'
      BY <1>6 DEF S!WorkerReturns, S!StopInv, S!TypeOK, S!ThreadsTyped, S!StagesTyped,
         S!RuntimeStates, S!LocksInside
    <2>6. S!DrainHolds'
      BY <1>6 DEF S!WorkerReturns, S!StopInv, S!TypeOK, S!ThreadsTyped, S!StagesTyped,
         S!RuntimeStates, S!DrainHolds, S!Quiesced, S!WaysApart, S!FreezeHolds, S!TornDownInOrder,
         S!Active
    <2>7. S!FreezeHolds'
      BY <1>6 DEF S!WorkerReturns, S!StopInv, S!TypeOK, S!ThreadsTyped, S!StagesTyped,
         S!RuntimeStates, S!FreezeHolds, S!LocksInside, S!TornDownInOrder, S!WaysApart,
         S!DrainHolds, S!Quiesced, S!Turned, S!Active
    <2>8. S!TornDownInOrder'
      BY <1>6 DEF S!WorkerReturns, S!StopInv, S!TypeOK, S!ThreadsTyped, S!StagesTyped,
         S!RuntimeStates, S!TornDownInOrder, S!WaysApart, S!DrainHolds, S!Quiesced
    <2>9. S!OnlyUnseen'
      BY <1>6 DEF S!WorkerReturns, S!StopInv, S!TypeOK, S!ThreadsTyped, S!StagesTyped,
         S!RuntimeStates, S!OnlyUnseen, S!TornDownInOrder, S!WaysApart, S!FreezeHolds, S!Inside,
         S!Turned, S!Notify, S!Parked, S!Active
    <2>10. S!SlotClaimedOnce'
      BY <1>6 DEF S!WorkerReturns, S!StopInv, S!TypeOK, S!ThreadsTyped, S!StagesTyped,
         S!RuntimeStates, S!SlotClaimedOnce, S!WaysApart
    <2> QED BY <2>1, <2>2, <2>3, <2>4, <2>5, <2>6, <2>7, <2>8, <2>9, <2>10 DEF S!StopInv, S!TypeOK
  <1>7. CASE S!Unload
    <2>1. S!ThreadsTyped'
      BY <1>7 DEF S!Unload, S!StopInv, S!TypeOK, S!ThreadsTyped, S!Turned, S!Notify, S!Parked,
         S!Active, S!Places
    <2>2. S!FlagsTyped'
      BY <1>7, Zenon DEF S!Unload, S!StopInv, S!TypeOK, S!FlagsTyped
    <2>3. S!StagesTyped'
      BY <1>7 DEF S!Unload, S!StopInv, S!TypeOK, S!StagesTyped
    <2>4. S!WaysApart'
      BY <1>7 DEF S!Unload, S!StopInv, S!TypeOK, S!ThreadsTyped, S!StagesTyped, S!RuntimeStates,
         S!WaysApart
    <2>5. S!LocksInside'
      BY <1>7 DEF S!Unload, S!StopInv, S!TypeOK, S!ThreadsTyped, S!StagesTyped, S!RuntimeStates,
         S!LocksInside, S!Turned, S!Notify, S!Parked, S!Active
    <2>6. S!DrainHolds'
      BY <1>7 DEF S!Unload, S!StopInv, S!TypeOK, S!ThreadsTyped, S!StagesTyped, S!RuntimeStates,
         S!DrainHolds, S!Quiesced, S!WaysApart, S!FreezeHolds, S!TornDownInOrder, S!Active,
         S!Turned, S!Notify, S!Parked
    <2>7. S!FreezeHolds'
      BY <1>7 DEF S!Unload, S!StopInv, S!TypeOK, S!ThreadsTyped, S!StagesTyped, S!RuntimeStates,
         S!FreezeHolds, S!LocksInside, S!TornDownInOrder, S!WaysApart, S!DrainHolds, S!Quiesced,
         S!Turned, S!Active, S!Notify, S!Parked
    <2>8. S!TornDownInOrder'
      BY <1>7 DEF S!Unload, S!StopInv, S!TypeOK, S!ThreadsTyped, S!StagesTyped, S!RuntimeStates,
         S!TornDownInOrder, S!WaysApart, S!DrainHolds, S!Quiesced
    <2>9. S!OnlyUnseen'
      <3>1. /\ ~patched /\ patched' = patched /\ c' = c /\ hooks' = hooks /\ ~mapped'
            /\ c = "finalizing" => S!Turned = {} /\ unseen \subseteq S!Notify
        BY <1>7 DEF S!Unload, S!StopInv, S!TypeOK, S!StagesTyped, S!TornDownInOrder, S!OnlyUnseen,
           S!FreezeHolds
      <3>2. S!Inside = S!Turned \cup S!Notify \cup S!Parked \cup S!Active
        BY DEF S!StopInv, S!TypeOK, S!ThreadsTyped, S!Places, S!Inside, S!Turned, S!Notify,
           S!Parked, S!Active
      <3>3. S!Inside' = S!Inside /\ S!Notify' = S!Notify BY <1>7 DEF S!Unload, S!Inside, S!Notify
      <3> QED BY <1>7, <3>1, <3>2, <3>3 DEF S!Unload, S!OnlyUnseen
    <2>10. S!SlotClaimedOnce'
      BY <1>7 DEF S!Unload, S!StopInv, S!TypeOK, S!ThreadsTyped, S!StagesTyped, S!RuntimeStates,
         S!SlotClaimedOnce, S!WaysApart
    <2> QED BY <2>1, <2>2, <2>3, <2>4, <2>5, <2>6, <2>7, <2>8, <2>9, <2>10 DEF S!StopInv, S!TypeOK
  <1>8. CASE S!DurationEnds
    <2>1. S!ThreadsTyped'
      BY <1>8 DEF S!DurationEnds, S!StopInv, S!TypeOK, S!ThreadsTyped, S!Places
    <2>2. S!FlagsTyped'
      BY <1>8, Zenon DEF S!DurationEnds, S!StopInv, S!TypeOK, S!FlagsTyped
    <2>3. S!StagesTyped'
      BY <1>8 DEF S!DurationEnds, S!StopInv, S!TypeOK, S!StagesTyped, S!WorkerStages
    <2>4. S!WaysApart'
      BY <1>8 DEF S!DurationEnds, S!StopInv, S!TypeOK, S!ThreadsTyped, S!StagesTyped,
         S!RuntimeStates, S!WaysApart
    <2>5. S!LocksInside'
      BY <1>8 DEF S!DurationEnds, S!StopInv, S!TypeOK, S!ThreadsTyped, S!StagesTyped,
         S!RuntimeStates, S!LocksInside
    <2>6. S!DrainHolds'
      BY <1>8 DEF S!DurationEnds, S!StopInv, S!TypeOK, S!ThreadsTyped, S!StagesTyped,
         S!RuntimeStates, S!DrainHolds, S!Quiesced, S!WaysApart, S!FreezeHolds, S!TornDownInOrder,
         S!Active
    <2>7. S!FreezeHolds'
      BY <1>8 DEF S!DurationEnds, S!StopInv, S!TypeOK, S!ThreadsTyped, S!StagesTyped,
         S!RuntimeStates, S!FreezeHolds, S!LocksInside, S!TornDownInOrder, S!WaysApart,
         S!DrainHolds, S!Quiesced, S!Turned, S!Active
    <2>8. S!TornDownInOrder'
      BY <1>8 DEF S!DurationEnds, S!StopInv, S!TypeOK, S!ThreadsTyped, S!StagesTyped,
         S!RuntimeStates, S!TornDownInOrder, S!WaysApart, S!DrainHolds, S!Quiesced
    <2>9. S!OnlyUnseen'
      BY <1>8 DEF S!DurationEnds, S!StopInv, S!TypeOK, S!ThreadsTyped, S!StagesTyped,
         S!RuntimeStates, S!OnlyUnseen, S!TornDownInOrder, S!WaysApart, S!FreezeHolds, S!Inside,
         S!Turned, S!Notify, S!Parked, S!Active
    <2>10. S!SlotClaimedOnce'
      BY <1>8 DEF S!DurationEnds, S!StopInv, S!TypeOK, S!ThreadsTyped, S!StagesTyped,
         S!RuntimeStates, S!SlotClaimedOnce, S!WaysApart
    <2> QED BY <2>1, <2>2, <2>3, <2>4, <2>5, <2>6, <2>7, <2>8, <2>9, <2>10 DEF S!StopInv, S!TypeOK
  <1> QED BY <1>1, <1>2, <1>3, <1>4, <1>5, <1>6, <1>7, <1>8

\* the requests and verdicts of the controller,
LEMMA StopSteps ==
  ASSUME S!StopInv,
         S!SendStop \/ S!HearsDrained \/ S!SendFinalize \/ S!HearsFinalized \/ S!StopFails
         \/ S!TargetGone
  PROVE  S!StopInv'
  <1> USE DEF S!CtlQuiet, S!Resumed, S!agent, S!runtime
  <1>1. CASE S!SendStop
    <2>1. S!ThreadsTyped'
      BY <1>1 DEF S!SendStop, S!StopInv, S!TypeOK, S!ThreadsTyped, S!Places
    <2>2. S!FlagsTyped'
      BY <1>1, Zenon DEF S!SendStop, S!StopInv, S!TypeOK, S!FlagsTyped
    <2>3. S!StagesTyped'
      BY <1>1 DEF S!SendStop, S!StopInv, S!TypeOK, S!StagesTyped, S!StopStages, S!Messages
    <2>4. S!WaysApart'
      BY <1>1 DEF S!SendStop, S!StopInv, S!TypeOK, S!ThreadsTyped, S!StagesTyped, S!RuntimeStates,
         S!WaysApart
    <2>5. S!LocksInside'
      BY <1>1 DEF S!SendStop, S!StopInv, S!TypeOK, S!ThreadsTyped, S!StagesTyped, S!RuntimeStates,
         S!LocksInside
    <2>6. S!DrainHolds'
      BY <1>1 DEF S!SendStop, S!StopInv, S!TypeOK, S!ThreadsTyped, S!StagesTyped, S!RuntimeStates,
         S!DrainHolds, S!Quiesced, S!WaysApart, S!FreezeHolds, S!TornDownInOrder, S!Active
    <2>7. S!FreezeHolds'
      BY <1>1 DEF S!SendStop, S!StopInv, S!TypeOK, S!ThreadsTyped, S!StagesTyped, S!RuntimeStates,
         S!FreezeHolds, S!LocksInside, S!TornDownInOrder, S!WaysApart, S!DrainHolds, S!Quiesced,
         S!Turned, S!Active
    <2>8. S!TornDownInOrder'
      BY <1>1 DEF S!SendStop, S!StopInv, S!TypeOK, S!ThreadsTyped, S!StagesTyped, S!RuntimeStates,
         S!TornDownInOrder, S!WaysApart, S!DrainHolds, S!Quiesced
    <2>9. S!OnlyUnseen'
      BY <1>1 DEF S!SendStop, S!StopInv, S!TypeOK, S!ThreadsTyped, S!StagesTyped, S!RuntimeStates,
         S!OnlyUnseen, S!TornDownInOrder, S!WaysApart, S!FreezeHolds, S!Inside, S!Turned,
         S!Notify, S!Parked, S!Active
    <2>10. S!SlotClaimedOnce'
      BY <1>1 DEF S!SendStop, S!StopInv, S!TypeOK, S!ThreadsTyped, S!StagesTyped, S!RuntimeStates,
         S!SlotClaimedOnce, S!WaysApart
    <2> QED BY <2>1, <2>2, <2>3, <2>4, <2>5, <2>6, <2>7, <2>8, <2>9, <2>10 DEF S!StopInv, S!TypeOK
  <1>2. CASE S!HearsDrained
    <2>1. S!ThreadsTyped'
      BY <1>2 DEF S!HearsDrained, S!StopInv, S!TypeOK, S!ThreadsTyped, S!Places
    <2>2. S!FlagsTyped'
      BY <1>2, Zenon DEF S!HearsDrained, S!StopInv, S!TypeOK, S!FlagsTyped
    <2>3. S!StagesTyped'
      BY <1>2 DEF S!HearsDrained, S!StopInv, S!TypeOK, S!StagesTyped, S!StopStages, S!Messages
    <2>4. S!WaysApart'
      BY <1>2 DEF S!HearsDrained, S!StopInv, S!TypeOK, S!ThreadsTyped, S!StagesTyped,
         S!RuntimeStates, S!WaysApart
    <2>5. S!LocksInside'
      BY <1>2 DEF S!HearsDrained, S!StopInv, S!TypeOK, S!ThreadsTyped, S!StagesTyped,
         S!RuntimeStates, S!LocksInside
    <2>6. S!DrainHolds'
      BY <1>2 DEF S!HearsDrained, S!StopInv, S!TypeOK, S!ThreadsTyped, S!StagesTyped,
         S!RuntimeStates, S!DrainHolds, S!Quiesced, S!WaysApart, S!FreezeHolds, S!TornDownInOrder,
         S!Active
    <2>7. S!FreezeHolds'
      BY <1>2 DEF S!HearsDrained, S!StopInv, S!TypeOK, S!ThreadsTyped, S!StagesTyped,
         S!RuntimeStates, S!FreezeHolds, S!LocksInside, S!TornDownInOrder, S!WaysApart,
         S!DrainHolds, S!Quiesced, S!Turned, S!Active
    <2>8. S!TornDownInOrder'
      BY <1>2 DEF S!HearsDrained, S!StopInv, S!TypeOK, S!ThreadsTyped, S!StagesTyped,
         S!RuntimeStates, S!TornDownInOrder, S!WaysApart, S!DrainHolds, S!Quiesced
    <2>9. S!OnlyUnseen'
      BY <1>2 DEF S!HearsDrained, S!StopInv, S!TypeOK, S!ThreadsTyped, S!StagesTyped,
         S!RuntimeStates, S!OnlyUnseen, S!TornDownInOrder, S!WaysApart, S!FreezeHolds, S!Inside,
         S!Turned, S!Notify, S!Parked, S!Active
    <2>10. S!SlotClaimedOnce'
      BY <1>2 DEF S!HearsDrained, S!StopInv, S!TypeOK, S!ThreadsTyped, S!StagesTyped,
         S!RuntimeStates, S!SlotClaimedOnce, S!WaysApart
    <2> QED BY <2>1, <2>2, <2>3, <2>4, <2>5, <2>6, <2>7, <2>8, <2>9, <2>10 DEF S!StopInv, S!TypeOK
  <1>3. CASE S!SendFinalize
    <2>1. S!ThreadsTyped'
      BY <1>3 DEF S!SendFinalize, S!StopInv, S!TypeOK, S!ThreadsTyped, S!Places
    <2>2. S!FlagsTyped'
      BY <1>3, Zenon DEF S!SendFinalize, S!StopInv, S!TypeOK, S!FlagsTyped
    <2>3. S!StagesTyped'
      BY <1>3 DEF S!SendFinalize, S!StopInv, S!TypeOK, S!StagesTyped, S!StopStages, S!Messages
    <2>4. S!WaysApart'
      BY <1>3 DEF S!SendFinalize, S!StopInv, S!TypeOK, S!ThreadsTyped, S!StagesTyped,
         S!RuntimeStates, S!WaysApart
    <2>5. S!LocksInside'
      BY <1>3 DEF S!SendFinalize, S!StopInv, S!TypeOK, S!ThreadsTyped, S!StagesTyped,
         S!RuntimeStates, S!LocksInside
    <2>6. S!DrainHolds'
      BY <1>3 DEF S!SendFinalize, S!StopInv, S!TypeOK, S!ThreadsTyped, S!StagesTyped,
         S!RuntimeStates, S!DrainHolds, S!Quiesced, S!WaysApart, S!FreezeHolds, S!TornDownInOrder,
         S!Active
    <2>7. S!FreezeHolds'
      BY <1>3 DEF S!SendFinalize, S!StopInv, S!TypeOK, S!ThreadsTyped, S!StagesTyped,
         S!RuntimeStates, S!FreezeHolds, S!LocksInside, S!TornDownInOrder, S!WaysApart,
         S!DrainHolds, S!Quiesced, S!Turned, S!Active
    <2>8. S!TornDownInOrder'
      BY <1>3 DEF S!SendFinalize, S!StopInv, S!TypeOK, S!ThreadsTyped, S!StagesTyped,
         S!RuntimeStates, S!TornDownInOrder, S!WaysApart, S!DrainHolds, S!Quiesced
    <2>9. S!OnlyUnseen'
      BY <1>3 DEF S!SendFinalize, S!StopInv, S!TypeOK, S!ThreadsTyped, S!StagesTyped,
         S!RuntimeStates, S!OnlyUnseen, S!TornDownInOrder, S!WaysApart, S!FreezeHolds,
         S!DrainHolds, S!Quiesced, S!Inside, S!Turned, S!Notify, S!Parked, S!Active
    <2>10. S!SlotClaimedOnce'
      BY <1>3 DEF S!SendFinalize, S!StopInv, S!TypeOK, S!ThreadsTyped, S!StagesTyped,
         S!RuntimeStates, S!SlotClaimedOnce, S!WaysApart
    <2> QED BY <2>1, <2>2, <2>3, <2>4, <2>5, <2>6, <2>7, <2>8, <2>9, <2>10 DEF S!StopInv, S!TypeOK
  <1>4. CASE S!HearsFinalized
    <2>1. S!ThreadsTyped'
      BY <1>4 DEF S!HearsFinalized, S!StopInv, S!TypeOK, S!ThreadsTyped, S!Places
    <2>2. S!FlagsTyped'
      BY <1>4, Zenon DEF S!HearsFinalized, S!StopInv, S!TypeOK, S!FlagsTyped
    <2>3. S!StagesTyped'
      BY <1>4 DEF S!HearsFinalized, S!StopInv, S!TypeOK, S!StagesTyped, S!StopStages, S!Messages
    <2>4. S!WaysApart'
      BY <1>4 DEF S!HearsFinalized, S!StopInv, S!TypeOK, S!ThreadsTyped, S!StagesTyped,
         S!RuntimeStates, S!WaysApart
    <2>5. S!LocksInside'
      BY <1>4 DEF S!HearsFinalized, S!StopInv, S!TypeOK, S!ThreadsTyped, S!StagesTyped,
         S!RuntimeStates, S!LocksInside
    <2>6. S!DrainHolds'
      BY <1>4 DEF S!HearsFinalized, S!StopInv, S!TypeOK, S!ThreadsTyped, S!StagesTyped,
         S!RuntimeStates, S!DrainHolds, S!Quiesced, S!WaysApart, S!FreezeHolds, S!TornDownInOrder,
         S!Active
    <2>7. S!FreezeHolds'
      BY <1>4 DEF S!HearsFinalized, S!StopInv, S!TypeOK, S!ThreadsTyped, S!StagesTyped,
         S!RuntimeStates, S!FreezeHolds, S!LocksInside, S!TornDownInOrder, S!WaysApart,
         S!DrainHolds, S!Quiesced, S!Turned, S!Active
    <2>8. S!TornDownInOrder'
      BY <1>4 DEF S!HearsFinalized, S!StopInv, S!TypeOK, S!ThreadsTyped, S!StagesTyped,
         S!RuntimeStates, S!TornDownInOrder, S!WaysApart, S!DrainHolds, S!Quiesced
    <2>9. S!OnlyUnseen'
      BY <1>4 DEF S!HearsFinalized, S!StopInv, S!TypeOK, S!ThreadsTyped, S!StagesTyped,
         S!RuntimeStates, S!OnlyUnseen, S!TornDownInOrder, S!WaysApart, S!FreezeHolds, S!Inside,
         S!Turned, S!Notify, S!Parked, S!Active
    <2>10. S!SlotClaimedOnce'
      BY <1>4 DEF S!HearsFinalized, S!StopInv, S!TypeOK, S!ThreadsTyped, S!StagesTyped,
         S!RuntimeStates, S!SlotClaimedOnce, S!WaysApart
    <2> QED BY <2>1, <2>2, <2>3, <2>4, <2>5, <2>6, <2>7, <2>8, <2>9, <2>10 DEF S!StopInv, S!TypeOK
  <1>5. CASE S!StopFails
    <2>1. S!ThreadsTyped'
      BY <1>5 DEF S!StopFails, S!StopInv, S!TypeOK, S!ThreadsTyped, S!Places
    <2>2. S!FlagsTyped'
      BY <1>5, Zenon DEF S!StopFails, S!StopInv, S!TypeOK, S!FlagsTyped
    <2>3. S!StagesTyped'
      BY <1>5 DEF S!StopFails, S!StopInv, S!TypeOK, S!StagesTyped, S!StopStages
    <2>4. S!WaysApart'
      BY <1>5 DEF S!StopFails, S!StopInv, S!TypeOK, S!ThreadsTyped, S!StagesTyped,
         S!RuntimeStates, S!WaysApart
    <2>5. S!LocksInside'
      BY <1>5 DEF S!StopFails, S!StopInv, S!TypeOK, S!ThreadsTyped, S!StagesTyped,
         S!RuntimeStates, S!LocksInside
    <2>6. S!DrainHolds'
      BY <1>5 DEF S!StopFails, S!StopInv, S!TypeOK, S!ThreadsTyped, S!StagesTyped,
         S!RuntimeStates, S!DrainHolds, S!Quiesced, S!WaysApart, S!FreezeHolds, S!TornDownInOrder,
         S!Active
    <2>7. S!FreezeHolds'
      BY <1>5 DEF S!StopFails, S!StopInv, S!TypeOK, S!ThreadsTyped, S!StagesTyped,
         S!RuntimeStates, S!FreezeHolds, S!LocksInside, S!TornDownInOrder, S!WaysApart,
         S!DrainHolds, S!Quiesced, S!Turned, S!Active
    <2>8. S!TornDownInOrder'
      BY <1>5 DEF S!StopFails, S!StopInv, S!TypeOK, S!ThreadsTyped, S!StagesTyped,
         S!RuntimeStates, S!TornDownInOrder, S!WaysApart, S!DrainHolds, S!Quiesced
    <2>9. S!OnlyUnseen'
      BY <1>5 DEF S!StopFails, S!StopInv, S!TypeOK, S!ThreadsTyped, S!StagesTyped,
         S!RuntimeStates, S!OnlyUnseen, S!TornDownInOrder, S!WaysApart, S!FreezeHolds, S!Inside,
         S!Turned, S!Notify, S!Parked, S!Active
    <2>10. S!SlotClaimedOnce'
      BY <1>5 DEF S!StopFails, S!StopInv, S!TypeOK, S!ThreadsTyped, S!StagesTyped,
         S!RuntimeStates, S!SlotClaimedOnce, S!WaysApart
    <2> QED BY <2>1, <2>2, <2>3, <2>4, <2>5, <2>6, <2>7, <2>8, <2>9, <2>10 DEF S!StopInv, S!TypeOK
  <1>6. CASE S!TargetGone
    <2>1. S!ThreadsTyped'
      BY <1>6 DEF S!TargetGone, S!StopInv, S!TypeOK, S!ThreadsTyped, S!Places
    <2>2. S!FlagsTyped'
      BY <1>6, Zenon DEF S!TargetGone, S!StopInv, S!TypeOK, S!FlagsTyped
    <2>3. S!StagesTyped'
      BY <1>6 DEF S!TargetGone, S!StopInv, S!TypeOK, S!StagesTyped, S!StopStages
    <2>4. S!WaysApart'
      BY <1>6 DEF S!TargetGone, S!StopInv, S!TypeOK, S!ThreadsTyped, S!StagesTyped,
         S!RuntimeStates, S!WaysApart
    <2>5. S!LocksInside'
      BY <1>6 DEF S!TargetGone, S!StopInv, S!TypeOK, S!ThreadsTyped, S!StagesTyped,
         S!RuntimeStates, S!LocksInside
    <2>6. S!DrainHolds'
      BY <1>6 DEF S!TargetGone, S!StopInv, S!TypeOK, S!ThreadsTyped, S!StagesTyped,
         S!RuntimeStates, S!DrainHolds, S!Quiesced, S!WaysApart, S!FreezeHolds, S!TornDownInOrder,
         S!Active
    <2>7. S!FreezeHolds'
      BY <1>6 DEF S!TargetGone, S!StopInv, S!TypeOK, S!ThreadsTyped, S!StagesTyped,
         S!RuntimeStates, S!FreezeHolds, S!LocksInside, S!TornDownInOrder, S!WaysApart,
         S!DrainHolds, S!Quiesced, S!Turned, S!Active
    <2>8. S!TornDownInOrder'
      BY <1>6 DEF S!TargetGone, S!StopInv, S!TypeOK, S!ThreadsTyped, S!StagesTyped,
         S!RuntimeStates, S!TornDownInOrder, S!WaysApart, S!DrainHolds, S!Quiesced
    <2>9. S!OnlyUnseen'
      BY <1>6 DEF S!TargetGone, S!StopInv, S!TypeOK, S!ThreadsTyped, S!StagesTyped,
         S!RuntimeStates, S!OnlyUnseen, S!TornDownInOrder, S!WaysApart, S!FreezeHolds, S!Inside,
         S!Turned, S!Notify, S!Parked, S!Active
    <2>10. S!SlotClaimedOnce'
      BY <1>6 DEF S!TargetGone, S!StopInv, S!TypeOK, S!ThreadsTyped, S!StagesTyped,
         S!RuntimeStates, S!SlotClaimedOnce, S!WaysApart
    <2> QED BY <2>1, <2>2, <2>3, <2>4, <2>5, <2>6, <2>7, <2>8, <2>9, <2>10 DEF S!StopInv, S!TypeOK
  <1> QED BY <1>1, <1>2, <1>3, <1>4, <1>5, <1>6

\* and the end of the process.
LEMMA ExitSteps ==
  ASSUME S!StopInv,
         S!ExitProcess \/ S!ProcessEnds \/ S!Detach
  PROVE  S!StopInv'
  <1> USE DEF S!target, S!agent, S!runtime
  <1>1. CASE S!ExitProcess
    <2>1. S!ThreadsTyped'
      BY <1>1 DEF S!ExitProcess, S!StopInv, S!TypeOK, S!ThreadsTyped, S!Places
    <2>2. S!FlagsTyped'
      BY <1>1, Zenon DEF S!ExitProcess, S!StopInv, S!TypeOK, S!FlagsTyped
    <2>3. S!StagesTyped'
      BY <1>1 DEF S!ExitProcess, S!StopInv, S!TypeOK, S!StagesTyped, S!ExitStages
    <2>4. S!WaysApart'
      BY <1>1 DEF S!ExitProcess, S!StopInv, S!TypeOK, S!ThreadsTyped, S!StagesTyped,
         S!RuntimeStates, S!WaysApart
    <2>5. S!LocksInside'
      BY <1>1 DEF S!ExitProcess, S!StopInv, S!TypeOK, S!ThreadsTyped, S!StagesTyped,
         S!RuntimeStates, S!LocksInside
    <2>6. S!DrainHolds'
      BY <1>1 DEF S!ExitProcess, S!StopInv, S!TypeOK, S!ThreadsTyped, S!StagesTyped,
         S!RuntimeStates, S!DrainHolds, S!Quiesced, S!WaysApart, S!FreezeHolds, S!TornDownInOrder,
         S!Active
    <2>7. S!FreezeHolds'
      BY <1>1 DEF S!ExitProcess, S!StopInv, S!TypeOK, S!ThreadsTyped, S!StagesTyped,
         S!RuntimeStates, S!FreezeHolds, S!LocksInside, S!TornDownInOrder, S!WaysApart,
         S!DrainHolds, S!Quiesced, S!Turned, S!Active
    <2>8. S!TornDownInOrder'
      BY <1>1 DEF S!ExitProcess, S!StopInv, S!TypeOK, S!ThreadsTyped, S!StagesTyped,
         S!RuntimeStates, S!TornDownInOrder, S!WaysApart, S!DrainHolds, S!Quiesced
    <2>9. S!OnlyUnseen'
      BY <1>1 DEF S!ExitProcess, S!StopInv, S!TypeOK, S!ThreadsTyped, S!StagesTyped,
         S!RuntimeStates, S!OnlyUnseen, S!TornDownInOrder, S!WaysApart, S!FreezeHolds, S!Inside,
         S!Turned, S!Notify, S!Parked, S!Active
    <2>10. S!SlotClaimedOnce'
      BY <1>1 DEF S!ExitProcess, S!StopInv, S!TypeOK, S!ThreadsTyped, S!StagesTyped,
         S!RuntimeStates, S!SlotClaimedOnce, S!WaysApart
    <2> QED BY <2>1, <2>2, <2>3, <2>4, <2>5, <2>6, <2>7, <2>8, <2>9, <2>10 DEF S!StopInv, S!TypeOK
  <1>2. CASE S!ProcessEnds
    <2>1. S!ThreadsTyped'
      BY <1>2 DEF S!ProcessEnds, S!StopInv, S!TypeOK, S!ThreadsTyped, S!Places
    <2>2. S!FlagsTyped'
      BY <1>2, Zenon DEF S!ProcessEnds, S!StopInv, S!TypeOK, S!FlagsTyped
    <2>3. S!StagesTyped'
      BY <1>2 DEF S!ProcessEnds, S!StopInv, S!TypeOK, S!StagesTyped, S!StopStages
    <2>4. S!WaysApart'
      BY <1>2 DEF S!ProcessEnds, S!StopInv, S!TypeOK, S!ThreadsTyped, S!StagesTyped,
         S!RuntimeStates, S!WaysApart
    <2>5. S!LocksInside'
      BY <1>2 DEF S!ProcessEnds, S!StopInv, S!TypeOK, S!ThreadsTyped, S!StagesTyped,
         S!RuntimeStates, S!LocksInside
    <2>6. S!DrainHolds'
      BY <1>2 DEF S!ProcessEnds, S!StopInv, S!TypeOK, S!ThreadsTyped, S!StagesTyped,
         S!RuntimeStates, S!DrainHolds, S!Quiesced, S!WaysApart, S!FreezeHolds, S!TornDownInOrder,
         S!Active
    <2>7. S!FreezeHolds'
      BY <1>2 DEF S!ProcessEnds, S!StopInv, S!TypeOK, S!ThreadsTyped, S!StagesTyped,
         S!RuntimeStates, S!FreezeHolds, S!LocksInside, S!TornDownInOrder, S!WaysApart,
         S!DrainHolds, S!Quiesced, S!Turned, S!Active
    <2>8. S!TornDownInOrder'
      BY <1>2 DEF S!ProcessEnds, S!StopInv, S!TypeOK, S!ThreadsTyped, S!StagesTyped,
         S!RuntimeStates, S!TornDownInOrder, S!WaysApart, S!DrainHolds, S!Quiesced
    <2>9. S!OnlyUnseen'
      BY <1>2 DEF S!ProcessEnds, S!StopInv, S!TypeOK, S!ThreadsTyped, S!StagesTyped,
         S!RuntimeStates, S!OnlyUnseen, S!TornDownInOrder, S!WaysApart, S!FreezeHolds, S!Inside,
         S!Turned, S!Notify, S!Parked, S!Active
    <2>10. S!SlotClaimedOnce'
      BY <1>2 DEF S!ProcessEnds, S!StopInv, S!TypeOK, S!ThreadsTyped, S!StagesTyped,
         S!RuntimeStates, S!SlotClaimedOnce, S!WaysApart
    <2> QED BY <2>1, <2>2, <2>3, <2>4, <2>5, <2>6, <2>7, <2>8, <2>9, <2>10 DEF S!StopInv, S!TypeOK
  <1>3. CASE S!Detach
    <2>1. S!ThreadsTyped'
      BY <1>3 DEF S!Detach, S!StopInv, S!TypeOK, S!ThreadsTyped, S!Places
    <2>2. S!FlagsTyped'
      BY <1>3, Zenon DEF S!Detach, S!StopInv, S!TypeOK, S!FlagsTyped
    <2>3. S!StagesTyped'
      BY <1>3 DEF S!Detach, S!StopInv, S!TypeOK, S!StagesTyped, S!StopStages, S!RuntimeStates
    <2>4. S!WaysApart'
      BY <1>3 DEF S!Detach, S!StopInv, S!TypeOK, S!ThreadsTyped, S!StagesTyped, S!RuntimeStates,
         S!WaysApart
    <2>5. S!LocksInside'
      BY <1>3 DEF S!Detach, S!StopInv, S!TypeOK, S!ThreadsTyped, S!StagesTyped, S!RuntimeStates,
         S!LocksInside
    <2>6. S!DrainHolds'
      BY <1>3 DEF S!Detach, S!StopInv, S!TypeOK, S!ThreadsTyped, S!StagesTyped, S!RuntimeStates,
         S!DrainHolds, S!Quiesced, S!WaysApart, S!FreezeHolds, S!TornDownInOrder, S!Active
    <2>7. S!FreezeHolds'
      BY <1>3 DEF S!Detach, S!StopInv, S!TypeOK, S!ThreadsTyped, S!StagesTyped, S!RuntimeStates,
         S!FreezeHolds, S!LocksInside, S!TornDownInOrder, S!WaysApart, S!DrainHolds, S!Quiesced,
         S!Turned, S!Active
    <2>8. S!TornDownInOrder'
      BY <1>3 DEF S!Detach, S!StopInv, S!TypeOK, S!ThreadsTyped, S!StagesTyped, S!RuntimeStates,
         S!TornDownInOrder, S!WaysApart, S!DrainHolds, S!Quiesced
    <2>9. S!OnlyUnseen'
      BY <1>3 DEF S!Detach, S!StopInv, S!TypeOK, S!ThreadsTyped, S!StagesTyped, S!RuntimeStates,
         S!OnlyUnseen, S!TornDownInOrder, S!WaysApart, S!FreezeHolds, S!Inside, S!Turned,
         S!Notify, S!Parked, S!Active
    <2>10. S!SlotClaimedOnce'
      BY <1>3 DEF S!Detach, S!StopInv, S!TypeOK, S!ThreadsTyped, S!StagesTyped, S!RuntimeStates,
         S!SlotClaimedOnce, S!WaysApart
    <2> QED BY <2>1, <2>2, <2>3, <2>4, <2>5, <2>6, <2>7, <2>8, <2>9, <2>10 DEF S!StopInv, S!TypeOK
  <1> QED BY <1>1, <1>2, <1>3

\* Every step keeps the invariant.
LEMMA StopNext == ASSUME S!StopInv, [S!Next]_(S!vars) PROVE S!StopInv'
  <1>1. CASE S!Target BY <1>1, CallSteps DEF S!Target
  <1>2. CASE S!Runtime BY <1>2, GateSteps, RuntimeSteps DEF S!Runtime
  <1>3. CASE S!Worker BY <1>3, ServiceSteps, RuntimeSteps DEF S!Worker
  <1>4. CASE S!Stop BY <1>4, StopSteps, CallSteps DEF S!Stop
  <1>5. CASE S!Exit BY <1>5, ExitSteps DEF S!Exit
  <1>6. CASE UNCHANGED S!vars
    <2> USE <1>6 DEF S!vars, S!target, S!agent, S!runtime, S!StopInv
    <2>1. S!ThreadsTyped' /\ S!FlagsTyped' BY DEF S!TypeOK, S!ThreadsTyped, S!FlagsTyped
    <2>7. S!StagesTyped' BY DEF S!TypeOK, S!StagesTyped
    <2>2. S!WaysApart' /\ S!LocksInside' BY DEF S!WaysApart, S!LocksInside
    <2>3. S!DrainHolds' BY DEF S!DrainHolds, S!Quiesced, S!Active
    <2>4. S!FreezeHolds' BY DEF S!FreezeHolds, S!Turned
    <2>5. S!TornDownInOrder' /\ S!OnlyUnseen' BY DEF S!TornDownInOrder, S!OnlyUnseen, S!Inside, S!Notify
    <2>6. S!SlotClaimedOnce' BY DEF S!SlotClaimedOnce
    <2> QED BY <2>1, <2>2, <2>3, <2>4, <2>5, <2>6, <2>7 DEF S!TypeOK
  <1> QED BY <1>1, <1>2, <1>3, <1>4, <1>5, <1>6 DEF S!Next

\* What it says: no frozen thread holds the heap lock, nothing is pulled away or left
\* suspended, and one actor finalises.
LEMMA StopSafe == ASSUME S!StopInv PROVE S!FrozenHoldNoLock /\ S!StopLeavesNothing /\ S!OneFinalizer
  <1> USE DEF S!StopInv
  <1>1. S!FrozenHoldNoLock
    <2>1. CASE c = "suspend"
      <3>1. S!Quiesced BY <2>1 DEF S!DrainHolds
      <3>2. \A t \in Threads : lock[t] # "call" BY <3>1 DEF S!Quiesced, S!LocksInside, S!Active
      <3> QED BY <3>2 DEF S!FrozenHoldNoLock
    <2>2. CASE c = "finalizing" BY <2>2 DEF S!FreezeHolds, S!FrozenHoldNoLock
    <2> QED BY <2>1, <2>2 DEF S!FrozenHoldNoLock
  <1>2. S!StopLeavesNothing BY DEF S!StopLeavesNothing, S!FreezeHolds, S!OnlyUnseen
  <1>3. S!OneFinalizer BY DEF S!OneFinalizer, S!SlotClaimedOnce
  <1> QED BY <1>1, <1>2, <1>3

\* A session that is stopped is in an initial state of WindowsStop,
LEMMA EndsInit == ASSUME MCInit PROVE S!StopInv
  BY StopInit, StopsAssumption DEF MCInit

\* and goes on by its steps.
LEMMA EndsNext == ASSUME S!StopInv, [Starts \/ Ends]_<<half, vars, ending>> PROVE S!StopInv'
  <1>1. CASE Ends BY <1>1, StopNext DEF Ends
  <1>2. CASE Starts \/ UNCHANGED <<half, vars, ending>>
    <2>1. UNCHANGED S!vars
      BY <1>2 DEF Starts, ending, S!vars, S!target, S!agent, S!runtime
    <2> QED BY <2>1, StopNext
  <1> QED BY <1>1, <1>2

\* The start goes on by its own steps, or stays as it is.
LEMMA StartsNext == ASSUME StartInv, [Starts \/ Ends]_<<half, vars, ending>> PROVE StartInv'
  <1>1. [Next]_vars BY DEF Starts, Ends
  <1> QED BY <1>1, StartNext

\* StubPagesLive: whatever times out, the controller never frees the pages of the stub
\* under the remote thread or the redirected thread that runs on them.  (Set aside: a wait
\* that fails outright and a context that cannot be set, which the code does not handle.)
THEOREM StubPagesStay == MCSpec => []StubPagesLive
  <1>1. MCInit => StartInv BY StartInit DEF MCInit
  <1>2. StartInv /\ [Starts \/ Ends]_<<half, vars, ending>> => StartInv' BY StartsNext
  <1>3. StartInv => StubPagesLive BY StartSafe
  <1> QED BY <1>1, <1>2, <1>3, PTL DEF MCSpec

\* A session means a capturing agent that was there before the launched program ran;
\* a failed launch leaves no process, a failed attach no thread suspended or redirected.
THEOREM StartsLeaveNothing == MCSpec => []NothingLeftBehind
  <1>1. MCInit => StartInv BY StartInit DEF MCInit
  <1>2. StartInv /\ [Starts \/ Ends]_<<half, vars, ending>> => StartInv' BY StartsNext
  <1>3. StartInv => NothingLeftBehind BY StartSafe
  <1> QED BY <1>1, <1>2, <1>3, PTL DEF MCSpec

\* FrozenHoldNoLock: no thread is frozen for the removal of the hooks with a lock in its
\* hands that a hooked call took, which the agent needs to finalise.
THEOREM FreezeIsSafe == MCSpec => []FrozenHoldNoLock
  <1>1. MCInit => S!StopInv BY EndsInit
  <1>2. S!StopInv /\ [Starts \/ Ends]_<<half, vars, ending>> => S!StopInv' BY EndsNext
  <1>3. S!StopInv => FrozenHoldNoLock
    BY StopSafe DEF FrozenHoldNoLock
  <1> QED BY <1>1, <1>2, <1>3, PTL DEF MCSpec

\* StopLeavesNothing: however a stop ends, no thread stays suspended, hooks and module go
\* away only under threads that no counter and no stack walk could show (parked at the gate,
\* or between its wake-up and the counter), and one actor finalises.
THEOREM StopsLeaveNothing == MCSpec => []StopLeavesNothing
  <1>1. MCInit => S!StopInv BY EndsInit
  <1>2. S!StopInv /\ [Starts \/ Ends]_<<half, vars, ending>> => S!StopInv' BY EndsNext
  <1>3. S!StopInv => StopLeavesNothing
    BY StopSafe DEF StopLeavesNothing
  <1> QED BY <1>1, <1>2, <1>3, PTL DEF MCSpec

==============================================================================
