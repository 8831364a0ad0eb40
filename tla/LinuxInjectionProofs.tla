------------------------ MODULE LinuxInjectionProofs ------------------------
(***************************************************************************)
(* The safety properties of LinuxInjection for any number of threads, any  *)
(* images, any bound on the single steps and on the moves of the target.   *)
(***************************************************************************)
EXTENDS LinuxInjection, TLAPS

\* A single step and a redirection leave registers.
LEMMA RegisterUpdates ==
  ASSUME NEW r \in Registers, NEW p \in Places
  PROVE  /\ [r EXCEPT !.at = p] \in Registers /\ [r EXCEPT !.ctx = "stub"] \in Registers
         /\ r.n < MaxSteps => [r EXCEPT !.at = p, !.n = r.n + 1] \in Registers
  <1> MaxSteps \in Nat /\ r.n \in 0 .. MaxSteps BY InjectionAssumption DEF Registers
  <1>1. r.n < MaxSteps => r.n + 1 \in 0 .. MaxSteps OBVIOUS
  <1> QED BY <1>1 DEF Registers

\* What the injector does when it resumes, stops or loses a thread: the state of the thread
\* and two fields of its record.
LEMMA ThreadUpdate ==
  ASSUME TypeOK, NEW t \in Threads, NEW a \in BOOLEAN, NEW b \in BOOLEAN,
         NEW s \in {"run", "stop", "dead"},
         life' = [life EXCEPT ![t] = s],
         seized' = [seized EXCEPT ![t] = [@ EXCEPT !.stopped = a, !.running = b]]
  PROVE  /\ life' \in [Threads -> {"none", "run", "stop", "dead"}]
         /\ seized' \in [Threads -> SeizedThread]
         /\ life'[t] = s /\ seized'[t].stopped = a /\ seized'[t].running = b
         /\ seized'[t].known = seized[t].known /\ seized'[t].valid = seized[t].valid
         /\ seized'[t].saved = seized[t].saved
         /\ \A v \in Threads \ {t} : life'[v] = life[v] /\ seized'[v] = seized[v]
  <1>1. /\ seized \in [Threads -> SeizedThread] /\ life \in [Threads -> {"none", "run", "stop", "dead"}]
    BY DEF TypeOK
  <1>2. [seized[t] EXCEPT !.stopped = a, !.running = b] \in SeizedThread BY <1>1 DEF SeizedThread
  <1> QED BY <1>1, <1>2 DEF SeizedThread

\* The invariant holds before the controller has done anything.
LEMMA InjectionInit == Init => InjectionInv
  <1> SUFFICES ASSUME Init PROVE InjectionInv OBVIOUS
  <1> USE InjectionAssumption DEF Init, Nobody
  <1>1. TypeOK
    <2>1. [ctx |-> "own", at |-> "app", n |-> 0] \in Registers BY DEF Registers, Places
    <2>2. Nobody \in SeizedThread BY <2>1 DEF SeizedThread
    <2> QED BY <2>1, <2>2 DEF TypeOK
  <1>2. LaunchUntraced BY DEF LaunchUntraced
  <1>3. SeizedAreTraced BY DEF SeizedAreTraced
  <1>4. RecordsHold BY DEF RecordsHold
  <1>5. WindowsClear BY DEF WindowsClear
  <1>6. CallUnderWay /\ StubContext BY DEF CallUnderWay, StubContext
  <1>7. StagesInOrder BY DEF StagesInOrder
  <1> QED BY <1>1, <1>2, <1>3, <1>4, <1>5, <1>6, <1>7 DEF InjectionInv

\* The target keeps the invariant: what it does to a thread it does to a running one.
LEMMA TargetSteps ==
  ASSUME InjectionInv, NEW t \in Threads, NEW u \in Threads,
         Move(t) \/ Die(t) \/ Clone(t, u) \/ Stops(t)
  PROVE  InjectionInv'
  <1> USE InjectionAssumption DEF kernel, injector, remote, Doing, Unwind, Quiet, Known, Alive,
          Calling, LetGo
  <1>1. CASE Move(t)
    <2>1. TypeOK' BY <1>1 DEF Move, InjectionInv, TypeOK, Registers
    <2>2. LaunchUntraced' BY <1>1 DEF Move, InjectionInv, LaunchUntraced
    <2>3. SeizedAreTraced' BY <1>1 DEF Move, InjectionInv, SeizedAreTraced
    <2>4. RecordsHold' BY <1>1 DEF Move, InjectionInv, RecordsHold, Frozen
    <2>5. WindowsClear'
      <3>1. ~seized[t].known \/ (phase \notin {"evacuate", "redirect"} /\ ~Calling)
        BY <1>1 DEF Move, InjectionInv, RecordsHold, Frozen, CallUnderWay
      <3>2. /\ patched => regs'[t].at # "window"
            /\ \A v \in Threads \ {t} : regs'[v] = regs[v]
        BY <1>1 DEF Move, InjectionInv, TypeOK
      <3> QED BY <1>1, <3>1, <3>2 DEF Move, InjectionInv, WindowsClear, OutOfWindows
    <2>6. CallUnderWay' BY <1>1 DEF Move, InjectionInv, CallUnderWay
    <2>7. StubContext' BY <1>1 DEF Move, InjectionInv, StubContext
    <2>8. StagesInOrder' BY <1>1 DEF Move, InjectionInv, StagesInOrder
    <2> QED BY <2>1, <2>2, <2>3, <2>4, <2>5, <2>6, <2>7, <2>8 DEF InjectionInv
  <1>2. CASE Die(t)
    <2>1. TypeOK' BY <1>2 DEF Die, InjectionInv, TypeOK
    <2>2. LaunchUntraced' BY <1>2 DEF Die, InjectionInv, LaunchUntraced
    <2>3. SeizedAreTraced' BY <1>2 DEF Die, InjectionInv, SeizedAreTraced
    <2>4. RecordsHold' BY <1>2 DEF Die, InjectionInv, RecordsHold, Frozen
    <2>5. WindowsClear' BY <1>2 DEF Die, InjectionInv, WindowsClear, OutOfWindows
    <2>6. CallUnderWay' BY <1>2 DEF Die, InjectionInv, CallUnderWay
    <2>7. StubContext' BY <1>2 DEF Die, InjectionInv, StubContext
    <2>8. StagesInOrder' BY <1>2 DEF Die, InjectionInv, StagesInOrder
    <2> QED BY <2>1, <2>2, <2>3, <2>4, <2>5, <2>6, <2>7, <2>8 DEF InjectionInv
  <1>3. CASE Clone(t, u)
    <2>1. TypeOK' BY <1>3 DEF Clone, InjectionInv, TypeOK
    <2>2. LaunchUntraced' BY <1>3 DEF Clone, InjectionInv, LaunchUntraced
    <2>3. SeizedAreTraced' BY <1>3 DEF Clone, InjectionInv, SeizedAreTraced
    <2>4. RecordsHold' BY <1>3 DEF Clone, InjectionInv, RecordsHold, Frozen
    <2>5. WindowsClear' BY <1>3 DEF Clone, InjectionInv, WindowsClear, OutOfWindows
    <2>6. CallUnderWay' BY <1>3 DEF Clone, InjectionInv, CallUnderWay
    <2>7. StubContext' BY <1>3 DEF Clone, InjectionInv, StubContext
    <2>8. StagesInOrder' BY <1>3 DEF Clone, InjectionInv, StagesInOrder
    <2> QED BY <2>1, <2>2, <2>3, <2>4, <2>5, <2>6, <2>7, <2>8 DEF InjectionInv
  <1>4. CASE Stops(t)
    <2>1. TypeOK' BY <1>4 DEF Stops, InjectionInv, TypeOK
    <2>2. LaunchUntraced' BY <1>4 DEF Stops, InjectionInv, LaunchUntraced
    <2>3. SeizedAreTraced' BY <1>4 DEF Stops, InjectionInv, TypeOK, SeizedAreTraced
    <2>4. RecordsHold' BY <1>4 DEF Stops, InjectionInv, RecordsHold, Frozen
    <2>5. WindowsClear' BY <1>4 DEF Stops, InjectionInv, WindowsClear, OutOfWindows
    <2>6. CallUnderWay' BY <1>4 DEF Stops, InjectionInv, CallUnderWay
    <2>7. StubContext' BY <1>4 DEF Stops, InjectionInv, StubContext
    <2>8. StagesInOrder' BY <1>4 DEF Stops, InjectionInv, StagesInOrder
    <2> QED BY <2>1, <2>2, <2>3, <2>4, <2>5, <2>6, <2>7, <2>8 DEF InjectionInv
  <1> QED BY <1>1, <1>2, <1>3, <1>4

\* So do the walk of the injector over the thread list and the interrupts,
LEMMA SeizeSteps ==
  ASSUME InjectionInv, NEW t \in Threads,
         Prepare \/ List \/ SeizeThread(t) \/ EndPass \/ SeizeFails \/ Interrupt(t)
  PROVE  InjectionInv'
  <1> USE InjectionAssumption DEF kernel, injector, remote, Doing, Unwind, Quiet, Known, Alive,
          Calling, LetGo
  <1>1. CASE Prepare
    <2>1. TypeOK' BY <1>1 DEF Prepare, InjectionInv, TypeOK
    <2>2. LaunchUntraced' BY <1>1 DEF Prepare, InjectionInv, LaunchUntraced
    <2>3. SeizedAreTraced' BY <1>1 DEF Prepare, InjectionInv, SeizedAreTraced
    <2>4. RecordsHold' BY <1>1 DEF Prepare, InjectionInv, RecordsHold, CallUnderWay
    <2>5. WindowsClear' BY <1>1 DEF Prepare, InjectionInv, WindowsClear, CallUnderWay
    <2>6. CallUnderWay' BY <1>1 DEF Prepare, InjectionInv, CallUnderWay
    <2>7. StubContext' BY <1>1 DEF Prepare, InjectionInv, StubContext
    <2>8. StagesInOrder' BY <1>1 DEF Prepare, InjectionInv, StagesInOrder
    <2> QED BY <2>1, <2>2, <2>3, <2>4, <2>5, <2>6, <2>7, <2>8 DEF InjectionInv
  <1>2. CASE List
    <2>1. TypeOK'
      <3>1. Alive \subseteq Threads /\ Known \subseteq Threads OBVIOUS
      <3>2. todo' \in SUBSET Threads /\ phase' \in {"seize", "release"} BY <1>2, <3>1 DEF List
      <3>3. fresh' \in BOOLEAN BY <1>2 DEF List
      <3>4. UNCHANGED <<kernel, seized, hijack, stage, inflight, abandoned, remote, ctl, outcome>>
        BY <1>2 DEF List
      <3> QED BY <3>2, <3>3, <3>4 DEF InjectionInv, TypeOK
    <2>2. LaunchUntraced' BY <1>2 DEF List, InjectionInv, LaunchUntraced
    <2>3. SeizedAreTraced' BY <1>2 DEF List, InjectionInv, SeizedAreTraced
    <2>4. RecordsHold' BY <1>2 DEF List, InjectionInv, RecordsHold, CallUnderWay
    <2>5. WindowsClear' BY <1>2 DEF List, InjectionInv, WindowsClear, CallUnderWay
    <2>6. CallUnderWay' BY <1>2 DEF List, InjectionInv, CallUnderWay
    <2>7. StubContext' BY <1>2 DEF List, InjectionInv, StubContext
    <2>8. StagesInOrder' BY <1>2 DEF List, InjectionInv, StagesInOrder
    <2> QED BY <2>1, <2>2, <2>3, <2>4, <2>5, <2>6, <2>7, <2>8 DEF InjectionInv
  <1>3. CASE SeizeThread(t)
    <2>a. /\ seized' \in [Threads -> SeizedThread] /\ traced' \in [Threads -> BOOLEAN]
          /\ fresh' \in BOOLEAN
          /\ \A v \in Threads \ {t} : seized'[v] = seized[v] /\ traced'[v] = traced[v]
          /\ \/ seized'[t] = seized[t] /\ traced'[t] = traced[t]
             \/ seized'[t] = [seized[t] EXCEPT !.known = TRUE] /\ traced'[t] /\ life[t] # "dead"
      <3>1. /\ seized \in [Threads -> SeizedThread] /\ traced \in [Threads -> BOOLEAN]
            /\ fresh \in BOOLEAN
        BY DEF InjectionInv, TypeOK
      <3>2. CASE life[t] = "dead" BY <1>3, <3>1, <3>2 DEF SeizeThread
      <3>3. CASE life[t] # "dead"
        <4>1. [seized[t] EXCEPT !.known = TRUE] \in SeizedThread BY <3>1 DEF SeizedThread
        <4>2. seized' = [seized EXCEPT ![t] = [seized[t] EXCEPT !.known = TRUE]]
          BY <1>3, <3>1, <3>3 DEF SeizeThread
        <4> QED BY <1>3, <3>1, <3>3, <4>1, <4>2 DEF SeizeThread
      <3> QED BY <3>2, <3>3
    <2>1. TypeOK'
      <3>1. todo' \in SUBSET Threads BY <1>3 DEF SeizeThread, InjectionInv, TypeOK
      <3> QED BY <1>3, <2>a, <3>1 DEF SeizeThread, InjectionInv, TypeOK
    <2>2. LaunchUntraced' BY <1>3, <2>a DEF SeizeThread, InjectionInv, LaunchUntraced
    <2>3. SeizedAreTraced'
      BY <1>3, <2>a DEF SeizeThread, InjectionInv, SeizedAreTraced, SeizedThread
    <2>4. RecordsHold'
      BY <1>3, <2>a DEF SeizeThread, InjectionInv, RecordsHold, SeizedAreTraced, SeizedThread
    <2>5. WindowsClear' BY <1>3, <2>a DEF SeizeThread, InjectionInv, WindowsClear
    <2>6. CallUnderWay' BY <1>3, <2>a DEF SeizeThread, InjectionInv, CallUnderWay
    <2>7. StubContext' BY <1>3, <2>a DEF SeizeThread, InjectionInv, StubContext
    <2>8. StagesInOrder' BY <1>3, <2>a DEF SeizeThread, InjectionInv, StagesInOrder
    <2> QED BY <2>1, <2>2, <2>3, <2>4, <2>5, <2>6, <2>7, <2>8 DEF InjectionInv
  <1>4. CASE EndPass
    <2>1. TypeOK' BY <1>4 DEF EndPass, InjectionInv, TypeOK
    <2>2. LaunchUntraced' BY <1>4 DEF EndPass, InjectionInv, LaunchUntraced
    <2>3. SeizedAreTraced' BY <1>4 DEF EndPass, InjectionInv, SeizedAreTraced
    <2>4. RecordsHold' BY <1>4 DEF EndPass, InjectionInv, RecordsHold
    <2>5. WindowsClear' BY <1>4 DEF EndPass, InjectionInv, WindowsClear
    <2>6. CallUnderWay' BY <1>4 DEF EndPass, InjectionInv, CallUnderWay
    <2>7. StubContext' BY <1>4 DEF EndPass, InjectionInv, StubContext
    <2>8. StagesInOrder' BY <1>4 DEF EndPass, InjectionInv, StagesInOrder
    <2> QED BY <2>1, <2>2, <2>3, <2>4, <2>5, <2>6, <2>7, <2>8 DEF InjectionInv
  <1>5. CASE SeizeFails
    <2>1. TypeOK' BY <1>5 DEF SeizeFails, InjectionInv, TypeOK
    <2>2. LaunchUntraced' BY <1>5 DEF SeizeFails, InjectionInv, LaunchUntraced
    <2>3. SeizedAreTraced' BY <1>5 DEF SeizeFails, InjectionInv, SeizedAreTraced
    <2>4. RecordsHold' BY <1>5 DEF SeizeFails, InjectionInv, RecordsHold, CallUnderWay
    <2>5. WindowsClear' BY <1>5 DEF SeizeFails, InjectionInv, WindowsClear, CallUnderWay
    <2>6. CallUnderWay' BY <1>5 DEF SeizeFails, InjectionInv, CallUnderWay
    <2>7. StubContext' BY <1>5 DEF SeizeFails, InjectionInv, StubContext
    <2>8. StagesInOrder' BY <1>5 DEF SeizeFails, InjectionInv, StagesInOrder
    <2> QED BY <2>1, <2>2, <2>3, <2>4, <2>5, <2>6, <2>7, <2>8 DEF InjectionInv
  <1>6. CASE Interrupt(t)
    <2>1. TypeOK' BY <1>6 DEF Interrupt, InjectionInv, TypeOK
    <2>2. LaunchUntraced' BY <1>6 DEF Interrupt, InjectionInv, LaunchUntraced
    <2>3. SeizedAreTraced' BY <1>6 DEF Interrupt, InjectionInv, TypeOK, SeizedAreTraced
    <2>4. RecordsHold' BY <1>6 DEF Interrupt, InjectionInv, RecordsHold
    <2>5. WindowsClear' BY <1>6 DEF Interrupt, InjectionInv, WindowsClear
    <2>6. CallUnderWay' BY <1>6 DEF Interrupt, InjectionInv, CallUnderWay
    <2>7. StubContext' BY <1>6 DEF Interrupt, InjectionInv, StubContext
    <2>8. StagesInOrder' BY <1>6 DEF Interrupt, InjectionInv, StagesInOrder
    <2> QED BY <2>1, <2>2, <2>3, <2>4, <2>5, <2>6, <2>7, <2>8 DEF InjectionInv
  <1> QED BY <1>1, <1>2, <1>3, <1>4, <1>5, <1>6

\* the collection of the stopped threads and their evacuation,
LEMMA CollectSteps ==
  ASSUME InjectionInv, NEW t \in Threads,
         Collect(t) \/ CollectTimesOut \/ Locate \/ Evacuated(t) \/ EvacuationStep(t) \/ EvacuationFails(t) \/ SelectInjectionThread
  PROVE  InjectionInv'
  <1> USE InjectionAssumption DEF kernel, injector, remote, Doing, Unwind, Quiet, Known, Alive,
          Calling, LetGo
  <1>1. CASE Collect(t)
    <2>a. /\ seized' \in [Threads -> SeizedThread]
          /\ \A v \in Threads \ {t} : seized'[v] = seized[v]
          /\ life[t] = "dead" => seized'[t] = seized[t]
          /\ life[t] # "dead" => /\ seized'[t].known = seized[t].known
                                 /\ seized'[t].stopped /\ seized'[t].valid
                                 /\ seized'[t].running = seized[t].running
                                 /\ seized'[t].saved = regs[t]
      <3>1. seized \in [Threads -> SeizedThread] /\ regs[t] \in Registers
        BY DEF InjectionInv, TypeOK
      <3>2. CASE life[t] = "dead" BY <1>1, <3>1, <3>2 DEF Collect
      <3>3. CASE life[t] # "dead"
        <4>1. PICK signal \in BOOLEAN :
                 seized' = [seized EXCEPT ![t] = [seized[t] EXCEPT !.stopped = TRUE, !.valid = TRUE,
                                                  !.saved = regs[t], !.pending = signal]]
          BY <1>1, <3>3 DEF Collect
        <4> QED BY <3>1, <3>3, <4>1 DEF SeizedThread
      <3> QED BY <3>2, <3>3
    <2>b. /\ phase = "collect" /\ mode = "attach" /\ t \in todo /\ life[t] # "run"
          /\ \/ todo = {t} /\ phase' = "locate" /\ todo' = {}
             \/ todo # {t} /\ todo' = todo \ {t} /\ phase' = "collect"
          /\ UNCHANGED <<kernel, fresh, hijack, stage, inflight, abandoned, mode, target, remote,
                         ctl, outcome>>
      BY <1>1 DEF Collect
    <2>1. TypeOK' BY <2>a, <2>b DEF InjectionInv, TypeOK
    <2>2. LaunchUntraced' BY <1>1, <2>a DEF Collect, InjectionInv, LaunchUntraced
    <2>3. SeizedAreTraced'
      <3>1. \A v \in Threads : seized'[v].known = seized[v].known BY <2>a
      <3> QED BY <2>b, <3>1 DEF InjectionInv, TypeOK, SeizedAreTraced
    <2>4. RecordsHold'
      \* The thread is stopped, with no interrupt to come: its registers are its own.
      <3>1. regs[t].ctx = "own" BY <2>b DEF InjectionInv, TypeOK, Registers, StubContext
      <3>2. life[t] = "stop" => ~intr[t] BY <2>b DEF InjectionInv, SeizedAreTraced
      <3>3. life[t] \in {"stop", "dead"} BY <2>b DEF InjectionInv, TypeOK, SeizedAreTraced
      <3> QED BY <2>a, <2>b, <3>1, <3>2, <3>3 DEF InjectionInv, RecordsHold, Frozen
    <2>5. WindowsClear' BY <1>1, <2>a DEF Collect, InjectionInv, WindowsClear
    <2>6. CallUnderWay' BY <1>1, <2>a DEF Collect, InjectionInv, CallUnderWay
    <2>7. StubContext' BY <1>1, <2>a DEF Collect, InjectionInv, StubContext
    <2>8. StagesInOrder' BY <1>1, <2>a DEF Collect, InjectionInv, StagesInOrder
    <2> QED BY <2>1, <2>2, <2>3, <2>4, <2>5, <2>6, <2>7, <2>8 DEF InjectionInv
  <1>2. CASE CollectTimesOut
    <2>1. TypeOK' BY <1>2 DEF CollectTimesOut, InjectionInv, TypeOK
    <2>2. LaunchUntraced' BY <1>2 DEF CollectTimesOut, InjectionInv, LaunchUntraced
    <2>3. SeizedAreTraced' BY <1>2 DEF CollectTimesOut, InjectionInv, SeizedAreTraced
    <2>4. RecordsHold' BY <1>2 DEF CollectTimesOut, InjectionInv, RecordsHold, CallUnderWay
    <2>5. WindowsClear' BY <1>2 DEF CollectTimesOut, InjectionInv, WindowsClear, CallUnderWay
    <2>6. CallUnderWay' BY <1>2 DEF CollectTimesOut, InjectionInv, CallUnderWay
    <2>7. StubContext' BY <1>2 DEF CollectTimesOut, InjectionInv, StubContext
    <2>8. StagesInOrder' BY <1>2 DEF CollectTimesOut, InjectionInv, StagesInOrder
    <2> QED BY <2>1, <2>2, <2>3, <2>4, <2>5, <2>6, <2>7, <2>8 DEF InjectionInv
  <1>3. CASE Locate
    <2>1. TypeOK' BY <1>3 DEF Locate, InjectionInv, TypeOK
    <2>2. LaunchUntraced' BY <1>3 DEF Locate, InjectionInv, LaunchUntraced
    <2>3. SeizedAreTraced' BY <1>3 DEF Locate, InjectionInv, SeizedAreTraced
    <2>4. RecordsHold' BY <1>3 DEF Locate, InjectionInv, RecordsHold, Frozen
    <2>5. WindowsClear'
      BY <1>3 DEF Locate, InjectionInv, WindowsClear, OutOfWindows, Usable, RecordsHold, Frozen,
          CallUnderWay
    <2>6. CallUnderWay' BY <1>3 DEF Locate, InjectionInv, CallUnderWay
    <2>7. StubContext' BY <1>3 DEF Locate, InjectionInv, StubContext
    <2>8. StagesInOrder' BY <1>3 DEF Locate, InjectionInv, StagesInOrder
    <2> QED BY <2>1, <2>2, <2>3, <2>4, <2>5, <2>6, <2>7, <2>8 DEF InjectionInv
  <1>4. CASE Evacuated(t)
    <2>1. TypeOK' BY <1>4 DEF Evacuated, InjectionInv, TypeOK, SeizedThread
    <2>2. LaunchUntraced' BY <1>4 DEF Evacuated, InjectionInv, LaunchUntraced
    <2>3. SeizedAreTraced' BY <1>4 DEF Evacuated, InjectionInv, SeizedAreTraced
    <2>4. RecordsHold'
      <3>1. regs[t].ctx = "own"
        BY <1>4 DEF Evacuated, InjectionInv, TypeOK, Registers, StubContext
      <3>2. /\ \A v \in Threads \ {t} : seized'[v] = seized[v]
            /\ seized'[t].stopped = seized[t].stopped /\ seized'[t].valid = seized[t].valid
            /\ seized'[t].running = seized[t].running /\ seized'[t].saved = regs[t]
            /\ seized'[t].known = seized[t].known
        BY <1>4 DEF Evacuated, InjectionInv, TypeOK
      <3> QED BY <1>4, <3>1, <3>2 DEF Evacuated, InjectionInv, RecordsHold, Frozen
    <2>5. WindowsClear'
      BY <1>4 DEF Evacuated, InjectionInv, TypeOK, WindowsClear, OutOfWindows, InsidePatchWindow
    <2>6. CallUnderWay' BY <1>4 DEF Evacuated, InjectionInv, CallUnderWay
    <2>7. StubContext' BY <1>4 DEF Evacuated, InjectionInv, StubContext
    <2>8. StagesInOrder' BY <1>4 DEF Evacuated, InjectionInv, StagesInOrder
    <2> QED BY <2>1, <2>2, <2>3, <2>4, <2>5, <2>6, <2>7, <2>8 DEF InjectionInv
  <1>5. CASE EvacuationStep(t)
    <2>a. /\ regs' \in [Threads -> Registers] /\ seized' \in [Threads -> SeizedThread]
          /\ life' \in [Threads -> {"none", "run", "stop", "dead"}] /\ todo' \in SUBSET Threads
          /\ regs'[t].ctx = regs[t].ctx /\ seized'[t].known = seized[t].known
          /\ seized'[t].saved = seized[t].saved /\ seized'[t].running = seized[t].running
          /\ \/ /\ life' = life /\ todo' = todo /\ seized'[t].stopped = seized[t].stopped
                /\ seized'[t].valid = seized[t].valid
             \/ /\ life'[t] = "dead" /\ todo' = todo \ {t} /\ ~seized'[t].stopped
                /\ \A v \in Threads \ {t} : life'[v] = life[v]
          /\ \A v \in Threads \ {t} : regs'[v] = regs[v] /\ seized'[v] = seized[v]
      <3>1. /\ seized \in [Threads -> SeizedThread] /\ regs \in [Threads -> Registers]
            /\ life \in [Threads -> {"none", "run", "stop", "dead"}] /\ todo \in SUBSET Threads
        BY DEF InjectionInv, TypeOK
      <3>2. CASE \E p \in {"app", "window"} :
                    regs' = [regs EXCEPT ![t] = [@ EXCEPT !.at = p, !.n = regs[t].n + 1]]
                 /\ UNCHANGED <<life, seized, todo>>
        <4>1. PICK p \in {"app", "window"} :
                 regs' = [regs EXCEPT ![t] = [regs[t] EXCEPT !.at = p, !.n = regs[t].n + 1]]
          BY <3>1, <3>2 DEF Registers
        <4>2. regs[t].n < MaxSteps /\ regs[t] \in Registers /\ p \in Places
          BY <1>5, <3>1 DEF EvacuationStep, Places
        <4>3. /\ [regs[t] EXCEPT !.at = p, !.n = regs[t].n + 1] \in Registers
              /\ [regs[t] EXCEPT !.at = p, !.n = regs[t].n + 1].ctx = regs[t].ctx
          BY <4>2, RegisterUpdates DEF Registers
        <4> QED BY <3>1, <3>2, <4>1, <4>3
      <3>3. CASE seized' = [seized EXCEPT ![t].pending = TRUE] /\ UNCHANGED <<life, regs, todo>>
        <4>1. [seized[t] EXCEPT !.pending = TRUE] \in SeizedThread
          BY <3>1, ZenonT(30) DEF SeizedThread
        <4>2. seized' = [seized EXCEPT ![t] = [seized[t] EXCEPT !.pending = TRUE]] BY <3>1, <3>3
        <4> QED BY <3>1, <3>3, <4>1, <4>2 DEF SeizedThread
      <3>4. CASE /\ life' = [life EXCEPT ![t] = "dead"]
                 /\ seized' = [seized EXCEPT ![t] = [@ EXCEPT !.stopped = FALSE, !.valid = FALSE]]
                 /\ todo' = todo \ {t} /\ UNCHANGED regs
        <4>1. [seized[t] EXCEPT !.stopped = FALSE, !.valid = FALSE] \in SeizedThread
          <5> seized[t] \in SeizedThread BY <3>1
          <5> QED BY ZenonT(30) DEF SeizedThread
        <4> QED BY <3>1, <3>4, <4>1 DEF SeizedThread
      <3> QED BY <1>5, <3>2, <3>3, <3>4 DEF EvacuationStep
    <2>b. /\ phase = "evacuate" /\ mode = "attach" /\ t \in todo /\ life[t] = "stop"
          /\ UNCHANGED <<traced, intr, moves, phase, fresh, hijack, stage, inflight, abandoned, mode,
                         target, remote, ctl, outcome>>
      BY <1>5 DEF EvacuationStep
    <2>1. TypeOK' BY <2>a, <2>b DEF InjectionInv, TypeOK
    <2>2. LaunchUntraced' BY <2>a, <2>b DEF InjectionInv, LaunchUntraced
    <2>3. SeizedAreTraced' BY <2>a, <2>b DEF InjectionInv, SeizedAreTraced
    <2>4. RecordsHold' BY <2>a, <2>b DEF InjectionInv, RecordsHold, Frozen
    <2>5. WindowsClear' BY <2>a, <2>b DEF InjectionInv, WindowsClear, OutOfWindows
    <2>6. CallUnderWay' BY <2>a, <2>b DEF InjectionInv, CallUnderWay
    <2>7. StubContext' BY <2>a, <2>b DEF InjectionInv, StubContext
    <2>8. StagesInOrder' BY <2>a, <2>b DEF InjectionInv, StagesInOrder
    <2> QED BY <2>1, <2>2, <2>3, <2>4, <2>5, <2>6, <2>7, <2>8 DEF InjectionInv
  <1>6. CASE EvacuationFails(t)
    <2>a. /\ seized' \in [Threads -> SeizedThread]
          /\ life' \in [Threads -> {"none", "run", "stop", "dead"}]
          /\ seized'[t].known = seized[t].known /\ seized'[t].saved = seized[t].saved
          /\ life'[t] \in {"run", "stop"}
          /\ \A v \in Threads \ {t} : life'[v] = life[v] /\ seized'[v] = seized[v]
      <3>1. CASE UNCHANGED <<life, seized>>
        BY <1>6, <3>1 DEF EvacuationFails, InjectionInv, TypeOK
      <3>2. CASE /\ life' = [life EXCEPT ![t] = "run"]
                 /\ seized' = [seized EXCEPT ![t] = [@ EXCEPT !.stopped = FALSE, !.running = TRUE]]
        BY <3>2, ThreadUpdate DEF InjectionInv
      <3> QED BY <1>6, <3>1, <3>2 DEF EvacuationFails
    <2>b. /\ phase = "evacuate" /\ mode = "attach" /\ t \in todo /\ life[t] = "stop"
          /\ phase' = "release" /\ todo' = Known
          /\ UNCHANGED <<traced, intr, regs, moves, fresh, hijack, stage, inflight, abandoned, mode,
                         target, remote, ctl, outcome>>
      BY <1>6 DEF EvacuationFails
    <2>1. TypeOK' BY <2>a, <2>b DEF InjectionInv, TypeOK
    <2>2. LaunchUntraced' BY <2>a, <2>b DEF InjectionInv, LaunchUntraced
    <2>3. SeizedAreTraced' BY <2>a, <2>b DEF InjectionInv, SeizedAreTraced
    <2>4. RecordsHold' BY <2>a, <2>b DEF InjectionInv, RecordsHold, CallUnderWay
    <2>5. WindowsClear' BY <2>a, <2>b DEF InjectionInv, WindowsClear, CallUnderWay
    <2>6. CallUnderWay' BY <2>a, <2>b DEF InjectionInv, CallUnderWay
    <2>7. StubContext' BY <2>a, <2>b DEF InjectionInv, StubContext
    <2>8. StagesInOrder' BY <2>a, <2>b DEF InjectionInv, StagesInOrder
    <2> QED BY <2>1, <2>2, <2>3, <2>4, <2>5, <2>6, <2>7, <2>8 DEF InjectionInv
  <1>7. CASE SelectInjectionThread
    <2>1. TypeOK' BY <1>7 DEF SelectInjectionThread, InjectionInv, TypeOK, Candidates, Preferred
    <2>2. LaunchUntraced' BY <1>7 DEF SelectInjectionThread, InjectionInv, LaunchUntraced
    <2>3. SeizedAreTraced' BY <1>7 DEF SelectInjectionThread, InjectionInv, SeizedAreTraced
    <2>4. RecordsHold' BY <1>7 DEF SelectInjectionThread, InjectionInv, RecordsHold, Frozen
    <2>5. WindowsClear'
      BY <1>7 DEF SelectInjectionThread, InjectionInv, WindowsClear, OutOfWindows
    <2>6. CallUnderWay'
      <3>1. CASE phase' = "release"
        BY <1>7, <3>1 DEF SelectInjectionThread, InjectionInv, CallUnderWay
      <3>2. CASE phase' # "release"
        <4>1. /\ hijack' \in Candidates /\ phase' = "redirect" /\ phase = "evacuate"
              /\ UNCHANGED <<kernel, seized, stage, inflight, abandoned, mode, agent>>
          BY <1>7, <3>2 DEF SelectInjectionThread, Preferred
        <4>2. stage # "done" BY <4>1 DEF InjectionInv, CallUnderWay
        <4> QED BY <4>1, <4>2 DEF Candidates, Usable, InjectionInv, CallUnderWay
      <3> QED BY <3>1, <3>2
    <2>7. StubContext' BY <1>7 DEF SelectInjectionThread, InjectionInv, StubContext
    <2>8. StagesInOrder' BY <1>7 DEF SelectInjectionThread, InjectionInv, StagesInOrder
    <2> QED BY <2>1, <2>2, <2>3, <2>4, <2>5, <2>6, <2>7, <2>8 DEF InjectionInv
  <1> QED BY <1>1, <1>2, <1>3, <1>4, <1>5, <1>6, <1>7

\* the calls of the hijacked thread,
LEMMA CallSteps ==
  ASSUME InjectionInv,
         Redirect \/ CallSignalled \/ CallFaults \/ CallDies \/ Abandon \/ MapReturns \/ DlopenReturns \/ BootstrapReturns
  PROVE  InjectionInv'
  <1> USE InjectionAssumption DEF kernel, injector, remote, Doing, Unwind, Quiet, Known, Alive,
          Calling, LetGo
  <1>1. CASE Redirect
    <2>h. hijack \in Threads BY <1>1 DEF Redirect, InjectionInv, CallUnderWay
    <2>a. /\ life' \in [Threads -> {"none", "run", "stop", "dead"}]
          /\ seized' \in [Threads -> SeizedThread]
          /\ life'[hijack] = "run" /\ seized'[hijack].stopped = FALSE /\ seized'[hijack].running = TRUE
          /\ seized'[hijack].known = seized[hijack].known
          /\ seized'[hijack].valid = seized[hijack].valid
          /\ seized'[hijack].saved = seized[hijack].saved
          /\ \A v \in Threads \ {hijack} : life'[v] = life[v] /\ seized'[v] = seized[v]
      BY <1>1, <2>h, ThreadUpdate DEF Redirect, InjectionInv
    <2>b. /\ phase = "redirect" /\ mode = "attach" /\ inflight' = TRUE /\ phase' = "call"
          /\ regs' = [regs EXCEPT ![hijack] = [seized[hijack].saved EXCEPT !.ctx = "stub"]]
          /\ UNCHANGED <<traced, intr, moves, todo, fresh, hijack, stage, abandoned, mode, target,
                         remote, ctl, outcome>>
      BY <1>1 DEF Redirect
    <2>c. /\ regs' \in [Threads -> Registers] /\ regs'[hijack].ctx = "stub"
          /\ regs'[hijack].at = seized[hijack].saved.at
          /\ \A v \in Threads \ {hijack} : regs'[v] = regs[v]
      <3>1. seized[hijack].saved \in Registers /\ regs \in [Threads -> Registers]
        BY <2>h DEF InjectionInv, TypeOK, SeizedThread
      <3>2. /\ [seized[hijack].saved EXCEPT !.ctx = "stub"] \in Registers
            /\ [seized[hijack].saved EXCEPT !.ctx = "stub"].at = seized[hijack].saved.at
            /\ [seized[hijack].saved EXCEPT !.ctx = "stub"].ctx = "stub"
        BY <3>1 DEF Registers
      <3> QED BY <2>h, <2>b, <3>1, <3>2
    <2>1. TypeOK' BY <2>h, <2>a, <2>b, <2>c DEF InjectionInv, TypeOK
    <2>2. LaunchUntraced' BY <2>h, <2>a, <2>b, <2>c DEF InjectionInv, LaunchUntraced
    <2>3. SeizedAreTraced' BY <2>h, <2>a, <2>b, <2>c DEF InjectionInv, SeizedAreTraced
    <2>4. RecordsHold' BY <2>h, <2>a, <2>b, <2>c DEF InjectionInv, RecordsHold, Frozen
    <2>5. WindowsClear'
      BY <2>h, <2>a, <2>b, <2>c DEF InjectionInv, WindowsClear, OutOfWindows, CallUnderWay,
          RecordsHold, Frozen
    <2>6. CallUnderWay'
      BY <2>h, <2>a, <2>b, <2>c DEF InjectionInv, CallUnderWay, RecordsHold, Frozen
    <2>7. StubContext'
      BY <2>h, <2>a, <2>b, <2>c DEF InjectionInv, StubContext, CallUnderWay, SeizedAreTraced
    <2>8. StagesInOrder' BY <2>h, <2>a, <2>b, <2>c DEF InjectionInv, StagesInOrder
    <2> QED BY <2>1, <2>2, <2>3, <2>4, <2>5, <2>6, <2>7, <2>8 DEF InjectionInv
  <1>2. CASE CallSignalled
    <2>h. hijack \in Threads BY <1>2 DEF CallSignalled, InjectionInv, CallUnderWay
    <2>a. /\ seized' \in [Threads -> SeizedThread]
          /\ \A v \in Threads : /\ seized'[v].known = seized[v].known
                                /\ seized'[v].stopped = seized[v].stopped
                                /\ seized'[v].running = seized[v].running
                                /\ seized'[v].valid = seized[v].valid
                                /\ seized'[v].saved = seized[v].saved
      <3>1. seized \in [Threads -> SeizedThread] BY DEF InjectionInv, TypeOK
      <3>2. [seized[hijack] EXCEPT !.pending = TRUE] \in SeizedThread
        BY <2>h, <3>1 DEF SeizedThread
      <3>3. seized' = [seized EXCEPT ![hijack] = [seized[hijack] EXCEPT !.pending = TRUE]]
        BY <1>2, <2>h, <3>1 DEF CallSignalled
      <3> QED BY <2>h, <3>1, <3>2, <3>3 DEF SeizedThread
    <2>b. UNCHANGED <<kernel, phase, todo, fresh, hijack, stage, inflight, abandoned, mode, target,
                      remote, ctl, outcome>>
      BY <1>2 DEF CallSignalled
    <2>1. TypeOK' BY <2>h, <2>a, <2>b DEF InjectionInv, TypeOK
    <2>2. LaunchUntraced' BY <2>h, <2>a, <2>b DEF InjectionInv, LaunchUntraced
    <2>3. SeizedAreTraced' BY <2>h, <2>a, <2>b DEF InjectionInv, SeizedAreTraced, TypeOK
    <2>4. RecordsHold' BY <2>h, <2>a, <2>b DEF InjectionInv, RecordsHold, Frozen
    <2>5. WindowsClear' BY <2>h, <2>a, <2>b DEF InjectionInv, WindowsClear, OutOfWindows
    <2>6. CallUnderWay' BY <2>h, <2>a, <2>b DEF InjectionInv, CallUnderWay
    <2>7. StubContext' BY <2>h, <2>a, <2>b DEF InjectionInv, StubContext
    <2>8. StagesInOrder' BY <2>h, <2>a, <2>b DEF InjectionInv, StagesInOrder
    <2> QED BY <2>1, <2>2, <2>3, <2>4, <2>5, <2>6, <2>7, <2>8 DEF InjectionInv
  <1>3. CASE CallFaults
    <2>h. hijack \in Threads BY <1>3 DEF CallFaults, InjectionInv, CallUnderWay
    <2>a. /\ life' \in [Threads -> {"none", "run", "stop", "dead"}]
          /\ seized' \in [Threads -> SeizedThread]
          /\ life'[hijack] = "stop" /\ seized'[hijack].stopped = TRUE /\ seized'[hijack].running = FALSE
          /\ seized'[hijack].known = seized[hijack].known
          /\ seized'[hijack].valid = seized[hijack].valid
          /\ seized'[hijack].saved = seized[hijack].saved
          /\ \A v \in Threads \ {hijack} : life'[v] = life[v] /\ seized'[v] = seized[v]
      BY <1>3, <2>h, ThreadUpdate DEF CallFaults, InjectionInv
    <2>b. /\ phase = "call" /\ mode = "attach" /\ inflight /\ inflight' = FALSE
          /\ phase' = "release" /\ todo' = Known
          /\ UNCHANGED <<traced, intr, regs, moves, fresh, hijack, stage, abandoned, mode, target,
                         remote, ctl, outcome>>
      BY <1>3 DEF CallFaults
    <2>1. TypeOK' BY <2>h, <2>a, <2>b, ZenonT(30) DEF InjectionInv, TypeOK
    <2>2. LaunchUntraced' BY <2>h, <2>a, <2>b DEF InjectionInv, LaunchUntraced
    <2>3. SeizedAreTraced' BY <2>h, <2>a, <2>b DEF InjectionInv, SeizedAreTraced, CallUnderWay
    <2>4. RecordsHold' BY <2>h, <2>a, <2>b DEF InjectionInv, RecordsHold, CallUnderWay
    <2>5. WindowsClear'
      BY <2>h, <2>a, <2>b DEF InjectionInv, WindowsClear, OutOfWindows, CallUnderWay
    <2>6. CallUnderWay' BY <2>h, <2>a, <2>b DEF InjectionInv, CallUnderWay
    <2>7. StubContext' BY <2>h, <2>a, <2>b DEF InjectionInv, StubContext, CallUnderWay
    <2>8. StagesInOrder' BY <2>h, <2>a, <2>b DEF InjectionInv, StagesInOrder
    <2> QED BY <2>1, <2>2, <2>3, <2>4, <2>5, <2>6, <2>7, <2>8 DEF InjectionInv
  <1>4. CASE CallDies
    <2>h. hijack \in Threads BY <1>4 DEF CallDies, InjectionInv, CallUnderWay
    <2>a. /\ life' \in [Threads -> {"none", "run", "stop", "dead"}]
          /\ seized' \in [Threads -> SeizedThread]
          /\ life'[hijack] = "dead" /\ seized'[hijack].stopped = FALSE /\ seized'[hijack].running = FALSE
          /\ seized'[hijack].known = seized[hijack].known
          /\ seized'[hijack].valid = seized[hijack].valid
          /\ seized'[hijack].saved = seized[hijack].saved
          /\ \A v \in Threads \ {hijack} : life'[v] = life[v] /\ seized'[v] = seized[v]
      BY <1>4, <2>h, ThreadUpdate DEF CallDies, InjectionInv
    <2>b. /\ phase = "call" /\ mode = "attach" /\ inflight /\ inflight' = FALSE
          /\ phase' = "release" /\ todo' = Known
          /\ UNCHANGED <<traced, intr, regs, moves, fresh, hijack, stage, abandoned, mode, target,
                         remote, ctl, outcome>>
      BY <1>4 DEF CallDies
    <2>1. TypeOK' BY <2>h, <2>a, <2>b, ZenonT(30) DEF InjectionInv, TypeOK
    <2>2. LaunchUntraced' BY <2>h, <2>a, <2>b DEF InjectionInv, LaunchUntraced
    <2>3. SeizedAreTraced' BY <2>h, <2>a, <2>b DEF InjectionInv, SeizedAreTraced
    <2>4. RecordsHold' BY <2>h, <2>a, <2>b DEF InjectionInv, RecordsHold, CallUnderWay
    <2>5. WindowsClear' BY <2>h, <2>a, <2>b DEF InjectionInv, WindowsClear, OutOfWindows
    <2>6. CallUnderWay' BY <2>h, <2>a, <2>b DEF InjectionInv, CallUnderWay
    <2>7. StubContext' BY <2>h, <2>a, <2>b DEF InjectionInv, StubContext
    <2>8. StagesInOrder' BY <2>h, <2>a, <2>b DEF InjectionInv, StagesInOrder
    <2> QED BY <2>1, <2>2, <2>3, <2>4, <2>5, <2>6, <2>7, <2>8 DEF InjectionInv
  <1>5. CASE Abandon
    <2>h. hijack \in Threads BY <1>5 DEF Abandon, InjectionInv, CallUnderWay
    <2>s. PICK stops \in BOOLEAN :
             /\ life' = [life EXCEPT ![hijack] = IF stops THEN "stop" ELSE @]
             /\ intr' = [intr EXCEPT ![hijack] = ~stops]
             /\ seized' = [seized EXCEPT ![hijack] = [@ EXCEPT !.stopped = stops, !.running = FALSE]]
      BY <1>5 DEF Abandon
    <2>a. /\ life' \in [Threads -> {"none", "run", "stop", "dead"}]
          /\ seized' \in [Threads -> SeizedThread]
          /\ life'[hijack] = (IF stops THEN "stop" ELSE "run")
          /\ seized'[hijack].known = seized[hijack].known
          /\ seized'[hijack].valid = seized[hijack].valid
          /\ seized'[hijack].saved = seized[hijack].saved
          /\ \A v \in Threads \ {hijack} : life'[v] = life[v] /\ seized'[v] = seized[v]
      <3>1. life[hijack] = "run" BY <1>5 DEF Abandon, InjectionInv, CallUnderWay
      <3>2. life' = [life EXCEPT ![hijack] = IF stops THEN "stop" ELSE "run"]
        BY <2>h, <2>s, <3>1 DEF InjectionInv
      <3>3. (IF stops THEN "stop" ELSE "run") \in {"run", "stop", "dead"} OBVIOUS
      <3> QED BY <2>h, <2>s, <3>2, <3>3, ThreadUpdate DEF InjectionInv
    <2>c. /\ intr' \in [Threads -> BOOLEAN] /\ (intr'[hijack] <=> ~stops)
          /\ \A v \in Threads \ {hijack} : intr'[v] = intr[v]
      BY <2>h, <2>s DEF InjectionInv, TypeOK
    <2>b. /\ phase = "call" /\ mode = "attach" /\ inflight /\ abandoned' = TRUE
          /\ phase' = "release" /\ todo' = Known
          /\ UNCHANGED <<traced, regs, moves, fresh, hijack, stage, inflight, mode, target, remote,
                         ctl, outcome>>
      BY <1>5 DEF Abandon
    <2>1. TypeOK' BY <2>h, <2>a, <2>b, <2>c DEF InjectionInv, TypeOK
    <2>2. LaunchUntraced' BY <2>h, <2>a, <2>b, <2>c DEF InjectionInv, LaunchUntraced
    <2>3. SeizedAreTraced'
      BY <2>h, <2>a, <2>b, <2>c DEF InjectionInv, SeizedAreTraced, CallUnderWay
    <2>4. RecordsHold'
      BY <2>h, <2>a, <2>b, <2>c DEF InjectionInv, RecordsHold, Frozen
    <2>5. WindowsClear'
      BY <2>h, <2>a, <2>b, <2>c DEF InjectionInv, WindowsClear, OutOfWindows, CallUnderWay
    <2>6. CallUnderWay' BY <2>h, <2>a, <2>b, <2>c DEF InjectionInv, CallUnderWay
    <2>7. StubContext' BY <2>h, <2>a, <2>b, <2>c DEF InjectionInv, StubContext
    <2>8. StagesInOrder' BY <2>h, <2>a, <2>b, <2>c DEF InjectionInv, StagesInOrder
    <2> QED BY <2>1, <2>2, <2>3, <2>4, <2>5, <2>6, <2>7, <2>8 DEF InjectionInv
  <1>6. CASE MapReturns
    <2>0. PICK ok \in BOOLEAN : Trap(ok) /\ agent' = agent BY <1>6 DEF MapReturns
    <2>h. hijack \in Threads BY <2>0 DEF Trap, InjectionInv, CallUnderWay
    <2>a. /\ life' \in [Threads -> {"none", "run", "stop", "dead"}]
          /\ seized' \in [Threads -> SeizedThread]
          /\ life'[hijack] = "stop" /\ seized'[hijack].stopped = TRUE
          /\ seized'[hijack].running = FALSE
          /\ seized'[hijack].known = seized[hijack].known
          /\ seized'[hijack].valid = seized[hijack].valid
          /\ seized'[hijack].saved = seized[hijack].saved
          /\ \A v \in Threads \ {hijack} : life'[v] = life[v] /\ seized'[v] = seized[v]
      BY <2>0, <2>h, ThreadUpdate DEF Trap, InjectionInv
    <2>b. /\ phase = "call" /\ mode = "attach" /\ inflight /\ inflight' = FALSE
          /\ stage = "map" /\ stage' \in {"map", "dlopen"} /\ agent' = agent
          /\ \/ phase' = "redirect" /\ todo' = todo
             \/ phase' = "release" /\ todo' = Known
          /\ UNCHANGED <<traced, intr, regs, moves, fresh, hijack, abandoned, mode, target, patched,
                         ctl, outcome>>
      BY <1>6, <2>0 DEF MapReturns, Trap, After
    <2>1. TypeOK' BY <2>h, <2>a, <2>b, ZenonT(30) DEF InjectionInv, TypeOK
    <2>2. LaunchUntraced' BY <2>h, <2>a, <2>b DEF InjectionInv, LaunchUntraced
    <2>3. SeizedAreTraced' BY <2>h, <2>a, <2>b DEF InjectionInv, SeizedAreTraced, CallUnderWay
    <2>4. RecordsHold' BY <2>h, <2>a, <2>b DEF InjectionInv, RecordsHold, Frozen, CallUnderWay
    <2>5. WindowsClear'
      BY <2>h, <2>a, <2>b DEF InjectionInv, WindowsClear, OutOfWindows, CallUnderWay,
          StagesInOrder
    <2>6. CallUnderWay' BY <2>h, <2>a, <2>b DEF InjectionInv, CallUnderWay
    <2>7. StubContext' BY <2>h, <2>a, <2>b DEF InjectionInv, StubContext, CallUnderWay
    <2>8. StagesInOrder' BY <2>h, <2>a, <2>b DEF InjectionInv, StagesInOrder
    <2> QED BY <2>1, <2>2, <2>3, <2>4, <2>5, <2>6, <2>7, <2>8 DEF InjectionInv
  <1>7. CASE DlopenReturns
    <2>0. PICK ok \in BOOLEAN : Trap(ok) /\ agent' \in {agent, "loaded"} BY <1>7 DEF DlopenReturns
    <2>h. hijack \in Threads BY <2>0 DEF Trap, InjectionInv, CallUnderWay
    <2>a. /\ life' \in [Threads -> {"none", "run", "stop", "dead"}]
          /\ seized' \in [Threads -> SeizedThread]
          /\ life'[hijack] = "stop" /\ seized'[hijack].stopped = TRUE
          /\ seized'[hijack].running = FALSE
          /\ seized'[hijack].known = seized[hijack].known
          /\ seized'[hijack].valid = seized[hijack].valid
          /\ seized'[hijack].saved = seized[hijack].saved
          /\ \A v \in Threads \ {hijack} : life'[v] = life[v] /\ seized'[v] = seized[v]
      BY <2>0, <2>h, ThreadUpdate DEF Trap, InjectionInv
    <2>b. /\ phase = "call" /\ mode = "attach" /\ inflight /\ inflight' = FALSE
          /\ stage = "dlopen" /\ stage' \in {"dlopen", "bootstrap"} /\ agent' \in {agent, "loaded"}
          /\ \/ phase' = "redirect" /\ todo' = todo
             \/ phase' = "release" /\ todo' = Known
          /\ UNCHANGED <<traced, intr, regs, moves, fresh, hijack, abandoned, mode, target, patched,
                         ctl, outcome>>
      BY <1>7, <2>0 DEF DlopenReturns, Trap, After
    <2>1. TypeOK'
      <3>1. /\ phase' \in {"redirect", "release"} /\ todo' \in SUBSET Threads
            /\ stage' \in {"map", "dlopen", "bootstrap", "done"}
            /\ agent' \in {"absent", "loaded", "hello", "capturing", "failed"}
        BY <2>b DEF InjectionInv, TypeOK
      <3> QED BY <2>a, <2>b, <3>1, ZenonT(30) DEF InjectionInv, TypeOK
    <2>2. LaunchUntraced' BY <2>h, <2>a, <2>b DEF InjectionInv, LaunchUntraced
    <2>3. SeizedAreTraced' BY <2>h, <2>a, <2>b DEF InjectionInv, SeizedAreTraced, CallUnderWay
    <2>4. RecordsHold' BY <2>h, <2>a, <2>b DEF InjectionInv, RecordsHold, Frozen, CallUnderWay
    <2>5. WindowsClear'
      BY <2>h, <2>a, <2>b DEF InjectionInv, WindowsClear, OutOfWindows, CallUnderWay,
          StagesInOrder
    <2>6. CallUnderWay' BY <2>h, <2>a, <2>b DEF InjectionInv, CallUnderWay
    <2>7. StubContext' BY <2>h, <2>a, <2>b DEF InjectionInv, StubContext, CallUnderWay
    <2>8. StagesInOrder' BY <2>h, <2>a, <2>b DEF InjectionInv, StagesInOrder
    <2> QED BY <2>1, <2>2, <2>3, <2>4, <2>5, <2>6, <2>7, <2>8 DEF InjectionInv
  <1>8. CASE BootstrapReturns
    <2>0. PICK ok \in BOOLEAN : Trap(ok) /\ agent' = agent BY <1>8 DEF BootstrapReturns
    <2>h. hijack \in Threads BY <2>0 DEF Trap, InjectionInv, CallUnderWay
    <2>a. /\ life' \in [Threads -> {"none", "run", "stop", "dead"}]
          /\ seized' \in [Threads -> SeizedThread]
          /\ life'[hijack] = "stop" /\ seized'[hijack].stopped = TRUE
          /\ seized'[hijack].running = FALSE
          /\ seized'[hijack].known = seized[hijack].known
          /\ seized'[hijack].valid = seized[hijack].valid
          /\ seized'[hijack].saved = seized[hijack].saved
          /\ \A v \in Threads \ {hijack} : life'[v] = life[v] /\ seized'[v] = seized[v]
      BY <2>0, <2>h, ThreadUpdate DEF Trap, InjectionInv
    <2>b. /\ phase = "call" /\ mode = "attach" /\ inflight /\ inflight' = FALSE
          /\ stage = "bootstrap" /\ stage' \in {"bootstrap", "done"} /\ agent' = agent
          /\ phase' = "release"
          /\ \/ phase' = "redirect" /\ todo' = todo
             \/ phase' = "release" /\ todo' = Known
          /\ UNCHANGED <<traced, intr, regs, moves, fresh, hijack, abandoned, mode, target, patched,
                         ctl, outcome>>
      BY <1>8, <2>0 DEF BootstrapReturns, Trap, After
    <2>1. TypeOK' BY <2>h, <2>a, <2>b, ZenonT(30) DEF InjectionInv, TypeOK
    <2>2. LaunchUntraced' BY <2>h, <2>a, <2>b DEF InjectionInv, LaunchUntraced
    <2>3. SeizedAreTraced' BY <2>h, <2>a, <2>b DEF InjectionInv, SeizedAreTraced, CallUnderWay
    <2>4. RecordsHold' BY <2>h, <2>a, <2>b DEF InjectionInv, RecordsHold, CallUnderWay
    <2>5. WindowsClear'
      BY <2>h, <2>a, <2>b DEF InjectionInv, WindowsClear, OutOfWindows, CallUnderWay
    <2>6. CallUnderWay' BY <2>h, <2>a, <2>b DEF InjectionInv, CallUnderWay
    <2>7. StubContext' BY <2>h, <2>a, <2>b DEF InjectionInv, StubContext, CallUnderWay
    <2>8. StagesInOrder' BY <2>h, <2>a, <2>b DEF InjectionInv, StagesInOrder
    <2> QED BY <2>1, <2>2, <2>3, <2>4, <2>5, <2>6, <2>7, <2>8 DEF InjectionInv
  <1> QED BY <1>1, <1>2, <1>3, <1>4, <1>5, <1>6, <1>7, <1>8

\* the release,
LEMMA ReleaseSteps ==
  ASSUME InjectionInv, NEW t \in Threads,
         Release(t) \/ WorkerEnds \/ WedgedEnds
  PROVE  InjectionInv'
  <1> USE InjectionAssumption DEF kernel, injector, remote, Doing, Unwind, Quiet, Known, Alive,
          Calling, LetGo
  <1>1. CASE Release(t)
    <2>s. PICK stops \in IF seized[t].running THEN BOOLEAN ELSE {seized[t].stopped} :
             LET halted == life[t] = "stop" \/ (seized[t].running /\ stops /\ life[t] = "run")
             IN  /\ regs' = IF stops /\ seized[t].valid /\ halted
                            THEN [regs EXCEPT ![t] = seized[t].saved] ELSE regs
                 /\ life' = [life EXCEPT ![t] = IF halted THEN "run" ELSE @]
                 /\ traced' = [traced EXCEPT ![t] = ~halted]
                 /\ intr' = [intr EXCEPT ![t] = ~halted /\ (@ \/ seized[t].running)]
      BY <1>1 DEF Release
    <2>0. /\ seized \in [Threads -> SeizedThread] /\ regs \in [Threads -> Registers]
          /\ life \in [Threads -> {"none", "run", "stop", "dead"}]
          /\ traced \in [Threads -> BOOLEAN] /\ intr \in [Threads -> BOOLEAN]
          /\ seized[t].saved \in Registers
      BY DEF InjectionInv, TypeOK, SeizedThread
    <2>a. /\ regs' \in [Threads -> Registers] /\ traced' \in [Threads -> BOOLEAN]
          /\ intr' \in [Threads -> BOOLEAN] /\ life' \in [Threads -> {"none", "run", "stop", "dead"}]
          /\ \A v \in Threads \ {t} : /\ regs'[v] = regs[v] /\ life'[v] = life[v]
                                      /\ traced'[v] = traced[v] /\ intr'[v] = intr[v]
          /\ regs'[t] \in {regs[t], seized[t].saved} /\ life'[t] # "stop"
          /\ life[t] = "dead" => life'[t] = "dead" /\ traced'[t]
          /\ life[t] # "none" => life'[t] # "none"
          /\ life[t] = "stop" /\ seized[t].stopped /\ seized[t].valid /\ ~seized[t].running
                => regs'[t] = seized[t].saved
      BY <2>s, <2>0
    <2>b. /\ phase = "release" /\ mode = "attach" /\ ~abandoned /\ t \in todo
          /\ todo' = todo \ {t}
          /\ UNCHANGED <<moves, phase, fresh, hijack, stage, inflight, abandoned, mode, target,
                         remote, ctl, outcome>>
      BY <1>1 DEF Release
    <2>c. /\ seized' \in [Threads -> SeizedThread]
          /\ \A v \in Threads \ {t} : seized'[v] = seized[v]
          /\ seized'[t].known = seized[t].known /\ seized'[t].saved = seized[t].saved
      <3>1. [seized[t] EXCEPT !.running = FALSE] \in SeizedThread
        <4> seized[t] \in SeizedThread BY <2>0
        <4> QED BY DEF SeizedThread
      <3>2. seized' = [seized EXCEPT ![t] = [seized[t] EXCEPT !.running = FALSE]]
        BY <1>1, <2>0 DEF Release
      <3> QED BY <2>0, <3>1, <3>2 DEF SeizedThread
    <2>1. TypeOK' BY <2>a, <2>b, <2>c DEF InjectionInv, TypeOK
    <2>2. LaunchUntraced' BY <2>a, <2>b, <2>c DEF InjectionInv, LaunchUntraced
    <2>3. SeizedAreTraced' BY <2>a, <2>b, <2>c DEF InjectionInv, SeizedAreTraced, TypeOK
    <2>4. RecordsHold' BY <2>a, <2>b, <2>c DEF InjectionInv, RecordsHold
    <2>5. WindowsClear' BY <2>a, <2>b, <2>c DEF InjectionInv, WindowsClear, OutOfWindows
    <2>6. CallUnderWay' BY <2>a, <2>b, <2>c DEF InjectionInv, CallUnderWay
    <2>7. StubContext' BY <2>a, <2>b, <2>c DEF InjectionInv, StubContext, RecordsHold
    <2>8. StagesInOrder' BY <2>a, <2>b, <2>c DEF InjectionInv, StagesInOrder
    <2> QED BY <2>1, <2>2, <2>3, <2>4, <2>5, <2>6, <2>7, <2>8 DEF InjectionInv
  <1>2. CASE WorkerEnds
    <2>1. TypeOK' BY <1>2 DEF WorkerEnds, InjectionInv, TypeOK
    <2>2. LaunchUntraced' BY <1>2 DEF WorkerEnds, InjectionInv, LaunchUntraced
    <2>3. SeizedAreTraced' BY <1>2 DEF WorkerEnds, InjectionInv, SeizedAreTraced
    <2>4. RecordsHold' BY <1>2 DEF WorkerEnds, InjectionInv, RecordsHold
    <2>5. WindowsClear' BY <1>2 DEF WorkerEnds, InjectionInv, WindowsClear, OutOfWindows
    <2>6. CallUnderWay' BY <1>2 DEF WorkerEnds, InjectionInv, CallUnderWay
    <2>7. StubContext' BY <1>2 DEF WorkerEnds, InjectionInv, StubContext
    <2>8. StagesInOrder' BY <1>2 DEF WorkerEnds, InjectionInv, StagesInOrder
    <2> QED BY <2>1, <2>2, <2>3, <2>4, <2>5, <2>6, <2>7, <2>8 DEF InjectionInv
  <1>3. CASE WedgedEnds
    <2>0. phase = "ended"
      BY <1>3 DEF WedgedEnds, InjectionInv, CallUnderWay, StubContext
    <2>1. TypeOK' BY <1>3 DEF WedgedEnds, InjectionInv, TypeOK
    <2>2. LaunchUntraced' BY <1>3 DEF WedgedEnds, InjectionInv, LaunchUntraced
    <2>3. SeizedAreTraced' BY <1>3, <2>0 DEF WedgedEnds, InjectionInv, SeizedAreTraced
    <2>4. RecordsHold' BY <1>3, <2>0 DEF WedgedEnds, InjectionInv, RecordsHold
    <2>5. WindowsClear' BY <1>3, <2>0 DEF WedgedEnds, InjectionInv, WindowsClear, OutOfWindows
    <2>6. CallUnderWay' BY <1>3, <2>0 DEF WedgedEnds, InjectionInv, CallUnderWay
    <2>7. StubContext' BY <1>3, <2>0 DEF WedgedEnds, InjectionInv, StubContext
    <2>8. StagesInOrder' BY <1>3 DEF WedgedEnds, InjectionInv, StagesInOrder
    <2> QED BY <2>1, <2>2, <2>3, <2>4, <2>5, <2>6, <2>7, <2>8 DEF InjectionInv
  <1> QED BY <1>1, <1>2, <1>3

\* the bootstrap, in the stub or in the constructor,
LEMMA AgentSteps ==
  ASSUME InjectionInv,
         BootstrapConnects \/ BootstrapStarts \/ BootstrapFails \/ ConstructorReturns
  PROVE  InjectionInv'
  <1> USE InjectionAssumption DEF kernel, injector, remote, Doing, Unwind, Quiet, Known, Alive,
          Calling, LetGo
  <1>1. CASE BootstrapConnects
    <2>1. TypeOK' BY <1>1 DEF BootstrapConnects, InjectionInv, TypeOK
    <2>2. LaunchUntraced' BY <1>1 DEF BootstrapConnects, InjectionInv, LaunchUntraced
    <2>3. SeizedAreTraced' BY <1>1 DEF BootstrapConnects, InjectionInv, SeizedAreTraced
    <2>4. RecordsHold' BY <1>1 DEF BootstrapConnects, InjectionInv, RecordsHold, Frozen
    <2>5. WindowsClear' BY <1>1 DEF BootstrapConnects, InjectionInv, WindowsClear, OutOfWindows
    <2>6. CallUnderWay' BY <1>1 DEF BootstrapConnects, InjectionInv, CallUnderWay
    <2>7. StubContext' BY <1>1 DEF BootstrapConnects, InjectionInv, StubContext
    <2>8. StagesInOrder'
      BY <1>1 DEF BootstrapConnects, InjectionInv, StagesInOrder, Bootstrapping
    <2> QED BY <2>1, <2>2, <2>3, <2>4, <2>5, <2>6, <2>7, <2>8 DEF InjectionInv
  <1>2. CASE BootstrapStarts
    <2>1. TypeOK' BY <1>2 DEF BootstrapStarts, InjectionInv, TypeOK
    <2>2. LaunchUntraced' BY <1>2 DEF BootstrapStarts, InjectionInv, LaunchUntraced
    <2>3. SeizedAreTraced' BY <1>2 DEF BootstrapStarts, InjectionInv, SeizedAreTraced
    <2>4. RecordsHold' BY <1>2 DEF BootstrapStarts, InjectionInv, RecordsHold, Frozen
    <2>5. WindowsClear'
      BY <1>2 DEF BootstrapStarts, InjectionInv, WindowsClear, OutOfWindows, Bootstrapping,
          LaunchUntraced, CallUnderWay
    <2>6. CallUnderWay' BY <1>2 DEF BootstrapStarts, InjectionInv, CallUnderWay
    <2>7. StubContext' BY <1>2 DEF BootstrapStarts, InjectionInv, StubContext
    <2>8. StagesInOrder' BY <1>2 DEF BootstrapStarts, InjectionInv, StagesInOrder
    <2> QED BY <2>1, <2>2, <2>3, <2>4, <2>5, <2>6, <2>7, <2>8 DEF InjectionInv
  <1>3. CASE BootstrapFails
    <2>1. TypeOK' BY <1>3 DEF BootstrapFails, InjectionInv, TypeOK
    <2>2. LaunchUntraced' BY <1>3 DEF BootstrapFails, InjectionInv, LaunchUntraced
    <2>3. SeizedAreTraced' BY <1>3 DEF BootstrapFails, InjectionInv, SeizedAreTraced
    <2>4. RecordsHold' BY <1>3 DEF BootstrapFails, InjectionInv, RecordsHold, Frozen
    <2>5. WindowsClear' BY <1>3 DEF BootstrapFails, InjectionInv, WindowsClear, OutOfWindows
    <2>6. CallUnderWay' BY <1>3 DEF BootstrapFails, InjectionInv, CallUnderWay
    <2>7. StubContext' BY <1>3 DEF BootstrapFails, InjectionInv, StubContext
    <2>8. StagesInOrder' BY <1>3 DEF BootstrapFails, InjectionInv, StagesInOrder, Bootstrapping
    <2> QED BY <2>1, <2>2, <2>3, <2>4, <2>5, <2>6, <2>7, <2>8 DEF InjectionInv
  <1>4. CASE ConstructorReturns
    <2>1. TypeOK' BY <1>4 DEF ConstructorReturns, InjectionInv, TypeOK
    <2>2. LaunchUntraced' BY <1>4 DEF ConstructorReturns, InjectionInv, LaunchUntraced
    <2>3. SeizedAreTraced'
      BY <1>4 DEF ConstructorReturns, InjectionInv, SeizedAreTraced, LaunchUntraced
    <2>4. RecordsHold' BY <1>4 DEF ConstructorReturns, InjectionInv, RecordsHold
    <2>5. WindowsClear' BY <1>4 DEF ConstructorReturns, InjectionInv, WindowsClear, OutOfWindows
    <2>6. CallUnderWay' BY <1>4 DEF ConstructorReturns, InjectionInv, CallUnderWay
    <2>7. StubContext' BY <1>4 DEF ConstructorReturns, InjectionInv, StubContext
    <2>8. StagesInOrder' BY <1>4 DEF ConstructorReturns, InjectionInv, StagesInOrder
    <2> QED BY <2>1, <2>2, <2>3, <2>4, <2>5, <2>6, <2>7, <2>8 DEF InjectionInv
  <1> QED BY <1>1, <1>2, <1>3, <1>4

\* and the controller.
LEMMA ControllerSteps ==
  ASSUME InjectionInv,
         Accept \/ Ready \/ HandshakeFails \/ JoinWorker \/ ForkExec \/ LaunchReturns
  PROVE  InjectionInv'
  <1> USE InjectionAssumption DEF kernel, injector, remote, Doing, Unwind, Quiet, Known, Alive,
          Calling, LetGo
  <1>1. CASE Accept
    <2>1. TypeOK' BY <1>1 DEF Accept, InjectionInv, TypeOK
    <2>2. LaunchUntraced' BY <1>1 DEF Accept, InjectionInv, LaunchUntraced
    <2>3. SeizedAreTraced' BY <1>1 DEF Accept, InjectionInv, SeizedAreTraced
    <2>4. RecordsHold' BY <1>1 DEF Accept, InjectionInv, RecordsHold, Frozen
    <2>5. WindowsClear' BY <1>1 DEF Accept, InjectionInv, WindowsClear, OutOfWindows
    <2>6. CallUnderWay' BY <1>1 DEF Accept, InjectionInv, CallUnderWay
    <2>7. StubContext' BY <1>1 DEF Accept, InjectionInv, StubContext
    <2>8. StagesInOrder' BY <1>1 DEF Accept, InjectionInv, StagesInOrder
    <2> QED BY <2>1, <2>2, <2>3, <2>4, <2>5, <2>6, <2>7, <2>8 DEF InjectionInv
  <1>2. CASE Ready
    <2>1. TypeOK' BY <1>2 DEF Ready, InjectionInv, TypeOK
    <2>2. LaunchUntraced' BY <1>2 DEF Ready, InjectionInv, LaunchUntraced
    <2>3. SeizedAreTraced' BY <1>2 DEF Ready, InjectionInv, SeizedAreTraced
    <2>4. RecordsHold' BY <1>2 DEF Ready, InjectionInv, RecordsHold, Frozen
    <2>5. WindowsClear' BY <1>2 DEF Ready, InjectionInv, WindowsClear, OutOfWindows
    <2>6. CallUnderWay' BY <1>2 DEF Ready, InjectionInv, CallUnderWay
    <2>7. StubContext' BY <1>2 DEF Ready, InjectionInv, StubContext
    <2>8. StagesInOrder' BY <1>2 DEF Ready, InjectionInv, StagesInOrder
    <2> QED BY <2>1, <2>2, <2>3, <2>4, <2>5, <2>6, <2>7, <2>8 DEF InjectionInv
  <1>3. CASE HandshakeFails
    <2>1. TypeOK' BY <1>3 DEF HandshakeFails, InjectionInv, TypeOK
    <2>2. LaunchUntraced' BY <1>3 DEF HandshakeFails, InjectionInv, LaunchUntraced
    <2>3. SeizedAreTraced' BY <1>3 DEF HandshakeFails, InjectionInv, SeizedAreTraced
    <2>4. RecordsHold' BY <1>3 DEF HandshakeFails, InjectionInv, RecordsHold, Frozen
    <2>5. WindowsClear' BY <1>3 DEF HandshakeFails, InjectionInv, WindowsClear, OutOfWindows
    <2>6. CallUnderWay' BY <1>3 DEF HandshakeFails, InjectionInv, CallUnderWay
    <2>7. StubContext' BY <1>3 DEF HandshakeFails, InjectionInv, StubContext
    <2>8. StagesInOrder' BY <1>3 DEF HandshakeFails, InjectionInv, StagesInOrder, Started
    <2> QED BY <2>1, <2>2, <2>3, <2>4, <2>5, <2>6, <2>7, <2>8 DEF InjectionInv
  <1>4. CASE JoinWorker
    <2>1. TypeOK' BY <1>4 DEF JoinWorker, InjectionInv, TypeOK
    <2>2. LaunchUntraced' BY <1>4 DEF JoinWorker, InjectionInv, LaunchUntraced
    <2>3. SeizedAreTraced' BY <1>4 DEF JoinWorker, InjectionInv, SeizedAreTraced
    <2>4. RecordsHold' BY <1>4 DEF JoinWorker, InjectionInv, RecordsHold
    <2>5. WindowsClear' BY <1>4 DEF JoinWorker, InjectionInv, WindowsClear, OutOfWindows
    <2>6. CallUnderWay' BY <1>4 DEF JoinWorker, InjectionInv, CallUnderWay
    <2>7. StubContext' BY <1>4 DEF JoinWorker, InjectionInv, StubContext
    <2>8. StagesInOrder' BY <1>4 DEF JoinWorker, InjectionInv, StagesInOrder
    <2> QED BY <2>1, <2>2, <2>3, <2>4, <2>5, <2>6, <2>7, <2>8 DEF InjectionInv
  <1>5. CASE ForkExec
    <2>1. TypeOK' BY <1>5 DEF ForkExec, InjectionInv, TypeOK
    <2>2. LaunchUntraced' BY <1>5 DEF ForkExec, InjectionInv, TypeOK, LaunchUntraced
    <2>3. SeizedAreTraced' BY <1>5 DEF ForkExec, InjectionInv, SeizedAreTraced, LaunchUntraced
    <2>4. RecordsHold' BY <1>5 DEF ForkExec, InjectionInv, RecordsHold
    <2>5. WindowsClear' BY <1>5 DEF ForkExec, InjectionInv, WindowsClear, LaunchUntraced
    <2>6. CallUnderWay' BY <1>5 DEF ForkExec, InjectionInv, CallUnderWay
    <2>7. StubContext' BY <1>5 DEF ForkExec, InjectionInv, StubContext
    <2>8. StagesInOrder' BY <1>5 DEF ForkExec, InjectionInv, StagesInOrder
    <2> QED BY <2>1, <2>2, <2>3, <2>4, <2>5, <2>6, <2>7, <2>8 DEF InjectionInv
  <1>6. CASE LaunchReturns
    <2>1. TypeOK' BY <1>6 DEF LaunchReturns, InjectionInv, TypeOK
    <2>2. LaunchUntraced' BY <1>6 DEF LaunchReturns, InjectionInv, LaunchUntraced
    <2>3. SeizedAreTraced' BY <1>6 DEF LaunchReturns, InjectionInv, TypeOK, SeizedAreTraced
    <2>4. RecordsHold' BY <1>6 DEF LaunchReturns, InjectionInv, RecordsHold, Frozen
    <2>5. WindowsClear' BY <1>6 DEF LaunchReturns, InjectionInv, WindowsClear, OutOfWindows
    <2>6. CallUnderWay' BY <1>6 DEF LaunchReturns, InjectionInv, CallUnderWay, LaunchUntraced
    <2>7. StubContext' BY <1>6 DEF LaunchReturns, InjectionInv, StubContext
    <2>8. StagesInOrder'
      BY <1>6 DEF LaunchReturns, InjectionInv, TypeOK, StagesInOrder, LaunchUntraced
    <2> QED BY <2>1, <2>2, <2>3, <2>4, <2>5, <2>6, <2>7, <2>8 DEF InjectionInv
  <1> QED BY <1>1, <1>2, <1>3, <1>4, <1>5, <1>6

\* Every step keeps the invariant.
LEMMA InjectionNext == InjectionInv /\ [Next]_vars => InjectionInv'
  <1> SUFFICES ASSUME InjectionInv, [Next]_vars PROVE InjectionInv' OBVIOUS
  <1>1. CASE Target BY <1>1, TargetSteps DEF Target
  <1>2. CASE Injector
    BY <1>2, SeizeSteps, CollectSteps, CallSteps, ReleaseSteps, InjectionAssumption DEF
        Injector
  <1>3. CASE Stub BY <1>3, CallSteps, ReleaseSteps, InjectionAssumption DEF Stub
  <1>4. CASE Agent BY <1>4, AgentSteps, CallSteps DEF Agent
  <1>5. CASE Controller BY <1>5, ControllerSteps DEF Controller
  <1>6. CASE \E t \in Threads : Stops(t) BY <1>6, TargetSteps
  <1>7. CASE UNCHANGED vars
    <2> USE <1>7 DEF vars, kernel, injector, remote, InjectionInv
    <2>1. TypeOK' BY DEF TypeOK
    <2>2. LaunchUntraced' /\ SeizedAreTraced' BY DEF LaunchUntraced, SeizedAreTraced
    <2>3. RecordsHold' BY DEF RecordsHold, Frozen, Calling
    <2>4. WindowsClear' BY DEF WindowsClear, OutOfWindows, Calling, LetGo
    <2>5. CallUnderWay' /\ StubContext' BY DEF CallUnderWay, StubContext
    <2>6. StagesInOrder' BY DEF StagesInOrder
    <2> QED BY <2>1, <2>2, <2>3, <2>4, <2>5, <2>6
  <1> QED BY <1>1, <1>2, <1>3, <1>4, <1>5, <1>6, <1>7 DEF Next

\* The inductive invariant: the kernel's view of the threads, the records of the injector
\* and the stages of the agent and of the controller always fit together.
THEOREM InjectionInvariant == Spec => []InjectionInv
  <1>1. Init => InjectionInv BY InjectionInit
  <1>2. InjectionInv /\ [Next]_vars => InjectionInv' BY InjectionNext
  <1> QED BY <1>1, <1>2, PTL DEF Spec

\* However the injection ends, no thread runs on with the registers of the stub unless the
\* injector has given up, and the verdict of the caller tells whether the capture runs.
THEOREM RegistersRestored == Spec => []OwnRegisters
  <1>1. InjectionInv => OwnRegisters
    <2> SUFFICES ASSUME InjectionInv PROVE OwnRegisters OBVIOUS
    <2>1. outcome = "session" => agent = "capturing" /\ patched /\ \A t \in Threads : ~traced[t]
      BY DEF InjectionInv, LaunchUntraced, SeizedAreTraced, StagesInOrder
    <2>2. outcome = "error" /\ mode = "launch" => Alive = {}
      BY DEF InjectionInv, StagesInOrder, Alive
    <2>3. ASSUME NEW t \in Threads, life[t] = "run", ~traced[t], ~abandoned
          PROVE  regs[t].ctx = "own"
      <3>1. regs[t].ctx \in {"own", "stub"} BY DEF InjectionInv, TypeOK, Registers
      <3>2. regs[t].ctx # "stub" BY <2>3 DEF InjectionInv, StubContext
      <3> QED BY <3>1, <3>2
    <2> QED BY <2>1, <2>2, <2>3 DEF OwnRegisters, VerdictMatches
  <1> QED BY <1>1, InjectionInvariant, PTL

\* A seized thread that runs its own code again is never inside a prologue the agent has
\* overwritten, until the injector lets go of a wedged bootstrap.
THEOREM NobodyInThePatches == Spec => []ResumesOutsidePatches
  <1>1. InjectionInv => ResumesOutsidePatches
    BY DEF InjectionInv, WindowsClear, OutOfWindows, ResumesOutsidePatches, Known, LetGo
  <1> QED BY <1>1, InjectionInvariant, PTL

\* The steps that write registers do not touch a thread inside the injector's call.
LEMMA CallKeepsRegisters ==
  ASSUME InjectionInv, [Next]_vars, inflight, hijack \in Threads, regs[hijack].ctx = "stub"
  PROVE  regs'[hijack].ctx = "stub"
  <1> USE DEF kernel, injector, remote, Doing, Quiet
  <1>0. phase = "call" \/ (abandoned /\ phase \in {"release", "ended"})
    BY DEF InjectionInv, CallUnderWay
  <1>1. CASE Target
    <2>1. ASSUME NEW t \in Threads, Move(t) PROVE regs'[hijack].ctx = "stub"
      BY <2>1 DEF Move, InjectionInv
    <2>2. ASSUME NEW t \in Threads, NEW u \in Threads, Die(t) \/ Clone(t, u) PROVE regs' = regs
      BY <2>2 DEF Die, Clone
    <2> QED BY <1>1, <2>1, <2>2 DEF Target
  <1>2. CASE Injector
    <2>1. ~Redirect BY <1>0 DEF Redirect
    <2>2. ASSUME NEW t \in Threads PROVE ~EvacuationStep(t) /\ ~Release(t)
      BY <1>0 DEF EvacuationStep, Release, InjectionInv
    <2>3. CASE \/ Prepare \/ List \/ EndPass \/ SeizeFails \/ CollectTimesOut \/ Locate
               \/ SelectInjectionThread \/ CallSignalled \/ Abandon \/ WorkerEnds
      BY <2>3 DEF Prepare, List, EndPass, SeizeFails, CollectTimesOut, Locate,
          SelectInjectionThread, CallSignalled, Abandon, WorkerEnds
    <2>4. ASSUME NEW t \in Threads, \/ SeizeThread(t) \/ Interrupt(t) \/ Collect(t)
                                    \/ Evacuated(t) \/ EvacuationFails(t)
          PROVE  regs' = regs
      BY <2>4 DEF SeizeThread, Interrupt, Collect, Evacuated, EvacuationFails
    <2> QED BY <1>2, <2>1, <2>2, <2>3, <2>4 DEF Injector
  <1>3. CASE Stub
    BY <1>3 DEF Stub, MapReturns, DlopenReturns, CallFaults, CallDies, Trap, WedgedEnds
  <1>4. CASE Agent
    BY <1>4 DEF Agent, BootstrapConnects, BootstrapStarts, BootstrapFails, BootstrapReturns,
        ConstructorReturns, Trap
  <1>5. CASE Controller
    BY <1>5 DEF Controller, Accept, Ready, HandshakeFails, JoinWorker, ForkExec, LaunchReturns
  <1>6. CASE \E t \in Threads : Stops(t) BY <1>6 DEF Stops
  <1>7. CASE UNCHANGED vars BY <1>7 DEF vars
  <1> QED BY <1>1, <1>2, <1>3, <1>4, <1>5, <1>6, <1>7 DEF Next

\* The registers of a thread are never put back while it is inside the call the injector
\* made it do: not on a timeout, not when the injector is unwound.
THEOREM NoTeleport == Spec => NeverTeleported
  <1>1. InjectionInv /\ [Next]_vars =>
           [\A t \in Threads :
               inflight /\ t = hijack => (regs[t].ctx = "stub" => regs'[t].ctx = "stub")]_vars
    BY CallKeepsRegisters
  <1> QED BY <1>1, InjectionInvariant, PTL DEF Spec, NeverTeleported

==============================================================================
