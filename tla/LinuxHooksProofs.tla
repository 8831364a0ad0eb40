-------------------------- MODULE LinuxHooksProofs --------------------------
(***************************************************************************)
(* The hook families of the Linux agent never run a broken route and never *)
(* call a trampoline that is gone, for any functions, any number of target *)
(* threads and any depth of nested calls.  What the backend does is taken  *)
(* from HookBackendProofs.                                                 *)
(***************************************************************************)
EXTENDS LinuxHooks, SequenceTheorems, FiniteSetTheorems, TLAPS

P == INSTANCE HookBackendProofs WITH
        Backends <- {Agent}, Targets <- Funcs \cup {Exit}, Clients <- Groups

----------------------------------------------------------------------------
(* What is left to do, as a sequence. *)

\* A step that is done leaves the rest.
LEMMA HasTail ==
  ASSUME NEW S, NEW q \in Seq(S), q # << >>, NEW s
  PROVE  Has(q, s) <=> s = Head(q) \/ Has(Tail(q), s)
<1>1. /\ Len(q) \in Nat \ {0} /\ Tail(q) \in Seq(S) /\ Len(Tail(q)) = Len(q) - 1 /\ Head(q) = q[1]
      /\ \A i \in 1 .. Len(q) - 1 : Tail(q)[i] = q[i + 1]
  BY HeadTailProperties, EmptySeq
<1>2. ASSUME NEW i \in 1 .. Len(q), i # 1 PROVE i - 1 \in 1 .. Len(q) - 1 /\ q[i] = Tail(q)[i - 1]
  BY <1>1, <1>2
<1>3. ASSUME NEW i \in 1 .. Len(q) - 1 PROVE i + 1 \in 1 .. Len(q) /\ q[i + 1] = Tail(q)[i]
  BY <1>1, <1>3
<1>4. 1 \in 1 .. Len(q)
  BY <1>1
<1> QED BY <1>1, <1>2, <1>3, <1>4 DEF Has

\* A call pushes its steps.
LEMMA HasConcat ==
  ASSUME NEW S, NEW p \in Seq(S), NEW q \in Seq(S), NEW s
  PROVE  Has(p \o q, s) <=> Has(p, s) \/ Has(q, s)
<1>1. /\ Len(p) \in Nat /\ Len(q) \in Nat /\ Len(p \o q) = Len(p) + Len(q)
      /\ \A i \in 1 .. Len(p) + Len(q) : (p \o q)[i] = IF i <= Len(p) THEN p[i] ELSE q[i - Len(p)]
  BY ConcatProperties, LenProperties
<1>2. ASSUME NEW i \in 1 .. Len(p) PROVE i \in 1 .. Len(p) + Len(q) /\ (p \o q)[i] = p[i]
  BY <1>1, <1>2
<1>3. ASSUME NEW i \in 1 .. Len(q)
      PROVE  i + Len(p) \in 1 .. Len(p) + Len(q) /\ (p \o q)[i + Len(p)] = q[i]
  BY <1>1, <1>3
<1>4. ASSUME NEW i \in 1 .. Len(p) + Len(q), ~(i <= Len(p))
      PROVE  i - Len(p) \in 1 .. Len(q) /\ (p \o q)[i] = q[i - Len(p)]
  BY <1>1, <1>4
<1>5. ASSUME NEW i \in 1 .. Len(p) + Len(q), i <= Len(p)
      PROVE  i \in 1 .. Len(p) /\ (p \o q)[i] = p[i]
  BY <1>1, <1>5
<1>6. Has(p, s) => Has(p \o q, s)
  BY <1>1, <1>2 DEF Has
<1>7. Has(q, s) => Has(p \o q, s)
  BY <1>1, <1>3 DEF Has
<1>8. Has(p \o q, s) => Has(p, s) \/ Has(q, s)
  BY <1>1, <1>4, <1>5 DEF Has
<1> QED BY <1>6, <1>7, <1>8

LEMMA HasFew ==
  ASSUME NEW s, NEW a, NEW b, NEW c
  PROVE  /\ ~Has(<< >>, s) /\ (Has(<< a >>, s) <=> s = a)
         /\ (Has(<< a, b >>, s) <=> s \in {a, b}) /\ (Has(<< a, b, c >>, s) <=> s \in {a, b, c})
  BY DEF Has

\* The shape of what is left survives a step that is done; a revert that is done has
\* taken its function out of the patched ones.
LEMMA TailShaped ==
  ASSUME NEW S, NEW q \in Seq(S), q # << >>, NEW ph, NEW patched, NEW now,
         Shaped(q, ph, patched), now \subseteq patched,
         \A c : Head(q) = <<"revert", c>> => c \notin now
  PROVE  Shaped(Tail(q), ph, now)
<1>1. /\ Len(q) \in Nat \ {0} /\ Len(Tail(q)) = Len(q) - 1 /\ Head(q) = q[1]
      /\ \A i \in 1 .. Len(q) - 1 : Tail(q)[i] = q[i + 1]
  BY HeadTailProperties, EmptySeq
<1> SUFFICES ASSUME NEW i \in 1 .. Len(Tail(q))
             PROVE  /\ Tail(q)[i][1] \in Starting <=> ph = "starting"
                    /\ Tail(q)[i][1] \in {"begin", "shutdown"} => i = Len(Tail(q))
                    /\ Tail(q)[i][1] = "shutdown" => ph = "unpatching"
                    /\ Tail(q)[i][1] \in {"destroy", "flush", "abandon"} => ph = "failed"
                    /\ Tail(q)[i][1] \in Inner \cup {"finish"} =>
                           \A k \in 1 .. i - 1 : Tail(q)[k][1] \in Inner
                    /\ Tail(q)[i][1] = "original" => \A k \in 1 .. i : Tail(q)[k][1] = "original"
                    /\ Tail(q)[i][1] = "target" =>
                           \/ Tail(q)[i][2] \notin now
                           \/ \E k \in 1 .. i : Tail(q)[k] = <<"revert", Tail(q)[i][2]>>
  BY DEF Shaped
<1>2. i \in 1 .. Len(q) - 1 /\ i + 1 \in 1 .. Len(q) /\ Tail(q)[i] = q[i + 1]
  BY <1>1
<1>3. \A k \in 1 .. i : k + 1 \in 1 .. i + 1 /\ Tail(q)[k] = q[k + 1]
  BY <1>1, <1>2
<1>4. /\ q[i + 1][1] \in Starting <=> ph = "starting"
      /\ q[i + 1][1] \in {"begin", "shutdown"} => i + 1 = Len(q)
      /\ q[i + 1][1] = "shutdown" => ph = "unpatching"
      /\ q[i + 1][1] \in {"destroy", "flush", "abandon"} => ph = "failed"
      /\ q[i + 1][1] \in Inner \cup {"finish"} => \A k \in 1 .. i : q[k][1] \in Inner
      /\ q[i + 1][1] = "original" => \A k \in 1 .. i + 1 : q[k][1] = "original"
      /\ q[i + 1][1] = "target" => \/ q[i + 1][2] \notin patched
                                   \/ \E k \in 1 .. i + 1 : q[k] = <<"revert", q[i + 1][2]>>
  <2>1. (i + 1) - 1 = i
    BY <1>2
  <2> QED BY <1>2, <2>1 DEF Shaped
<1>5. \A k \in 1 .. i - 1 : k \in 1 .. i /\ k + 1 \in 1 .. i
  BY <1>2
<1>6. ASSUME Tail(q)[i][1] = "target", Tail(q)[i][2] \in now
      PROVE  \E k \in 1 .. i : Tail(q)[k] = <<"revert", Tail(q)[i][2]>>
  <2>1. PICK k \in 1 .. i + 1 : q[k] = <<"revert", q[i + 1][2]>>
    BY <1>2, <1>4, <1>6
  <2>2. k # 1
    BY <1>1, <1>2, <1>6, <2>1
  <2>3. k - 1 \in 1 .. i /\ Tail(q)[k - 1] = q[k]
    BY <1>2, <1>3, <2>1, <2>2
  <2> QED BY <1>2, <2>1, <2>3
<1>7. i + 1 = Len(q) => i = Len(Tail(q))
  <2> DEFINE n == Len(Tail(q))
  <2>1. i \in Int /\ Len(q) \in Int /\ n \in Int /\ n = Len(q) - 1
    BY <1>1, <1>2
  <2> HIDE DEF n
  <2>2. i + 1 = Len(q) => i = n
    BY <2>1
  <2> QED BY <2>2 DEF n
<1>8. Tail(q)[i][1] \in Inner \cup {"finish"} => \A k \in 1 .. i - 1 : Tail(q)[k][1] \in Inner
  BY <1>2, <1>3, <1>4, <1>5
<1>9. Tail(q)[i][1] = "original" => \A k \in 1 .. i : Tail(q)[k][1] = "original"
  BY <1>2, <1>3, <1>4
<1> QED BY <1>2, <1>4, <1>6, <1>7, <1>8, <1>9

\* Nothing is left of the stores of a call, nor the wait that ends them, behind another step.
LEMMA NothingInner ==
  ASSUME NEW S, NEW q \in Seq(S), q # << >>, NEW ph, NEW patched, Shaped(q, ph, patched),
         Head(q)[1] \notin Inner
  PROVE  /\ \A i \in 1 .. Len(Tail(q)) : Tail(q)[i][1] \notin Inner \cup {"finish"}
         /\ \A c : ~Has(q, <<"original", c>>) /\ ~Has(q, <<"revert", c>>) /\ ~Has(q, <<"target", c>>)
         /\ \A c : ~Has(Tail(q), <<"finish", c>>)
<1>1. /\ Len(q) \in Nat \ {0} /\ Len(Tail(q)) = Len(q) - 1 /\ Head(q) = q[1]
      /\ \A i \in 1 .. Len(q) - 1 : Tail(q)[i] = q[i + 1]
  BY HeadTailProperties, EmptySeq
<1>2. ASSUME NEW i \in 1 .. Len(Tail(q)) PROVE Tail(q)[i][1] \notin Inner \cup {"finish"}
  <2>1. i + 1 \in 1 .. Len(q) /\ 1 \in 1 .. (i + 1) - 1 /\ Tail(q)[i] = q[i + 1]
    BY <1>1
  <2> QED BY <1>1, <2>1 DEF Shaped
<1>3. \A c : ~Has(Tail(q), <<"finish", c>>) /\ ~Has(Tail(q), <<"original", c>>)
             /\ ~Has(Tail(q), <<"revert", c>>) /\ ~Has(Tail(q), <<"target", c>>)
  BY <1>2 DEF Has, Inner
<1>4. ASSUME NEW c, NEW k \in Inner PROVE ~Has(q, <<k, c>>)
  <2>1. <<k, c>> # Head(q)
    OBVIOUS
  <2> QED BY <1>3, <2>1, HasTail DEF Inner
<1> QED BY <1>2, <1>3, <1>4 DEF Inner

\* A call pushes steps in front of what is left behind it.
LEMMA PushShaped ==
  ASSUME NEW S, NEW q \in Seq(S), q # << >>, NEW ph, NEW patched, Shaped(q, ph, patched),
         Head(q)[1] \notin Inner, NEW p \in Seq(S), NEW now, Shaped(p, ph, now),
         \A i \in 1 .. Len(p) : p[i][1] \notin {"begin", "shutdown"}
  PROVE  Shaped(p \o Tail(q), ph, now)
<1> DEFINE r == p \o Tail(q)
<1>1. /\ Len(q) \in Nat \ {0} /\ Tail(q) \in Seq(S) /\ Len(Tail(q)) = Len(q) - 1
      /\ \A i \in 1 .. Len(q) - 1 : Tail(q)[i] = q[i + 1]
  BY HeadTailProperties, EmptySeq
<1>2. /\ Len(p) \in Nat /\ Len(r) = Len(p) + Len(q) - 1
      /\ \A i \in 1 .. Len(r) : r[i] = IF i <= Len(p) THEN p[i] ELSE Tail(q)[i - Len(p)]
  BY <1>1, ConcatProperties, LenProperties
<1>3. ASSUME NEW i \in 1 .. Len(p)
      PROVE  /\ r[i] = p[i] /\ \A k \in 1 .. i : r[k] = p[k]
             /\ \A k \in 1 .. i - 1 : r[k] = p[k]
  BY <1>1, <1>2, <1>3
<1>4. ASSUME NEW i \in 1 .. Len(r), ~(i <= Len(p))
      PROVE  /\ r[i][1] \in Starting <=> ph = "starting"
             /\ r[i][1] \in {"begin", "shutdown"} => i = Len(r)
             /\ r[i][1] = "shutdown" => ph = "unpatching"
             /\ r[i][1] \in {"destroy", "flush", "abandon"} => ph = "failed"
             /\ r[i][1] \notin Inner \cup {"finish"}
  <2> DEFINE j == i - Len(p)
  <2>1. j \in 1 .. Len(Tail(q)) /\ j + 1 \in 1 .. Len(q) /\ r[i] = q[j + 1] /\ r[i] = Tail(q)[j]
        /\ (j + 1 = Len(q) => i = Len(r))
    BY <1>1, <1>2, <1>4
  <2>2. r[i][1] \notin Inner \cup {"finish"}
    BY <2>1, NothingInner
  <2> HIDE DEF j, r
  <2> QED BY <2>1, <2>2 DEF Shaped
<1> HIDE DEF r
<1>5. ASSUME NEW i \in 1 .. Len(r)
      PROVE  /\ r[i][1] \in Starting <=> ph = "starting"
             /\ r[i][1] \in {"begin", "shutdown"} => i = Len(r)
             /\ r[i][1] = "shutdown" => ph = "unpatching"
             /\ r[i][1] \in {"destroy", "flush", "abandon"} => ph = "failed"
             /\ r[i][1] \in Inner \cup {"finish"} => \A k \in 1 .. i - 1 : r[k][1] \in Inner
             /\ r[i][1] = "original" => \A k \in 1 .. i : r[k][1] = "original"
             /\ r[i][1] = "target" => r[i][2] \notin now
                                      \/ \E k \in 1 .. i : r[k] = <<"revert", r[i][2]>>
  <2>1. CASE ~(i <= Len(p))
    BY <1>4, <1>5, <2>1 DEF Inner
  <2>2. CASE i <= Len(p)
    <3>1. i \in 1 .. Len(p)
      BY <1>2, <1>5, <2>2
    <3>2. /\ p[i][1] \in Starting <=> ph = "starting"
          /\ p[i][1] = "shutdown" => ph = "unpatching"
          /\ p[i][1] \in {"destroy", "flush", "abandon"} => ph = "failed"
          /\ p[i][1] \in Inner \cup {"finish"} => \A k \in 1 .. i - 1 : p[k][1] \in Inner
          /\ p[i][1] = "original" => \A k \in 1 .. i : p[k][1] = "original"
          /\ p[i][1] = "target" => p[i][2] \notin now
                                      \/ \E k \in 1 .. i : p[k] = <<"revert", p[i][2]>>
      BY <3>1 DEF Shaped
    <3> QED BY <1>3, <3>1, <3>2
  <2> QED BY <2>1, <2>2
<1>6. Shaped(r, ph, now)
  BY <1>5 DEF Shaped
<1> QED BY <1>6 DEF r

----------------------------------------------------------------------------
(* The families and the backend. *)

LEMMA Families ==
  /\ \A c \in Funcs : GroupOf(c) \in Groups
  /\ \A g \in Groups : /\ Len(Channels[g]) \in Nat \ {0}
                       /\ \A i \in 1 .. Len(Channels[g]) :
                              Channels[g][i] \in Funcs /\ GroupOf(Channels[g][i]) = g
  /\ \A c \in Funcs : \E i \in 1 .. Len(Channels[GroupOf(c)]) : Channels[GroupOf(c)][i] = c
<1>1. ASSUME NEW c \in Funcs
      PROVE  GroupOf(c) \in Groups /\ \E i \in 1 .. Len(Channels[GroupOf(c)]) : Channels[GroupOf(c)][i] = c
  <2>1. \E g \in Groups : \E i \in 1 .. Len(Channels[g]) : Channels[g][i] = c
    BY DEF Funcs
  <2> QED BY <2>1 DEF GroupOf
<1>2. ASSUME NEW g \in Groups PROVE Len(Channels[g]) \in Nat \ {0}
  BY HooksAssumption, EmptySeq
<1>3. ASSUME NEW g \in Groups, NEW i \in 1 .. Len(Channels[g])
      PROVE  Channels[g][i] \in Funcs /\ GroupOf(Channels[g][i]) = g
  <2>1. Channels[g][i] \in Funcs
    BY DEF Funcs
  <2>2. GroupOf(Channels[g][i]) \in Groups
    BY <1>1, <2>1
  <2>3. PICK j \in 1 .. Len(Channels[GroupOf(Channels[g][i])]) :
            Channels[GroupOf(Channels[g][i])][j] = Channels[g][i]
    BY <1>1, <2>1
  <2>4. \A h \in Groups : \A k \in 1 .. Len(Channels[h]) : Channels[h][k] = Channels[g][i] => h = g
    BY HooksAssumption
  <2> QED BY <2>1, <2>2, <2>3, <2>4
<1> QED BY <1>1, <1>2, <1>3

\* The assumption of the backend, and its invariant, as HookBackendProofs has them.
LEMMA BackendNames ==
  /\ P!IsFiniteSet(Groups) /\ P!OneBackend
  /\ None \notin (Funcs \cup {Exit}) \cup Slices \cup ({Agent} \X (Funcs \cup {Exit}))
  /\ HB!BackendInv <=> P!BackendInv
<1>1. IsFiniteSet(Groups)
  <2>1. IsFiniteSet({"heap", "vm"})
    <3>1. IsFiniteSet({"heap"}) /\ {"heap"} \cup {"vm"} = {"heap", "vm"}
      BY FS_Singleton
    <3> QED BY <3>1, FS_AddElement
  <2> QED BY <2>1, FS_Subset, HooksAssumption
<1>2. P!IsFiniteSet(Groups)
  BY <1>1 DEF IsFiniteSet, P!IsFiniteSet
<1>3. \A S : HB!Cardinality(S) = P!Cardinality(S)
  BY DEF HB!Cardinality, P!Cardinality
<1>4. HB!TypeOK <=> P!TypeOK
  BY DEF HB!TypeOK, P!TypeOK
<1>5. HB!LeasesCounted <=> P!LeasesCounted
  BY <1>3 DEF HB!LeasesCounted, P!LeasesCounted
<1>6. HB!GuardedIsPending <=> P!GuardedIsPending
  BY DEF HB!GuardedIsPending, P!GuardedIsPending
<1>7. HB!ContextsMatchEntries <=> P!ContextsMatchEntries
  BY DEF HB!ContextsMatchEntries, P!ContextsMatchEntries
<1>8. HB!BackendInv <=> P!BackendInv
  BY <1>4, <1>5, <1>6, <1>7 DEF HB!BackendInv, P!BackendInv
<1>9. P!OneBackend
  BY DEF P!OneBackend
<1> QED BY <1>2, <1>8, <1>9, HooksAssumption

LEMMA BackendSteps == HB!Next => P!Next
<1>1. ASSUME NEW x \in Funcs \cup {Exit}
      PROVE  /\ HB!Prepare(Agent, x) => P!Prepare(Agent, x)
             /\ HB!Activate(Agent, x) => P!Activate(Agent, x)
             /\ HB!Abandon(Agent, x) => P!Abandon(Agent, x)
             /\ HB!Uninstall(Agent, x) => P!Uninstall(Agent, x)
  BY DEF HB!Prepare, P!Prepare, HB!Activate, P!Activate, HB!Abandon, P!Abandon, HB!Uninstall,
         P!Uninstall, HB!Accepts, P!Accepts, HB!Write, P!Write, HB!FlushResults,
         P!FlushResults, HB!GiveBack, P!GiveBack, HB!Unlocked, P!Unlocked, HB!callers, P!callers
<1>2. HB!Flush(Agent) => P!Flush(Agent)
  BY DEF HB!Flush, P!Flush, HB!FlushResults, P!FlushResults, HB!Unlocked, P!Unlocked,
         HB!hoox, P!hoox, HB!callers, P!callers
<1>3. HB!Destroy(Agent) => P!Destroy(Agent)
  BY DEF HB!Destroy, P!Destroy, HB!FlushResults, P!FlushResults, HB!GiveBack, P!GiveBack,
         HB!Deinit, P!Deinit
<1>4. \A done \in BOOLEAN : HB!Shutdown(Agent, done) => P!Shutdown(Agent, done)
  BY DEF HB!Shutdown, P!Shutdown, HB!FlushResults, P!FlushResults, HB!GiveBack, P!GiveBack,
         HB!Deinit, P!Deinit
<1>5. \A g \in Groups : /\ HB!Acquire(Agent, g) => P!Acquire(Agent, g)
                        /\ HB!Release(Agent, g) => P!Release(Agent, g)
  BY DEF HB!Acquire, P!Acquire, HB!Release, P!Release, HB!Unlocked, P!Unlocked, HB!hoox, P!hoox
<1>6. ASSUME NEW x \in Funcs \cup {Exit},
             HB!Prepare(Agent, x) \/ HB!Activate(Agent, x) \/ HB!Abandon(Agent, x) \/ HB!Uninstall(Agent, x)
      PROVE  P!Next
  <2>1. P!Prepare(Agent, x) \/ P!Activate(Agent, x) \/ P!Abandon(Agent, x) \/ P!Uninstall(Agent, x)
    BY <1>1, <1>6, Zenon
  <2> QED BY <2>1, Zenon DEF P!Next
<1>7. ASSUME HB!Flush(Agent) \/ HB!Destroy(Agent) PROVE P!Next
  <2>1. P!Flush(Agent) \/ P!Destroy(Agent)
    BY <1>2, <1>3, <1>7
  <2> QED BY <2>1, Zenon DEF P!Next
<1>8. ASSUME NEW done \in BOOLEAN, HB!Shutdown(Agent, done) PROVE P!Next
  <2>1. P!Shutdown(Agent, done)
    BY <1>4, <1>8
  <2> QED BY <2>1, Zenon DEF P!Next
<1>9. ASSUME NEW g \in Groups, HB!Acquire(Agent, g) \/ HB!Release(Agent, g) PROVE P!Next
  <2>1. P!Acquire(Agent, g) \/ P!Release(Agent, g)
    BY <1>5, <1>9
  <2> QED BY <2>1, Zenon DEF P!Next
<1> QED BY <1>6, <1>7, <1>8, <1>9, Zenon DEF HB!Next

\* A step of the backend keeps its invariant, and what a family that keeps its lease may call.
LEMMA BackendKept ==
  ASSUME HB!BackendInv, HB!Next \/ UNCHANGED backend
  PROVE  /\ HB!BackendInv'
         /\ \A s : \A x \in Funcs, g \in Groups :
                g \in holders[Agent] /\ g \in holders'[Agent] /\ HB!Callable(x, s, g) =>
                    HB!Callable(x, s, g)'
         /\ \A x \in Funcs, g \in Groups :
                g \in holders[Agent] /\ g \in holders'[Agent] /\ HB!Callable(x, slot[x], g) =>
                    HB!Callable(x, slot[x], g)'
<1>1. P!BackendInv /\ [P!Next]_(P!vars)
  BY BackendNames, BackendSteps DEF backend, P!vars, P!backend, P!hoox, P!callers
<1>2. P!BackendInv'
  BY <1>1, BackendNames, P!BackendStep
<1>3. HB!BackendInv'
  <2>1. (HB!BackendInv <=> P!BackendInv)'
    BY BackendNames, PTL
  <2> QED BY <1>2, <2>1
<1>4. ASSUME NEW x \in Funcs, NEW g \in Groups, NEW s, g \in holders[Agent], g \in holders'[Agent],
             HB!Callable(x, s, g)
      PROVE  HB!Callable(x, s, g)'
  <2>1. P!Callable(x, s, g)
    BY <1>4 DEF HB!Callable, P!Callable
  <2>2. P!Callable(x, s, g)'
    BY <1>1, <1>2, <1>4, <2>1, BackendNames, P!CallableStays
  <2> QED BY <2>2 DEF HB!Callable, P!Callable
<1>5. ASSUME NEW x \in Funcs, NEW g \in Groups, g \in holders[Agent], g \in holders'[Agent],
             HB!Callable(x, slot[x], g)
      PROVE  HB!Callable(x, slot[x], g)'
  <2>1. P!Callable(x, slot[x], g)
    BY <1>5 DEF HB!Callable, P!Callable
  <2>2. P!Callable(x, slot[x], g)'
    BY <1>1, <1>2, <1>5, <2>1, BackendNames, P!SlotStaysCallable
  <2> QED BY <2>2 DEF HB!Callable, P!Callable
<1> QED BY <1>3, <1>4, <1>5

\* What each step of the backend does to the state that the families look at.
LEMMA BackendEffects ==
  ASSUME HB!BackendInv
  PROVE  /\ jump \subseteq entries[Agent]
         /\ \A x \in Funcs \cup {Exit} :
                /\ HB!Prepare(Agent, x) => /\ entries'[Agent] = entries[Agent] \cup {x}
                                          /\ UNCHANGED <<jump, holders>>
                /\ HB!Activate(Agent, x) => /\ jump' = jump \cup {x}
                                           /\ UNCHANGED <<entries, holders>>
                /\ HB!Abandon(Agent, x) => UNCHANGED <<entries, jump, holders>>
                /\ HB!Uninstall(Agent, x) => /\ entries'[Agent] = entries[Agent] \ {x}
                                            /\ jump' = jump \ {x} /\ UNCHANGED holders
         /\ HB!Flush(Agent) => UNCHANGED <<entries, jump, holders>>
         /\ HB!Destroy(Agent) => entries'[Agent] = {} /\ jump' = {} /\ UNCHANGED holders
         /\ \A done \in BOOLEAN : HB!Shutdown(Agent, done) =>
                /\ entries'[Agent] = {} /\ jump' = {} /\ UNCHANGED holders
                /\ done => leases'[Agent] = 0 /\ ~interceptor'[Agent]
         /\ \A g \in Groups :
                /\ HB!Acquire(Agent, g) => /\ holders'[Agent] = holders[Agent] \cup {g}
                                          /\ UNCHANGED <<entries, jump>>
                /\ HB!Release(Agent, g) => /\ holders'[Agent] = holders[Agent] \ {g}
                                          /\ UNCHANGED <<entries, jump>>
<1> USE DEF HB!BackendInv
<1>1. jump \subseteq entries[Agent]
  BY HooksAssumption DEF HB!ContextsMatchEntries, HB!TypeOK
<1>2. ASSUME NEW x \in Funcs \cup {Exit}
      PROVE  /\ HB!Prepare(Agent, x) => /\ entries'[Agent] = entries[Agent] \cup {x}
                                          /\ UNCHANGED <<jump, holders>>
             /\ HB!Activate(Agent, x) => jump' = jump \cup {x} /\ UNCHANGED <<entries, holders>>
             /\ HB!Abandon(Agent, x) => UNCHANGED <<entries, jump, holders>>
             /\ HB!Uninstall(Agent, x) => /\ entries'[Agent] = entries[Agent] \ {x}
                                         /\ jump' = jump \ {x} /\ UNCHANGED holders
  <2>1. HB!Prepare(Agent, x) => entries'[Agent] = entries[Agent] \cup {x} /\ UNCHANGED <<jump, holders>>
    BY DEF HB!Prepare, HB!TypeOK
  <2>2. HB!Activate(Agent, x) => jump' = jump \cup {x} /\ UNCHANGED <<entries, holders>>
    BY DEF HB!Activate, HB!callers
  <2>3. HB!Abandon(Agent, x) => UNCHANGED <<entries, jump, holders>>
    BY DEF HB!Abandon, HB!callers
  <2>4. HB!Uninstall(Agent, x) => /\ entries'[Agent] = entries[Agent] \ {x}
                                 /\ jump' = jump \ {x} /\ UNCHANGED holders
    BY DEF HB!Uninstall, HB!GiveBack, HB!TypeOK
  <2> QED BY <2>1, <2>2, <2>3, <2>4
<1>3. HB!Flush(Agent) => UNCHANGED <<entries, jump, holders>>
  BY DEF HB!Flush, HB!hoox, HB!callers
<1>4. HB!Destroy(Agent) => entries'[Agent] = {} /\ jump' = {} /\ UNCHANGED holders
  BY <1>1 DEF HB!Destroy, HB!GiveBack, HB!TypeOK
<1>5. ASSUME NEW done \in BOOLEAN, HB!Shutdown(Agent, done)
      PROVE  /\ entries'[Agent] = {} /\ jump' = {} /\ UNCHANGED holders
             /\ done => leases'[Agent] = 0 /\ ~interceptor'[Agent]
  BY <1>1, <1>5 DEF HB!Shutdown, HB!GiveBack, HB!FlushResults, HB!TypeOK
<1>6. ASSUME NEW g \in Groups
      PROVE  /\ HB!Acquire(Agent, g) => /\ holders'[Agent] = holders[Agent] \cup {g}
                                       /\ UNCHANGED <<entries, jump>>
             /\ HB!Release(Agent, g) => /\ holders'[Agent] = holders[Agent] \ {g}
                                       /\ UNCHANGED <<entries, jump>>
  BY DEF HB!Acquire, HB!Release, HB!hoox, HB!TypeOK
<1> QED BY <1>1, <1>2, <1>3, <1>4, <1>5, <1>6

----------------------------------------------------------------------------
(* What the steps of the control thread have in common. *)

\* Nobody is in a replacement of g that depends on its channel set or trampolines.
Unused(g) ==
  \A t \in Threads : \A i \in 1 .. Depth(t) :
      GroupOf(frames[t][i].c) = g => ~Dependent(frames[t][i])

\* Calls stay backed when the families they depend on keep what they hold.
LEMMA FramesStay ==
  ASSUME HooksInv, frames' = frames,
         \A g \in Groups :
             /\ state[g] # "inactive" => state'[g] # "inactive"
             /\ state'[g] = "installed" => state[g] \in {"inactive", "installed"}
             /\ leased[g] => \/ Unused(g)
                             \/ /\ leased'[g] /\ (published[g] => published'[g])
                                /\ alive[g] => alive'[g],
         \A c \in Funcs :
             /\ c \in jump' => c \in jump \/ state[GroupOf(c)] = "installed"
             /\ route'[c] # "target" => route[c] # "target" \/ state[GroupOf(c)] = "inactive"
             /\ leased[GroupOf(c)] /\ leased'[GroupOf(c)] =>
                    /\ \A s : HB!Callable(c, s, GroupOf(c)) => HB!Callable(c, s, GroupOf(c))'
                    /\ HB!Callable(c, slot[c], GroupOf(c)) => HB!Callable(c, slot[c], GroupOf(c))'
  PROVE  FramesBacked'
<1> SUFFICES ASSUME NEW t \in Threads, NEW i \in 1 .. Depth(t)
             PROVE  LET f == frames[t][i]
                        g == GroupOf(f.c)
                    IN  /\ state'[g] # "inactive"
                        /\ f.at \in {"entered", "set", "loaded"} => f.route # "target"
                        /\ f.at = "calling" /\ f.route = "target" =>
                               state'[g] # "installed" /\ f.c \notin jump'
                        /\ Dependent(f)' => leased'[g] /\ published'[g] /\ alive'[g]
                                            /\ HB!Callable(f.c, Trampoline(f), g)'
  BY DEF FramesBacked, Depth, Dependent, Trampoline
<1> DEFINE f == frames[t][i]
           g == GroupOf(f.c)
<1>1. f \in Frames
  BY ElementOfSeq DEF HooksInv, FamilyInv, TypeOK, FramesTyped, Depth
<1>2. f.c \in Funcs /\ g \in Groups
  BY <1>1, Families DEF Frames
<1>3. /\ state[g] # "inactive"
      /\ f.at \in {"entered", "set", "loaded"} => f.route # "target"
      /\ f.at = "calling" /\ f.route = "target" => state[g] # "installed" /\ f.c \notin jump
      /\ Dependent(f) => leased[g] /\ published[g] /\ alive[g] /\ HB!Callable(f.c, Trampoline(f), g)
  BY DEF HooksInv, FramesBacked
<1>4. ASSUME Dependent(f)'
      PROVE  leased'[g] /\ published'[g] /\ alive'[g] /\ HB!Callable(f.c, Trampoline(f), g)'
  <2>1. Dependent(f)
    BY <1>2, <1>3, <1>4 DEF Dependent
  <2>2. ~Unused(g)
    BY <2>1 DEF Unused
  <2>3. leased[g] /\ leased'[g] /\ published'[g] /\ alive'[g]
    BY <1>2, <1>3, <2>1, <2>2
  <2>4. HB!Callable(f.c, Trampoline(f), g)'
    <3>1. CASE f.at \in {"loaded", "calling"}
      BY <1>2, <1>3, <2>1, <2>3, <3>1 DEF Trampoline, HB!Callable
    <3>2. CASE ~(f.at \in {"loaded", "calling"})
      BY <1>2, <1>3, <2>1, <2>3, <3>2 DEF Trampoline, HB!Callable
    <3> QED BY <3>1, <3>2
  <2> QED BY <2>3, <2>4
<1> QED BY <1>2, <1>3, <1>4

\* A step that touches neither the families nor the backend.
LEMMA FamiliesUntouched ==
  ASSUME HooksInv, UNCHANGED <<backend, family, frames>>, ControlTyped'
  PROVE  FamilyInv' /\ FamilyStages' /\ FramesBacked'
<1> USE DEF HooksInv, backend, family
<1>1. HB!BackendInv'
  BY BackendKept DEF FamilyInv
<1>2. TypeOK'
  BY <1>1 DEF FamilyInv, TypeOK, FamiliesTyped, FramesTyped, Depth, HB!BackendInv
<1>3. FamilyInv'
  BY <1>1, <1>2 DEF FamilyInv
<1>4. FamilyStages'
  BY DEF FamilyStages, Live
<1>5. FramesBacked'
  BY DEF FramesBacked, Depth, Dependent, Trampoline, HB!Callable
<1> QED BY <1>3, <1>4, <1>5

\* What the step at the head says of the capture.
LEMMA AtHead ==
  ASSUME HooksInv, NEW step, NEW x, Doing(step, x)
  PROVE  /\ todo \in Seq(Steps) /\ todo # << >> /\ Head(todo) = <<step, x>> /\ Due(step, x)
         /\ phase # "finalized" /\ (phase = "starting" <=> step \in Starting)
         /\ step = "shutdown" => phase = "unpatching"
         /\ step \in {"destroy", "flush", "abandon"} => phase = "failed"
         /\ step \in {"begin", "shutdown"} => Tail(todo) = << >>
         /\ step = "target" => x \notin entries[Agent] /\ \A c : ~Due("original", c)
<1>1. /\ todo \in Seq(Steps) /\ todo # << >> /\ Head(todo) = <<step, x>> /\ phase # "finalized"
      /\ Shaped(todo, phase, entries[Agent])
  BY DEF HooksInv, FamilyInv, TypeOK, ControlTyped, Doing, TodoShape
<1>2. 1 \in 1 .. Len(todo) /\ todo[1] = <<step, x>> /\ todo[1][1] = step /\ Len(todo) \in Nat
  BY <1>1, EmptySeq, HeadTailProperties
<1>3. Due(step, x)
  BY <1>2 DEF Due, Has
<1>4. /\ phase = "starting" <=> step \in Starting
      /\ step = "shutdown" => phase = "unpatching"
      /\ step \in {"destroy", "flush", "abandon"} => phase = "failed"
      /\ step \in {"begin", "shutdown"} => 1 = Len(todo)
  BY <1>1, <1>2 DEF Shaped
<1>5. ASSUME 1 = Len(todo) PROVE Tail(todo) = << >>
  <2>1. Tail(todo) \in Seq(Steps) /\ Len(Tail(todo)) = 0
    BY <1>1, <1>5, HeadTailProperties
  <2> QED BY <2>1, EmptySeq
<1>6. ASSUME step = "target" PROVE x \notin entries[Agent] /\ \A c : ~Due("original", c)
  <2>1. x \notin entries[Agent]
    <3>1. todo[1][1] = "target" /\ todo[1][2] = x
      BY <1>2, <1>6
    <3>2. \A k \in 1 .. 1 : todo[k] # <<"revert", x>>
      BY <1>2, <1>6
    <3> QED BY <1>1, <1>2, <3>1, <3>2 DEF Shaped
  <2>2. ASSUME NEW c, NEW i \in 1 .. Len(todo), todo[i] = <<"original", c>> PROVE FALSE
    <3>1. 1 \in 1 .. i
      BY <1>2
    <3> QED BY <1>1, <1>2, <1>6, <2>2, <3>1 DEF Shaped
  <2> QED BY <2>1, <2>2 DEF Due, Has
<1> QED BY <1>1, <1>3, <1>4, <1>5, <1>6

\* The step at the head of todo is done.
LEMMA Pop ==
  ASSUME HooksInv, NEW step, NEW x, Doing(step, x), Push(<< >>)
  PROVE  /\ todo' \in Seq(Steps) /\ todo' = Tail(todo)
         /\ \A s : Has(todo, s) <=> s = <<step, x>> \/ Has(todo', s)
         /\ \A now : now \subseteq entries[Agent] /\ (step = "revert" => x \notin now) =>
                Shaped(todo', phase, now)
         /\ step \notin Inner =>
                \A c : /\ ~Due("original", c) /\ ~Due("revert", c) /\ ~Due("target", c)
                       /\ ~Has(todo', <<"finish", c>>)
         /\ phase # "finalized" /\ (phase = "starting" <=> step \in Starting)
<1>1. todo \in Seq(Steps) /\ todo # << >> /\ Head(todo) = <<step, x>> /\ Head(todo)[1] = step
  BY DEF HooksInv, FamilyInv, TypeOK, ControlTyped, Doing
<1>2. todo' = Tail(todo) /\ Tail(todo) \in Seq(Steps)
  BY <1>1, HeadTailProperties, ConcatEmptySeq DEF Push
<1>3. Shaped(todo, phase, entries[Agent]) /\ phase # "finalized"
  BY <1>1 DEF HooksInv, TodoShape
<1>4. \A s : Has(todo, s) <=> s = <<step, x>> \/ Has(todo', s)
  BY <1>1, <1>2, HasTail
<1>5. ASSUME NEW now, now \subseteq entries[Agent], step = "revert" => x \notin now
      PROVE  Shaped(todo', phase, now)
  BY <1>1, <1>2, <1>3, <1>5, TailShaped
<1>6. ASSUME step \notin Inner
      PROVE  \A c : /\ ~Due("original", c) /\ ~Due("revert", c) /\ ~Due("target", c)
                    /\ ~Has(todo', <<"finish", c>>)
  <2>1. Head(todo)[1] \notin Inner
    BY <1>1, <1>6
  <2> QED BY <1>1, <1>2, <1>3, <2>1, NothingInner DEF Due
<1>7. phase = "starting" <=> step \in Starting
  <2>1. 1 \in 1 .. Len(todo) /\ todo[1] = <<step, x>>
    BY <1>1, EmptySeq, HeadTailProperties
  <2> QED BY <1>3, <2>1 DEF Shaped
<1> QED BY <1>2, <1>3, <1>4, <1>5, <1>6, <1>7

\* The step at the head of todo, which is no store, calls others.
LEMMA Call ==
  ASSUME HooksInv, NEW step, NEW x, Doing(step, x), step \notin Inner,
         NEW p \in Seq(Steps), Push(p)
  PROVE  /\ todo' \in Seq(Steps)
         /\ \A s : Has(todo', s) <=> Has(p, s) \/ Has(Tail(todo), s)
         /\ \A s : Has(todo, s) <=> s = <<step, x>> \/ Has(Tail(todo), s)
         /\ \A now : Shaped(p, phase, now)
                     /\ (\A i \in 1 .. Len(p) : p[i][1] \notin {"begin", "shutdown"}) =>
                        Shaped(todo', phase, now)
         /\ \A c : /\ ~Due("original", c) /\ ~Due("revert", c) /\ ~Due("target", c)
                   /\ ~Has(Tail(todo), <<"finish", c>>)
         /\ phase # "finalized" /\ (phase = "starting" <=> step \in Starting)
<1>1. todo \in Seq(Steps) /\ todo # << >> /\ Head(todo) = <<step, x>> /\ Head(todo)[1] = step
  BY DEF HooksInv, FamilyInv, TypeOK, ControlTyped, Doing
<1>2. todo' = p \o Tail(todo) /\ Tail(todo) \in Seq(Steps)
  BY <1>1, HeadTailProperties DEF Push
<1>3. Shaped(todo, phase, entries[Agent]) /\ phase # "finalized"
  BY <1>1 DEF HooksInv, TodoShape
<1>4. todo' \in Seq(Steps)
  BY <1>2, ConcatProperties
<1>5. \A s : Has(todo', s) <=> Has(p, s) \/ Has(Tail(todo), s)
  BY <1>2, HasConcat
<1>6. \A s : Has(todo, s) <=> s = <<step, x>> \/ Has(Tail(todo), s)
  BY <1>1, HasTail
<1>7. ASSUME NEW now, Shaped(p, phase, now), \A i \in 1 .. Len(p) : p[i][1] \notin {"begin", "shutdown"}
      PROVE  Shaped(todo', phase, now)
  <2>1. Head(todo)[1] \notin Inner
    BY <1>1
  <2> QED BY <1>1, <1>2, <1>3, <1>7, <2>1, PushShaped
<1>8. \A c : /\ ~Due("original", c) /\ ~Due("revert", c) /\ ~Due("target", c)
             /\ ~Has(Tail(todo), <<"finish", c>>)
  <2>1. Head(todo)[1] \notin Inner
    BY <1>1
  <2> QED BY <1>1, <1>3, <2>1, NothingInner DEF Due
<1>9. phase = "starting" <=> step \in Starting
  <2>1. 1 \in 1 .. Len(todo) /\ todo[1] = <<step, x>>
    BY <1>1, EmptySeq, HeadTailProperties
  <2> QED BY <1>3, <2>1 DEF Shaped
<1> QED BY <1>3, <1>4, <1>5, <1>6, <1>7, <1>8, <1>9

\* The waits that are under way belong to the step at the head.
LEMMA NotWaiting ==
  ASSUME HooksInv, settling' = settling,
         \/ todo = << >>
         \/ \E step, x : Doing(step, x) /\ step \notin {"recorders", "finish"}
         \/ \E g : Doing("finish", g) /\ quiescent[g]
  PROVE  settling' = 1 /\ WaitsHold'
  BY DEF HooksInv, WaitsHold, Doing

\* Pending families are routed to the target when no store is left to do.
LEMMA RoutedToTarget ==
  ASSUME HooksInv, NEW step, NEW x, Doing(step, x), step \notin Inner, NEW c \in Funcs,
         state[GroupOf(c)] # "installed"
  PROVE  route[c] = "target" /\ c \notin entries[Agent]
<1>1. ~Due("target", c)
  <2>1. todo \in Seq(Steps) /\ todo # << >> /\ Head(todo)[1] = step
        /\ Shaped(todo, phase, entries[Agent])
    BY DEF HooksInv, FamilyInv, TypeOK, ControlTyped, Doing, TodoShape
  <2>2. Head(todo)[1] \notin Inner
    BY <2>1
  <2> QED BY <2>1, <2>2, NothingInner DEF Due
<1>2. route[c] = "target"
  BY <1>1 DEF HooksInv, WorkFits, FamilyStages, Live
<1> QED BY <1>2 DEF HooksInv, FamilyStages

----------------------------------------------------------------------------
(* The steps a call pushes. *)

\* The short ones.
LEMMA FewSteps ==
  ASSUME NEW g \in Groups, NEW p, NEW ph, NEW now, ph # "starting",
         p \in {<< >>, << <<"finish", g>> >>}
             \/ (ph = "failed" /\ p = << <<"uninstall", g>>, <<"flush", g>>, <<"abandon", g>> >>)
  PROVE  /\ p \in Seq(Steps) /\ Shaped(p, ph, now)
         /\ \A i \in 1 .. Len(p) : p[i][1] \notin {"begin", "shutdown"}
<1>1. {<<"finish", g>>, <<"uninstall", g>>, <<"flush", g>>, <<"abandon", g>>} \subseteq Steps
  BY DEF Steps
<1>2. CASE p = << >>
  BY <1>2 DEF Shaped
<1>3. CASE p = << <<"finish", g>> >>
  BY <1>1, <1>3 DEF Shaped, Starting, Inner
<1>4. CASE ph = "failed" /\ p = << <<"uninstall", g>>, <<"flush", g>>, <<"abandon", g>> >>
  BY <1>1, <1>4 DEF Shaped, Starting, Inner
<1> QED BY <1>2, <1>3, <1>4

\* One step for each channel of a family.
LEMMA EachStep ==
  ASSUME NEW g \in Groups, NEW k \in {"patch", "original"}
  PROVE  /\ Each(k, g) \in Seq(Steps) /\ Len(Each(k, g)) = Len(Channels[g])
         /\ \A i \in 1 .. Len(Channels[g]) : Each(k, g)[i] = <<k, Channels[g][i]>>
         /\ \A s : Has(Each(k, g), s) <=> \E c \in Funcs : GroupOf(c) = g /\ s = <<k, c>>
<1> DEFINE n == Len(Channels[g])
<1>1. n \in Nat /\ \A i \in 1 .. n : <<k, Channels[g][i]>> \in Steps
  BY Families DEF Steps
<1>2. Each(k, g) \in [1 .. n -> Steps]
  BY <1>1 DEF Each
<1>3. Each(k, g) \in Seq(Steps) /\ Len(Each(k, g)) = n
  BY <1>1, <1>2, SeqDef, LenProperties
<1>4. \A i \in 1 .. n : Each(k, g)[i] = <<k, Channels[g][i]>>
  BY DEF Each
<1>5. ASSUME NEW s PROVE Has(Each(k, g), s) <=> \E c \in Funcs : GroupOf(c) = g /\ s = <<k, c>>
  <2>1. Has(Each(k, g), s) <=> \E i \in 1 .. n : s = <<k, Channels[g][i]>>
    BY <1>3, <1>4 DEF Has
  <2> QED BY <2>1, Families
<1> QED BY <1>3, <1>4, <1>5

\* stop_recording: the stores, then the wait.
LEMMA StopSteps ==
  ASSUME NEW g \in Groups, NEW ph, NEW now, ph # "starting"
  PROVE  LET p == Each("original", g) \o << <<"recorders", g>> >>
         IN  /\ p \in Seq(Steps) /\ Shaped(p, ph, now)
             /\ \A i \in 1 .. Len(p) : p[i][1] \notin {"begin", "shutdown"}
             /\ \A s : Has(p, s) <=> \/ s = <<"recorders", g>>
                                      \/ \E c \in Funcs : GroupOf(c) = g /\ s = <<"original", c>>
<1> DEFINE e == Each("original", g)
           n == Len(Channels[g])
           p == e \o << <<"recorders", g>> >>
<1>1. << <<"recorders", g>> >> \in Seq(Steps) /\ Len(<< <<"recorders", g>> >>) = 1
  BY DEF Steps
<1>2. /\ e \in Seq(Steps) /\ Len(e) = n /\ n \in Nat
      /\ \A i \in 1 .. n : e[i] = <<"original", Channels[g][i]>>
  BY EachStep, Families
<1> HIDE DEF e, n
<1>3. p \in Seq(Steps) /\ Len(p) = n + 1
      /\ \A i \in 1 .. n + 1 : p[i] = IF i <= n THEN e[i] ELSE << <<"recorders", g>> >>[i - n]
  BY <1>1, <1>2, ConcatProperties
<1>4. \A i \in 1 .. n : p[i] = <<"original", Channels[g][i]>>
  BY <1>2, <1>3
<1>5. p[n + 1] = <<"recorders", g>>
  BY <1>2, <1>3
<1> HIDE DEF p
<1>6. \A i \in 1 .. n + 1 : (i \in 1 .. n /\ p[i][1] = "original") \/ (i = n + 1 /\ p[i][1] = "recorders")
  BY <1>2, <1>4, <1>5
<1>7. \A i \in 1 .. Len(p) : p[i][1] \notin {"begin", "shutdown"}
  BY <1>3, <1>6
<1>8. Shaped(p, ph, now)
  <2>1. ASSUME NEW i \in 1 .. n
        PROVE  /\ \A k \in 1 .. i - 1 : p[k][1] = "original"
               /\ \A k \in 1 .. i : p[k][1] = "original"
    BY <1>2, <1>4, <2>1
  <2> QED BY <1>3, <1>6, <2>1 DEF Shaped, Starting, Inner
<1>9. ASSUME NEW s
      PROVE  Has(p, s) <=> s = <<"recorders", g>> \/ \E c \in Funcs : GroupOf(c) = g /\ s = <<"original", c>>
  <2>1. Has(p, s) <=> Has(e, s) \/ Has(<< <<"recorders", g>> >>, s)
    BY <1>1, <1>2, HasConcat DEF p
  <2>2. Has(<< <<"recorders", g>> >>, s) <=> s = <<"recorders", g>>
    BY HasFew
  <2>3. Has(e, s) <=> \E c \in Funcs : GroupOf(c) = g /\ s = <<"original", c>>
    BY EachStep DEF e
  <2> QED BY <2>1, <2>2, <2>3
<1> QED BY <1>3, <1>7, <1>8, <1>9 DEF p, e

\* uninstall: all channels to the original route, then each jump reverted and its channel
\* routed to the target, then the waits.
TeardownSteps(g) ==
    Each("original", g) \o
    [i \in 1 .. 2 * Len(Channels[g]) |->
        <<IF i % 2 = 1 THEN "revert" ELSE "target", Channels[g][(i + 1) \div 2]>>] \o
    << <<"finish", g>> >>

LEMMA Halves ==
  ASSUME NEW n \in Nat, NEW i \in 1 .. 2 * n
  PROVE  /\ (i + 1) \div 2 \in 1 .. n /\ i % 2 \in {0, 1}
         /\ i % 2 = 0 => i - 1 \in 1 .. 2 * n /\ (i - 1) % 2 = 1 /\ ((i - 1) + 1) \div 2 = (i + 1) \div 2
  OBVIOUS

LEMMA Doubles ==
  ASSUME NEW n \in Nat, NEW j \in 1 .. n
  PROVE  2 * j \in 1 .. 2 * n /\ (2 * j) % 2 = 0 /\ (2 * j + 1) \div 2 = j
  OBVIOUS

LEMMA TeardownFacts ==
  ASSUME NEW g \in Groups, NEW ph, NEW now, ph # "starting"
  PROVE  /\ TeardownSteps(g) \in Seq(Steps) /\ Shaped(TeardownSteps(g), ph, now)
         /\ \A i \in 1 .. Len(TeardownSteps(g)) : TeardownSteps(g)[i][1] \notin {"begin", "shutdown"}
         /\ \A c \in Funcs : GroupOf(c) = g => Has(TeardownSteps(g), <<"target", c>>)
         /\ Has(TeardownSteps(g), <<"finish", g>>)
         /\ \A s : Has(TeardownSteps(g), s) =>
                \/ s = <<"finish", g>>
                \/ \E c \in Funcs : GroupOf(c) = g /\ s \in Inner \X {c}
<1> DEFINE n == Len(Channels[g])
           e == Each("original", g)
           m == [i \in 1 .. 2 * n |->
                    <<IF i % 2 = 1 THEN "revert" ELSE "target", Channels[g][(i + 1) \div 2]>>]
           l == << <<"finish", g>> >>
           p == TeardownSteps(g)
<1>1. /\ e \in Seq(Steps) /\ Len(e) = n /\ n \in Nat \ {0}
      /\ \A i \in 1 .. n : e[i] = <<"original", Channels[g][i]>>
  BY EachStep, Families
<1>2. l \in Seq(Steps) /\ Len(l) = 1 /\ l[1] = <<"finish", g>>
  BY DEF Steps
<1>3. m \in Seq(Steps) /\ Len(m) = 2 * n
  <2>1. \A i \in 1 .. 2 * n : <<IF i % 2 = 1 THEN "revert" ELSE "target", Channels[g][(i + 1) \div 2]>> \in Steps
    BY <1>1, Halves, Families DEF Steps
  <2>2. m \in [1 .. 2 * n -> Steps] /\ 2 * n \in Nat
    BY <1>1, <2>1
  <2> HIDE DEF m
  <2> QED BY <2>2, SeqDef, LenProperties
<1>4. ASSUME NEW i \in 1 .. 2 * n
      PROVE  m[i] = <<IF i % 2 = 1 THEN "revert" ELSE "target", Channels[g][(i + 1) \div 2]>>
  OBVIOUS
<1>5. p = (e \o m) \o l
  BY DEF TeardownSteps
<1> HIDE DEF n, e, m, l, p
<1>6. /\ e \o m \in Seq(Steps) /\ Len(e \o m) = n + 2 * n
      /\ \A i \in 1 .. n + 2 * n : (e \o m)[i] = IF i <= n THEN e[i] ELSE m[i - n]
  <2>1. /\ e \o m \in Seq(Steps) /\ Len(e \o m) = Len(e) + Len(m)
        /\ \A i \in 1 .. Len(e) + Len(m) : (e \o m)[i] = IF i <= Len(e) THEN e[i] ELSE m[i - Len(e)]
    BY <1>1, <1>3, ConcatProperties
  <2>2. Len(e) = n /\ Len(m) = 2 * n
    BY <1>1, <1>3
  <2> QED BY <2>1, <2>2, Zenon
<1>7. /\ p \in Seq(Steps) /\ Len(p) = (n + 2 * n) + 1
      /\ \A i \in 1 .. (n + 2 * n) + 1 : p[i] = IF i <= n + 2 * n THEN (e \o m)[i] ELSE l[i - (n + 2 * n)]
  <2> DEFINE q == e \o m
  <2>1. q \in Seq(Steps) /\ Len(q) = n + 2 * n /\ l \in Seq(Steps) /\ Len(l) = 1
    BY <1>2, <1>6
  <2>2. p = q \o l
    BY <1>5
  <2> HIDE DEF q
  <2>3. /\ p \in Seq(Steps) /\ Len(p) = Len(q) + Len(l)
        /\ \A i \in 1 .. Len(q) + Len(l) : p[i] = IF i <= Len(q) THEN q[i] ELSE l[i - Len(q)]
    BY <2>1, <2>2, ConcatProperties
  <2>4. /\ p \in Seq(Steps) /\ Len(p) = (n + 2 * n) + 1
        /\ \A i \in 1 .. (n + 2 * n) + 1 : p[i] = IF i <= n + 2 * n THEN q[i] ELSE l[i - (n + 2 * n)]
    BY <2>1, <2>3, Zenon
  <2> QED BY <2>4 DEF q
<1>8. ASSUME NEW i \in 1 .. n PROVE p[i] = <<"original", Channels[g][i]>>
  BY <1>1, <1>6, <1>7
<1>9. ASSUME NEW i \in 1 .. 2 * n
      PROVE  /\ n + i \in 1 .. Len(p)
             /\ p[n + i] = <<IF i % 2 = 1 THEN "revert" ELSE "target", Channels[g][(i + 1) \div 2]>>
  <2>1. n + i \in 1 .. n + 2 * n /\ ~(n + i <= n) /\ (n + i) - n = i
    BY <1>1
  <2>2. p[n + i] = m[i]
    BY <1>1, <1>6, <1>7, <2>1
  <2> QED BY <1>1, <1>4, <1>7, <2>1, <2>2
<1>10. p[Len(p)] = <<"finish", g>>
  BY <1>1, <1>2, <1>7
<1>11. ASSUME NEW i \in 1 .. Len(p)
       PROVE  i \in 1 .. n \/ (i - n \in 1 .. 2 * n /\ i = n + (i - n)) \/ i = Len(p)
  BY <1>1, <1>7
<1>12. ASSUME NEW i \in 1 .. Len(p), i # Len(p) PROVE p[i][1] \in Inner
  BY <1>8, <1>9, <1>11, <1>12 DEF Inner
<1>13. ASSUME NEW i \in 1 .. Len(p)
       PROVE  /\ p[i][1] \notin Starting \cup {"begin", "shutdown", "destroy", "flush", "abandon"}
              /\ \A k \in 1 .. i - 1 : p[k][1] \in Inner
              /\ p[i][1] = "original" => \A k \in 1 .. i : p[k][1] = "original"
              /\ p[i][1] = "target" => \E k \in 1 .. i : p[k] = <<"revert", p[i][2]>>
  <2>1. p[i][1] \notin Starting \cup {"begin", "shutdown", "destroy", "flush", "abandon"}
    BY <1>10, <1>12 DEF Inner, Starting
  <2>2. \A k \in 1 .. i - 1 : p[k][1] \in Inner
    <3>1. \A k \in 1 .. i - 1 : k \in 1 .. Len(p) /\ k # Len(p)
      BY <1>1, <1>7
    <3> QED BY <1>12, <3>1
  <2>3. ASSUME p[i][1] = "original" PROVE \A k \in 1 .. i : p[k][1] = "original"
    <3>1. i \in 1 .. n
      BY <1>9, <1>10, <1>11, <2>3
    <3>2. \A k \in 1 .. i : k \in 1 .. n
      BY <1>1, <3>1
    <3> QED BY <1>8, <3>2
  <2>4. ASSUME p[i][1] = "target" PROVE \E k \in 1 .. i : p[k] = <<"revert", p[i][2]>>
    <3> DEFINE j == i - n
    <3>1. j \in 1 .. 2 * n /\ i = n + j
      BY <1>8, <1>10, <1>11, <2>4
    <3>2. p[i] = <<IF j % 2 = 1 THEN "revert" ELSE "target", Channels[g][(j + 1) \div 2]>>
      BY <1>9, <3>1
    <3> HIDE DEF j
    <3>3. j % 2 = 0
      BY <1>1, <2>4, <3>1, <3>2, Halves
    <3>4. j - 1 \in 1 .. 2 * n /\ (j - 1) % 2 = 1 /\ ((j - 1) + 1) \div 2 = (j + 1) \div 2
      BY <1>1, <3>1, <3>3, Halves
    <3>5. p[n + (j - 1)] = <<"revert", Channels[g][(j + 1) \div 2]>>
      BY <1>9, <3>4
    <3>6. n + (j - 1) \in 1 .. i
      BY <1>1, <3>1, <3>4
    <3> QED BY <3>2, <3>5, <3>6
  <2> QED BY <2>1, <2>2, <2>3, <2>4
<1>14. Shaped(p, ph, now)
  BY <1>13 DEF Shaped
<1>15. ASSUME NEW c \in Funcs, GroupOf(c) = g PROVE Has(p, <<"target", c>>)
  <2>1. PICK j \in 1 .. n : Channels[g][j] = c
    BY <1>15, Families DEF n
  <2>2. 2 * j \in 1 .. 2 * n /\ (2 * j) % 2 = 0 /\ (2 * j + 1) \div 2 = j
    BY <1>1, Doubles
  <2>3. /\ n + 2 * j \in 1 .. Len(p)
        /\ p[n + 2 * j] = <<IF (2 * j) % 2 = 1 THEN "revert" ELSE "target", Channels[g][(2 * j + 1) \div 2]>>
    BY <1>9, <2>2, Zenon
  <2>4. p[n + 2 * j] = <<"target", c>>
    BY <2>1, <2>2, <2>3
  <2> QED BY <2>3, <2>4 DEF Has
<1>16. Has(p, <<"finish", g>>)
  <2>1. Len(p) \in 1 .. Len(p)
    BY <1>1, <1>7
  <2> QED BY <1>10, <2>1 DEF Has
<1>17. ASSUME NEW s, Has(p, s)
       PROVE  s = <<"finish", g>> \/ \E c \in Funcs : GroupOf(c) = g /\ s \in Inner \X {c}
  <2>1. PICK i \in 1 .. Len(p) : p[i] = s
    BY <1>17 DEF Has
  <2>2. CASE i \in 1 .. n
    <3>1. s = <<"original", Channels[g][i]>> /\ Channels[g][i] \in Funcs /\ GroupOf(Channels[g][i]) = g
      BY <1>8, <2>1, <2>2, Families DEF n
    <3> QED BY <3>1 DEF Inner
  <2>3. CASE i - n \in 1 .. 2 * n /\ i = n + (i - n)
    <3> DEFINE j == i - n
               k == (j + 1) \div 2
    <3>1. k \in 1 .. n
      BY <1>1, <2>3, Halves
    <3>2. s = <<IF j % 2 = 1 THEN "revert" ELSE "target", Channels[g][k]>>
      BY <1>9, <2>1, <2>3
    <3>3. Channels[g][k] \in Funcs /\ GroupOf(Channels[g][k]) = g
      BY <3>1, Families DEF n
    <3> HIDE DEF j, k
    <3> QED BY <3>2, <3>3 DEF Inner
  <2>4. CASE i = Len(p)
    BY <1>10, <2>1, <2>4
  <2> QED BY <1>11, <2>1, <2>2, <2>3, <2>4
<1> QED BY <1>7, <1>13, <1>14, <1>15, <1>16, <1>17 DEF p

----------------------------------------------------------------------------
(* What the actions have in common. *)

\* What FramesBacked says of one frame.
Backed(f) ==
    LET g == GroupOf(f.c)
    IN  /\ state[g] # "inactive"
        /\ f.at \in {"entered", "set", "loaded"} => f.route # "target"
        /\ f.at = "calling" /\ f.route = "target" => state[g] # "installed" /\ f.c \notin jump
        /\ Dependent(f) => leased[g] /\ published[g] /\ alive[g]
                           /\ HB!Callable(f.c, Trampoline(f), g)

\* The frames, one by one.
LEMMA EachFrame ==
  ASSUME HooksInv, NEW t \in Threads, NEW i \in 1 .. Depth(t)
  PROVE  /\ frames[t][i] \in Frames /\ frames[t][i].c \in Funcs
         /\ GroupOf(frames[t][i].c) \in Groups /\ Backed(frames[t][i])
         /\ frames[t][i].at # "arrived" /\ frames[t][i].route # "target" => frames[t][i] \in Routed
<1> DEFINE f == frames[t][i]
<1>1. f \in Frames
  BY ElementOfSeq DEF HooksInv, FamilyInv, TypeOK, FramesTyped, Depth
<1>2. f.c \in Funcs /\ GroupOf(f.c) \in Groups
  BY <1>1, Families DEF Frames
<1>3. Backed(f)
  BY DEF HooksInv, FramesBacked, Backed
<1>4. f.at # "arrived" /\ f.route # "target" => f \in Routed
  <2> DEFINE own(u) == {frames[u][j] : j \in 1 .. Depth(u)}
  <2>1. f \in own(t) /\ own(t) \in {own(u) : u \in Threads}
    OBVIOUS
  <2>2. f \in UNION {own(u) : u \in Threads}
    BY <2>1, Zenon
  <2> HIDE DEF f
  <2> QED BY <2>2, Zenon DEF Routed
<1> QED BY <1>1, <1>2, <1>3, <1>4

LEMMA RoutedFrame ==
  ASSUME HooksInv, NEW f \in Routed
  PROVE  /\ f \in Frames /\ f.c \in Funcs /\ GroupOf(f.c) \in Groups /\ Backed(f)
         /\ f.at # "arrived" /\ f.route # "target"
         /\ \E t \in Threads : \E i \in 1 .. Depth(t) : f = frames[t][i]
<1>1. f.at # "arrived" /\ f.route # "target" /\ \E t \in Threads : \E i \in 1 .. Depth(t) : f = frames[t][i]
  <2>1. /\ f \in UNION {{frames[t][i] : i \in 1 .. Depth(t)} : t \in Threads}
        /\ f.at # "arrived" /\ f.route # "target"
    BY Zenon DEF Routed
  <2>2. PICK S \in {{frames[t][i] : i \in 1 .. Depth(t)} : t \in Threads} : f \in S
    BY <2>1, Zenon
  <2>3. \E t \in Threads : \E i \in 1 .. Depth(t) : f = frames[t][i]
    BY <2>2, Zenon
  <2> QED BY <2>1, <2>3
<1> QED BY <1>1, EachFrame

\* A step of the backend that leaves the leases alone, and at most the flushed flag of a
\* family: what it patches belongs to a family that is installed.
LEMMA BackendMoves ==
  ASSUME HooksInv, HB!Next \/ UNCHANGED backend, ControlTyped',
         UNCHANGED <<state, leased, quiescent, published, alive, queue, route, frames, holders>>,
         flushed' \in [Groups -> BOOLEAN],
         \A c \in Funcs :
             /\ c \in entries'[Agent] => c \in entries[Agent] \/ route[c] # "target"
             /\ c \in jump' => c \in jump \/ state[GroupOf(c)] = "installed"
  PROVE  FamilyInv' /\ FamilyStages' /\ FramesBacked'
<1>1. HB!BackendInv /\ HB!BackendInv'
  BY BackendKept DEF HooksInv, FamilyInv
<1>2. TypeOK'
  BY <1>1 DEF HooksInv, FamilyInv, TypeOK, FamiliesTyped, FramesTyped, Depth, HB!BackendInv
<1>3. FamilyInv'
  BY <1>1, <1>2 DEF HooksInv, FamilyInv
<1>4. FamilyStages'
  BY DEF HooksInv, FamilyStages, Live
<1>5. \A g \in Groups : leased[g] => g \in holders[Agent] /\ g \in holders'[Agent]
  BY DEF HooksInv, FamilyInv
<1>6. ASSUME NEW c \in Funcs, leased[GroupOf(c)]
      PROVE  /\ \A s : HB!Callable(c, s, GroupOf(c)) => HB!Callable(c, s, GroupOf(c))'
             /\ HB!Callable(c, slot[c], GroupOf(c)) => HB!Callable(c, slot[c], GroupOf(c))'
  <2>1. GroupOf(c) \in Groups
    BY Families
  <2> QED BY <1>1, <1>5, <1>6, <2>1, BackendKept
<1>7. FramesBacked'
  BY <1>6, FramesStay
<1> QED BY <1>3, <1>4, <1>7

\* The step at the head is done, and no family has changed.
LEMMA Popped ==
  ASSUME HooksInv, NEW step, NEW x, Doing(step, x), Push(<< >>), step # "install",
         phase' = phase, unpatched' => unpatched, UNCHANGED <<state, alive, published>>,
         entries'[Agent] \subseteq entries[Agent], step = "revert" => x \notin entries'[Agent],
         step \in {"uninstall", "finish"} =>
             phase # "unpatching" \/ ~unpatched' \/ state[x] = "retired"
  PROVE  /\ todo' \in Seq(Steps) /\ TodoShape' /\ Progress'
         /\ UNCHANGED route /\ step # "target" => WorkFits'
         /\ phase' # "finalized"
<1>1. /\ todo' \in Seq(Steps) /\ phase # "finalized" /\ Shaped(todo', phase, entries'[Agent])
      /\ \A s : Has(todo, s) <=> s = <<step, x>> \/ Has(todo', s)
  BY Pop
<1>2. TodoShape'
  BY <1>1 DEF TodoShape
<1>3. \A k, y : Due(k, y)' <=> Has(todo', <<k, y>>)
  BY DEF Due, Has
<1>4. \A k, y : /\ Due(k, y)' => Due(k, y)
                /\ Due(k, y) => Due(k, y)' \/ (k = step /\ y = x)
  BY <1>1, <1>3 DEF Due
<1>5. Progress'
  BY <1>4 DEF HooksInv, Progress
<1>6. ASSUME UNCHANGED route, step # "target" PROVE WorkFits'
  BY <1>4, <1>6 DEF HooksInv, WorkFits
<1> QED BY <1>1, <1>2, <1>5, <1>6

\* The step at the head, which is no store, calls others, and no family has changed.
LEMMA Called ==
  ASSUME HooksInv, NEW step, NEW x, Doing(step, x), NEW p \in Seq(Steps), Push(p),
         step \notin Inner \cup {"install", "finish"},
         phase' = phase, UNCHANGED <<state, alive, published, route, unpatched>>,
         Shaped(p, phase, entries'[Agent]),
         \A i \in 1 .. Len(p) : p[i][1] \notin {"begin", "shutdown"},
         \A c \in Funcs :
             /\ Has(p, <<"patch", c>>) \/ Has(p, <<"activate", c>>) => state[GroupOf(c)] = "installed"
             /\ Has(p, <<"original", c>>) => route[c] # "target"
             /\ ~Has(p, <<"target", c>>),
         \A g \in Groups : Has(p, <<"finish", g>>) => state[g] = "pending",
         step = "uninstall" => Has(p, <<"finish", x>>)
  PROVE  todo' \in Seq(Steps) /\ TodoShape' /\ Progress' /\ WorkFits' /\ phase' # "finalized"
<1>1. /\ todo' \in Seq(Steps) /\ phase # "finalized" /\ Shaped(todo', phase, entries'[Agent])
      /\ \A s : Has(todo', s) <=> Has(p, s) \/ Has(Tail(todo), s)
      /\ \A s : Has(todo, s) <=> s = <<step, x>> \/ Has(Tail(todo), s)
      /\ \A c : ~Due("target", c) /\ ~Due("original", c)
  BY Call
<1>2. TodoShape'
  BY <1>1 DEF TodoShape
<1>3. \A k, y : Due(k, y)' <=> Has(todo', <<k, y>>)
  BY DEF Due, Has
<1>4. \A k, y : /\ Due(k, y)' => Due(k, y) \/ Has(p, <<k, y>>)
                /\ Due(k, y) => Due(k, y)' \/ (k = step /\ y = x)
                /\ Has(p, <<k, y>>) => Due(k, y)'
  BY <1>1, <1>3 DEF Due
<1>5. Progress'
  BY <1>4 DEF HooksInv, Progress
<1>6. WorkFits'
  BY <1>1, <1>4 DEF HooksInv, WorkFits
<1> QED BY <1>1, <1>2, <1>5, <1>6

\* The parts of the invariant after a step that does not finish the capture.
LEMMA Assembled ==
  ASSUME FamilyInv', FamilyStages', FramesBacked', TodoShape', WorkFits', Progress',
         WaitsHold', phase' # "finalized"
  PROVE  HooksInv'
  BY DEF HooksInv, FinalizedIsClean

LEMMA ControlOnly ==
  ASSUME HooksInv, UNCHANGED <<backend, family, frames>>, ControlTyped', TodoShape', WorkFits',
         Progress', WaitsHold', phase' # "finalized"
  PROVE  HooksInv'
  BY FamiliesUntouched, Assembled

\* Nothing that the order of the work depends on has changed.
LEMMA WorkSame ==
  ASSUME HooksInv, UNCHANGED <<todo, phase, unpatched, state, route, alive, published>>,
         entries'[Agent] = entries[Agent]
  PROVE  TodoShape' /\ WorkFits' /\ Progress'
<1>1. TodoShape'
  BY DEF HooksInv, TodoShape
<1>2. \A k, y : Due(k, y)' <=> Due(k, y)
  BY DEF Due, Has
<1>3. WorkFits' /\ Progress'
  BY <1>2 DEF HooksInv, WorkFits, Progress
<1> QED BY <1>1, <1>3

----------------------------------------------------------------------------
(* The steps of the control thread that change neither a family nor the backend. *)

\* GiveUp, with which a wait of try_finish_teardown ends that does not succeed.
LEMMA GaveUp ==
  ASSUME HooksInv, NEW g \in Groups, Doing("finish", g), GiveUp, missed' \in BOOLEAN,
         UNCHANGED <<backend, family, frames, phase>>
  PROVE  HooksInv'
<1>1. unpatched' = FALSE /\ settling' = 1 /\ Push(<< >>)
  BY DEF GiveUp
<1>2. todo' \in Seq(Steps) /\ TodoShape' /\ Progress' /\ WorkFits' /\ phase' # "finalized"
  BY <1>1, Popped DEF backend, family
<1>3. unpatched' \in BOOLEAN
  BY <1>1
<1>4. ControlTyped'
  BY <1>1, <1>2, <1>3 DEF HooksInv, FamilyInv, TypeOK, ControlTyped
<1>5. WaitsHold'
  BY <1>1 DEF WaitsHold
<1> QED BY <1>2, <1>4, <1>5, ControlOnly

LEMMA WaitsGivenUp ==
  ASSUME HooksInv, NEW g \in Groups, SettleExpires(g) \/ EvacuationFails(g)
  PROVE  HooksInv'
<1>1. Doing("finish", g) /\ GiveUp /\ missed' \in BOOLEAN /\ UNCHANGED <<backend, family, frames, phase>>
  BY DEF SettleExpires, EvacuationFails
<1> QED BY <1>1, GaveUp

LEMMA AwaitRecordersKeeps ==
  ASSUME HooksInv, NEW g \in Groups, AwaitRecorders(g)
  PROVE  HooksInv'
<1>1. /\ Doing("recorders", g) /\ missed' \in BOOLEAN
      /\ UNCHANGED <<backend, family, frames, phase, unpatched>>
      /\ \/ settling' = 1 /\ Push(<< >>)
         \/ settling' = settling + 1 /\ todo' = todo
  BY DEF AwaitRecorders, HooksInv, FamilyInv, TypeOK, ControlTyped
<1>2. CASE settling' = 1 /\ Push(<< >>)
  <2>1. todo' \in Seq(Steps) /\ TodoShape' /\ Progress' /\ WorkFits' /\ phase' # "finalized"
    BY <1>1, <1>2, Popped DEF backend, family
  <2>2. ControlTyped' /\ WaitsHold'
    BY <1>1, <1>2, <2>1 DEF HooksInv, FamilyInv, TypeOK, ControlTyped, WaitsHold
  <2> QED BY <1>1, <2>1, <2>2, ControlOnly
<1>3. CASE settling' = settling + 1 /\ todo' = todo
  <2>1. TodoShape' /\ WorkFits' /\ Progress'
    BY <1>1, <1>3, WorkSame DEF backend, family
  <2>2. ControlTyped' /\ WaitsHold' /\ phase' # "finalized"
    BY <1>1, <1>3 DEF HooksInv, FamilyInv, TypeOK, ControlTyped, WaitsHold, Doing, TodoShape
  <2> QED BY <1>1, <2>1, <2>2, ControlOnly
<1> QED BY <1>1, <1>2, <1>3

LEMMA StopRecordingKeeps ==
  ASSUME HooksInv, NEW g \in Groups, StopRecording(g)
  PROVE  HooksInv'
<1> DEFINE p == Each("original", g) \o << <<"recorders", g>> >>
<1>1. /\ Doing("stop", g) /\ state[g] = "installed" /\ Push(p)
      /\ UNCHANGED <<backend, family, frames, settling, phase, unpatched, missed>>
  BY DEF StopRecording
<1>2. phase # "starting" /\ WaitsHold'
  BY <1>1, AtHead, NotWaiting DEF Starting
<1>3. /\ p \in Seq(Steps) /\ Shaped(p, phase, entries'[Agent])
      /\ \A i \in 1 .. Len(p) : p[i][1] \notin {"begin", "shutdown"}
      /\ \A s : Has(p, s) <=> \/ s = <<"recorders", g>>
                              \/ \E c \in Funcs : GroupOf(c) = g /\ s = <<"original", c>>
  BY <1>2, StopSteps
<1> HIDE DEF p
<1>4. /\ \A c \in Funcs : /\ Has(p, <<"original", c>>) => route[c] # "target"
                          /\ ~Has(p, <<"patch", c>>) /\ ~Has(p, <<"activate", c>>)
                          /\ ~Has(p, <<"target", c>>)
      /\ \A h \in Groups : ~Has(p, <<"finish", h>>)
  BY <1>1, <1>3 DEF HooksInv, FamilyStages
<1>5. todo' \in Seq(Steps) /\ TodoShape' /\ Progress' /\ WorkFits' /\ phase' # "finalized"
  <2>1. /\ "stop" \notin Inner \cup {"install", "finish"} /\ phase' = phase
        /\ UNCHANGED <<state, alive, published, route, unpatched>>
    BY <1>1 DEF family, Inner
  <2> QED BY <1>1, <1>3, <1>4, <2>1, Called
<1>6. ControlTyped'
  BY <1>1, <1>5 DEF HooksInv, FamilyInv, TypeOK, ControlTyped
<1> QED BY <1>1, <1>2, <1>5, <1>6, ControlOnly

LEMMA FlushGroupKeeps ==
  ASSUME HooksInv, NEW g \in Groups, FlushGroup(g)
  PROVE  HooksInv'
<1> DEFINE p == IF state[g] = "pending" THEN << <<"finish", g>> >> ELSE << >>
<1>1. /\ Doing("flush", g) /\ Push(p)
      /\ UNCHANGED <<backend, family, frames, settling, phase, unpatched, missed>>
  BY DEF FlushGroup
<1>2. phase # "starting" /\ WaitsHold'
  BY <1>1, AtHead, NotWaiting DEF Starting
<1>3. /\ p \in Seq(Steps) /\ Shaped(p, phase, entries'[Agent])
      /\ \A i \in 1 .. Len(p) : p[i][1] \notin {"begin", "shutdown"}
      /\ \A s : Has(p, s) => s = <<"finish", g>> /\ state[g] = "pending"
  <2>1. CASE state[g] = "pending"
    <3>1. p = << <<"finish", g>> >>
      BY <2>1
    <3> HIDE DEF p
    <3> QED BY <1>2, <2>1, <3>1, FewSteps, HasFew
  <2>2. CASE state[g] # "pending"
    <3>1. p = << >>
      BY <2>2
    <3> HIDE DEF p
    <3> QED BY <1>2, <3>1, FewSteps, HasFew
  <2> QED BY <2>1, <2>2
<1> HIDE DEF p
<1>4. /\ "flush" \notin Inner \cup {"install", "finish"} /\ phase' = phase
      /\ UNCHANGED <<state, alive, published, route, unpatched>>
  BY <1>1 DEF family, Inner
<1>5. /\ \A c \in Funcs : /\ ~Has(p, <<"original", c>>) /\ ~Has(p, <<"patch", c>>)
                          /\ ~Has(p, <<"activate", c>>) /\ ~Has(p, <<"target", c>>)
      /\ \A h \in Groups : Has(p, <<"finish", h>>) => state[h] = "pending"
  BY <1>3
<1>6. todo' \in Seq(Steps) /\ TodoShape' /\ Progress' /\ WorkFits' /\ phase' # "finalized"
  BY <1>1, <1>3, <1>4, <1>5, Called
<1>7. ControlTyped'
  BY <1>1, <1>6 DEF HooksInv, FamilyInv, TypeOK, ControlTyped
<1> QED BY <1>1, <1>2, <1>6, <1>7, ControlOnly

LEMMA DestroyGroupKeeps ==
  ASSUME HooksInv, NEW g \in Groups, DestroyGroup(g)
  PROVE  HooksInv'
<1> DEFINE p == << <<"uninstall", g>>, <<"flush", g>>, <<"abandon", g>> >>
<1>1. /\ Doing("destroy", g) /\ Push(p)
      /\ UNCHANGED <<backend, family, frames, settling, phase, unpatched, missed>>
  BY DEF DestroyGroup
<1>2. phase = "failed" /\ WaitsHold'
  BY <1>1, AtHead, NotWaiting
<1>3. /\ p \in Seq(Steps) /\ Shaped(p, phase, entries'[Agent])
      /\ \A i \in 1 .. Len(p) : p[i][1] \notin {"begin", "shutdown"}
      /\ \A s : Has(p, s) => s \in {<<"uninstall", g>>, <<"flush", g>>, <<"abandon", g>>}
  <2>1. \A s : Has(p, s) => s \in {<<"uninstall", g>>, <<"flush", g>>, <<"abandon", g>>}
    BY HasFew, Zenon
  <2>2. p = << <<"uninstall", g>>, <<"flush", g>>, <<"abandon", g>> >>
    OBVIOUS
  <2> HIDE DEF p
  <2> QED BY <1>2, <2>1, <2>2, FewSteps
<1> HIDE DEF p
<1>4. /\ "destroy" \notin Inner \cup {"install", "finish"} /\ phase' = phase
      /\ UNCHANGED <<state, alive, published, route, unpatched>>
  BY <1>1 DEF family, Inner
<1>5. /\ \A c \in Funcs : /\ ~Has(p, <<"original", c>>) /\ ~Has(p, <<"patch", c>>)
                          /\ ~Has(p, <<"activate", c>>) /\ ~Has(p, <<"target", c>>)
      /\ \A h \in Groups : ~Has(p, <<"finish", h>>)
  BY <1>3
<1>6. todo' \in Seq(Steps) /\ TodoShape' /\ Progress' /\ WorkFits' /\ phase' # "finalized"
  BY <1>1, <1>3, <1>4, <1>5, Called
<1>7. ControlTyped'
  BY <1>1, <1>6 DEF HooksInv, FamilyInv, TypeOK, ControlTyped
<1> QED BY <1>1, <1>2, <1>6, <1>7, ControlOnly

\* uninstall() of a family that is not installed, or of one that waits already.
LEMMA UninstallAgainKeeps ==
  ASSUME HooksInv, NEW g \in Groups, Uninstall(g), state[g] # "installed"
  PROVE  HooksInv'
<1>1. /\ Doing("uninstall", g) /\ UNCHANGED state
      /\ UNCHANGED <<backend, leased, quiescent, flushed, published, alive, queue, route,
                     frames, settling, phase, unpatched, missed>>
      /\ \/ state[g] \in {"inactive", "retired"} /\ Push(<< >>)
         \/ state[g] = "pending" /\ Push(<< <<"finish", g>> >>)
  BY DEF Uninstall, HooksInv, FamilyInv, TypeOK, FamiliesTyped
<1>2. phase # "starting" /\ WaitsHold'
  BY <1>1, AtHead, NotWaiting DEF Starting
<1>3. phase' = phase /\ UNCHANGED <<state, alive, published, route, unpatched>>
  BY <1>1
<1>4. todo' \in Seq(Steps) /\ TodoShape' /\ Progress' /\ WorkFits' /\ phase' # "finalized"
  <2>1. CASE state[g] \in {"inactive", "retired"} /\ Push(<< >>)
    <3>1. phase = "unpatching" => state[g] = "retired"
      BY <2>1 DEF HooksInv, Progress
    <3> QED BY <1>1, <1>3, <2>1, <3>1, Popped DEF backend
  <2>2. CASE state[g] = "pending" /\ Push(<< <<"finish", g>> >>)
    <3> DEFINE p == << <<"finish", g>> >>
    <3>1. /\ p \in Seq(Steps) /\ Shaped(p, phase, entries'[Agent])
          /\ \A i \in 1 .. Len(p) : p[i][1] \notin {"begin", "shutdown"}
          /\ \A s : Has(p, s) <=> s = <<"finish", g>>
      BY <1>2, FewSteps, HasFew
    <3> HIDE DEF p
    <3>2. "uninstall" \notin Inner \cup {"install", "finish"} /\ Push(p)
      BY <2>2 DEF Inner, p
    <3>3. /\ \A c \in Funcs : /\ ~Has(p, <<"original", c>>) /\ ~Has(p, <<"patch", c>>)
                              /\ ~Has(p, <<"activate", c>>) /\ ~Has(p, <<"target", c>>)
          /\ \A h \in Groups : Has(p, <<"finish", h>>) => state[h] = "pending"
          /\ Has(p, <<"finish", g>>)
      BY <2>2, <3>1
    <3> QED BY <1>1, <1>3, <3>1, <3>2, <3>3, Called
  <2> QED BY <1>1, <2>1, <2>2
<1>5. ControlTyped'
  BY <1>1, <1>4 DEF HooksInv, FamilyInv, TypeOK, ControlTyped
<1>6. UNCHANGED <<backend, family, frames>>
  BY <1>1 DEF family
<1> QED BY <1>2, <1>4, <1>5, <1>6, ControlOnly

----------------------------------------------------------------------------
(* The steps that change a family or the backend. *)

\* The leases and what they protect, for FramesStay.
LEMMA CallableStays ==
  ASSUME HooksInv, HB!Next \/ UNCHANGED backend,
         \A g \in Groups : leased'[g] => g \in holders'[Agent]
  PROVE  \A c \in Funcs : leased[GroupOf(c)] /\ leased'[GroupOf(c)] =>
             /\ \A s : HB!Callable(c, s, GroupOf(c)) => HB!Callable(c, s, GroupOf(c))'
             /\ HB!Callable(c, slot[c], GroupOf(c)) => HB!Callable(c, slot[c], GroupOf(c))'
<1> SUFFICES ASSUME NEW c \in Funcs, leased[GroupOf(c)], leased'[GroupOf(c)]
             PROVE  /\ \A s : HB!Callable(c, s, GroupOf(c)) => HB!Callable(c, s, GroupOf(c))'
                    /\ HB!Callable(c, slot[c], GroupOf(c)) => HB!Callable(c, slot[c], GroupOf(c))'
  OBVIOUS
<1>1. GroupOf(c) \in Groups /\ GroupOf(c) \in holders[Agent] /\ GroupOf(c) \in holders'[Agent] /\ HB!BackendInv
  BY Families DEF HooksInv, FamilyInv
<1> QED BY <1>1, BackendKept

\* uninstall() of an installed family: nothing is lost before the waits.
LEMMA UninstallKeeps ==
  ASSUME HooksInv, NEW g \in Groups, Uninstall(g), state[g] = "installed"
  PROVE  HooksInv'
<1> DEFINE p == TeardownSteps(g)
<1>1. /\ Doing("uninstall", g) /\ Push(p) /\ state' = [state EXCEPT ![g] = "pending"]
      /\ UNCHANGED <<backend, leased, quiescent, flushed, published, alive, queue, route,
                     frames, settling, phase, unpatched, missed>>
  BY DEF Uninstall, TeardownSteps
<1>2. phase # "starting" /\ phase # "finalized" /\ WaitsHold'
  BY <1>1, AtHead, NotWaiting DEF Starting
<1>3. /\ p \in Seq(Steps) /\ Shaped(p, phase, entries[Agent])
      /\ \A i \in 1 .. Len(p) : p[i][1] \notin {"begin", "shutdown"}
      /\ \A c \in Funcs : GroupOf(c) = g => Has(p, <<"target", c>>)
      /\ Has(p, <<"finish", g>>)
      /\ \A s : Has(p, s) => \/ s = <<"finish", g>>
                             \/ \E c \in Funcs : GroupOf(c) = g /\ s \in Inner \X {c}
  BY <1>2, TeardownFacts
<1> HIDE DEF p
<1>4. /\ todo' \in Seq(Steps) /\ Shaped(todo', phase, entries[Agent])
      /\ \A s : Has(todo', s) <=> Has(p, s) \/ Has(Tail(todo), s)
      /\ \A s : Has(todo, s) <=> s = <<"uninstall", g>> \/ Has(Tail(todo), s)
      /\ \A c : /\ ~Due("original", c) /\ ~Due("target", c)
                /\ ~Has(Tail(todo), <<"finish", c>>)
  BY <1>1, <1>3, Call DEF Inner
<1>5. \A k, y : Due(k, y)' <=> Has(p, <<k, y>>) \/ Has(Tail(todo), <<k, y>>)
  BY <1>4 DEF Due, Has
<1>6. TodoShape'
  BY <1>1, <1>2, <1>4 DEF TodoShape, backend
<1>7. FamiliesTyped /\ FamiliesTyped'
  BY <1>1 DEF HooksInv, FamilyInv, TypeOK, FamiliesTyped
<1>8. \A h \in Groups : state'[h] = IF h = g THEN "pending" ELSE state[h]
  BY <1>1, <1>7 DEF FamiliesTyped
<1>9. WorkFits'
  <2> SUFFICES ASSUME NEW c \in Funcs
               PROVE  /\ Due("patch", c)' \/ Due("activate", c)' => state'[GroupOf(c)] = "installed"
                      /\ Due("target", c)' => state'[GroupOf(c)] = "pending"
                      /\ Due("original", c)' => route[c] # "target"
                      /\ state'[GroupOf(c)] = "pending" /\ route[c] # "target" => Due("target", c)'
    BY <1>1 DEF WorkFits
  <2>1. GroupOf(c) \in Groups
    BY Families
  <2>2. ~Due("patch", c)' /\ ~Due("activate", c)'
    BY <1>2, <1>4 DEF Shaped, Due, Has, Starting
  <2>3. \A k \in {"target", "original"} : Due(k, c)' => GroupOf(c) = g
    <3>1. ~Has(Tail(todo), <<"target", c>>) /\ ~Has(Tail(todo), <<"original", c>>)
      BY <1>4 DEF Due
    <3>2. ASSUME NEW k \in {"target", "original"}, Has(p, <<k, c>>) PROVE GroupOf(c) = g
      <4>1. PICK d \in Funcs : GroupOf(d) = g /\ <<k, c>> \in Inner \X {d}
        BY <1>3, <3>2
      <4> QED BY <4>1
    <3> QED BY <1>5, <3>1, <3>2
  <2>4. GroupOf(c) = g => route[c] # "target"
    BY DEF HooksInv, FamilyStages
  <2>5. state[GroupOf(c)] # "installed" => route[c] = "target"
    BY <1>1, RoutedToTarget DEF Inner
  <2>6. GroupOf(c) = g => Due("target", c)'
    BY <1>3, <1>5
  <2> QED BY <1>8, <2>1, <2>2, <2>3, <2>4, <2>5, <2>6 DEF HooksInv, WorkFits
<1>10. Progress'
  <2>1. \A h \in Groups : Due("finish", h)' => h = g
    <3>1. ASSUME NEW h \in Groups, Has(p, <<"finish", h>>) PROVE h = g
      <4>1. \A d : <<"finish", h>> \notin Inner \X {d}
        BY DEF Inner
      <4>2. <<"finish", h>> = <<"finish", g>>
        BY <1>3, <3>1, <4>1
      <4> QED BY <4>2
    <3> QED BY <1>4, <1>5, <3>1
  <2>2. \A h \in Groups : ~Due("finish", h)
    BY <1>4 DEF Due
  <2>3. Due("finish", g)'
    BY <1>3, <1>5
  <2>4. \A h \in Groups : h # g /\ Due("uninstall", h) => Due("uninstall", h)'
    BY <1>4, <1>5 DEF Due
  <2> QED BY <1>1, <1>2, <1>8, <2>1, <2>2, <2>3, <2>4 DEF HooksInv, Progress
<1>11. FamilyStages'
  BY <1>1, <1>8, Families DEF HooksInv, FamilyStages, Live, backend
<1>12. ControlTyped'
  BY <1>1, <1>4 DEF HooksInv, FamilyInv, TypeOK, ControlTyped
<1>13. FamilyInv'
  <2>1. HB!BackendInv'
    BY <1>1, BackendKept DEF HooksInv, FamilyInv
  <2> QED BY <1>1, <1>7, <1>12, <2>1 DEF HooksInv, FamilyInv, TypeOK, FramesTyped, Depth, HB!BackendInv, backend
<1>14. FramesBacked'
  <2>1. \A h \in Groups : leased'[h] => h \in holders'[Agent]
    BY <1>13 DEF FamilyInv
  <2>2. \A h \in Groups :
          /\ state[h] # "inactive" => state'[h] # "inactive"
          /\ state'[h] = "installed" => state[h] \in {"inactive", "installed"}
    BY <1>8
  <2>3. UNCHANGED <<backend, leased, published, alive, route, frames, jump>>
    BY <1>1 DEF backend
  <2>4. \A c \in Funcs : leased[GroupOf(c)] /\ leased'[GroupOf(c)] =>
             /\ \A s : HB!Callable(c, s, GroupOf(c)) => HB!Callable(c, s, GroupOf(c))'
             /\ HB!Callable(c, slot[c], GroupOf(c)) => HB!Callable(c, slot[c], GroupOf(c))'
    BY <2>1, <2>3, CallableStays
  <2> QED BY <2>2, <2>3, <2>4, FramesStay
<1> QED BY <1>1, <1>2, <1>6, <1>9, <1>10, <1>11, <1>13, <1>14, Assembled

LEMMA InstallGroupKeeps ==
  ASSUME HooksInv, NEW g \in Groups, InstallGroup(g)
  PROVE  HooksInv'
<1> DEFINE p == Each("patch", g)
<1>1. /\ Doing("install", g) /\ state[g] = "inactive" /\ HB!Acquire(Agent, g)
      /\ leased' = [leased EXCEPT ![g] = TRUE] /\ published' = [published EXCEPT ![g] = TRUE]
      /\ route' = [c \in Funcs |-> IF GroupOf(c) = g THEN "record" ELSE route[c]]
      /\ state' = [state EXCEPT ![g] = "installed"] /\ Push(p)
      /\ UNCHANGED <<quiescent, flushed, alive, queue, frames, settling, phase, unpatched, missed>>
  BY DEF InstallGroup
<1>2. phase = "starting" /\ WaitsHold'
  BY <1>1, AtHead, NotWaiting DEF Starting
<1>3. /\ p \in Seq(Steps) /\ Len(p) = Len(Channels[g])
      /\ \A i \in 1 .. Len(p) : p[i] = <<"patch", Channels[g][i]>>
      /\ \A s : Has(p, s) <=> \E c \in Funcs : GroupOf(c) = g /\ s = <<"patch", c>>
  BY EachStep
<1> HIDE DEF p
<1>4. /\ HB!BackendInv /\ HB!Next /\ holders'[Agent] = holders[Agent] \cup {g}
      /\ UNCHANGED <<entries, jump>>
  <2>1. HB!Next
    BY <1>1, Zenon DEF HB!Next
  <2> QED BY <1>1, <2>1, BackendEffects DEF HooksInv, FamilyInv
<1>5. /\ todo' \in Seq(Steps) /\ Shaped(todo', phase, entries[Agent])
      /\ \A s : Has(todo', s) <=> Has(p, s) \/ Has(Tail(todo), s)
      /\ \A s : Has(todo, s) <=> s = <<"install", g>> \/ Has(Tail(todo), s)
      /\ \A c : /\ ~Due("original", c) /\ ~Due("target", c)
                /\ ~Has(Tail(todo), <<"finish", c>>)
  <2>1. \A i \in 1 .. Len(p) : p[i][1] = "patch"
    BY <1>3
  <2>2. Shaped(p, phase, entries[Agent])
    BY <1>2, <2>1 DEF Shaped, Starting, Inner
  <2> QED BY <1>1, <1>3, <2>1, <2>2, Call DEF Inner
<1>6. \A k, y : Due(k, y)' <=> Has(p, <<k, y>>) \/ Has(Tail(todo), <<k, y>>)
  BY <1>5 DEF Due, Has
<1>7. TodoShape'
  BY <1>1, <1>2, <1>4, <1>5 DEF TodoShape
<1>8. FamiliesTyped /\ FamiliesTyped'
  BY <1>1 DEF HooksInv, FamilyInv, TypeOK, FamiliesTyped
<1>9. /\ \A h \in Groups : /\ state'[h] = IF h = g THEN "installed" ELSE state[h]
                           /\ leased'[h] <=> h = g \/ leased[h]
                           /\ published'[h] <=> h = g \/ published[h]
      /\ \A c \in Funcs : route'[c] = IF GroupOf(c) = g THEN "record" ELSE route[c]
  BY <1>1, <1>8 DEF FamiliesTyped
<1>10. \A c \in Funcs : state[GroupOf(c)] # "installed" => route[c] = "target"
  BY <1>1, RoutedToTarget DEF Inner
<1>11. WorkFits'
  <2> SUFFICES ASSUME NEW c \in Funcs
               PROVE  /\ Due("patch", c)' \/ Due("activate", c)' => state'[GroupOf(c)] = "installed"
                      /\ Due("target", c)' => state'[GroupOf(c)] = "pending"
                      /\ Due("original", c)' => route'[c] # "target"
                      /\ state'[GroupOf(c)] = "pending" /\ route'[c] # "target" => Due("target", c)'
    BY DEF WorkFits
  <2>1. GroupOf(c) \in Groups
    BY Families
  <2>2. /\ ~Has(Tail(todo), <<"target", c>>) /\ ~Has(Tail(todo), <<"original", c>>)
        /\ ~Has(p, <<"target", c>>) /\ ~Has(p, <<"original", c>>) /\ ~Has(p, <<"activate", c>>)
        /\ (Has(p, <<"patch", c>>) => GroupOf(c) = g)
    BY <1>3, <1>5 DEF Due
  <2>3. /\ Has(Tail(todo), <<"patch", c>>) => Due("patch", c)
        /\ Has(Tail(todo), <<"activate", c>>) => Due("activate", c)
    BY <1>5 DEF Due
  <2> QED BY <1>6, <1>9, <1>10, <2>1, <2>2, <2>3 DEF HooksInv, WorkFits
<1>12. Progress'
  <2>1. \A h \in Groups : ~Due("finish", h)'
    BY <1>3, <1>5, <1>6
  <2>2. \A h \in Groups : h # g /\ Due("install", h) => Due("install", h)'
    BY <1>5, <1>6 DEF Due
  <2> QED BY <1>1, <1>2, <1>9, <2>1, <2>2 DEF HooksInv, Progress
<1>13. FamilyStages'
  <2>1. alive[g] /\ ~quiescent[g]
    BY <1>1, <1>2, <1>8 DEF HooksInv, Progress, FamilyStages, FamiliesTyped
  <2>2. \A h \in Groups : Live(h)' <=> h = g \/ Live(h)
    BY <1>1, <1>9, <2>1 DEF Live
  <2> QED BY <1>1, <1>4, <1>9, <1>10, <2>1, <2>2, Families DEF HooksInv, FamilyStages
<1>14. ControlTyped'
  BY <1>1, <1>5 DEF HooksInv, FamilyInv, TypeOK, ControlTyped
<1>15. FamilyInv'
  <2>1. HB!BackendInv'
    BY <1>4, BackendKept
  <2> QED BY <1>1, <1>4, <1>8, <1>9, <1>14, <2>1
          DEF HooksInv, FamilyInv, TypeOK, FramesTyped, Depth, HB!BackendInv
<1>16. FramesBacked'
  <2>1. \A h \in Groups : leased'[h] => h \in holders'[Agent]
    BY <1>15 DEF FamilyInv
  <2>2. \A c \in Funcs : leased[GroupOf(c)] /\ leased'[GroupOf(c)] =>
             /\ \A s : HB!Callable(c, s, GroupOf(c)) => HB!Callable(c, s, GroupOf(c))'
             /\ HB!Callable(c, slot[c], GroupOf(c)) => HB!Callable(c, slot[c], GroupOf(c))'
    BY <1>4, <2>1, CallableStays
  <2>3. \A h \in Groups :
          /\ state[h] # "inactive" => state'[h] # "inactive"
          /\ state'[h] = "installed" => state[h] \in {"inactive", "installed"}
          /\ leased[h] => leased'[h] /\ (published[h] => published'[h]) /\ (alive[h] => alive'[h])
    BY <1>1, <1>9
  <2>4. \A c \in Funcs : /\ c \in jump' => c \in jump
                         /\ route'[c] # "target" => route[c] # "target" \/ state[GroupOf(c)] = "inactive"
    BY <1>1, <1>4, <1>9
  <2>5. frames' = frames
    BY <1>1
  <2> QED BY <2>2, <2>3, <2>4, <2>5, FramesStay
<1> QED BY <1>1, <1>2, <1>7, <1>11, <1>12, <1>13, <1>15, <1>16, Assembled

\* A target is patched while its family is installed.
LEMMA PatchKeeps ==
  ASSUME HooksInv, NEW c \in Funcs \cup {Exit}, Patch(c)
  PROVE  HooksInv'
<1> DEFINE p == << <<"activate", c>> >>
<1>1. /\ Doing("patch", c) /\ HB!Prepare(Agent, c) /\ Push(p)
      /\ UNCHANGED <<family, frames, settling, phase, unpatched, missed>>
  BY DEF Patch
<1>2. phase = "starting" /\ WaitsHold' /\ Due("patch", c)
  BY <1>1, AtHead, NotWaiting DEF Starting
<1>3. /\ HB!BackendInv /\ HB!Next /\ entries'[Agent] = entries[Agent] \cup {c}
      /\ UNCHANGED <<jump, holders>>
  <2>1. HB!Next
    BY <1>1, Zenon DEF HB!Next
  <2> QED BY <1>1, <2>1, BackendEffects DEF HooksInv, FamilyInv
<1>4. c \in Funcs => state[GroupOf(c)] = "installed" /\ route[c] # "target"
  BY <1>2 DEF HooksInv, WorkFits, FamilyStages
<1>5. /\ p \in Seq(Steps) /\ Shaped(p, phase, entries'[Agent])
      /\ \A i \in 1 .. Len(p) : p[i][1] \notin {"begin", "shutdown"}
      /\ \A s : Has(p, s) <=> s = <<"activate", c>>
  <2>1. <<"activate", c>> \in Steps
    BY DEF Steps
  <2>2. \A s : Has(p, s) <=> s = <<"activate", c>>
    BY HasFew, Zenon
  <2>3. Shaped(p, phase, entries'[Agent]) /\ \A i \in 1 .. Len(p) : p[i][1] \notin {"begin", "shutdown"}
    BY <1>2 DEF Shaped, Starting, Inner
  <2> QED BY <2>1, <2>2, <2>3
<1> HIDE DEF p
<1>6. /\ "patch" \notin Inner \cup {"install", "finish"} /\ phase' = phase
      /\ UNCHANGED <<state, alive, published, route, unpatched>>
  BY <1>1 DEF family, Inner
<1>7. /\ \A d \in Funcs : /\ ~Has(p, <<"original", d>>) /\ ~Has(p, <<"target", d>>)
                          /\ ~Has(p, <<"patch", d>>)
                          /\ Has(p, <<"activate", d>>) => state[GroupOf(d)] = "installed"
      /\ \A h \in Groups : ~Has(p, <<"finish", h>>)
  BY <1>4, <1>5
<1>8. todo' \in Seq(Steps) /\ TodoShape' /\ Progress' /\ WorkFits' /\ phase' # "finalized"
  BY <1>1, <1>5, <1>6, <1>7, Called
<1>9. ControlTyped'
  BY <1>1, <1>8 DEF HooksInv, FamilyInv, TypeOK, ControlTyped
<1>10. FamilyInv' /\ FamilyStages' /\ FramesBacked'
  <2>1. UNCHANGED <<state, leased, quiescent, published, alive, queue, route, frames, holders>>
        /\ flushed' \in [Groups -> BOOLEAN]
    BY <1>1, <1>3 DEF family, HooksInv, FamilyInv, TypeOK, FamiliesTyped
  <2> QED BY <1>3, <1>4, <1>9, <2>1, BackendMoves
<1> QED BY <1>2, <1>8, <1>9, <1>10, Assembled

\* The steps that end with the head, change no family and take nothing into the entries:
\* the jump of an installed family is written, a trampoline is abandoned, a jump is reverted.
LEMMA BackendStepKeeps ==
  ASSUME HooksInv, NEW step, NEW x, Doing(step, x), Push(<< >>),
         step \notin {"install", "target", "uninstall", "finish", "recorders"},
         HB!Next \/ UNCHANGED backend,
         UNCHANGED <<family, frames, settling, phase, unpatched, missed, holders>>,
         entries'[Agent] \subseteq entries[Agent], step = "revert" => x \notin entries'[Agent],
         \A c \in Funcs : c \in jump' => c \in jump \/ state[GroupOf(c)] = "installed"
  PROVE  HooksInv'
<1>1. /\ phase' = phase /\ unpatched' = unpatched /\ flushed' \in [Groups -> BOOLEAN]
      /\ UNCHANGED <<state, leased, quiescent, published, alive, queue, route, frames, holders>>
  BY DEF family, HooksInv, FamilyInv, TypeOK, FamiliesTyped
<1>2. todo' \in Seq(Steps) /\ TodoShape' /\ Progress' /\ WorkFits' /\ phase' # "finalized"
  BY <1>1, Popped
<1>3. ControlTyped'
  BY <1>1, <1>2 DEF HooksInv, FamilyInv, TypeOK, ControlTyped
<1>4. FamilyInv' /\ FamilyStages' /\ FramesBacked'
  BY <1>1, <1>3, BackendMoves
<1>5. WaitsHold'
  BY NotWaiting
<1> QED BY <1>2, <1>4, <1>5, Assembled

LEMMA ActivateKeeps ==
  ASSUME HooksInv, NEW c \in Funcs \cup {Exit}, Activate(c)
  PROVE  HooksInv'
<1>1. /\ Doing("activate", c) /\ HB!Activate(Agent, c) /\ Push(<< >>)
      /\ UNCHANGED <<family, frames, settling, phase, unpatched, missed>>
  BY DEF Activate
<1>2. HB!Next
  BY <1>1, Zenon DEF HB!Next
<1>3. jump' = jump \cup {c} /\ UNCHANGED <<entries, holders>>
  BY <1>1, BackendEffects DEF HooksInv, FamilyInv
<1>4. c \in Funcs => state[GroupOf(c)] = "installed"
  BY <1>1, AtHead DEF HooksInv, WorkFits
<1> QED BY <1>1, <1>2, <1>3, <1>4, BackendStepKeeps

LEMMA RevertKeeps ==
  ASSUME HooksInv, NEW c \in Funcs, Revert(c)
  PROVE  HooksInv'
<1>1. /\ Doing("revert", c) /\ Push(<< >>)
      /\ UNCHANGED <<family, frames, settling, phase, unpatched, missed>>
      /\ \/ c \in entries[Agent] /\ HB!Uninstall(Agent, c)
         \/ c \notin entries[Agent] /\ UNCHANGED backend
  BY DEF Revert
<1>2. HB!Next \/ UNCHANGED backend
  BY <1>1, Zenon DEF HB!Next
<1>3. /\ entries'[Agent] \subseteq entries[Agent] /\ c \notin entries'[Agent]
      /\ jump' \subseteq jump /\ UNCHANGED holders
  BY <1>1, BackendEffects DEF HooksInv, FamilyInv, backend
<1> QED BY <1>1, <1>2, <1>3, BackendStepKeeps

LEMMA DestroyBackendKeeps ==
  ASSUME HooksInv, DestroyBackend
  PROVE  HooksInv'
<1>1. /\ Doing("destroy", Agent) /\ HB!Destroy(Agent) /\ Push(<< >>)
      /\ UNCHANGED <<family, frames, settling, phase, unpatched, missed>>
  BY DEF DestroyBackend
<1>2. HB!Next
  BY <1>1, Zenon DEF HB!Next
<1>3. entries'[Agent] = {} /\ jump' = {} /\ UNCHANGED holders
  BY <1>1, BackendEffects DEF HooksInv, FamilyInv
<1> QED BY <1>1, <1>2, <1>3, BackendStepKeeps

\* The exit hook is refused.
LEMMA ExitRefusedKeeps ==
  ASSUME HooksInv, PatchFails(Exit)
  PROVE  HooksInv'
<1>1. /\ Doing("patch", Exit) /\ Push(<< >>)
      /\ UNCHANGED <<family, frames, settling, phase, unpatched, missed>>
      /\ HB!Abandon(Agent, Exit) \/ UNCHANGED backend
  BY DEF PatchFails
<1>2. HB!Next \/ UNCHANGED backend
  BY <1>1, Zenon DEF HB!Next
<1>3. UNCHANGED <<entries, jump, holders>>
  BY <1>1, BackendEffects DEF HooksInv, FamilyInv, backend
<1> QED BY <1>1, <1>2, <1>3, BackendStepKeeps

\* route_to_original and route_to_target of one channel.
LEMMA RouteToKeeps ==
  ASSUME HooksInv, NEW c \in Funcs,
         RouteTo("original", c, "original") \/ RouteTo("target", c, "target")
  PROVE  HooksInv'
<1>1. PICK step \in {"original", "target"} :
          /\ Doing(step, c) /\ route' = [route EXCEPT ![c] = step] /\ Push(<< >>)
          /\ UNCHANGED <<backend, state, leased, quiescent, flushed, published, alive, queue,
                         frames, settling, phase, unpatched, missed>>
  BY DEF RouteTo
<1>2. \A d \in Funcs : route'[d] = IF d = c THEN step ELSE route[d]
  BY <1>1 DEF HooksInv, FamilyInv, TypeOK, FamiliesTyped
<1>3. WaitsHold' /\ Due(step, c)
  BY <1>1, AtHead, NotWaiting
<1>4. /\ todo' \in Seq(Steps) /\ TodoShape' /\ Progress' /\ phase' # "finalized"
  BY <1>1, Popped DEF backend
<1>5. \A k, y : Due(k, y) <=> (k = step /\ y = c) \/ Due(k, y)'
  <2>1. \A s : Has(todo, s) <=> s = <<step, c>> \/ Has(todo', s)
    BY <1>1, Pop
  <2>2. \A k, y : Due(k, y)' <=> Has(todo', <<k, y>>)
    BY DEF Due, Has
  <2> QED BY <2>1, <2>2 DEF Due
<1>6. /\ step = "original" => route[c] # "target"
      /\ step = "target" => state[GroupOf(c)] = "pending" /\ c \notin entries[Agent]
                            /\ \A d : ~Due("original", d)
  BY <1>1, <1>3, AtHead DEF HooksInv, WorkFits
<1>7. WorkFits'
  BY <1>1, <1>2, <1>5, <1>6 DEF HooksInv, WorkFits
<1>8. FamilyStages'
  BY <1>1, <1>2, <1>6 DEF HooksInv, FamilyStages, Live, backend
<1>9. ControlTyped' /\ FamiliesTyped'
  BY <1>1, <1>4 DEF HooksInv, FamilyInv, TypeOK, ControlTyped, FamiliesTyped
<1>10. FamilyInv'
  <2>1. HB!BackendInv'
    BY <1>1, BackendKept DEF HooksInv, FamilyInv
  <2> QED BY <1>1, <1>9, <2>1 DEF HooksInv, FamilyInv, TypeOK, FramesTyped, Depth, HB!BackendInv, backend
<1>11. FramesBacked'
  <2>1. \A g \in Groups : leased'[g] => g \in holders'[Agent]
    BY <1>10 DEF FamilyInv
  <2>2. UNCHANGED <<backend, state, leased, published, alive, frames, jump>>
    BY <1>1 DEF backend
  <2>3. \A d \in Funcs : route'[d] # "target" => route[d] # "target"
    BY <1>2, <1>6
  <2>4. \A d \in Funcs : leased[GroupOf(d)] /\ leased'[GroupOf(d)] =>
             /\ \A s : HB!Callable(d, s, GroupOf(d)) => HB!Callable(d, s, GroupOf(d))'
             /\ HB!Callable(d, slot[d], GroupOf(d)) => HB!Callable(d, slot[d], GroupOf(d))'
    BY <2>1, <2>2, CallableStays
  <2> QED BY <2>2, <2>3, <2>4, FramesStay
<1> QED BY <1>3, <1>4, <1>7, <1>8, <1>10, <1>11, Assembled

\* A thread that depends on a family is counted by one of its channels.
LEMMA DependentIsRouted ==
  ASSUME HooksInv, NEW g \in Groups, Doing("finish", g), ~Unused(g)
  PROVE  \E f \in Routed : \E j \in 1 .. Len(Channels[g]) : f.c = Channels[g][j]
<1>1. state[g] = "pending"
  BY AtHead DEF HooksInv, Progress
<1>2. PICK t \in Threads : \E i \in 1 .. Depth(t) :
          GroupOf(frames[t][i].c) = g /\ Dependent(frames[t][i])
  BY DEF Unused
<1>3. PICK i \in 1 .. Depth(t) : GroupOf(frames[t][i].c) = g /\ Dependent(frames[t][i])
  BY <1>2
<1> DEFINE f == frames[t][i]
<1>4. f.c \in Funcs /\ (f.at # "arrived" /\ f.route # "target" => f \in Routed)
  BY EachFrame
<1>5. route[f.c] = "target"
  BY <1>1, <1>3, <1>4, RoutedToTarget DEF Inner
<1>6. f \in Routed
  BY <1>3, <1>4, <1>5 DEF Dependent
<1> QED BY <1>3, <1>4, <1>6, Families

\* Counted says of the frames what Routed does.
LEMMA NotCounted ==
  ASSUME HooksInv, NEW c, ~Counted(c, {"target", "original", "record"}), NEW f \in Routed
  PROVE  f.c # c
<1>1. PICK t \in Threads : \E i \in 1 .. Depth(t) : f = frames[t][i]
  BY RoutedFrame
<1>2. PICK i \in 1 .. Depth(t) : f = frames[t][i]
  BY <1>1
<1>3. f.at # "arrived" /\ f.route \in {"target", "original", "record"}
  BY RoutedFrame DEF Frames
<1> QED BY <1>2, <1>3 DEF Counted

\* try_finish_teardown: one more channel is quiet, or the last, and the lease is released.
LEMMA SettleKeeps ==
  ASSUME HooksInv, NEW g \in Groups, Settle(g)
  PROVE  HooksInv'
<1>1. /\ Doing("finish", g) /\ ~quiescent[g]
      /\ ~Counted(Channels[g][settling], {"target", "original", "record"})
      /\ UNCHANGED <<state, flushed, published, alive, queue, route, frames, todo, phase,
                     unpatched, missed>>
  BY DEF Settle
<1>2. /\ todo # << >> /\ Head(todo) = <<"finish", g>> /\ Head(todo)[1] # "recorders"
      /\ phase # "finalized" /\ state[g] = "pending"
  BY <1>1, AtHead DEF HooksInv, Progress
<1>3. /\ settling \in Nat \ {0} /\ Len(Channels[g]) \in Nat \ {0} /\ settling <= Len(Channels[g])
      /\ \A f \in Routed : \A j \in 1 .. settling - 1 : f.c # Channels[g][j]
  <2>1. settling \in Nat \ {0} /\ Len(Channels[g]) \in Nat \ {0}
    BY Families DEF HooksInv, FamilyInv, TypeOK, ControlTyped
  <2>2. CASE settling = 1
    BY <2>1, <2>2
  <2>3. CASE settling # 1
    <3>1. Head(todo)[2] = g
      BY <1>2
    <3> QED BY <1>2, <2>1, <2>3, <3>1 DEF HooksInv, WaitsHold
  <2> QED BY <2>2, <2>3, <2>1
<1>4. \A f \in Routed : \A j \in 1 .. settling : f.c # Channels[g][j]
  <2>1. \A f \in Routed : f.c # Channels[g][settling]
    BY <1>1, NotCounted
  <2>2. \A j \in 1 .. settling : j = settling \/ j \in 1 .. settling - 1
    BY <1>3
  <2> QED BY <1>3, <2>1, <2>2
<1>5. CASE settling # Len(Channels[g])
  <2>1. settling' = settling + 1 /\ UNCHANGED <<quiescent, leased, backend>>
    BY <1>5 DEF Settle
  <2>2. TodoShape' /\ WorkFits' /\ Progress'
    BY <1>1, <2>1, WorkSame DEF backend
  <2>3. ControlTyped'
    BY <1>1, <1>3, <2>1 DEF HooksInv, FamilyInv, TypeOK, ControlTyped
  <2>4. WaitsHold'
    <3>1. settling' - 1 = settling /\ settling' <= Len(Channels[g])
      BY <1>3, <1>5, <2>1
    <3>2. Routed' = Routed
      BY <1>1 DEF Routed, Depth
    <3> QED BY <1>1, <1>2, <1>4, <2>1, <3>1, <3>2 DEF WaitsHold
  <2>5. UNCHANGED <<backend, family, frames>>
    BY <1>1, <2>1 DEF family
  <2> QED BY <1>1, <1>2, <2>2, <2>3, <2>4, <2>5, ControlOnly
<1>6. CASE settling = Len(Channels[g])
  <2>1. /\ settling' = 1 /\ quiescent' = [quiescent EXCEPT ![g] = TRUE]
        /\ leased' = [leased EXCEPT ![g] = FALSE] /\ leased[g] /\ HB!Release(Agent, g)
    <3>1. leased[g]
      BY <1>1, <1>2 DEF HooksInv, FamilyStages, Live
    <3> QED BY <1>6, <3>1 DEF Settle
  <2>2. /\ HB!BackendInv /\ HB!Next /\ holders'[Agent] = holders[Agent] \ {g}
        /\ UNCHANGED <<entries, jump>>
    <3>1. HB!Next
      BY <2>1, Zenon DEF HB!Next
    <3> QED BY <2>1, <3>1, BackendEffects DEF HooksInv, FamilyInv
  <2>3. FamiliesTyped /\ FamiliesTyped'
    BY <1>1, <2>1 DEF HooksInv, FamilyInv, TypeOK, FamiliesTyped
  <2>4. \A h \in Groups : /\ leased'[h] <=> h # g /\ leased[h]
                          /\ quiescent'[h] <=> h = g \/ quiescent[h]
    BY <2>1, <2>3 DEF FamiliesTyped
  <2>5. \A c \in Funcs : GroupOf(c) = g => route[c] = "target"
    BY <1>1, <1>2, RoutedToTarget DEF Inner
  <2>6. TodoShape' /\ WorkFits' /\ Progress'
    BY <1>1, <2>2, WorkSame
  <2>7. ControlTyped'
    BY <1>1, <2>1 DEF HooksInv, FamilyInv, TypeOK, ControlTyped
  <2>8. WaitsHold'
    BY <2>1 DEF WaitsHold
  <2>9. FamilyStages'
    <3>1. \A h \in Groups : Live(h)' <=> h # g /\ Live(h)
      BY <1>1, <1>2, <2>4 DEF Live
    <3>2. \A h \in Groups : /\ Live(h)' => leased'[h] /\ published'[h] /\ alive'[h]
                            /\ quiescent'[h] => ~leased'[h] /\ state'[h] \in {"pending", "retired"}
      BY <1>1, <1>2, <2>4, <3>1 DEF HooksInv, FamilyStages
    <3>3. ASSUME NEW c \in Funcs
          PROVE  /\ route'[c] # "target" => Live(GroupOf(c))'
                 /\ state'[GroupOf(c)] = "installed" => route'[c] # "target"
                 /\ c \in entries'[Agent] => route'[c] # "target"
      <4>1. GroupOf(c) \in Groups
        BY Families
      <4> QED BY <1>1, <2>2, <2>5, <3>1, <4>1 DEF HooksInv, FamilyStages
    <3> QED BY <3>2, <3>3 DEF FamilyStages
  <2>10. FamilyInv'
    <3>1. HB!BackendInv'
      BY <2>2, BackendKept
    <3> QED BY <1>1, <2>2, <2>3, <2>4, <2>7, <3>1
            DEF HooksInv, FamilyInv, TypeOK, FramesTyped, Depth, HB!BackendInv
  <2>11. FramesBacked'
    <3>1. Unused(g)
      BY <1>1, <1>4, <1>6, DependentIsRouted
    <3>2. \A h \in Groups : leased'[h] => h \in holders'[Agent]
      BY <2>10 DEF FamilyInv
    <3>3. \A c \in Funcs : leased[GroupOf(c)] /\ leased'[GroupOf(c)] =>
               /\ \A s : HB!Callable(c, s, GroupOf(c)) => HB!Callable(c, s, GroupOf(c))'
               /\ HB!Callable(c, slot[c], GroupOf(c)) => HB!Callable(c, slot[c], GroupOf(c))'
      BY <2>2, <3>2, CallableStays
    <3>4. \A h \in Groups : leased[h] => Unused(h) \/ leased'[h]
      BY <2>4, <3>1
    <3> QED BY <1>1, <2>2, <3>3, <3>4, FramesStay
  <2> QED BY <1>1, <1>2, <2>6, <2>8, <2>9, <2>10, <2>11, Assembled
<1> QED BY <1>5, <1>6

LEMMA FlushBackendKeeps ==
  ASSUME HooksInv, NEW g \in Groups, FlushBackend(g)
  PROVE  HooksInv'
<1>1. /\ Doing("finish", g) /\ quiescent[g]
      /\ UNCHANGED <<state, leased, quiescent, published, alive, queue, route, frames, phase>>
      /\ \/ /\ HB!Flush(Agent) /\ flushed' = [flushed EXCEPT ![g] = TRUE]
            /\ UNCHANGED <<todo, settling, unpatched, missed>>
         \/ GiveUp /\ UNCHANGED <<backend, flushed>> /\ missed' \in BOOLEAN
  BY DEF FlushBackend, HooksInv, FamilyInv, TypeOK, ControlTyped
<1>2. CASE GiveUp /\ UNCHANGED <<backend, flushed>> /\ missed' \in BOOLEAN
  BY <1>1, <1>2, GaveUp DEF family
<1>3. CASE /\ HB!Flush(Agent) /\ flushed' = [flushed EXCEPT ![g] = TRUE]
           /\ UNCHANGED <<todo, settling, unpatched, missed>>
  <2>1. HB!Next /\ UNCHANGED <<entries, jump, holders>>
    <3>1. HB!Next
      BY <1>3, Zenon DEF HB!Next
    <3> QED BY <1>3, <3>1, BackendEffects DEF HooksInv, FamilyInv
  <2>2. flushed' \in [Groups -> BOOLEAN]
    BY <1>3 DEF HooksInv, FamilyInv, TypeOK, FamiliesTyped
  <2>3. ControlTyped'
    BY <1>1, <1>3 DEF HooksInv, FamilyInv, TypeOK, ControlTyped
  <2>4. TodoShape' /\ WorkFits' /\ Progress'
    BY <1>1, <1>3, <2>1, WorkSame
  <2>5. WaitsHold' /\ phase' # "finalized"
    BY <1>1, <1>3, AtHead, NotWaiting
  <2>6. FamilyInv' /\ FamilyStages' /\ FramesBacked'
    BY <1>1, <2>1, <2>2, <2>3, BackendMoves
  <2> QED BY <2>4, <2>5, <2>6, Assembled
<1> QED BY <1>1, <1>2, <1>3

\* finish_teardown clears the slots of a family that nobody depends on any more.
LEMMA FinishTeardownKeeps ==
  ASSUME HooksInv, NEW g \in Groups, FinishTeardown(g)
  PROVE  HooksInv'
<1>1. /\ Doing("finish", g) /\ quiescent[g] /\ Push(<< >>)
      /\ slot' = [x \in Funcs \cup {Exit} |-> IF x # Exit /\ GroupOf(x) = g THEN None ELSE slot[x]]
      /\ state' = [state EXCEPT ![g] = "retired"]
      /\ published' = [published EXCEPT ![g] = FALSE]
      /\ UNCHANGED <<interceptor, stopping, leases, pending, entries, installing, jump,
                     original, contents, free, retained, holders, guard, leased, quiescent,
                     flushed, alive, queue, route, frames, settling, phase, unpatched, missed>>
  BY DEF FinishTeardown
<1>2. /\ phase # "starting" /\ phase # "finalized" /\ WaitsHold'
  BY <1>1, AtHead, NotWaiting DEF Starting
<1>3. state[g] = "pending" /\ ~leased[g]
  BY <1>1, AtHead DEF HooksInv, Progress, FamilyStages
<1>4. /\ todo' \in Seq(Steps) /\ Shaped(todo', phase, entries[Agent])
      /\ \A s : Has(todo, s) <=> s = <<"finish", g>> \/ Has(todo', s)
      /\ \A c : ~Due("original", c) /\ ~Due("target", c) /\ ~Has(todo', <<"finish", c>>)
  BY <1>1, Pop DEF Inner
<1>5. \A k, y : /\ Due(k, y)' => Due(k, y)
                /\ Due(k, y) => Due(k, y)' \/ (k = "finish" /\ y = g)
  <2>1. \A k, y : Due(k, y)' <=> Has(todo', <<k, y>>)
    BY DEF Due, Has
  <2> QED BY <1>4, <2>1 DEF Due
<1>6. TodoShape'
  BY <1>1, <1>2, <1>4 DEF TodoShape
<1>7. FamiliesTyped /\ FamiliesTyped'
  BY <1>1 DEF HooksInv, FamilyInv, TypeOK, FamiliesTyped
<1>8. \A h \in Groups : /\ state'[h] = IF h = g THEN "retired" ELSE state[h]
                        /\ published'[h] <=> h # g /\ published[h]
  BY <1>1, <1>7 DEF FamiliesTyped
<1>9. \A c \in Funcs : GroupOf(c) = g => route[c] = "target" /\ c \notin entries[Agent]
  BY <1>1, <1>3, RoutedToTarget DEF Inner
<1>10. WorkFits'
  <2> SUFFICES ASSUME NEW c \in Funcs
               PROVE  /\ Due("patch", c)' \/ Due("activate", c)' => state'[GroupOf(c)] = "installed"
                      /\ Due("target", c)' => state'[GroupOf(c)] = "pending"
                      /\ Due("original", c)' => route[c] # "target"
                      /\ state'[GroupOf(c)] = "pending" /\ route[c] # "target" => Due("target", c)'
    BY <1>1 DEF WorkFits
  <2>1. GroupOf(c) \in Groups
    BY Families
  <2>2. ~Due("patch", c)' /\ ~Due("activate", c)'
    BY <1>2, <1>4 DEF Shaped, Due, Has, Starting
  <2> QED BY <1>4, <1>5, <1>8, <2>1, <2>2 DEF HooksInv, WorkFits
<1>11. Progress'
  <2>1. \A h : ~Due("finish", h)'
    BY <1>4 DEF Due, Has
  <2>2. \A h \in Groups : h # g /\ (Due("uninstall", h) \/ Due("finish", h)) => Due("uninstall", h)'
    BY <1>5, <2>1
  <2> QED BY <1>1, <1>2, <1>8, <2>1, <2>2 DEF HooksInv, Progress
<1>12. FamilyStages'
  <2>1. \A h \in Groups : Live(h)' <=> h # g /\ Live(h)
    BY <1>1, <1>3, <1>8 DEF Live
  <2>2. \A h \in Groups : /\ Live(h)' => leased'[h] /\ published'[h] /\ alive'[h]
                          /\ quiescent'[h] => ~leased'[h] /\ state'[h] \in {"pending", "retired"}
    BY <1>1, <1>8, <2>1 DEF HooksInv, FamilyStages
  <2>3. ASSUME NEW c \in Funcs
        PROVE  /\ route'[c] # "target" => Live(GroupOf(c))'
               /\ state'[GroupOf(c)] = "installed" => route'[c] # "target"
               /\ c \in entries'[Agent] => route'[c] # "target"
    <3>1. GroupOf(c) \in Groups
      BY Families
    <3> QED BY <1>1, <1>8, <1>9, <2>1, <3>1 DEF HooksInv, FamilyStages
  <2> QED BY <2>2, <2>3 DEF FamilyStages
<1>13. ControlTyped'
  BY <1>1, <1>4 DEF HooksInv, FamilyInv, TypeOK, ControlTyped
<1>14. HB!BackendInv'
  <2>1. HB!TypeOK'
    BY <1>1 DEF HooksInv, FamilyInv, HB!BackendInv, HB!TypeOK
  <2>2. HB!LeasesCounted' /\ HB!GuardedIsPending'
    BY <1>1 DEF HooksInv, FamilyInv, HB!BackendInv, HB!LeasesCounted, HB!GuardedIsPending
  <2>3. \A x \in Funcs \cup {Exit} : x \in entries[Agent] => slot'[x] = slot[x]
    BY <1>1, <1>9, HooksAssumption
  <2>4. HB!ContextsMatchEntries'
    BY <1>1, <2>3 DEF HooksInv, FamilyInv, HB!BackendInv, HB!ContextsMatchEntries
  <2> QED BY <2>1, <2>2, <2>4 DEF HB!BackendInv
<1>15. FamilyInv'
  BY <1>1, <1>7, <1>13, <1>14 DEF HooksInv, FamilyInv, TypeOK, FramesTyped, Depth, HB!BackendInv
<1>16. FramesBacked'
  <2>1. \A c \in Funcs : leased[GroupOf(c)] => slot'[c] = slot[c]
    BY <1>1, <1>3
  <2>2. \A c \in Funcs : leased[GroupOf(c)] /\ leased'[GroupOf(c)] =>
             /\ \A s : HB!Callable(c, s, GroupOf(c)) => HB!Callable(c, s, GroupOf(c))'
             /\ HB!Callable(c, slot[c], GroupOf(c)) => HB!Callable(c, slot[c], GroupOf(c))'
    BY <1>1, <2>1 DEF HB!Callable
  <2>3. \A h \in Groups : leased[h] => leased'[h] /\ (published[h] => published'[h])
    BY <1>1, <1>3, <1>8
  <2>4. \A h \in Groups : /\ state[h] # "inactive" => state'[h] # "inactive"
                          /\ state'[h] = "installed" => state[h] = "installed"
    BY <1>8
  <2> QED BY <1>1, <2>2, <2>3, <2>4, FramesStay
<1> QED BY <1>1, <1>2, <1>6, <1>10, <1>11, <1>12, <1>15, <1>16, Assembled

\* ~GlibcHeapHooks and ~VirtualMemoryHooks keep what a lease protects.
LEMMA AbandonGroupKeeps ==
  ASSUME HooksInv, NEW g \in Groups, AbandonGroup(g)
  PROVE  HooksInv'
<1>1. /\ Doing("abandon", g) /\ Push(<< >>)
      /\ route' = [c \in Funcs |->
                      IF GroupOf(c) = g /\ state[g] = "pending" THEN "target" ELSE route[c]]
      /\ published' = [published EXCEPT ![g] = @ /\ leased[g]]
      /\ alive' = [alive EXCEPT ![g] = leased[g]]
      /\ queue' = IF g = QueueOwner THEN leased[g] ELSE queue
      /\ state' = [state EXCEPT ![g] = IF @ = "pending" THEN "retired" ELSE @]
      /\ UNCHANGED <<backend, leased, quiescent, flushed, frames, settling, phase, unpatched, missed>>
  BY DEF AbandonGroup
<1>2. phase = "failed" /\ WaitsHold'
  BY <1>1, AtHead, NotWaiting
<1>3. /\ todo' \in Seq(Steps) /\ Shaped(todo', phase, entries[Agent])
      /\ \A s : Has(todo, s) <=> s = <<"abandon", g>> \/ Has(todo', s)
      /\ \A c : ~Due("original", c) /\ ~Due("target", c) /\ ~Has(todo', <<"finish", c>>)
  BY <1>1, Pop DEF Inner
<1>4. /\ \A k, y : Due(k, y)' => Due(k, y)
      /\ \A h : ~Due("finish", h)'
  <2>1. \A k, y : Due(k, y)' <=> Has(todo', <<k, y>>)
    BY DEF Due, Has
  <2> QED BY <1>3, <2>1 DEF Due
<1>5. TodoShape'
  BY <1>1, <1>2, <1>3 DEF TodoShape, backend
<1>6. \A c \in Funcs : state[GroupOf(c)] # "installed" => route[c] = "target" /\ c \notin entries[Agent]
  BY <1>1, RoutedToTarget DEF Inner
<1>7. FamiliesTyped /\ FamiliesTyped'
  <2>1. FamiliesTyped
    BY DEF HooksInv, FamilyInv, TypeOK
  <2>2. state' \in [Groups -> {"inactive", "installed", "pending", "retired"}]
        /\ route' \in [Funcs -> {"target", "original", "record"}]
    BY <1>1, <2>1 DEF FamiliesTyped
  <2>3. leased[g] \in BOOLEAN /\ (published[g] /\ leased[g]) \in BOOLEAN
    BY <2>1 DEF FamiliesTyped
  <2>4. /\ published' \in [Groups -> BOOLEAN] /\ alive' \in [Groups -> BOOLEAN]
        /\ queue' \in BOOLEAN
    BY <1>1, <2>1, <2>3 DEF FamiliesTyped
  <2> QED BY <1>1, <2>1, <2>2, <2>4 DEF FamiliesTyped
<1>8. /\ \A h \in Groups : /\ state'[h] = IF h = g /\ state[g] = "pending" THEN "retired" ELSE state[h]
                           /\ leased[h] => (published'[h] <=> published[h]) /\ (alive[h] => alive'[h])
      /\ \A c \in Funcs : route'[c] = route[c]
  BY <1>1, <1>6, <1>7 DEF FamiliesTyped
<1>9. WorkFits'
  <2> SUFFICES ASSUME NEW c \in Funcs
               PROVE  /\ Due("patch", c)' \/ Due("activate", c)' => state'[GroupOf(c)] = "installed"
                      /\ Due("target", c)' => state'[GroupOf(c)] = "pending"
                      /\ Due("original", c)' => route'[c] # "target"
                      /\ state'[GroupOf(c)] = "pending" /\ route'[c] # "target" => Due("target", c)'
    BY DEF WorkFits
  <2>1. GroupOf(c) \in Groups
    BY Families
  <2> QED BY <1>3, <1>4, <1>6, <1>8, <2>1 DEF HooksInv, WorkFits
<1>10. Progress'
  BY <1>1, <1>2, <1>4 DEF Progress
<1>11. FamilyStages'
  <2>1. \A h \in Groups : Live(h)' => Live(h)
    BY <1>1, <1>8 DEF Live
  <2>2. \A h \in Groups : /\ Live(h)' => leased'[h] /\ published'[h] /\ alive'[h]
                          /\ quiescent'[h] => ~leased'[h] /\ state'[h] \in {"pending", "retired"}
    BY <1>1, <1>8, <2>1 DEF HooksInv, FamilyStages
  <2>3. ASSUME NEW c \in Funcs
        PROVE  /\ route'[c] # "target" => Live(GroupOf(c))'
               /\ state'[GroupOf(c)] = "installed" => route'[c] # "target"
               /\ c \in entries'[Agent] => route'[c] # "target"
    <3>1. GroupOf(c) \in Groups
      BY Families
    <3>2. route[c] # "target" => state[GroupOf(c)] = "installed" /\ state'[GroupOf(c)] = "installed"
      BY <1>6, <1>8, <3>1
    <3> QED BY <1>1, <1>8, <3>1, <3>2 DEF HooksInv, FamilyStages, Live, backend
  <2> QED BY <2>2, <2>3 DEF FamilyStages
<1>12. ControlTyped'
  BY <1>1, <1>3 DEF HooksInv, FamilyInv, TypeOK, ControlTyped
<1>13. FamilyInv'
  <2>1. HB!BackendInv'
    BY <1>1, BackendKept DEF HooksInv, FamilyInv
  <2> QED BY <1>1, <1>7, <1>12, <2>1 DEF HooksInv, FamilyInv, TypeOK, FramesTyped, Depth, HB!BackendInv, backend
<1>14. FramesBacked'
  <2>1. \A h \in Groups : leased'[h] => h \in holders'[Agent]
    BY <1>13 DEF FamilyInv
  <2>2. UNCHANGED <<backend, leased, frames, jump>>
    BY <1>1 DEF backend
  <2>3. \A c \in Funcs : leased[GroupOf(c)] /\ leased'[GroupOf(c)] =>
             /\ \A s : HB!Callable(c, s, GroupOf(c)) => HB!Callable(c, s, GroupOf(c))'
             /\ HB!Callable(c, slot[c], GroupOf(c)) => HB!Callable(c, slot[c], GroupOf(c))'
    BY <2>1, <2>2, CallableStays
  <2>4. \A h \in Groups : /\ state[h] # "inactive" => state'[h] # "inactive"
                          /\ state'[h] = "installed" => state[h] = "installed"
    BY <1>8
  <2> QED BY <1>8, <2>2, <2>3, <2>4, FramesStay
<1> QED BY <1>1, <1>2, <1>5, <1>9, <1>10, <1>11, <1>13, <1>14, Assembled

\* The last step of a launch capture: finalized means that nothing is left.
LEMMA ShutdownBackendKeeps ==
  ASSUME HooksInv, ShutdownBackend
  PROVE  HooksInv'
<1>1. PICK done \in BOOLEAN :
          /\ Doing("shutdown", Agent) /\ Push(<< >>) /\ HB!Shutdown(Agent, done)
          /\ missed' = (missed \/ (leases[Agent] = 0 /\ ~done)) /\ unpatched' = (unpatched /\ done)
          /\ phase' = IF unpatched /\ done THEN "finalized" ELSE "dormant"
          /\ UNCHANGED <<family, frames, settling>>
  BY DEF ShutdownBackend
<1>2. phase = "unpatching" /\ WaitsHold' /\ todo' = << >> /\ \A h : ~Due("uninstall", h) /\ ~Due("finish", h)
  <2>1. /\ phase = "unpatching" /\ WaitsHold' /\ Tail(todo) = << >>
    BY <1>1, AtHead, NotWaiting
  <2>2. todo' = << >> /\ \A s : Has(todo, s) <=> s = <<"shutdown", Agent>> \/ Has(todo', s)
    BY <1>1, <2>1, Pop
  <2> QED BY <2>1, <2>2, HasFew DEF Due
<1>3. /\ HB!Next /\ entries'[Agent] = {} /\ jump' = {} /\ UNCHANGED holders
      /\ done => leases'[Agent] = 0 /\ ~interceptor'[Agent]
  <2>1. HB!Next
    BY <1>1, Zenon DEF HB!Next
  <2> QED BY <1>1, <2>1, BackendEffects DEF HooksInv, FamilyInv
<1>4. UNCHANGED <<state, leased, quiescent, published, alive, queue, route, frames, holders>>
      /\ flushed' \in [Groups -> BOOLEAN]
  BY <1>1, <1>3 DEF family, HooksInv, FamilyInv, TypeOK, FamiliesTyped
<1>5. ControlTyped'
  <2>1. missed' \in BOOLEAN /\ unpatched' \in BOOLEAN
    BY <1>1
  <2>2. settling' \in Nat \ {0}
    BY <1>1 DEF HooksInv, FamilyInv, TypeOK, ControlTyped
  <2>3. phase' \in {"finalized", "dormant"}
    BY <1>1
  <2> QED BY <1>2, <2>1, <2>2, <2>3 DEF ControlTyped
<1>6. FamilyInv' /\ FamilyStages' /\ FramesBacked'
  BY <1>3, <1>4, <1>5, BackendMoves
<1>7. TodoShape'
  BY <1>2 DEF TodoShape, Shaped
<1>8. \A k, y : ~Due(k, y)'
  BY <1>2 DEF Due, Has
<1>9. WorkFits'
  <2>1. \A c \in Funcs : state[GroupOf(c)] = "pending" => route[c] = "target"
    BY <1>1, RoutedToTarget DEF Inner
  <2> QED BY <1>4, <1>8, <2>1 DEF WorkFits
<1>10. Progress'
  <2>1. phase' \in {"finalized", "dormant"}
    BY <1>1
  <2> QED BY <1>2, <1>4, <1>8, <2>1 DEF HooksInv, Progress
<1>11. FinalizedIsClean'
  <2> SUFFICES ASSUME phase' = "finalized"
               PROVE  /\ jump' = {} /\ leases'[Agent] = 0 /\ ~interceptor'[Agent]
                      /\ \A g \in Groups : state'[g] = "retired" /\ ~published'[g]
    BY DEF FinalizedIsClean
  <2>1. unpatched /\ done
    BY <1>1
  <2>2. \A g \in Groups : state[g] = "retired" /\ ~published[g]
    BY <1>2, <2>1 DEF HooksInv, Progress
  <2> QED BY <1>3, <1>4, <2>1, <2>2
<1> QED BY <1>2, <1>6, <1>7, <1>9, <1>10, <1>11 DEF HooksInv

----------------------------------------------------------------------------
(* The steps that plan what follows. *)

\* A sequence of steps of the kinds K.
Only(q, K) == q \in Seq(Steps) /\ \A i \in 1 .. Len(q) : q[i][1] \in K

LEMMA OnlyFamily ==
  ASSUME NEW g, NEW K,
         NEW k \in {"install", "stop", "recorders", "uninstall", "finish", "flush", "destroy", "abandon"},
         k \in K
  PROVE  /\ Only(OfFamily(k, g), K)
         /\ \A s : Has(OfFamily(k, g), s) <=> g \in Groups /\ s = <<k, g>>
<1>1. CASE g \in Groups
  <2>1. OfFamily(k, g) = << <<k, g>> >> /\ <<k, g>> \in Steps
    BY <1>1 DEF OfFamily, Steps
  <2>2. \A s : Has(<< <<k, g>> >>, s) <=> s = <<k, g>>
    BY HasFew, Zenon
  <2>3. Only(<< <<k, g>> >>, K)
    BY <2>1 DEF Only
  <2> QED BY <1>1, <2>1, <2>2, <2>3
<1>2. CASE g \notin Groups
  <2>1. OfFamily(k, g) = << >>
    BY <1>2 DEF OfFamily
  <2>2. \A s : ~Has(<< >>, s)
    BY HasFew, Zenon
  <2>3. Only(<< >>, K)
    BY DEF Only
  <2> QED BY <1>2, <2>1, <2>2, <2>3
<1> QED BY <1>1, <1>2

LEMMA OnlyConcat ==
  ASSUME NEW p, NEW q, NEW K, Only(p, K), Only(q, K)
  PROVE  /\ Only(p \o q, K)
         /\ \A s : Has(p \o q, s) <=> Has(p, s) \/ Has(q, s)
<1>1. p \in Seq(Steps) /\ q \in Seq(Steps)
  BY DEF Only
<1>2. /\ p \o q \in Seq(Steps) /\ Len(p \o q) = Len(p) + Len(q) /\ Len(p) \in Nat /\ Len(q) \in Nat
      /\ \A i \in 1 .. Len(p) + Len(q) : (p \o q)[i] = IF i <= Len(p) THEN p[i] ELSE q[i - Len(p)]
  BY <1>1, ConcatProperties, LenProperties
<1>3. ASSUME NEW i \in 1 .. Len(p \o q) PROVE (p \o q)[i][1] \in K
  <2>1. CASE i <= Len(p)
    <3>1. i \in 1 .. Len(p) /\ (p \o q)[i] = p[i]
      BY <1>2, <2>1
    <3> QED BY <3>1 DEF Only
  <2>2. CASE ~(i <= Len(p))
    <3>1. i - Len(p) \in 1 .. Len(q) /\ (p \o q)[i] = q[i - Len(p)]
      BY <1>2, <2>2
    <3> QED BY <3>1 DEF Only
  <2> QED BY <2>1, <2>2
<1>4. Only(p \o q, K)
  BY <1>2, <1>3 DEF Only
<1> QED BY <1>1, <1>4, HasConcat

\* A plan that ends with a step of its own.
LEMMA OnlyThen ==
  ASSUME NEW p, NEW K, Only(p, K), NEW s \in Steps
  PROVE  /\ p \o << s >> \in Seq(Steps)
         /\ \A i \in 1 .. Len(p \o << s >>) :
                \/ i = Len(p \o << s >>) /\ (p \o << s >>)[i] = s
                \/ (p \o << s >>)[i][1] \in K
         /\ \A r : Has(p \o << s >>, r) <=> Has(p, r) \/ r = s
<1> DEFINE l == << s >>
           q == p \o l
<1>1. p \in Seq(Steps) /\ l \in Seq(Steps) /\ Len(l) = 1 /\ l[1] = s
  BY DEF Only
<1> HIDE DEF l
<1>2. /\ q \in Seq(Steps) /\ Len(q) = Len(p) + 1 /\ Len(p) \in Nat
      /\ \A i \in 1 .. Len(p) + 1 : q[i] = IF i <= Len(p) THEN p[i] ELSE l[i - Len(p)]
  BY <1>1, ConcatProperties, LenProperties
<1>3. \A r : Has(q, r) <=> Has(p, r) \/ r = s
  <2>1. \A r : Has(l, r) <=> r = s
    BY HasFew, Zenon DEF l
  <2> QED BY <1>1, <2>1, HasConcat
<1> HIDE DEF q
<1>4. ASSUME NEW i \in 1 .. Len(q) PROVE (i = Len(q) /\ q[i] = s) \/ q[i][1] \in K
  <2>1. CASE i <= Len(p)
    <3>1. i \in 1 .. Len(p) /\ q[i] = p[i]
      BY <1>2, <2>1
    <3> QED BY <3>1 DEF Only
  <2>2. CASE ~(i <= Len(p))
    <3>1. i = Len(q) /\ i - Len(p) = 1 /\ q[i] = l[i - Len(p)]
      BY <1>2, <2>2
    <3> QED BY <1>1, <3>1
  <2> QED BY <2>1, <2>2
<1> QED BY <1>2, <1>3, <1>4 DEF q, l

\* What start() leaves to do when it fails.
LEMMA FailedPlan ==
  ASSUME NEW p, Only(p, {"uninstall"}), NEW now
  PROVE  /\ p \o Destructors \in Seq(Steps) /\ Shaped(p \o Destructors, "failed", now)
         /\ \A k, y : Has(p \o Destructors, <<k, y>>) => k \in {"uninstall", "destroy"}
<1> DEFINE K == {"uninstall", "destroy"}
           v == OfFamily("destroy", "vm")
           h == OfFamily("destroy", "heap")
           l == << <<"destroy", Agent>> >>
           q == p \o Destructors
<1>1. Only(v, K) /\ Only(h, K) /\ Only(p, K)
  BY OnlyFamily DEF Only
<1>2. Only(l, K)
  BY DEF Only, Steps
<1>3. Destructors = (v \o h) \o l
  BY DEF Destructors
<1> HIDE DEF v, h, l
<1>4. Only(v \o h, K)
  BY <1>1, OnlyConcat
<1>5. Only(Destructors, K)
  BY <1>2, <1>3, <1>4, OnlyConcat
<1>6. Only(q, K)
  BY <1>1, <1>5, OnlyConcat
<1> HIDE DEF q
<1>7. q \in Seq(Steps) /\ \A i \in 1 .. Len(q) : q[i][1] \in {"uninstall", "destroy"}
  BY <1>6 DEF Only
<1>8. Shaped(q, "failed", now)
  BY <1>7 DEF Shaped, Starting, Inner
<1>9. \A k, y : Has(q, <<k, y>>) => k \in {"uninstall", "destroy"}
  BY <1>7 DEF Has
<1> QED BY <1>7, <1>8, <1>9 DEF q

\* start() fails, with whatever the backend has abandoned.
LEMMA StartFailsKeeps ==
  ASSUME HooksInv, NEW step \in Starting, NEW x, Doing(step, x), NEW p, Only(p, {"uninstall"}),
         StartFails(p), HB!Next \/ UNCHANGED backend,
         UNCHANGED <<entries, jump, holders, family, frames, settling, unpatched, missed>>
  PROVE  HooksInv'
<1>1. todo' = p \o Destructors /\ phase' = "failed"
  BY DEF StartFails
<1>2. /\ todo' \in Seq(Steps) /\ Shaped(todo', "failed", entries'[Agent])
      /\ \A k, y : Has(todo', <<k, y>>) => k \in {"uninstall", "destroy"}
  BY <1>1, FailedPlan
<1>3. UNCHANGED <<state, leased, quiescent, published, alive, queue, route, frames, holders>>
      /\ flushed' \in [Groups -> BOOLEAN]
  BY DEF family, HooksInv, FamilyInv, TypeOK, FamiliesTyped
<1>4. ControlTyped'
  BY <1>1, <1>2 DEF HooksInv, FamilyInv, TypeOK, ControlTyped
<1>5. FamilyInv' /\ FamilyStages' /\ FramesBacked'
  BY <1>3, <1>4, BackendMoves
<1>6. TodoShape'
  BY <1>1, <1>2 DEF TodoShape
<1>7. \A k, y : Due(k, y)' => k \in {"uninstall", "destroy"}
  BY <1>2 DEF Due, Has
<1>8. WorkFits'
  <2>1. \A c \in Funcs : state[GroupOf(c)] = "pending" => route[c] = "target"
    BY RoutedToTarget DEF Inner, Starting
  <2> QED BY <1>3, <1>7, <2>1 DEF WorkFits
<1>9. Progress'
  BY <1>1, <1>7 DEF Progress
<1>10. WaitsHold'
  BY NotWaiting DEF Starting
<1> QED BY <1>1, <1>5, <1>6, <1>8, <1>9, <1>10, Assembled

LEMMA InstallGroupFailsKeeps ==
  ASSUME HooksInv, NEW g \in Groups, InstallGroupFails(g)
  PROVE  HooksInv'
<1> DEFINE p == IF g = "vm" THEN OfFamily("uninstall", "heap") ELSE << >>
<1>1. /\ Doing("install", g) /\ StartFails(p)
      /\ UNCHANGED <<backend, family, frames, settling, unpatched, missed>>
  BY DEF InstallGroupFails
<1>2. Only(p, {"uninstall"})
  <2>1. Only(OfFamily("uninstall", "heap"), {"uninstall"})
    BY OnlyFamily
  <2>2. Only(<< >>, {"uninstall"})
    BY DEF Only
  <2> QED BY <2>1, <2>2
<1> HIDE DEF p
<1>3. "install" \in Starting /\ UNCHANGED <<entries, jump, holders>>
  BY <1>1 DEF Starting, backend
<1> QED BY <1>1, <1>2, <1>3, StartFailsKeeps

LEMMA PatchFailsKeeps ==
  ASSUME HooksInv, NEW c \in Funcs, PatchFails(c)
  PROVE  HooksInv'
<1> DEFINE u == << <<"uninstall", GroupOf(c)>> >>
           v == IF GroupOf(c) = "vm" THEN OfFamily("uninstall", "heap") ELSE << >>
           p == u \o v
<1>1. /\ Doing("patch", c) /\ StartFails(p)
      /\ HB!Abandon(Agent, c) \/ UNCHANGED backend
      /\ UNCHANGED <<family, frames, settling, unpatched, missed>>
  BY HooksAssumption DEF PatchFails
<1>2. Only(u, {"uninstall"})
  BY Families DEF Only, Steps
<1>3. Only(v, {"uninstall"})
  <2>1. Only(OfFamily("uninstall", "heap"), {"uninstall"})
    BY OnlyFamily
  <2>2. Only(<< >>, {"uninstall"})
    BY DEF Only
  <2> QED BY <2>1, <2>2
<1> HIDE DEF u, v
<1>4. Only(p, {"uninstall"})
  BY <1>2, <1>3, OnlyConcat
<1> HIDE DEF p
<1>5. HB!Next \/ UNCHANGED backend
  BY <1>1, Zenon DEF HB!Next
<1>6. "patch" \in Starting /\ UNCHANGED <<entries, jump, holders>>
  BY <1>1, BackendEffects DEF HooksInv, FamilyInv, backend, Starting
<1> QED BY <1>1, <1>4, <1>5, <1>6, StartFailsKeeps

LEMMA BeginCaptureKeeps ==
  ASSUME HooksInv, BeginCapture
  PROVE  HooksInv'
<1>1. /\ Doing("begin", "writer")
      /\ UNCHANGED <<backend, family, frames, settling, unpatched, missed>>
      /\ (Push(<< >>) /\ phase' = "capturing") \/ StartFails(<< >>)
  BY DEF BeginCapture
<1>2. CASE StartFails(<< >>)
  <2>1. Only(<< >>, {"uninstall"})
    BY DEF Only
  <2>2. "begin" \in Starting /\ UNCHANGED <<entries, jump, holders>>
    BY <1>1 DEF Starting, backend
  <2> QED BY <1>1, <1>2, <2>1, <2>2, StartFailsKeeps
<1>3. CASE Push(<< >>) /\ phase' = "capturing"
  <2>1. phase = "starting" /\ WaitsHold' /\ Tail(todo) = << >>
    BY <1>1, AtHead, NotWaiting DEF Starting
  <2>2. todo' = << >> /\ \A s : Has(todo, s) <=> s = <<"begin", "writer">> \/ Has(todo', s)
    BY <1>1, <1>3, <2>1, Pop
  <2>3. \A h : ~Due("install", h)
    BY <2>2, HasFew DEF Due
  <2>4. \A k, y : ~Due(k, y)'
    BY <2>2 DEF Due, Has
  <2>5. TodoShape'
    BY <1>3, <2>2 DEF TodoShape, Shaped
  <2>6. WorkFits'
    <3>1. \A c \in Funcs : state[GroupOf(c)] = "pending" => route[c] = "target"
      BY <1>1, RoutedToTarget DEF Inner
    <3> QED BY <1>1, <2>4, <3>1 DEF WorkFits, family
  <2>7. Progress'
    BY <1>1, <1>3, <2>1, <2>3, <2>4 DEF HooksInv, Progress, family
  <2>8. ControlTyped'
    BY <1>1, <1>3, <2>2 DEF HooksInv, FamilyInv, TypeOK, ControlTyped
  <2> QED BY <1>1, <1>3, <2>1, <2>5, <2>6, <2>7, <2>8, ControlOnly
<1> QED BY <1>1, <1>2, <1>3

\* A plan is made when nothing is left to do.
LEMMA PlanKeeps ==
  ASSUME HooksInv, todo = << >>, UNCHANGED <<backend, family, frames, settling, unpatched, missed>>,
         phase \notin {"starting", "failed"},
         phase' \in {"draining", "retained", "unpatching"},
         todo' \in Seq(Steps), Shaped(todo', phase', entries[Agent]),
         \A k, y : Has(todo', <<k, y>>) => k \in {"stop", "uninstall", "shutdown"},
         phase' = "unpatching" => \A g \in Groups : Has(todo', <<"uninstall", g>>)
  PROVE  HooksInv'
<1>1. \A k, y : ~Due(k, y)
  BY DEF Due, Has
<1>2. \A k, y : Due(k, y)' <=> Has(todo', <<k, y>>)
  BY DEF Due, Has
<1>3. TodoShape'
  BY DEF TodoShape, backend
<1>4. \A y : /\ ~Due("patch", y)' /\ ~Due("activate", y)' /\ ~Due("target", y)'
            /\ ~Due("original", y)' /\ ~Due("finish", y)'
  <2>1. \A k \in {"patch", "activate", "target", "original", "finish"} : \A y : ~Has(todo', <<k, y>>)
    OBVIOUS
  <2> QED BY <1>2, <2>1
<1>5. WorkFits'
  BY <1>1, <1>4 DEF HooksInv, WorkFits, family
<1>6. Progress'
  <2>1. phase' = "unpatching" => \A g \in Groups : Due("uninstall", g)'
    BY <1>2
  <2>2. UNCHANGED <<state, alive, published>>
    BY DEF family
  <2> QED BY <1>4, <2>1, <2>2 DEF HooksInv, Progress
<1>7. ControlTyped'
  BY DEF HooksInv, FamilyInv, TypeOK, ControlTyped
<1>8. WaitsHold'
  BY NotWaiting
<1> QED BY <1>3, <1>5, <1>6, <1>7, <1>8, ControlOnly

LEMMA DrainKeeps ==
  ASSUME HooksInv, Drain
  PROVE  HooksInv'
<1> DEFINE h == OfFamily("stop", "heap")
           v == OfFamily("stop", "vm")
           q == h \o v
<1>1. /\ phase = "capturing" /\ todo = << >> /\ phase' = "draining" /\ todo' = q
      /\ UNCHANGED <<backend, family, frames, settling, unpatched, missed>>
  BY DEF Drain
<1>2. Only(h, {"stop"}) /\ Only(v, {"stop"})
  BY OnlyFamily
<1> HIDE DEF h, v
<1>3. Only(q, {"stop"})
  BY <1>2, OnlyConcat
<1> HIDE DEF q
<1>4. q \in Seq(Steps) /\ Shaped(q, "draining", entries[Agent]) /\ \A k, y : Has(q, <<k, y>>) => k = "stop"
  BY <1>3 DEF Only, Shaped, Starting, Inner, Has
<1> QED BY <1>1, <1>4, PlanKeeps

LEMMA FinalizeKeeps ==
  ASSUME HooksInv, Finalize
  PROVE  HooksInv'
<1> DEFINE v == OfFamily("uninstall", "vm")
           h == OfFamily("uninstall", "heap")
           w == v \o h
           q == w \o << <<"shutdown", Agent>> >>
<1>1. /\ phase = "draining" /\ todo = << >>
      /\ UNCHANGED <<backend, family, frames, settling, unpatched, missed>>
      /\ (phase' = "retained" /\ todo' = << >>) \/ (phase' = "unpatching" /\ todo' = q)
  BY DEF Finalize
<1>2. CASE phase' = "retained" /\ todo' = << >>
  <2>1. todo' \in Seq(Steps) /\ Shaped(todo', phase', entries[Agent]) /\ \A s : ~Has(todo', s)
    BY <1>2 DEF Shaped, Has
  <2> QED BY <1>1, <1>2, <2>1, PlanKeeps
<1>3. CASE phase' = "unpatching" /\ todo' = q
  <2>1. /\ Only(v, {"uninstall"}) /\ Only(h, {"uninstall"})
        /\ \A s : Has(v, s) <=> "vm" \in Groups /\ s = <<"uninstall", "vm">>
        /\ \A s : Has(h, s) <=> "heap" \in Groups /\ s = <<"uninstall", "heap">>
    BY OnlyFamily
  <2> HIDE DEF v, h
  <2>2. Only(w, {"uninstall"}) /\ \A s : Has(w, s) <=> Has(v, s) \/ Has(h, s)
    BY <2>1, OnlyConcat
  <2> HIDE DEF w
  <2>3. <<"shutdown", Agent>> \in Steps
    BY DEF Steps
  <2>4. /\ q \in Seq(Steps)
        /\ \A i \in 1 .. Len(q) : (i = Len(q) /\ q[i] = <<"shutdown", Agent>>) \/ q[i][1] = "uninstall"
        /\ \A s : Has(q, s) <=> Has(w, s) \/ s = <<"shutdown", Agent>>
    <3>1. \A x : x \in {"uninstall"} <=> x = "uninstall"
      OBVIOUS
    <3> QED BY <2>2, <2>3, <3>1, OnlyThen
  <2> HIDE DEF q
  <2>5. Shaped(q, "unpatching", entries[Agent])
    BY <2>4 DEF Shaped, Starting, Inner
  <2>6. \A k, y : Has(q, <<k, y>>) => k \in {"uninstall", "shutdown"}
    BY <2>1, <2>2, <2>4
  <2>7. \A g \in Groups : Has(q, <<"uninstall", g>>)
    BY <2>1, <2>2, <2>4, HooksAssumption
  <2> QED BY <1>1, <1>3, <2>4, <2>5, <2>6, <2>7, PlanKeeps
<1> QED BY <1>1, <1>2, <1>3

\* The plan of start().
LEMMA InitKeeps == Init => HooksInv
<1> SUFFICES ASSUME Init PROVE HooksInv
  OBVIOUS
<1> DEFINE h == OfFamily("install", "heap")
           v == OfFamily("install", "vm")
           p == <<"patch", Exit>>
           b == <<"begin", "writer">>
           K == {"install", "patch"}
<1>1. /\ Only(h, K) /\ Only(v, K)
      /\ \A s : Has(v, s) <=> "vm" \in Groups /\ s = <<"install", "vm">>
      /\ \A s : Has(h, s) <=> "heap" \in Groups /\ s = <<"install", "heap">>
  BY OnlyFamily
<1>2. /\ todo = (h \o v) \o << p, b >> /\ settling = 1 /\ phase = "starting"
      /\ unpatched = TRUE /\ missed = FALSE
  BY DEF Init, Install
<1>3. p \in Steps /\ b \in Steps /\ Only(<< p >>, K) /\ << p, b >> = << p >> \o << b >>
  BY DEF Steps, Only
<1> HIDE DEF h, v, p, b
<1> DEFINE w == h \o v
           l == << p >>
           a == w \o l
<1>4. Only(w, K) /\ \A s : Has(w, s) <=> Has(h, s) \/ Has(v, s)
  BY <1>1, OnlyConcat
<1>5. Only(a, K) /\ \A s : Has(a, s) <=> Has(w, s) \/ s = p
  <2>1. \A s : Has(l, s) <=> s = p
    BY HasFew, Zenon
  <2>2. Only(l, K)
    BY <1>3
  <2> HIDE DEF w, l, K
  <2>3. Only(a, K) /\ \A s : Has(a, s) <=> Has(w, s) \/ Has(l, s)
    BY <1>4, <2>2, OnlyConcat
  <2> QED BY <2>1, <2>3
<1>6. todo = a \o << b >>
  <2>1. h \o v \in Seq(Steps) /\ << p >> \in Seq(Steps) /\ << b >> \in Seq(Steps)
    BY <1>3, <1>4 DEF Only
  <2> QED BY <1>2, <1>3, <2>1, ConcatAssociative
<1> HIDE DEF a
<1>7. /\ todo \in Seq(Steps)
      /\ \A i \in 1 .. Len(todo) : (i = Len(todo) /\ todo[i] = b) \/ todo[i][1] \in K
      /\ \A s : Has(todo, s) <=> Has(a, s) \/ s = b
  BY <1>3, <1>5, <1>6, OnlyThen
<1>8. TodoShape
  <2>1. phase = "starting"
    BY <1>2
  <2>2. /\ \A i \in 1 .. Len(todo) : todo[i][1] \in {"install", "patch", "begin"}
        /\ \A i \in 1 .. Len(todo) : todo[i][1] = "begin" => i = Len(todo)
    BY <1>7 DEF b
  <2>3. Shaped(todo, "starting", entries[Agent])
    BY <2>2 DEF Shaped, Starting, Inner
  <2> QED BY <2>1, <2>3 DEF TodoShape
<1>9. /\ \A g \in Groups : Due("install", g)
      /\ \A k, y : Due(k, y) => k \in {"install", "patch", "begin"}
      /\ \A c \in Funcs : ~Due("patch", c)
  <2>1. \A g \in Groups : Due("install", g)
    BY <1>1, <1>4, <1>5, <1>7, HooksAssumption DEF Due
  <2>2. \A k, y : Due(k, y) => k \in {"install", "patch", "begin"}
    BY <1>1, <1>4, <1>5, <1>7 DEF Due, p, b
  <2>3. \A c \in Funcs : ~Due("patch", c)
    BY <1>1, <1>4, <1>5, <1>7, HooksAssumption DEF Due, p, b
  <2> QED BY <2>1, <2>2, <2>3
<1>10. /\ state = [g \in Groups |-> "inactive"] /\ leased = [g \in Groups |-> FALSE]
       /\ quiescent = [g \in Groups |-> FALSE] /\ flushed = [g \in Groups |-> FALSE]
       /\ published = [g \in Groups |-> FALSE] /\ alive = [g \in Groups |-> TRUE]
       /\ queue = TRUE /\ route = [c \in Funcs |-> "target"] /\ frames = [t \in Threads |-> << >>]
       /\ HB!Init
  BY DEF Init
<1>11. WorkFits /\ Progress
  <2>1. \A g \in Groups : state[g] = "inactive" /\ alive[g]
    BY <1>10
  <2>2. \A c \in Funcs : GroupOf(c) \in Groups /\ state[GroupOf(c)] = "inactive"
    BY <2>1, Families
  <2>3. \A y : ~Due("activate", y) /\ ~Due("target", y) /\ ~Due("original", y) /\ ~Due("finish", y)
    BY <1>9
  <2>4. WorkFits
    BY <1>9, <2>2, <2>3 DEF WorkFits
  <2>5. Progress
    BY <1>2, <1>9, <2>1, <2>3 DEF Progress
  <2> QED BY <2>4, <2>5
<1>12. HB!BackendInv /\ entries[Agent] = {} /\ holders[Agent] = {}
  <2>1. P!Init
    BY <1>10 DEF HB!Init, P!Init
  <2>2. P!BackendInv
    BY <2>1, BackendNames, P!BackendInit
  <2> QED BY <1>10, <2>2, BackendNames DEF HB!Init
<1>13. FamilyStages
  BY <1>10, <1>12, Families DEF FamilyStages, Live
<1>14. FamiliesTyped
  BY <1>10 DEF FamiliesTyped
<1>15. FramesTyped /\ FramesBacked
  BY <1>10, HooksAssumption DEF FramesTyped, FramesBacked, Depth
<1>16. ControlTyped
  <2>1. unpatched \in BOOLEAN /\ missed \in BOOLEAN
    BY <1>2
  <2> QED BY <1>2, <1>7, <2>1 DEF ControlTyped
<1>17. FamilyInv
  BY <1>10, <1>12, <1>14, <1>15, <1>16 DEF FamilyInv, TypeOK, HB!BackendInv
<1> QED BY <1>2, <1>8, <1>11, <1>13, <1>15, <1>17 DEF HooksInv, WaitsHold, FinalizedIsClean

----------------------------------------------------------------------------
(* The target threads. *)

\* A thread that moves leaves its calls backed, and enters no channel that is quiet.
LEMMA ThreadKeeps ==
  ASSUME HooksInv, NEW t \in Threads, NEW s \in Seq(Frames), Len(s) <= MaxDepth,
         frames' = [frames EXCEPT ![t] = s], UNCHANGED <<backend, family, control>>,
         \A i \in 1 .. Len(s) :
             /\ Backed(s[i])
             /\ s[i].at # "arrived" /\ s[i].route # "target" =>
                    route[s[i].c] # "target" \/ \E h \in Routed : h.c = s[i].c
  PROVE  HooksInv'
<1> USE DEF backend, family, control
<1>1. /\ frames \in [Threads -> Seq(Frames)] /\ \A u \in Threads : Depth(u) <= MaxDepth
      /\ frames' \in [Threads -> Seq(Frames)]
      /\ \A u \in Threads : frames'[u] = IF u = t THEN s ELSE frames[u]
  BY DEF HooksInv, FamilyInv, TypeOK, FramesTyped
<1>2. FramesTyped'
  BY <1>1 DEF FramesTyped, Depth
<1>3. FamilyInv'
  <2>1. HB!BackendInv'
    BY BackendKept DEF HooksInv, FamilyInv
  <2> QED BY <1>2, <2>1 DEF HooksInv, FamilyInv, TypeOK, FamiliesTyped, ControlTyped, HB!BackendInv
<1>4. TodoShape' /\ WorkFits' /\ Progress'
  BY WorkSame
<1>5. FamilyStages' /\ FinalizedIsClean'
  BY DEF HooksInv, FamilyStages, Live, FinalizedIsClean
<1>6. FramesBacked'
  <2>1. ASSUME NEW u \in Threads, NEW i \in 1 .. Len(frames'[u]) PROVE Backed(frames'[u][i])
    <3>1. CASE u = t
      BY <1>1, <2>1, <3>1
    <3>2. CASE u # t
      <4>1. frames'[u] = frames[u] /\ i \in 1 .. Depth(u)
        BY <1>1, <2>1, <3>2 DEF Depth
      <4> QED BY <4>1, EachFrame
    <3> QED BY <3>1, <3>2
  <2>2. ASSUME NEW u \in Threads, NEW i \in 1 .. Len(frames'[u])
        PROVE  LET f == frames'[u][i]
                   g == GroupOf(f.c)
                   r == IF f.at \in {"loaded", "calling"} THEN f.orig ELSE slot'[f.c]
               IN  /\ state'[g] # "inactive"
                   /\ f.at \in {"entered", "set", "loaded"} => f.route # "target"
                   /\ f.at = "calling" /\ f.route = "target" => state'[g] # "installed" /\ f.c \notin jump'
                   /\ (IF f.at = "arrived" THEN route'[f.c] # "target" ELSE f.route # "target") =>
                          /\ leased'[g] /\ published'[g] /\ alive'[g]
                          /\ r \in Slices /\ contents'[r] = f.c
                          /\ original'[f.c] = r \/ g \in guard'[r]
    <3> DEFINE f == frames'[u][i]
    <3>1. Backed(f)
      BY <2>1, <2>2
    <3>2. UNCHANGED <<state, jump, route, leased, published, alive, slot, contents, original, guard>>
      OBVIOUS
    <3> HIDE DEF f
    <3>3. LET g == GroupOf(f.c)
              r == IF f.at \in {"loaded", "calling"} THEN f.orig ELSE slot'[f.c]
          IN  /\ state'[g] # "inactive"
              /\ f.at \in {"entered", "set", "loaded"} => f.route # "target"
              /\ f.at = "calling" /\ f.route = "target" => state'[g] # "installed" /\ f.c \notin jump'
              /\ (IF f.at = "arrived" THEN route'[f.c] # "target" ELSE f.route # "target") =>
                     /\ leased'[g] /\ published'[g] /\ alive'[g]
                     /\ r \in Slices /\ contents'[r] = f.c
                     /\ original'[f.c] = r \/ g \in guard'[r]
      BY <3>1, <3>2 DEF Backed, Dependent, Trampoline, HB!Callable
    <3> QED BY <3>3, Zenon DEF f
  <2> QED BY <2>2 DEF FramesBacked, Depth, Dependent, Trampoline, HB!Callable
<1>7. ASSUME NEW f \in Routed' PROVE (\E h \in Routed : h.c = f.c) \/ route[f.c] # "target"
  <2>1. /\ f \in UNION {{frames'[u][i] : i \in 1 .. Len(frames'[u])} : u \in Threads}
        /\ f.at # "arrived" /\ f.route # "target"
    BY <1>7, Zenon DEF Routed, Depth
  <2>2. PICK S \in {{frames'[u][i] : i \in 1 .. Len(frames'[u])} : u \in Threads} : f \in S
    BY <2>1, Zenon
  <2>3. PICK u \in Threads : f \in {frames'[u][i] : i \in 1 .. Len(frames'[u])}
    BY <2>2, Zenon
  <2>4. PICK i \in 1 .. Len(frames'[u]) : f = frames'[u][i]
    BY <2>3, Zenon
  <2>5. CASE u = t
    <3>1. i \in 1 .. Len(s) /\ f = s[i]
      BY <1>1, <2>4, <2>5
    <3> QED BY <2>1, <3>1
  <2>6. CASE u # t
    <3>1. i \in 1 .. Depth(u) /\ f = frames[u][i]
      BY <1>1, <2>4, <2>6 DEF Depth
    <3> QED BY <2>1, <3>1, EachFrame
  <2> QED BY <2>5, <2>6
<1>8. WaitsHold'
  <2> SUFFICES ASSUME settling # 1, Head(todo)[1] # "recorders"
               PROVE  LET g == Head(todo)[2]
                      IN  /\ todo # << >> /\ Head(todo) = <<"finish", g>> /\ ~quiescent[g]
                          /\ settling <= Len(Channels[g])
                          /\ \A f \in Routed' : \A j \in 1 .. settling - 1 : f.c # Channels[g][j]
    BY DEF HooksInv, WaitsHold
  <2> DEFINE g == Head(todo)[2]
  <2>1. /\ todo # << >> /\ Head(todo) = <<"finish", g>> /\ ~quiescent[g] /\ settling <= Len(Channels[g])
        /\ \A f \in Routed : \A j \in 1 .. settling - 1 : f.c # Channels[g][j]
    BY DEF HooksInv, WaitsHold
  <2>2. Doing("finish", g)
    BY <2>1 DEF Doing
  <2>3. g \in Groups /\ state[g] = "pending"
    <3>1. <<"finish", g>> \in Steps
      BY <2>1, HeadTailProperties, EmptySeq, SMTT(30)
      DEF HooksInv, FamilyInv, TypeOK, ControlTyped
    <3>2. g \in Groups
      BY <3>1 DEF Steps
    <3> QED BY <2>2, <3>2, AtHead DEF HooksInv, Progress
  <2>4. ASSUME NEW f \in Routed', NEW j \in 1 .. settling - 1 PROVE f.c # Channels[g][j]
    <3>1. j \in 1 .. Len(Channels[g])
      BY <2>1, <2>3, Families DEF HooksInv, FamilyInv, TypeOK, ControlTyped
    <3>2. Channels[g][j] \in Funcs /\ GroupOf(Channels[g][j]) = g
      BY <2>3, <3>1, Families
    <3>3. route[Channels[g][j]] = "target"
      BY <2>2, <2>3, <3>2, RoutedToTarget DEF Inner
    <3> QED BY <1>7, <2>1, <3>3
  <2> QED BY <2>1, <2>4
<1> QED BY <1>3, <1>4, <1>5, <1>6, <1>8 DEF HooksInv

\* The patched jump leads into a family that is installed or still torn down.
LEMMA ArriveKeeps ==
  ASSUME HooksInv, NEW t \in Threads, NEW c \in Funcs, Arrive(t, c)
  PROVE  HooksInv'
<1> DEFINE f == [c |-> c, at |-> "arrived", route |-> "target", orig |-> None]
           s == Append(frames[t], f)
<1>1. /\ c \in jump /\ frames' = [frames EXCEPT ![t] = s]
      /\ UNCHANGED <<backend, family, control>>
      /\ frames[t] # << >> => Depth(t) < MaxDepth
  BY DEF Arrive
<1>2. f \in Frames /\ f.c = c /\ f.at = "arrived"
  BY DEF Frames
<1>3. frames[t] \in Seq(Frames) /\ Depth(t) \in Nat
  BY LenProperties DEF HooksInv, FamilyInv, TypeOK, FramesTyped, Depth
<1> HIDE DEF f
<1>4. /\ s \in Seq(Frames) /\ Len(s) = Depth(t) + 1
      /\ \A i \in 1 .. Depth(t) : s[i] = frames[t][i]
      /\ s[Depth(t) + 1] = f
  BY <1>2, <1>3, AppendProperties DEF Depth
<1>5. Len(s) <= MaxDepth
  <2>1. frames[t] = << >> => Depth(t) = 0
    BY DEF Depth
  <2> QED BY <1>1, <1>3, <1>4, <2>1, HooksAssumption
<1>6. Backed(f)
  <2>1. HB!BackendInv /\ c \in entries[Agent]
    BY <1>1, BackendEffects DEF HooksInv, FamilyInv
  <2>2. GroupOf(c) \in Groups /\ Live(GroupOf(c)) /\ route[c] # "target"
    BY <2>1, Families DEF HooksInv, FamilyStages
  <2>3. leased[GroupOf(c)] /\ published[GroupOf(c)] /\ alive[GroupOf(c)] /\ state[GroupOf(c)] # "inactive"
    BY <2>2 DEF HooksInv, FamilyStages, Live
  <2>4. HB!Callable(c, slot[c], GroupOf(c))
    BY <2>1 DEF HB!BackendInv, HB!ContextsMatchEntries, HB!TypeOK, HB!Callable
  <2> QED BY <1>2, <2>2, <2>3, <2>4 DEF Backed, Trampoline
<1> HIDE DEF s
<1>7. ASSUME NEW i \in 1 .. Len(s)
      PROVE  /\ Backed(s[i])
             /\ s[i].at # "arrived" /\ s[i].route # "target" => \E h \in Routed : h.c = s[i].c
  <2>1. CASE i \in 1 .. Depth(t)
    BY <1>4, <2>1, EachFrame
  <2>2. CASE i \notin 1 .. Depth(t)
    <3>1. i = Depth(t) + 1
      BY <1>3, <1>4, <2>2
    <3> QED BY <1>2, <1>4, <1>6, <3>1
  <2> QED BY <2>1, <2>2
<1> QED BY <1>1, <1>4, <1>5, <1>7, ThreadKeeps

LEMMA LeaveKeeps ==
  ASSUME HooksInv, NEW t \in Threads, Leave(t)
  PROVE  HooksInv'
<1> DEFINE s == SubSeq(frames[t], 1, Depth(t) - 1)
<1>1. /\ frames' = [frames EXCEPT ![t] = s] /\ frames[t] # << >>
      /\ UNCHANGED <<backend, family, control>>
  BY DEF Leave, At
<1>2. frames[t] \in Seq(Frames) /\ Depth(t) \in Nat \ {0} /\ Depth(t) <= MaxDepth /\ MaxDepth \in Nat
  BY <1>1, LenProperties, EmptySeq, HooksAssumption DEF HooksInv, FamilyInv, TypeOK, FramesTyped, Depth
<1>3. /\ s \in Seq(Frames) /\ Len(s) = Depth(t) - 1
      /\ \A i \in 1 .. Depth(t) - 1 : s[i] = frames[t][i]
  <2>1. Depth(t) - 1 \in Int /\ \A i \in 1 .. Depth(t) - 1 : frames[t][i] \in Frames
    BY <1>2, ElementOfSeq DEF Depth
  <2>2. /\ s \in Seq(Frames)
        /\ Len(s) = IF 1 <= Depth(t) - 1 THEN (Depth(t) - 1) - 1 + 1 ELSE 0
        /\ \A i \in 1 .. (Depth(t) - 1) - 1 + 1 : s[i] = frames[t][1 + i - 1]
    BY <2>1, SubSeqProperties
  <2> QED BY <1>2, <2>2
<1> HIDE DEF s
<1>4. ASSUME NEW i \in 1 .. Len(s)
      PROVE  /\ Backed(s[i])
             /\ s[i].at # "arrived" /\ s[i].route # "target" => \E h \in Routed : h.c = s[i].c
  <2>1. i \in 1 .. Depth(t) /\ s[i] = frames[t][i]
    BY <1>2, <1>3
  <2> QED BY <2>1, EachFrame
<1>5. Len(s) <= MaxDepth
  BY <1>2, <1>3
<1> QED BY <1>1, <1>3, <1>4, <1>5, ThreadKeeps

\* A thread moves on in its innermost call.
LEMMA MoveKeeps ==
  ASSUME HooksInv, NEW t \in Threads, frames[t] # << >>, NEW f \in Frames, Move(t, f),
         UNCHANGED <<backend, family, control>>, Backed(f),
         f.at # "arrived" /\ f.route # "target" =>
             route[f.c] # "target" \/ \E h \in Routed : h.c = f.c
  PROVE  HooksInv'
<1> DEFINE s == [frames[t] EXCEPT ![Depth(t)] = f]
<1>1. frames \in [Threads -> Seq(Frames)] /\ frames[t] \in Seq(Frames) /\ Depth(t) \in Nat \ {0}
      /\ Depth(t) <= MaxDepth
  BY LenProperties, EmptySeq DEF HooksInv, FamilyInv, TypeOK, FramesTyped, Depth
<1>2. frames' = [frames EXCEPT ![t] = s]
  BY <1>1 DEF Move
<1>3. /\ s \in Seq(Frames) /\ Len(s) = Depth(t)
      /\ \A i \in 1 .. Depth(t) : s[i] = IF i = Depth(t) THEN f ELSE frames[t][i]
  BY <1>1, ExceptSeq DEF Depth
<1> HIDE DEF s
<1>4. ASSUME NEW i \in 1 .. Len(s)
      PROVE  /\ Backed(s[i])
             /\ s[i].at # "arrived" /\ s[i].route # "target" =>
                    route[s[i].c] # "target" \/ \E h \in Routed : h.c = s[i].c
  <2>1. CASE i = Depth(t)
    BY <1>3, <1>4, <2>1
  <2>2. CASE i # Depth(t)
    <3>1. i \in 1 .. Depth(t) /\ s[i] = frames[t][i]
      BY <1>3, <1>4, <2>2
    <3> QED BY <3>1, EachFrame
  <2> QED BY <2>1, <2>2
<1> QED BY <1>1, <1>2, <1>3, <1>4, ThreadKeeps

\* The innermost call of a thread.
LEMMA TopFrame ==
  ASSUME HooksInv, NEW t \in Threads, frames[t] # << >>
  PROVE  /\ Top(t) \in Frames /\ Top(t).c \in Funcs /\ GroupOf(Top(t).c) \in Groups /\ Backed(Top(t))
         /\ Top(t).at # "arrived" /\ Top(t).route # "target" => Top(t) \in Routed
<1>1. Depth(t) \in 1 .. Depth(t)
  BY LenProperties, EmptySeq DEF HooksInv, FamilyInv, TypeOK, FramesTyped, Depth
<1> QED BY <1>1, EachFrame DEF Top

LEMMA EnterKeeps ==
  ASSUME HooksInv, NEW t \in Threads, Enter(t)
  PROVE  HooksInv'
<1> DEFINE o == Top(t)
           r == route[o.c]
           f == [o EXCEPT !.route = r, !.at = IF r = "target" THEN "calling" ELSE "entered"]
<1>1. /\ frames[t] # << >> /\ o.at = "arrived" /\ Move(t, f)
      /\ UNCHANGED <<backend, family, control>>
  BY DEF Enter, At
<1>2. o \in Frames /\ o.c \in Funcs /\ GroupOf(o.c) \in Groups /\ Backed(o)
  BY <1>1, TopFrame
<1>3. r \in {"target", "original", "record"}
  BY <1>2 DEF HooksInv, FamilyInv, TypeOK, FamiliesTyped
<1> HIDE DEF o, r
<1>4. /\ f \in Frames /\ f.c = o.c /\ f.route = r /\ f.orig = o.orig
      /\ f.at = IF r = "target" THEN "calling" ELSE "entered"
  BY <1>2, <1>3 DEF Frames
<1> HIDE DEF f
<1>5. Backed(f)
  <2>1. CASE r = "target"
    <3>1. state[GroupOf(o.c)] # "installed" /\ o.c \notin jump
      <4>1. jump \subseteq entries[Agent]
        BY BackendEffects DEF HooksInv, FamilyInv
      <4> QED BY <1>2, <2>1, <4>1 DEF HooksInv, FamilyStages, r
    <3> QED BY <1>2, <1>4, <2>1, <3>1 DEF Backed, Dependent
  <2>2. CASE r # "target"
    <3>1. Dependent(o) /\ Trampoline(o) = slot[o.c]
      BY <1>1, <2>2 DEF Dependent, Trampoline, r, o
    <3>2. f.at = "entered" /\ Trampoline(f) = slot[o.c]
      BY <1>4, <2>2 DEF Trampoline
    <3> QED BY <1>2, <1>4, <2>2, <3>1, <3>2 DEF Backed
  <2> QED BY <2>1, <2>2
<1>6. f.route # "target" => route[f.c] # "target"
  BY <1>4 DEF r
<1> QED BY <1>1, <1>4, <1>5, <1>6, MoveKeeps

\* The loads of the channel set and of the original, and the call.
LEMMA LoadKeeps ==
  ASSUME HooksInv, NEW t \in Threads, LoadSet(t) \/ LoadOriginal(t) \/ CallOriginal(t)
  PROVE  HooksInv'
<1> DEFINE o == Top(t)
<1>1. PICK f : /\ frames[t] # << >> /\ Move(t, f) /\ UNCHANGED <<backend, family, control>>
               /\ \/ o.at = "entered" /\ f = [o EXCEPT !.at = "set"]
                  \/ o.at = "set" /\ f = [o EXCEPT !.at = "loaded", !.orig = slot[o.c]]
                  \/ o.at = "loaded" /\ f = [o EXCEPT !.at = "calling"]
  BY DEF LoadSet, LoadOriginal, CallOriginal, At
<1>2. /\ o \in Frames /\ o.c \in Funcs /\ GroupOf(o.c) \in Groups /\ Backed(o)
      /\ o.at # "arrived" /\ o.route # "target" => o \in Routed
  BY <1>1, TopFrame
<1>3. slot[o.c] \in Slices \cup {None}
  BY <1>2 DEF HooksInv, FamilyInv, TypeOK, HB!TypeOK
<1> HIDE DEF o
<1>4. /\ f \in Frames /\ f.c = o.c /\ f.route = o.route /\ f.at \in {"set", "loaded", "calling"}
      /\ Trampoline(f) = Trampoline(o) /\ o.at \in {"entered", "set", "loaded"}
  BY <1>1, <1>2, <1>3 DEF Frames, Trampoline
<1>5. o.route # "target" /\ Dependent(o) /\ o \in Routed
  BY <1>2, <1>4 DEF Backed, Dependent
<1>6. Backed(f)
  BY <1>2, <1>4, <1>5 DEF Backed
<1> QED BY <1>1, <1>4, <1>5, <1>6, MoveKeeps

----------------------------------------------------------------------------
(* The theorems. *)

LEMMA ControlKeeps == HooksInv /\ Control => HooksInv'
<1> SUFFICES ASSUME HooksInv, Control PROVE HooksInv'
  OBVIOUS
<1>1. ASSUME NEW g \in Groups,
             \/ InstallGroup(g) \/ InstallGroupFails(g) \/ StopRecording(g) \/ AwaitRecorders(g)
             \/ Uninstall(g) \/ FlushGroup(g) \/ Settle(g) \/ SettleExpires(g) \/ FlushBackend(g)
             \/ FinishTeardown(g) \/ EvacuationFails(g) \/ DestroyGroup(g) \/ AbandonGroup(g)
      PROVE  HooksInv'
  <2>1. CASE InstallGroup(g) \/ InstallGroupFails(g)
    BY <2>1, InstallGroupKeeps, InstallGroupFailsKeeps
  <2>2. CASE StopRecording(g) \/ AwaitRecorders(g)
    BY <2>2, StopRecordingKeeps, AwaitRecordersKeeps
  <2>3. CASE Uninstall(g) \/ FlushGroup(g)
    BY <2>3, UninstallKeeps, UninstallAgainKeeps, FlushGroupKeeps
  <2>4. CASE Settle(g) \/ SettleExpires(g) \/ EvacuationFails(g)
    BY <2>4, SettleKeeps, WaitsGivenUp
  <2>5. CASE FlushBackend(g) \/ FinishTeardown(g)
    BY <2>5, FlushBackendKeeps, FinishTeardownKeeps
  <2>6. CASE DestroyGroup(g) \/ AbandonGroup(g)
    BY <2>6, DestroyGroupKeeps, AbandonGroupKeeps
  <2> QED BY <1>1, <2>1, <2>2, <2>3, <2>4, <2>5, <2>6
<1>2. ASSUME NEW c \in Funcs \cup {Exit}, Patch(c) \/ Activate(c) \/ PatchFails(c)
      PROVE  HooksInv'
  <2>1. CASE Patch(c) \/ Activate(c)
    BY <2>1, PatchKeeps, ActivateKeeps
  <2>2. CASE PatchFails(c)
    BY <2>2, PatchFailsKeeps, ExitRefusedKeeps
  <2> QED BY <1>2, <2>1, <2>2
<1>3. ASSUME NEW c \in Funcs,
             RouteTo("original", c, "original") \/ RouteTo("target", c, "target") \/ Revert(c)
      PROVE  HooksInv'
  BY <1>3, RouteToKeeps, RevertKeeps
<1>4. CASE BeginCapture \/ Drain \/ Finalize \/ ShutdownBackend \/ DestroyBackend
  BY <1>4, BeginCaptureKeeps, DrainKeeps, FinalizeKeeps, ShutdownBackendKeeps, DestroyBackendKeeps
<1> QED BY <1>1, <1>2, <1>3, <1>4, Zenon DEF Control

LEMMA HooksNext == HooksInv /\ [Next]_vars => HooksInv'
<1> SUFFICES ASSUME HooksInv, [Next]_vars PROVE HooksInv'
  OBVIOUS
<1>1. CASE Control
  BY <1>1, ControlKeeps
<1>2. ASSUME NEW t \in Threads, Thread(t) PROVE HooksInv'
  <2>1. ASSUME NEW c \in Funcs, Arrive(t, c) PROVE HooksInv'
    BY <2>1, ArriveKeeps
  <2>2. CASE Enter(t) \/ LoadSet(t) \/ LoadOriginal(t) \/ CallOriginal(t) \/ Leave(t)
    BY <2>2, EnterKeeps, LoadKeeps, LeaveKeeps
  <2> QED BY <1>2, <2>1, <2>2, Zenon DEF Thread
<1>3. CASE UNCHANGED vars
  <2>1. /\ TodoShape' /\ WorkFits' /\ Progress'
        /\ UNCHANGED <<backend, family, frames, todo, settling, phase, unpatched, missed>>
    BY <1>3, WorkSame DEF vars, control, family, backend
  <2>2. ControlTyped'
    BY <2>1 DEF HooksInv, FamilyInv, TypeOK, ControlTyped
  <2>3. FamilyInv' /\ FamilyStages' /\ FramesBacked'
    BY <2>1, <2>2, FamiliesUntouched
  <2>4. WaitsHold' /\ FinalizedIsClean'
    BY <2>1 DEF HooksInv, WaitsHold, Routed, Depth, FinalizedIsClean, backend, family
  <2> QED BY <2>1, <2>3, <2>4 DEF HooksInv
<1> QED BY <1>1, <1>2, <1>3, Zenon DEF Next

\* The inductive invariant of the hook families: the order of what the control thread has
\* still to do, the stage of each family, its lease and its routes fit one another and back
\* every call, for any functions, any number of threads and any depth of nested calls.
THEOREM HooksInvariant == Spec => []HooksInv
<1>1. Init => HooksInv
  BY InitKeeps
<1>2. HooksInv /\ [Next]_vars => HooksInv'
  BY HooksNext
<1> QED BY <1>1, <1>2, PTL DEF Spec

\* A replacement that has loaded its original calls the trampoline of its own function:
\* HookBackend neither reuses nor unmaps it while the family's lease is held, and
\* try_finish_teardown releases the lease only when nobody depends on it.
THEOREM TrampolinesStayIntact == Spec => []TrampolinesIntact
<1>1. ASSUME HooksInv PROVE TrampolinesIntact
  <2>1. ASSUME NEW f \in Routed, f.at \in {"loaded", "calling"} PROVE contents[f.orig] = f.c
    <3>1. Backed(f) /\ f.at # "arrived" /\ f.route # "target"
      BY <1>1, RoutedFrame
    <3> QED BY <2>1, <3>1 DEF Backed, Dependent, Trampoline, HB!Callable
  <2> QED BY <1>1, <2>1 DEF HooksInv, TrampolinesIntact
<1> QED BY <1>1, HooksInvariant, PTL

\* fail_broken_replacement_route is never reached, a replacement never updates a freed
\* channel set, the target route never meets its own jump, and a finalized capture has
\* left nothing behind.
THEOREM RoutesAreComplete == Spec => []RoutesComplete
<1>1. ASSUME HooksInv PROVE RoutesComplete
  <2>1. ASSUME NEW f \in Routed
        PROVE  /\ published[GroupOf(f.c)] /\ alive[GroupOf(f.c)]
               /\ f.at \in {"entered", "set"} => slot[f.c] # None
    <3>1. Backed(f) /\ f.at # "arrived" /\ f.route # "target"
      BY <1>1, RoutedFrame
    <3> QED BY <3>1, HooksAssumption DEF Backed, Dependent, Trampoline, HB!Callable
  <2>2. TargetRouteEnds
    BY <1>1, EachFrame DEF TargetRouteEnds, Backed
  <2> QED BY <1>1, <2>1, <2>2 DEF HooksInv, RoutesComplete, ChannelSetRetained
<1> QED BY <1>1, HooksInvariant, PTL

=============================================================================
