------------------------- MODULE HookBackendProofs -------------------------
(***************************************************************************)
(* The lease of HookBackend does what its comment promises when there is   *)
(* one backend, as in both agents: the bytes of a trampoline do not change *)
(* while a lease that was held at its revert is held.                      *)
(***************************************************************************)
EXTENDS HookBackend, FiniteSetTheorems, TLAPS

\* Both agents make one HookBackend.
OneBackend == \E b \in Backends : Backends = {b}

\* The invariant holds when the backend has been constructed.
LEMMA BackendInit ==
    ASSUME Init PROVE BackendInv
<1>1. TypeOK
  BY DEF Init, TypeOK
<1>2. LeasesCounted
  BY FS_EmptySet DEF Init, LeasesCounted
<1>3. GuardedIsPending
  BY DEF Init, GuardedIsPending
<1>4. ContextsMatchEntries
  BY BackendAssumption DEF Init, ContextsMatchEntries
<1> QED BY <1>1, <1>2, <1>3, <1>4 DEF BackendInv

\* A successful flush finds no lease, hence no guarded slice.
LEMMA FlushedMeansUnguarded ==
    ASSUME OneBackend, BackendInv, NEW b \in Backends, TRUE \in FlushResults(b)
    PROVE  \A s \in Slices : guard[s] = {}
<1>1. leases[b] = 0
  BY DEF FlushResults
<1>2. holders[b] = {}
  <2>1. IsFiniteSet(holders[b])
    BY BackendAssumption, FS_Subset DEF BackendInv, TypeOK
  <2>2. Cardinality(holders[b]) = 0
    BY <1>1 DEF BackendInv, LeasesCounted
  <2> QED BY <2>1, <2>2, FS_EmptySet
<1> QED BY <1>2 DEF OneBackend, BackendInv, GuardedIsPending, TypeOK


\* Reverting the targets X of b, with the flush that follows: slices return to
\* the free list guarded by the lease holders, and the teardown is pending unless
\* there was none.
LEMMA GiveBackKeepsInvariant ==
    ASSUME OneBackend, BackendInv, NEW b \in Backends, NEW X, X \subseteq entries[b],
           GiveBack(b, X), Unlocked(b),
           NEW done \in FlushResults(b),
           X # {} => pending' = [pending EXCEPT ![b] = ~done],
           X = {} => pending' \in {pending, [pending EXCEPT ![b] = FALSE]},
           X = {} /\ ~done => pending' = pending,
           entries' = [entries EXCEPT ![b] = @ \ X],
           contents' = contents \/ (done /\ entries'[b] = {}),
           contents' \in [Slices -> Targets \cup {None}],
           UNCHANGED <<leases, installing, slot, holders>>,
           interceptor' = interceptor \/ (entries'[b] = {} /\ interceptor' = [interceptor EXCEPT ![b] = FALSE]),
           stopping' \in [Backends -> BOOLEAN], retained' \in BOOLEAN
    PROVE  BackendInv'
<1> USE DEF BackendInv, OneBackend
<1>1. TypeOK'
  <2>1. done \in BOOLEAN
    BY DEF FlushResults
  <2>2. pending' \in [Backends -> BOOLEAN]
    BY <2>1 DEF TypeOK
  <2>3. interceptor' \in [Backends -> BOOLEAN]
    BY DEF TypeOK
  <2>4. entries' \in [Backends -> SUBSET Targets]
    BY DEF TypeOK
  <2>5. free' \subseteq Slices
    BY DEF TypeOK, GiveBack, ContextsMatchEntries
  <2>6. jump' \subseteq Targets /\ original' \in [Targets -> Slices \cup {None}]
        /\ guard' \in [Slices -> SUBSET Clients]
    BY DEF TypeOK, GiveBack
  <2> QED BY <2>2, <2>3, <2>4, <2>5, <2>6 DEF TypeOK
<1>2. LeasesCounted'
  BY DEF LeasesCounted
<1>3. GuardedIsPending'
  <2>1. CASE done
    <3>1. \A s \in Slices : guard[s] = {}
      BY <2>1, FlushedMeansUnguarded
    <3>2. holders[b] = {}
      <4>1. leases[b] = 0
        BY <2>1 DEF FlushResults
      <4>2. IsFiniteSet(holders[b])
        BY BackendAssumption, FS_Subset DEF TypeOK
      <4> QED BY <4>1, <4>2, FS_EmptySet DEF LeasesCounted
    <3> QED BY <3>1, <3>2 DEF GuardedIsPending, GiveBack, TypeOK
  <2>2. CASE ~done
    <3> SUFFICES ASSUME NEW s \in Slices, NEW c \in guard'[s]
                 PROVE s \in free' /\ \E o \in Backends : c \in holders[o] /\ pending'[o]
      BY DEF GuardedIsPending
    <3>1. CASE \E x \in X : original[x] = s
      <4>1. c \in holders[b]
        BY <3>1 DEF GiveBack, TypeOK
      <4>2. pending'[b]
        BY <3>1, <2>2 DEF TypeOK
      <4>3. s \in free'
        BY <3>1 DEF GiveBack
      <4> QED BY <4>1, <4>2, <4>3
    <3>2. CASE ~ \E x \in X : original[x] = s
      <4>1. c \in guard[s]
        BY <3>2 DEF GiveBack, TypeOK
      <4>2. s \in free' /\ \E o \in Backends : c \in holders[o] /\ pending[o]
        BY <4>1 DEF GuardedIsPending, GiveBack
      <4> QED BY <4>2, <2>2, ZenonT(30) DEF TypeOK
    <3> QED BY <3>1, <3>2
  <2> QED BY <2>1, <2>2 DEF FlushResults
<1>4. ContextsMatchEntries'
  <2>1. X \subseteq Targets
    BY DEF TypeOK
  <2>2. \A x \in Targets : original'[x] = IF x \in X THEN None ELSE original[x]
    BY DEF GiveBack
  <2>3. \A x \in Targets : original'[x] # None <=> \E o \in Backends : x \in entries'[o]
    BY <2>1, <2>2 DEF ContextsMatchEntries, TypeOK
  <2>4. \A x \in Targets : original'[x] # None =>
            original'[x] \notin free' /\ contents'[original'[x]] = x /\ slot'[x] = original'[x]
    <3> SUFFICES ASSUME NEW x \in Targets, original'[x] # None
                 PROVE original'[x] \notin free' /\ contents'[original'[x]] = x
                       /\ slot'[x] = original'[x]
      OBVIOUS
    <3>1. original'[x] = original[x] /\ x \notin X /\ original[x] # None
      BY <2>2
    <3>2. original[x] \notin free'
      BY <3>1, <2>1 DEF ContextsMatchEntries, GiveBack
    <3>3. contents' = contents
      BY <2>3, <3>1 DEF TypeOK
    <3> QED BY <3>1, <3>2, <3>3 DEF ContextsMatchEntries
  <2>5. \A x, y \in Targets : original'[x] = original'[y] /\ original'[x] # None => x = y
    BY <2>2 DEF ContextsMatchEntries
  <2>6. \A a, o \in Backends : a # o => entries'[a] \cap entries'[o] = {}
    OBVIOUS
  <2>7. \A o \in Backends : ~interceptor'[o] => entries'[o] = {}
    BY DEF ContextsMatchEntries, TypeOK
  <2>8. \A x \in jump' : original'[x] # None
    BY <2>2 DEF ContextsMatchEntries, GiveBack, TypeOK
  <2>9. \A o \in Backends, x \in Targets :
            installing' = <<o, x>> => x \in entries'[o] /\ interceptor'[o]
    BY DEF Unlocked
  <2> QED BY <2>3, <2>4, <2>5, <2>6, <2>7, <2>8, <2>9 DEF ContextsMatchEntries
<1> QED BY <1>1, <1>2, <1>3, <1>4

\* Every step keeps the invariant.
LEMMA BackendStep ==
    ASSUME OneBackend, BackendInv, [Next]_vars PROVE BackendInv'
<1> USE DEF BackendInv
<1>1. ASSUME NEW b \in Backends, NEW x \in Targets, Prepare(b, x) PROVE BackendInv'
  <2>1. PICK s \in Slices :
            /\ Write(x, s)
            /\ free' = free \ {s}
            /\ original' = [original EXCEPT ![x] = s]
            /\ slot' = [slot EXCEPT ![x] = s]
    BY <1>1 DEF Prepare
  <2>2. /\ entries' = [entries EXCEPT ![b] = @ \cup {x}] /\ installing' = <<b, x>>
        /\ Accepts(b, x) /\ original[x] = None /\ s \in free
        /\ contents' = [contents EXCEPT ![s] = x]
        /\ UNCHANGED <<interceptor, stopping, leases, pending, jump, retained, holders, guard>>
    BY <1>1, <2>1 DEF Prepare, Write
  <2>3. TypeOK'
    BY <2>1, <2>2 DEF TypeOK
  <2>4. LeasesCounted'
    BY <2>2 DEF LeasesCounted
  <2>5. guard[s] = {}
    BY <2>2 DEF Accepts, OneBackend, GuardedIsPending, TypeOK
  <2>6. GuardedIsPending'
    BY <2>1, <2>2, <2>5 DEF GuardedIsPending
  <2>7. ContextsMatchEntries'
    <3>1. \A y \in Targets : original'[y] = IF y = x THEN s ELSE original[y]
      BY <2>1 DEF TypeOK
    <3>2. \A y \in Targets : original[y] # s
      BY <2>2, BackendAssumption DEF ContextsMatchEntries, TypeOK
    <3>3. \A y \in Targets : original'[y] # None <=> \E o \in Backends : y \in entries'[o]
      BY <3>1, <2>2, BackendAssumption DEF ContextsMatchEntries, TypeOK
    <3>4. \A y \in Targets : original'[y] # None =>
              original'[y] \notin free' /\ contents'[original'[y]] = y /\ slot'[y] = original'[y]
      BY <3>1, <3>2, <2>1, <2>2 DEF ContextsMatchEntries, TypeOK
    <3>5. \A y, z \in Targets : original'[y] = original'[z] /\ original'[y] # None => y = z
      BY <3>1, <3>2 DEF ContextsMatchEntries
    <3>6. \A a, o \in Backends : a # o => entries'[a] \cap entries'[o] = {}
      BY DEF OneBackend
    <3>7. \A o \in Backends : ~interceptor'[o] => entries'[o] = {}
      BY <2>2 DEF ContextsMatchEntries, Accepts, TypeOK
    <3>8. \A y \in jump' : original'[y] # None
      BY <3>1, <2>2, BackendAssumption DEF ContextsMatchEntries, TypeOK
    <3>9. \A o \in Backends, y \in Targets :
              installing' = <<o, y>> => y \in entries'[o] /\ interceptor'[o]
      BY <2>2 DEF Accepts, TypeOK
    <3> QED BY <3>3, <3>4, <3>5, <3>6, <3>7, <3>8, <3>9 DEF ContextsMatchEntries
  <2> QED BY <2>3, <2>4, <2>6, <2>7
<1>2. ASSUME NEW b \in Backends, NEW x \in Targets, Activate(b, x) PROVE BackendInv'
  <2> USE <1>2 DEF Activate, callers
  <2>1. TypeOK'
    BY DEF TypeOK
  <2>2. LeasesCounted' /\ GuardedIsPending'
    BY DEF LeasesCounted, GuardedIsPending
  <2>3. original[x] # None
    BY DEF ContextsMatchEntries
  <2>4. ContextsMatchEntries'
    BY <2>3, BackendAssumption DEF ContextsMatchEntries
  <2> QED BY <2>1, <2>2, <2>4
<1>3. ASSUME NEW b \in Backends, NEW x \in Targets, Abandon(b, x) PROVE BackendInv'
  <2> USE <1>3 DEF Abandon, callers
  <2>1. PICK s \in Slices : Write(x, s)
    OBVIOUS
  <2>2. PICK done \in FlushResults(b) : pending' = [pending EXCEPT ![b] = ~done]
    OBVIOUS
  <2>3. done \in BOOLEAN
    BY DEF FlushResults
  <2>4. TypeOK'
    BY <2>1, <2>2, <2>3 DEF TypeOK, Write
  <2>5. LeasesCounted'
    BY DEF LeasesCounted
  <2>6. GuardedIsPending'
    BY <2>2 DEF GuardedIsPending, Accepts, OneBackend, TypeOK
  <2>7. \A y \in Targets : original[y] # s
    BY <2>1, BackendAssumption DEF ContextsMatchEntries, TypeOK, Write
  <2>8. ContextsMatchEntries'
    BY <2>1, <2>7 DEF ContextsMatchEntries, TypeOK, Write
  <2> QED BY <2>4, <2>5, <2>6, <2>8
<1>4. ASSUME NEW b \in Backends, NEW x \in Targets, Uninstall(b, x) PROVE BackendInv'
  <2> USE <1>4 DEF Uninstall
  <2>1. PICK done \in FlushResults(b) : pending' = [pending EXCEPT ![b] = ~done]
    OBVIOUS
  <2>2. {x} \subseteq entries[b] /\ contents' \in [Slices -> Targets \cup {None}]
        /\ stopping' \in [Backends -> BOOLEAN] /\ retained' \in BOOLEAN
    BY DEF TypeOK
  <2> HIDE <1>4 DEF Uninstall
  <2>3. /\ GiveBack(b, {x}) /\ Unlocked(b)
        /\ entries' = [entries EXCEPT ![b] = @ \ {x}]
        /\ UNCHANGED <<leases, installing, slot, holders, contents, interceptor>>
    BY <1>4 DEF Uninstall
  <2> QED BY <2>1, <2>2, <2>3, GiveBackKeepsInvariant
<1>5. ASSUME NEW b \in Backends, Flush(b) PROVE BackendInv'
  <2> USE <1>5 DEF Flush, hoox, callers
  <2>1. TypeOK'
    BY DEF TypeOK
  <2>2. LeasesCounted'
    BY DEF LeasesCounted
  <2>3. GuardedIsPending'
    BY FlushedMeansUnguarded DEF GuardedIsPending
  <2>4. ContextsMatchEntries'
    BY DEF ContextsMatchEntries
  <2> QED BY <2>1, <2>2, <2>3, <2>4
<1>6. ASSUME NEW b \in Backends, NEW done \in BOOLEAN, Shutdown(b, done) PROVE BackendInv'
  <2>1. /\ GiveBack(b, entries[b]) /\ done \in FlushResults(b) /\ installing = None
        /\ entries' = [entries EXCEPT ![b] = {}]
        /\ pending' = [pending EXCEPT ![b] = ~done /\ (@ \/ entries[b] # {})]
        /\ interceptor' = [interceptor EXCEPT ![b] = ~done]
        /\ contents' = IF done THEN Deinit(b, contents) ELSE contents
        /\ UNCHANGED <<leases, installing, slot, holders, retained>>
        /\ stopping' = [stopping EXCEPT ![b] = TRUE] /\ interceptor[b]
    BY <1>6 DEF Shutdown
  <2>2. contents' \in [Slices -> Targets \cup {None}]
    BY <2>1 DEF Deinit, TypeOK
  <2>3. stopping' \in [Backends -> BOOLEAN] /\ retained' \in BOOLEAN
    BY <2>1 DEF TypeOK
  <2>4. Unlocked(b)
    BY <2>1, BackendAssumption DEF Unlocked
  <2>5. entries' = [entries EXCEPT ![b] = @ \ entries[b]] /\ entries'[b] = {}
    BY <2>1 DEF TypeOK
  <2>6. interceptor' = interceptor \/ interceptor' = [interceptor EXCEPT ![b] = FALSE]
    BY <2>1 DEF TypeOK
  <2>7. /\ entries[b] # {} => pending' = [pending EXCEPT ![b] = ~done]
        /\ entries[b] = {} => pending' \in {pending, [pending EXCEPT ![b] = FALSE]}
        /\ entries[b] = {} /\ ~done => pending' = pending
    BY <2>1 DEF TypeOK
  <2>8. contents' = contents \/ (done /\ entries'[b] = {})
    BY <2>1, <2>5
  <2> QED BY <2>1, <2>2, <2>3, <2>4, <2>5, <2>6, <2>7, <2>8, GiveBackKeepsInvariant
<1>7. ASSUME NEW b \in Backends, Destroy(b) PROVE BackendInv'
  <2>1. PICK done \in FlushResults(b) :
            /\ pending' = [pending EXCEPT ![b] = ~done /\ (@ \/ entries[b] # {})]
            /\ contents' = IF done THEN Deinit(b, contents) ELSE contents
            /\ retained' = (retained \/ ~done)
    BY <1>7 DEF Destroy
  <2>2. /\ GiveBack(b, entries[b]) /\ installing = None
        /\ entries' = [entries EXCEPT ![b] = {}]
        /\ interceptor' = [interceptor EXCEPT ![b] = FALSE]
        /\ UNCHANGED <<leases, installing, slot, holders>>
        /\ stopping' = [stopping EXCEPT ![b] = TRUE]
    BY <1>7 DEF Destroy
  <2>3. contents' \in [Slices -> Targets \cup {None}]
    BY <2>1 DEF Deinit, TypeOK
  <2>4. stopping' \in [Backends -> BOOLEAN] /\ retained' \in BOOLEAN
    BY <2>1, <2>2 DEF TypeOK
  <2>5. Unlocked(b)
    BY <2>2, BackendAssumption DEF Unlocked
  <2>6. entries' = [entries EXCEPT ![b] = @ \ entries[b]] /\ entries'[b] = {}
    BY <2>2 DEF TypeOK
  <2>7. /\ entries[b] # {} => pending' = [pending EXCEPT ![b] = ~done]
        /\ entries[b] = {} => pending' \in {pending, [pending EXCEPT ![b] = FALSE]}
        /\ entries[b] = {} /\ ~done => pending' = pending
    BY <2>1 DEF TypeOK, FlushResults
  <2>8. contents' = contents \/ (done /\ entries'[b] = {})
    BY <2>1, <2>6
  <2> QED BY <2>1, <2>2, <2>3, <2>4, <2>5, <2>6, <2>7, <2>8, GiveBackKeepsInvariant
<1>8. ASSUME NEW b \in Backends, NEW c \in Clients, Acquire(b, c) PROVE BackendInv'
  <2> USE <1>8 DEF Acquire, hoox
  <2>1. TypeOK'
    BY DEF TypeOK
  <2>2. LeasesCounted'
    <3>1. IsFiniteSet(holders[b])
      BY BackendAssumption, FS_Subset DEF TypeOK
    <3>2. Cardinality(holders[b] \cup {c}) = Cardinality(holders[b]) + 1
      BY <3>1, FS_AddElement
    <3> QED BY <3>2 DEF LeasesCounted, TypeOK
  <2>3. GuardedIsPending'
    BY DEF GuardedIsPending, TypeOK
  <2>4. ContextsMatchEntries'
    BY DEF ContextsMatchEntries
  <2> QED BY <2>1, <2>2, <2>3, <2>4
<1>9. ASSUME NEW b \in Backends, NEW c \in Clients, Release(b, c) PROVE BackendInv'
  <2> USE <1>9 DEF Release, hoox
  <2>1. TypeOK'
    BY DEF TypeOK
  <2>2. LeasesCounted'
    <3>1. IsFiniteSet(holders[b])
      BY BackendAssumption, FS_Subset DEF TypeOK
    <3>2. Cardinality(holders[b] \ {c}) = Cardinality(holders[b]) - 1
      BY <3>1, FS_RemoveElement
    <3> QED BY <3>2 DEF LeasesCounted, TypeOK
  <2>3. GuardedIsPending'
    BY DEF GuardedIsPending, TypeOK, OneBackend
  <2>4. ContextsMatchEntries'
    BY DEF ContextsMatchEntries
  <2> QED BY <2>1, <2>2, <2>3, <2>4
<1>10. CASE UNCHANGED vars
  BY <1>10 DEF vars, backend, hoox, callers, TypeOK, LeasesCounted, GuardedIsPending,
                ContextsMatchEntries
<1> QED BY <1>1, <1>2, <1>3, <1>4, <1>5, <1>6, <1>7, <1>8, <1>9, <1>10 DEF Next

\* The bytes of a slice do not change while a lease that was held at its revert is held.
LEMMA GuardedBytesStay ==
    ASSUME OneBackend, BackendInv, [Next]_vars, NEW s \in Slices, contents'[s] # contents[s]
    PROVE  guard[s] = {}
<1>1. ASSUME NEW b \in Backends, NEW x \in Targets, Accepts(b, x) PROVE guard[s] = {}
  BY <1>1 DEF Accepts, OneBackend, BackendInv, GuardedIsPending, TypeOK
<1>2. ASSUME NEW b \in Backends, NEW done \in FlushResults(b),
             contents' = IF done THEN Deinit(b, contents) ELSE contents
      PROVE  guard[s] = {}
  <2>1. done
    BY <1>2
  <2>2. TRUE \in FlushResults(b)
    BY <2>1 DEF FlushResults
  <2> QED BY <2>2, FlushedMeansUnguarded
<1>3. ASSUME NEW b \in Backends, NEW x \in Targets,
             Prepare(b, x) \/ Abandon(b, x) PROVE guard[s] = {}
  BY <1>1, <1>3 DEF Prepare, Abandon
<1>4. ASSUME NEW b \in Backends,
             Destroy(b) \/ \E done \in BOOLEAN : Shutdown(b, done) PROVE guard[s] = {}
  BY <1>2, <1>4 DEF Destroy, Shutdown
<1>5. CASE \E b \in Backends :
               \/ \E x \in Targets : Activate(b, x) \/ Uninstall(b, x)
               \/ Flush(b) \/ \E c \in Clients : Acquire(b, c) \/ Release(b, c)
  BY <1>5 DEF Activate, Uninstall, Flush, Acquire, Release, hoox
<1>6. CASE UNCHANGED vars
  BY <1>6 DEF vars, hoox
<1> QED BY <1>3, <1>4, <1>5, <1>6 DEF Next

\* What the lease of c keeps callable stays so as long as the lease is held.
LEMMA CallableStays ==
    ASSUME OneBackend, BackendInv, BackendInv', [Next]_vars, NEW b \in Backends, NEW x \in Targets,
           NEW s, NEW c \in Clients, c \in holders[b], c \in holders'[b], Callable(x, s, c)
    PROVE  Callable(x, s, c)'
<1>1. s \in Slices /\ contents[s] = x /\ (original[x] = s \/ c \in guard[s])
  BY DEF Callable
<1>2. s # None
  BY <1>1, BackendAssumption
<1>3. ASSUME original'[x] = s PROVE Callable(x, s, c)'
  BY <1>1, <1>2, <1>3 DEF Callable, BackendInv, ContextsMatchEntries
<1>4. ~(TRUE \in FlushResults(b))
  <2>1. IsFiniteSet(holders[b])
    BY BackendAssumption, FS_Subset DEF BackendInv, TypeOK
  <2>2. Cardinality(holders[b]) # 0
    BY <2>1, FS_EmptySet
  <2> QED BY <2>2 DEF BackendInv, LeasesCounted, FlushResults
<1>5. ASSUME original[x] = s, original'[x] # s PROVE Callable(x, s, c)'
  <2>1. ASSUME NEW X \in SUBSET Targets, GiveBack(b, X), contents' = contents PROVE Callable(x, s, c)'
    BY <1>1, <1>5, <2>1 DEF GiveBack, Callable, BackendInv, TypeOK
  <2>2. ASSUME NEW y \in Targets, Prepare(b, y) \/ Activate(b, y) \/ Abandon(b, y) PROVE FALSE
    BY <1>2, <1>5, <2>2 DEF Prepare, Activate, Abandon, BackendInv, TypeOK
  <2>3. ASSUME NEW y \in Targets, Uninstall(b, y) PROVE Callable(x, s, c)'
    BY <2>1, <2>3 DEF Uninstall
  <2>4. ASSUME Destroy(b) \/ \E done \in BOOLEAN : Shutdown(b, done) PROVE Callable(x, s, c)'
    <3>1. GiveBack(b, entries[b]) /\ entries[b] \in SUBSET Targets
      BY <2>4 DEF Destroy, Shutdown, BackendInv, TypeOK
    <3>2. contents' = contents
      BY <2>4, <1>4 DEF Destroy, Shutdown, FlushResults
    <3> QED BY <2>1, <3>1, <3>2
  <2>5. ASSUME Flush(b) \/ \E d \in Clients : Acquire(b, d) \/ Release(b, d) PROVE FALSE
    BY <1>5, <2>5 DEF Flush, Acquire, Release, hoox
  <2>6. CASE UNCHANGED vars
    BY <1>5, <2>6 DEF vars, hoox
  <2> QED BY <2>2, <2>3, <2>4, <2>5, <2>6 DEF Next, OneBackend
<1>6. ASSUME original[x] # s PROVE Callable(x, s, c)'
  <2>1. c \in guard[s] /\ s \in free
    BY <1>1, <1>6 DEF BackendInv, GuardedIsPending
  <2>2. contents'[s] = x
    BY <1>1, <2>1, GuardedBytesStay
  <2>3. \A y \in Targets : original[y] # s
    BY <1>2, <2>1 DEF BackendInv, ContextsMatchEntries
  <2>4. ASSUME NEW X \in SUBSET Targets, GiveBack(b, X) PROVE c \in guard'[s]
    BY <1>1, <2>1, <2>3, <2>4 DEF GiveBack
  <2>5. c \in guard'[s]
    <3>1. ASSUME NEW y \in Targets, Prepare(b, y) \/ Activate(b, y) \/ Abandon(b, y)
          PROVE  c \in guard'[s]
      BY <2>1, <3>1 DEF Prepare, Activate, Abandon, callers
    <3>2. ASSUME NEW y \in Targets, Uninstall(b, y) PROVE c \in guard'[s]
      BY <2>4, <3>2 DEF Uninstall
    <3>3. ASSUME Destroy(b) \/ \E done \in BOOLEAN : Shutdown(b, done) PROVE c \in guard'[s]
      BY <2>4, <3>3 DEF Destroy, Shutdown, BackendInv, TypeOK
    <3>4. ASSUME NEW d \in Clients, Release(b, d) PROVE c \in guard'[s]
      <4>1. d # c
        BY <3>4 DEF Release, BackendInv, TypeOK
      <4> QED BY <1>1, <2>1, <3>4, <4>1 DEF Release
    <3>5. ASSUME Flush(b) \/ \E d \in Clients : Acquire(b, d) PROVE c \in guard'[s]
      BY <2>1, <3>5 DEF Flush, Acquire, callers
    <3>6. CASE UNCHANGED vars
      BY <2>1, <3>6 DEF vars, callers
    <3> QED BY <3>1, <3>2, <3>3, <3>4, <3>5, <3>6 DEF Next, OneBackend
  <2> QED BY <1>1, <2>2, <2>5 DEF Callable
<1> QED BY <1>3, <1>5, <1>6

\* The same of the trampoline in the slot.
LEMMA SlotStaysCallable ==
    ASSUME OneBackend, BackendInv, BackendInv', [Next]_vars, NEW b \in Backends, NEW x \in Targets,
           NEW c \in Clients, c \in holders[b], c \in holders'[b], Callable(x, slot[x], c)
    PROVE  Callable(x, slot[x], c)'
<1>1. CASE slot'[x] = slot[x]
  BY <1>1, CallableStays DEF Callable
<1>2. CASE slot'[x] # slot[x]
  <2>1. original'[x] = slot'[x] /\ slot'[x] \in Slices
    <3>1. ASSUME NEW o \in Backends, NEW y \in Targets, Prepare(o, y)
          PROVE  original'[x] = slot'[x] /\ slot'[x] \in Slices
      BY <1>2, <3>1 DEF Prepare, BackendInv, TypeOK
    <3>2. ASSUME NEW o \in Backends, NEW y \in Targets,
                 Activate(o, y) \/ Abandon(o, y) \/ Uninstall(o, y) PROVE FALSE
      BY <1>2, <3>2 DEF Activate, Abandon, Uninstall, callers
    <3>3. ASSUME NEW o \in Backends,
                 \/ Flush(o) \/ Destroy(o) \/ \E done \in BOOLEAN : Shutdown(o, done)
                 \/ \E d \in Clients : Acquire(o, d) \/ Release(o, d) PROVE FALSE
      BY <1>2, <3>3 DEF Flush, Destroy, Shutdown, Acquire, Release, callers
    <3>4. CASE UNCHANGED vars
      BY <1>2, <3>4 DEF vars, callers
    <3> QED BY <3>1, <3>2, <3>3, <3>4 DEF Next
  <2> QED BY <2>1, BackendAssumption DEF Callable, BackendInv, ContextsMatchEntries
<1> QED BY <1>1, <1>2

\* The invariant of one backend: leases are counted, slices a lease holder may
\* still call are free and keep the teardown pending, and the entries of the
\* backend are the function contexts of Hoox.
THEOREM BackendInvariant == OneBackend => (Spec => []BackendInv)
<1> SUFFICES ASSUME OneBackend PROVE Spec => []BackendInv
  OBVIOUS
<1>1. Init => BackendInv
  BY BackendInit
<1>2. BackendInv /\ [Next]_vars => BackendInv'
  BY BackendStep
<1> QED BY <1>1, <1>2, PTL DEF Spec

\* A thread that takes the jump of a hooked function always finds the trampoline
\* of that function in the slot.
THEOREM OriginalsArePublished == OneBackend => (Spec => []PatchedTargetsHaveOriginal)
<1>1. BackendInv => PatchedTargetsHaveOriginal
  BY BackendAssumption
     DEF BackendInv, ContextsMatchEntries, TypeOK, PatchedTargetsHaveOriginal
<1> QED BY <1>1, BackendInvariant, PTL

\* While a lease held at the revert is held, nothing the backend does changes the
\* bytes of the reverted trampoline: it neither reuses the slice nor unmaps it.
THEOREM LeasesProtect == OneBackend => (Spec => LeaseKeepsTrampolines)
<1> SUFFICES ASSUME OneBackend PROVE Spec => LeaseKeepsTrampolines
  OBVIOUS
<1>2. BackendInv /\ [Next]_vars =>
          [\A s \in Slices : contents'[s] # contents[s] => guard[s] = {}]_vars
  BY GuardedBytesStay
<1>3. Spec => []BackendInv
  BY BackendInvariant
<1> QED BY <1>2, <1>3, PTL DEF Spec, LeaseKeepsTrampolines

============================================================================
