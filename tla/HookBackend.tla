---------------------------- MODULE HookBackend ----------------------------
(***************************************************************************)
(* HookBackend (agent/hook_backend.cpp): installs and reverts direct       *)
(* replacements through Hoox, and keeps Hoox from reusing the memory of a  *)
(* trampoline that a replacement may still call.                           *)
(*                                                                         *)
(* Hoox is modelled by what it does to trampoline slices.  A reverted FAST *)
(* replacement has no usage count, so its slice returns to the allocator's *)
(* free list at once, with its bytes intact; a later installation may take *)
(* the slice and overwrite it, and the last hoox_deinit unmaps them all.   *)
(* What protects a replacement is therefore only that the backend refuses  *)
(* to install, and to deinitialise, while the teardown is pending.         *)
(*                                                                         *)
(* Several backends may exist: the interceptor is a process singleton.     *)
(* Every method runs under the backend's mutex and is one action; an       *)
(* installation is two, because other threads run while its transaction is *)
(* open.  Definitions named Operation_Fault are faulty variants that no    *)
(* specification uses.                                                     *)
(***************************************************************************)
EXTENDS Naturals, FiniteSets

CONSTANTS
    Backends,   \* HookBackend objects of the process
    Targets,    \* functions that may be hooked
    Slices,     \* trampoline slices of Hoox's code allocator
    Clients,    \* replacements' owners, each holding at most one lease
    None        \* no slice, no target, no installation

ASSUME BackendAssumption ==
    /\ IsFiniteSet(Clients)
    /\ None \notin Targets \cup Slices \cup (Backends \X Targets)

VARIABLES
    \* each backend
    interceptor,   \* interceptor_ is not null
    stopping, leases, pending,
    entries,       \* the targets in entries_
    installing,    \* <<backend, target>> of the open transaction, or None
    \* Hoox
    jump,          \* targets whose first instruction jumps to the replacement
    original,      \* target -> slice of its function context
    contents,      \* slice -> the target whose prologue its bytes hold
    free,          \* slices on the allocator's free list
    retained,      \* a destroyed backend kept its references
    \* the callers'
    slot,          \* target -> slice in the OriginalTrampolineSlot
    holders,       \* backend -> clients holding a lease
    guard          \* history: the clients that held a lease when the slice was
                   \* given back, and still hold it

backend == <<interceptor, stopping, leases, pending, entries, installing>>
hoox    == <<jump, original, contents, free, retained>>
callers == <<slot, holders, guard>>
vars    == <<backend, hoox, callers>>

Init ==
    /\ interceptor = [b \in Backends |-> TRUE]
    /\ stopping = [b \in Backends |-> FALSE]
    /\ leases = [b \in Backends |-> 0]
    /\ pending = [b \in Backends |-> FALSE]
    /\ entries = [b \in Backends |-> {}]
    /\ installing = None
    /\ jump = {}
    /\ original = [x \in Targets |-> None]
    /\ contents = [s \in Slices |-> None]
    /\ free = Slices
    /\ retained = FALSE
    /\ slot = [x \in Targets |-> None]
    /\ holders = [b \in Backends |-> {}]
    /\ guard = [s \in Slices |-> {}]

----------------------------------------------------------------------------
(* Hoox. *)

\* The mutex of b is free.
Unlocked(b) == \A x \in Targets : installing # <<b, x>>

\* replace_fast: a function context and a trampoline written into a slice.
Write(x, s) ==
    /\ s \in free
    /\ contents' = [contents EXCEPT ![s] = x]

\* revert: the jump is gone and the slices are back on the free list.
GiveBack(b, X) ==
    /\ jump' = jump \ X
    /\ free' = free \cup {original[x] : x \in X}
    /\ original' = [x \in Targets |-> IF x \in X THEN None ELSE original[x]]
    /\ guard' = [s \in Slices |->
                    IF \E x \in X : original[x] = s THEN holders[b] ELSE guard[s]]

\* The last reference unmaps every slice.
Deinit(b, c) ==
    IF retained \/ \E o \in Backends \ {b} : interceptor[o] THEN c
    ELSE [s \in Slices |-> None]

----------------------------------------------------------------------------
(* Installation. *)

FlushResults_NoLease(b) == BOOLEAN

\* flush_locked: the deadline may pass before, during or after an attempt, so the
\* result is one of these.
FlushResults(b) == IF leases[b] = 0 THEN BOOLEAN ELSE {FALSE}

Accepts_WhilePending(b, x) == interceptor[b] /\ ~stopping[b] /\ x \notin entries[b]

Accepts(b, x) == interceptor[b] /\ ~stopping[b] /\ ~pending[b] /\ x \notin entries[b]

Prepare_NoSlot(b, x) ==
    /\ installing = None /\ Accepts(b, x)
    /\ original[x] = None
    /\ \E s \in Slices :
           /\ Write(x, s)
           /\ free' = free \ {s}
           /\ original' = [original EXCEPT ![x] = s]
    /\ entries' = [entries EXCEPT ![b] = @ \cup {x}]
    /\ installing' = <<b, x>>
    /\ UNCHANGED <<interceptor, stopping, leases, pending, jump, retained,
                   slot, holders, guard>>

\* install_with_policy up to the end of the transaction.  Hoox refuses a target
\* some backend has replaced, and returns without a change.
Prepare(b, x) ==
    /\ installing = None /\ Accepts(b, x)
    /\ original[x] = None
    /\ \E s \in Slices :
           /\ Write(x, s)
           /\ free' = free \ {s}
           /\ original' = [original EXCEPT ![x] = s]
           /\ slot' = [slot EXCEPT ![x] = s]
    /\ entries' = [entries EXCEPT ![b] = @ \cup {x}]
    /\ installing' = <<b, x>>
    /\ UNCHANGED <<interceptor, stopping, leases, pending, jump, retained,
                   holders, guard>>

\* end_transaction writes the jump.
Activate(b, x) ==
    /\ installing = <<b, x>>
    /\ jump' = jump \cup {x}
    /\ installing' = None
    /\ UNCHANGED <<interceptor, stopping, leases, pending, entries, original,
                   contents, free, retained, callers>>

\* No original, or no memory for the entry: the trampoline has been written, is
\* reverted in the same transaction, so that no thread has seen it, and a flush
\* follows.
Abandon(b, x) ==
    /\ installing = None /\ Accepts(b, x)
    /\ original[x] = None
    /\ \E s \in Slices : Write(x, s)
    /\ \E done \in FlushResults(b) : pending' = [pending EXCEPT ![b] = ~done]
    /\ UNCHANGED <<interceptor, stopping, leases, entries, installing, jump,
                   original, free, retained, callers>>

----------------------------------------------------------------------------
(* Teardown. *)

Uninstall(b, x) ==
    /\ Unlocked(b) /\ interceptor[b] /\ ~stopping[b] /\ x \in entries[b]
    /\ GiveBack(b, {x})
    /\ entries' = [entries EXCEPT ![b] = @ \ {x}]
    /\ \E done \in FlushResults(b) : pending' = [pending EXCEPT ![b] = ~done]
    /\ UNCHANGED <<interceptor, stopping, leases, installing, contents, retained,
                   slot, holders>>

Flush(b) ==
    /\ Unlocked(b) /\ interceptor[b]
    /\ TRUE \in FlushResults(b)
    /\ pending' = [pending EXCEPT ![b] = FALSE]
    /\ UNCHANGED <<interceptor, stopping, leases, entries, installing, hoox, callers>>

\* shutdown_locked.  The transaction it opens needs the process-wide mutex.
Shutdown(b, done) ==
    /\ installing = None /\ interceptor[b]
    /\ stopping' = [stopping EXCEPT ![b] = TRUE]
    /\ GiveBack(b, entries[b])
    /\ entries' = [entries EXCEPT ![b] = {}]
    /\ done \in FlushResults(b)
    /\ pending' = [pending EXCEPT ![b] = ~done /\ (@ \/ entries[b] # {})]
    /\ interceptor' = [interceptor EXCEPT ![b] = ~done]
    /\ contents' = IF done THEN Deinit(b, contents) ELSE contents
    /\ UNCHANGED <<leases, installing, slot, holders, retained>>

\* ~Impl: when the shutdown fails the references are forgotten, not dropped.
Destroy(b) ==
    /\ installing = None /\ interceptor[b]
    /\ stopping' = [stopping EXCEPT ![b] = TRUE]
    /\ GiveBack(b, entries[b])
    /\ entries' = [entries EXCEPT ![b] = {}]
    /\ \E done \in FlushResults(b) :
           /\ pending' = [pending EXCEPT ![b] = ~done /\ (@ \/ entries[b] # {})]
           /\ contents' = IF done THEN Deinit(b, contents) ELSE contents
           /\ retained' = (retained \/ ~done)
    /\ interceptor' = [interceptor EXCEPT ![b] = FALSE]
    /\ UNCHANGED <<leases, installing, slot, holders>>

Acquire(b, c) ==
    /\ Unlocked(b) /\ interceptor[b] /\ ~stopping[b]
    /\ \A o \in Backends : c \notin holders[o]
    /\ leases' = [leases EXCEPT ![b] = @ + 1]
    /\ holders' = [holders EXCEPT ![b] = @ \cup {c}]
    /\ UNCHANGED <<interceptor, stopping, pending, entries, installing, hoox,
                   slot, guard>>

\* A client releases once; a second release finds no lease and terminates.
Release(b, c) ==
    /\ Unlocked(b) /\ c \in holders[b] /\ leases[b] > 0
    /\ leases' = [leases EXCEPT ![b] = @ - 1]
    /\ holders' = [holders EXCEPT ![b] = @ \ {c}]
    /\ guard' = [s \in Slices |-> guard[s] \ {c}]
    /\ UNCHANGED <<interceptor, stopping, pending, entries, installing, hoox, slot>>

----------------------------------------------------------------------------

Next ==
    \E b \in Backends :
        \/ \E x \in Targets : Prepare(b, x) \/ Activate(b, x) \/ Abandon(b, x)
                             \/ Uninstall(b, x)
        \/ Flush(b) \/ Destroy(b)
        \/ \E done \in BOOLEAN : Shutdown(b, done)
        \/ \E c \in Clients : Acquire(b, c) \/ Release(b, c)

Spec == Init /\ [][Next]_vars

TypeOK ==
    /\ interceptor \in [Backends -> BOOLEAN]
    /\ stopping \in [Backends -> BOOLEAN]
    /\ leases \in [Backends -> Nat]
    /\ pending \in [Backends -> BOOLEAN]
    /\ entries \in [Backends -> SUBSET Targets]
    /\ installing \in (Backends \X Targets) \cup {None}
    /\ jump \subseteq Targets
    /\ original \in [Targets -> Slices \cup {None}]
    /\ contents \in [Slices -> Targets \cup {None}]
    /\ free \subseteq Slices
    /\ retained \in BOOLEAN
    /\ slot \in [Targets -> Slices \cup {None}]
    /\ holders \in [Backends -> SUBSET Clients]
    /\ guard \in [Slices -> SUBSET Clients]

\* A thread that takes the jump finds the original: the slot has been stored
\* before Hoox activates the replacement (hook_backend.cpp, install_with_policy),
\* and holds the trampoline of this very target.
PatchedTargetsHaveOriginal ==
    \A x \in jump : slot[x] \in Slices /\ contents[slot[x]] = x

\* A replacement paused before it enters its trampoline keeps the trampoline as
\* long as its owner keeps the lease it held at the revert ("While a lease is
\* held, revert is allowed but flush/deinit must retain the trampoline",
\* hook_backend.hpp), whatever is installed, flushed or shut down meanwhile.
LeaseKeepsTrampolines ==
    [][\A s \in Slices : contents'[s] # contents[s] => guard[s] = {}]_vars

\* The lease of c, as long as it is held, keeps the trampoline of x in the slice s.
Callable(x, s, c) == s \in Slices /\ contents[s] = x /\ (original[x] = s \/ c \in guard[s])

----------------------------------------------------------------------------
(* The inductive invariant. *)

\* Each lease is counted once.
LeasesCounted == \A b \in Backends : leases[b] = Cardinality(holders[b])

\* A slice that some lease holder may still call has been given back by this
\* holder's backend, and the teardown of that backend is pending.
GuardedIsPending ==
    \A s \in Slices : \A c \in guard[s] :
        /\ s \in free
        /\ \E b \in Backends : c \in holders[b] /\ pending[b]

\* The function contexts of Hoox and the entries of the backends agree.
ContextsMatchEntries ==
    /\ \A x \in Targets : original[x] # None <=> \E b \in Backends : x \in entries[b]
    /\ \A x \in Targets : original[x] # None =>
           original[x] \notin free /\ contents[original[x]] = x /\ slot[x] = original[x]
    /\ \A x, y \in Targets : original[x] = original[y] /\ original[x] # None => x = y
    /\ \A b, o \in Backends : b # o => entries[b] \cap entries[o] = {}
    /\ \A b \in Backends : ~interceptor[b] => entries[b] = {}
    /\ \A x \in jump : original[x] # None
    /\ \A b \in Backends, x \in Targets :
           installing = <<b, x>> => x \in entries[b] /\ interceptor[b]

BackendInv ==
    /\ TypeOK /\ LeasesCounted /\ GuardedIsPending /\ ContextsMatchEntries

============================================================================
