------------------------- MODULE GenerationTracker -------------------------
(***************************************************************************)
(* The analyzer's view of a trace: validate_event and GenerationTracker.   *)
(* Observe(g, r) is the tracker after wire record r; an exception (an      *)
(* EventValidationError or a GenerationStateError) sets rejected, after    *)
(* which nothing is observed.  The tracker g is                            *)
(*   allocations  id -> [address, size, heap]                              *)
(*   mappings     id -> [kind, address, size, live]                        *)
(*   seenAllocations, seenMappings, created, ended, orphans, rejected      *)
(* A VmFree without MEM_RELEASE has op VmDecommit, a call on the memory of *)
(* another process op Remote: they end nothing.                            *)
(***************************************************************************)
EXTENDS Naturals, Sequences, SequencesExt, FiniteSetsExt, IntervalSet, TLC

EmptyTracker == [allocations |-> <<>>, mappings |-> <<>>, seenAllocations |-> {},
                 seenMappings |-> {}, created |-> 0, ended |-> 0, orphans |-> 0,
                 rejected |-> FALSE]

Dropped(f, keys) == [k \in DOMAIN f \ keys |-> f[k]]
Reject(g) == [g EXCEPT !.rejected = TRUE]

CallSucceeded(r) == r.status # "failure"
Unclaimed(r) == r.status \in {"unmatched", "preexisting"}

\* validate_heap_create and validate_heap_destroy.
ValidHeapEvent(r) ==
    CASE r.op = "HeapCreate" -> /\ r.status \in {"success", "failure"}
                                /\ CallSucceeded(r) <=> r.heap # 0
      [] r.op = "HeapDestroy" -> /\ r.status = "success" => r.heap # 0
                                 /\ Unclaimed(r) => r.heap = 0

\* validate_allocation.
ValidAllocation(r) ==
    /\ r.status \in {"success", "failure"}
    /\ CallSucceeded(r) => r.base # 0 /\ r.id # 0
    /\ ~CallSucceeded(r) => r.base = 0 /\ r.id = 0

\* validate_reallocation.
ValidReallocation(r) ==
    /\ Unclaimed(r) => r.old = 0
    /\ ~CallSucceeded(r) => r.effect = "no_change"
    /\ r.effect \in {"no_change", "freed"} => r.base = 0 /\ r.id = 0
    /\ r.effect = "new_generation" => r.base # 0 /\ r.id # 0 /\ r.id # r.old
    /\ r.effect = "freed" => r.old # 0

\* validate_free.
ValidFree(r) == /\ r.status = "success" => r.old # 0
                /\ Unclaimed(r) => r.old = 0

\* validate_mapping_creation, for the current process.
ValidMappingCreation(r) ==
    /\ r.status \in {"success", "failure", "preexisting"}
    /\ CallSucceeded(r) <=> r.id # 0

\* validate_mapping_end, for the current process.
ValidMappingEnd(r) == /\ Unclaimed(r) => r.id = 0
                      /\ r.status = "success" => r.id # 0

\* validate_event: the dispatch on the payload.
ValidEvent(r) ==
    CASE r.op \in {"HeapCreate", "HeapDestroy"} -> ValidHeapEvent(r)
      [] r.op = "Allocate" -> ValidAllocation(r)
      [] r.op = "Reallocate" -> ValidReallocation(r)
      [] r.op = "Free" -> ValidFree(r)
      [] r.op \in {"VmAllocate", "Map"} -> ValidMappingCreation(r)
      [] r.op \in {"VmFree", "VmDecommit", "Unmap"} -> ValidMappingEnd(r)
      [] r.op = "Remote" -> r.id = 0

\* add_allocation with require_new_allocation_id: an id is used once per trace.
AddAllocation(g, id, generation) ==
    IF id = 0 \/ id \in g.seenAllocations THEN Reject(g)
    ELSE [g EXCEPT !.allocations = (id :> generation) @@ @,
                   !.seenAllocations = @ \cup {id}, !.created = @ + 1]

\* add_mapping with require_new_mapping_id.
AddMapping(g, id, generation) ==
    IF id = 0 \/ id \in g.seenMappings THEN Reject(g)
    ELSE [g EXCEPT !.mappings = (id :> generation) @@ @,
                   !.seenMappings = @ \cup {id}, !.created = @ + 1]

\* end_allocation: an unknown id is an orphan, a known id with another
\* address or heap is a contradiction.
EndAllocation(g, id, address, heap) ==
    LET a == g.allocations[id] IN
    CASE id \notin DOMAIN g.allocations -> [g EXCEPT !.orphans = @ + 1]
      [] id \in DOMAIN g.allocations
            /\ (a.address # address \/ (a.heap # 0 /\ heap # 0 /\ a.heap # heap)) -> Reject(g)
      [] OTHER -> [g EXCEPT !.allocations = Dropped(@, {id}), !.ended = @ + 1]

\* end_mapping.
EndMapping(g, id, address, kind) ==
    LET a == g.mappings[id] IN
    CASE id \notin DOMAIN g.mappings -> [g EXCEPT !.orphans = @ + 1]
      [] id \in DOMAIN g.mappings /\ (a.kind # kind \/ a.address # address) -> Reject(g)
      [] OTHER -> [g EXCEPT !.mappings = Dropped(@, {id}), !.ended = @ + 1]

\* observe_allocation.
ObserveAllocation(g, r) ==
    IF ~CallSucceeded(r) \/ r.id = 0 THEN g
    ELSE AddAllocation(g, r.id, [address |-> r.base, size |-> r.size, heap |-> r.heap])

\* observe_reallocation: the new id must be fresh before the old one ends.
ObserveReallocation(g, r) ==
    LET creates == CallSucceeded(r) /\ r.effect = "new_generation" /\ r.id # 0
        ends    == CallSucceeded(r) /\ r.old # 0 /\ r.effect \in {"new_generation", "freed"}
        after   == IF ends THEN EndAllocation(g, r.old, r.oldBase, r.heap) ELSE g
    IN  CASE creates /\ r.id \in g.seenAllocations -> Reject(g)
          [] ~creates \/ after.rejected -> after
          [] OTHER -> AddAllocation(after, r.id,
                          [address |-> r.base, size |-> r.size, heap |-> r.heap])

\* observe_free.
ObserveFree(g, r) ==
    IF ~CallSucceeded(r) \/ r.old = 0 THEN g
    ELSE EndAllocation(g, r.old, r.oldBase, r.heap)

\* observe_heap_destroy: every live allocation of the heap ends.
ObserveHeapDestroy(g, r) ==
    LET gone == {id \in DOMAIN g.allocations : g.allocations[id].heap = r.heap} IN
    IF ~CallSucceeded(r) \/ r.heap = 0 THEN g
    ELSE [g EXCEPT !.allocations = Dropped(@, gone), !.ended = @ + Cardinality(gone)]

\* The end of the contiguous run of fragments from base.
LiveRunEnd(live, base) ==
    Max({f.end : f \in {h \in Range(live) :
            /\ h.end > base
            /\ \A x \in base .. h.end - 1 : Find(live, x) # {}}})

\* observe_vm_allocate on a known id: a resize of the run that starts at the
\* base, or a commit update inside a fragment, which changes nothing.
ResizeMapping(g, r) ==
    LET state == g.mappings[r.id]
        at    == Find(state.live, r.base)
        f     == CHOOSE h \in at : TRUE
        run   == LiveRunEnd(state.live, r.base)
        end   == r.base + r.size
        live  == IF end > run THEN Insert(state.live, [begin |-> run, end |-> end])
                 ELSE Subtract(state.live, end, run)
        resized == [g EXCEPT !.mappings[r.id].live = live,
                             !.mappings[r.id].size = TotalBytes(live)]
    IN  CASE state.kind # "virtual" \/ r.base < state.address \/ at = {} -> Reject(g)
          [] at # {} /\ f.begin # r.base /\ r.size > f.end - r.base -> Reject(g)
          [] at # {} /\ f.begin # r.base /\ r.size <= f.end - r.base -> g
          [] OTHER -> resized

NewMapping(r, kind) ==
    [kind |-> kind, address |-> r.base, size |-> r.size,
     live |-> Insert(<<>>, [begin |-> r.base, end |-> r.base + r.size])]

\* observe_vm_allocate.
ObserveVmAllocate(g, r) ==
    CASE ~CallSucceeded(r) \/ r.id = 0 -> g
      [] CallSucceeded(r) /\ r.id \in DOMAIN g.mappings -> ResizeMapping(g, r)
      [] OTHER -> AddMapping(g, r.id, NewMapping(r, "virtual"))

\* observe_vm_free: size 0 is the whole-region release; a ranged release that
\* meets no live fragment is a double end.
ObserveVmFree(g, r) ==
    LET state == g.mappings[r.id]
        live  == Subtract(state.live, r.base, r.base + r.size)
        known == r.id \in DOMAIN g.mappings
        ended == [g EXCEPT !.mappings = Dropped(@, {r.id}), !.ended = @ + 1]
    IN  CASE ~CallSucceeded(r) \/ r.id = 0 -> g
          [] CallSucceeded(r) /\ r.id # 0 /\ ~known -> [g EXCEPT !.orphans = @ + 1]
          [] known /\ r.size = 0 ->
                 IF state.kind = "virtual" /\ r.base = state.address THEN ended ELSE Reject(g)
          [] known /\ r.size # 0 /\ Intersections(state.live, r.base, r.base + r.size) = <<>> ->
                 Reject(g)
          [] known /\ r.size # 0 /\ live = <<>> -> ended
          [] OTHER -> [g EXCEPT !.mappings[r.id].live = live,
                                !.mappings[r.id].size = TotalBytes(live)]

\* observe_map and observe_unmap.
ObserveMap(g, r) ==
    IF ~CallSucceeded(r) \/ r.id = 0 THEN g ELSE AddMapping(g, r.id, NewMapping(r, "view"))

ObserveUnmap(g, r) ==
    IF ~CallSucceeded(r) \/ r.id = 0 THEN g ELSE EndMapping(g, r.id, r.base, "view")

\* GenerationTracker::observe.
Observe(g, r) ==
    CASE g.rejected -> g
      [] ~g.rejected /\ ~ValidEvent(r) -> Reject(g)
      [] ~g.rejected /\ ValidEvent(r) ->
         CASE r.op = "HeapCreate"  -> g
           [] r.op = "HeapDestroy" -> ObserveHeapDestroy(g, r)
           [] r.op = "Allocate"    -> ObserveAllocation(g, r)
           [] r.op = "Reallocate"  -> ObserveReallocation(g, r)
           [] r.op = "Free"        -> ObserveFree(g, r)
           [] r.op = "VmAllocate"  -> ObserveVmAllocate(g, r)
           [] r.op = "VmFree"      -> ObserveVmFree(g, r)
           [] r.op \in {"VmDecommit", "Remote"} -> g
           [] r.op = "Map"         -> ObserveMap(g, r)
           [] r.op = "Unmap"       -> ObserveUnmap(g, r)
============================================================================
