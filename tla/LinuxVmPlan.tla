---------------------------- MODULE LinuxVmPlan ----------------------------
(***************************************************************************)
(* How the Linux writer turns one raw event into wire records: the VM      *)
(* interval model (docs/TRACE_WRITER.md 8.1) and the address-keyed heap    *)
(* model.  A plan is a record with the model m after the event and the     *)
(* sequence out of wire records.  The model m is                           *)
(*   space  live_mapping_space_: fragments with owner id and sequence seq  *)
(*   gens   live_generations_:   id -> [base, live, last, section]         *)
(*   heap   live_allocations_:   address -> allocation id                  *)
(*   nextMapping, nextAllocation, nextCustom                               *)
(* A raw event has op, api, ok, code (operation_result), address, size     *)
(* (requested_size), count (the new size of mremap), result, section and   *)
(* seq (completion_sequence).                                              *)
(***************************************************************************)
EXTENDS Naturals, Sequences, SequencesExt, FiniteSetsExt, IntervalSet, TLC

CONSTANT PreexistingUnknown   \* CaptureScope::preexisting_allocations_unknown

ASSUME PreexistingAssumption == PreexistingUnknown \in BOOLEAN

EmptyModel == [space |-> <<>>, gens |-> <<>>, heap |-> <<>>,
               nextMapping |-> 1, nextAllocation |-> 1, nextCustom |-> 1]

Without(f, key) == [k \in DOMAIN f \ {key} |-> f[k]]
With(f, key, value) == (key :> value) @@ f

\* unmatched_status(); a null address never predates the capture.
UnmatchedStatus(address) ==
    IF address # 0 /\ PreexistingUnknown THEN "preexisting" ELSE "unmatched"

VmFree(id, base, size) ==
    [op |-> "VmFree", id |-> id, base |-> base, size |-> size, status |-> "success"]

VmAllocate(id, base, size, status) ==
    [op |-> "VmAllocate", id |-> id, base |-> base, size |-> size, status |-> status]

MapView(id, base, size, status) ==
    [op |-> "Map", id |-> id, base |-> base, size |-> size, status |-> status]

\* A plan grows by one wire record.
Emit(p, record) == [p EXCEPT !.out = Append(@, record)]

\* The pieces of an intersection list split into maximal runs of one generation.
GroupStarts(pieces) ==
    {i \in DOMAIN pieces : i = 1 \/ pieces[i].id # pieces[i - 1].id}

GroupAt(pieces, i) ==
    SubSeq(pieces, i, Min({j \in GroupStarts(pieces) : j > i} \cup {Len(pieces) + 1}) - 1)

\* One VmFree for each run of adjacent matched pieces of a group; a newer
\* (skipped) piece breaks the run.
RunRecords(group, seq) ==
    LET matched(i) == group[i].seq < seq
        starts == {i \in DOMAIN group :
                       /\ matched(i)
                       /\ i > 1 => ~matched(i - 1) \/ group[i - 1].end # group[i].begin}
        stop(i) == Min({j \in DOMAIN group : j >= i /\ (j + 1 \notin DOMAIN group
                                   \/ j + 1 \in starts \/ ~matched(j + 1))})
        free(i) == VmFree(group[i].id, group[i].begin, group[stop(i)].end - group[i].begin)
    IN  [k \in 1 .. Cardinality(starts) |-> free(SetToSortSeq(starts, <)[k])]

\* The body of the loop of plan_subtract for one group: the pieces older than
\* the syscall leave the model; a file-backed generation removed in full ends
\* with one Unmap.
SubtractGroup(p, group, seq) ==
    LET old   == SelectSeq(group, LAMBDA f : f.seq < seq)
        bytes == TotalBytes(old)
        id    == group[1].id
        gen   == p.m.gens[id]
        whole == gen.section /\ bytes = gen.live
        records == IF whole
                   THEN <<[op |-> "Unmap", id |-> id, base |-> gen.base, size |-> 0,
                           status |-> "success"]>>
                   ELSE RunRecords(group, seq)
    IN  IF bytes = 0 THEN p
        ELSE [m |-> [p.m EXCEPT
                 !.space = FoldLeft(LAMBDA s, f : Subtract(s, f.begin, f.end), @, old),
                 !.gens  = IF gen.live = bytes THEN Without(@, id)
                           ELSE [@ EXCEPT ![id].live = @ - bytes]],
              out |-> p.out \o records]

PlanSubtract_QueueOrder(p, begin, end, seq) ==
    LET pieces == Intersections(p.m.space, begin, end)
        starts == SetToSortSeq(GroupStarts(pieces), <)
    IN  FoldLeft(LAMBDA q, i : SubtractGroup(q, GroupAt(pieces, i), 1000), p, starts)

\* plan_subtract(): release what older syscalls left in [begin, end).
PlanSubtract(p, begin, end, seq) ==
    LET pieces == Intersections(p.m.space, begin, end)
        starts == SetToSortSeq(GroupStarts(pieces), <)
    IN  FoldLeft(LAMBDA q, i : SubtractGroup(q, GroupAt(pieces, i), seq), p, starts)

\* The stale portions of a create: pieces produced by syscalls that completed
\* after it.
Stale(m, begin, end, seq) ==
    SelectSeq(Intersections(m.space, begin, end), LAMBDA f : f.seq >= seq)

\* plan_create_space(): evict the older pieces, then own the gaps between the
\* stale ones.
PlanCreateSpace(p, begin, end, seq, id) ==
    LET evicted == PlanSubtract(p, begin, end, seq)
        stale   == Stale(p.m, begin, end, seq)
        gap(i)  == [begin |-> IF i = 1 THEN begin ELSE stale[i - 1].end,
                    end   |-> IF i > Len(stale) THEN end ELSE stale[i].begin,
                    id |-> id, seq |-> seq]
        gaps    == [i \in 1 .. Len(stale) + 1 |-> gap(i)]
    IN  [evicted EXCEPT !.m.space = FoldLeft(Insert, @, gaps)]

\* The bytes the create really owns.
OwnedBytes(p, begin, end, seq) ==
    (end - begin) - TotalBytes(Stale(p.m, begin, end, seq))

TrimRecords_None(p, id, stale) == p

\* append_trim_records(): give the stale portions back, on behalf of the new owner.
TrimRecords(p, id, stale) ==
    FoldLeft(LAMBDA q, f : Emit(q, VmFree(id, f.begin, f.end - f.begin)), p, stale)

\* track_generation(): a stillborn generation is not tracked.
TrackGeneration(p, id, base, owned, seq, section) ==
    IF owned = 0 THEN p
    ELSE [p EXCEPT !.m.gens =
              With(@, id, [base |-> base, live |-> owned, last |-> seq, section |-> section])]

\* A create of [base, base + size): next_mapping_id, plan_create_space, the
\* create record, track_generation, append_trim_records.
PlanCreate(p, base, size, seq, section, status) ==
    LET id     == p.m.nextMapping
        stale  == Stale(p.m, base, base + size, seq)
        owned  == OwnedBytes(p, base, base + size, seq)
        space  == PlanCreateSpace([p EXCEPT !.m.nextMapping = @ + 1],
                                  base, base + size, seq, id)
        record == IF section THEN MapView(id, base, size, status)
                             ELSE VmAllocate(id, base, size, status)
    IN  TrimRecords(TrackGeneration(Emit(space, record), id, base, owned, seq, section),
                    id, stale)

PlanMmapAnonymous(p, e) == PlanCreate(p, e.result, e.size, e.seq, FALSE, "success")

PlanMmapSection(p, e) == PlanCreate(p, e.result, e.size, e.seq, TRUE, "success")

\* make_unmatched_free_record().
UnmatchedFree(base, size) == [VmFree(0, base, size) EXCEPT !.status = UnmatchedStatus(base)]

\* plan_munmap(): nothing matched keeps one unmatched record.
PlanMunmap(p, e) ==
    LET q == PlanSubtract(p, e.address, e.address + e.size, e.seq)
    IN  IF q.out = p.out THEN Emit(q, UnmatchedFree(e.address, e.size)) ELSE q

\* The end of the contiguous run of one generation's fragments that starts at base.
RunEnd(space, id, base) ==
    LET ends == {f.end : f \in {g \in Range(space) : g.id = id}}
        covered(b, e) == \A x \in b .. e - 1 : \E f \in Find(space, x) : f.id = id
    IN  Max({e \in ends : e > base /\ covered(base, e)})

\* plan_mremap_resize(): a stale resize reports the current extent; a grow
\* extends with eviction; a shrink drops the tail of the run silently and
\* releases the rest of the old range with records.
PlanMremapResize(p, e, id) ==
    LET base == e.address
        run  == RunEnd(p.m.space, id, base)
        fresh == [p EXCEPT !.m.gens[id].last = e.seq]
        grown == PlanCreateSpace(fresh, run, base + e.count, e.seq, id)
        owned == OwnedBytes(p, run, base + e.count, e.seq)
        stale == Stale(p.m, run, base + e.count, e.seq)
        cut  == [fresh EXCEPT !.m.space = Subtract(@, base + e.count, run),
                              !.m.gens[id].live = @ - (run - (base + e.count))]
        tail == IF base + e.size > run
                THEN PlanSubtract(cut, run, base + e.size, e.seq) ELSE cut
    IN  CASE e.seq <= p.m.gens[id].last -> Emit(p, VmAllocate(id, base, run - base, "success"))
          [] e.seq > p.m.gens[id].last /\ base + e.count > run ->
                 TrimRecords(Emit([grown EXCEPT !.m.gens[id].live = @ + owned],
                                  VmAllocate(id, base, e.count, "success")), id, stale)
          [] e.seq > p.m.gens[id].last /\ base + e.count < run ->
                 Emit(tail, VmAllocate(id, base, e.count, "success"))
          [] OTHER -> Emit(fresh, VmAllocate(id, base, e.count, "success"))

\* The status of a create whose source range the capture never saw.
BlindStatus == IF PreexistingUnknown THEN "preexisting" ELSE "success"

\* plan_mremap_pair(): a move, or any remap of a file view, frees and creates.
PlanMremapPair(p, e, section) ==
    LET freed   == PlanSubtract(p, e.address, e.address + e.size, e.seq)
        tracked == freed.out # p.out
        half    == IF tracked THEN freed ELSE Emit(freed, UnmatchedFree(e.address, e.size))
    IN  PlanCreate(half, e.result, e.count, e.seq, section,
                   IF tracked THEN "success" ELSE BlindStatus)

\* plan_mremap_adopt(): an untracked source becomes a fresh generation.
PlanMremapAdopt(p, e) == PlanCreate(p, e.result, e.count, e.seq, FALSE, BlindStatus)

\* plan_mremap().
PlanMremap(p, e) ==
    LET at == Find(p.m.space, e.address)
        f  == CHOOSE g \in at : TRUE
    IN  CASE at # {} /\ p.m.gens[f.id].section -> PlanMremapPair(p, e, TRUE)
          [] (at = {} \/ ~p.m.gens[f.id].section) /\ e.result # e.address ->
                 PlanMremapPair(p, e, FALSE)
          [] at # {} /\ ~p.m.gens[f.id].section /\ e.result = e.address
                /\ f.begin = e.address -> PlanMremapResize(p, e, f.id)
          [] OTHER -> PlanMremapAdopt(p, e)

\* plan_vm_event(): a failed call changes no generation and keeps one record.
PlanVmEvent(p, e) ==
    CASE ~e.ok /\ e.op = "munmap" ->
             Emit(p, [VmFree(0, e.address, e.size) EXCEPT !.status = "failure"])
      [] ~e.ok /\ e.op = "mmap" /\ e.section -> Emit(p, MapView(0, 0, 0, "failure"))
      [] ~e.ok /\ ~(e.op = "munmap" \/ (e.op = "mmap" /\ e.section)) ->
             Emit(p, VmAllocate(0, 0, 0, "failure"))
      [] e.ok /\ e.op = "mmap" /\ e.section -> PlanMmapSection(p, e)
      [] e.ok /\ e.op = "mmap" /\ ~e.section -> PlanMmapAnonymous(p, e)
      [] e.ok /\ e.op = "munmap" -> PlanMunmap(p, e)
      [] e.ok /\ e.op = "mremap" -> PlanMremap(p, e)

----------------------------------------------------------------------------
HeapRecord(op, e, old, new, status) ==
    [op |-> op, id |-> new, old |-> old, heap |-> 0, base |-> e.result, oldBase |-> e.address,
     size |-> e.size, status |-> status,
     effect |-> CASE op # "Reallocate" \/ (new = 0 /\ old = 0) \/ ~e.ok -> "no_change"
                  [] op = "Reallocate" /\ new # 0 -> "new_generation"
                  [] OTHER -> "freed"]

\* make_allocation_id(): a custom hook point has an id space of its own.
CustomIdBase == 1000
NextId(m, api) == IF api = "custom" THEN CustomIdBase + m.nextCustom ELSE m.nextAllocation
NewAllocation(m, api, address) ==
    [m EXCEPT !.heap = With(@, address, NextId(m, api)),
              !.nextAllocation = IF api = "custom" THEN @ ELSE @ + 1,
              !.nextCustom     = IF api = "custom" THEN @ + 1 ELSE @]

\* process_event() on an allocation: the new id takes over the address.
PlanAllocate(p, e) ==
    IF e.ok THEN Emit([p EXCEPT !.m = NewAllocation(@, e.api, e.result)],
                      HeapRecord("Allocate", e, 0, NextId(p.m, e.api), "success"))
    ELSE Emit(p, HeapRecord("Allocate", e, 0, 0, "failure"))

PlanReallocate_KeepsOld(p, e) ==
    IF ~e.ok THEN Emit(p, HeapRecord("Reallocate", e, 0, 0, "failure"))
    ELSE IF e.result = 0
    THEN Emit(p, HeapRecord("Reallocate", e, 0, 0, UnmatchedStatus(e.address)))
    ELSE Emit([p EXCEPT !.m = NewAllocation(@, e.api, e.result)],
              HeapRecord("Reallocate", e, 0, NextId(p.m, e.api), UnmatchedStatus(e.address)))

\* process_event() on a reallocation.
PlanReallocate(p, e) ==
    LET known == e.address # 0 /\ e.address \in DOMAIN p.m.heap
        old   == IF known THEN p.m.heap[e.address] ELSE 0
        gone  == IF known THEN [p.m EXCEPT !.heap = Without(@, e.address)] ELSE p.m
    IN  CASE ~e.ok -> Emit(p, HeapRecord("Reallocate", e, old, 0, "failure"))
          [] e.ok /\ e.result = 0 ->
                 Emit([p EXCEPT !.m = gone],
                      HeapRecord("Reallocate", e, old, 0,
                                 IF known THEN "success" ELSE UnmatchedStatus(e.address)))
          [] e.ok /\ e.result # 0 ->
                 Emit([p EXCEPT !.m = NewAllocation(gone, e.api, e.result)],
                      HeapRecord("Reallocate", e, old, NextId(p.m, e.api),
                                 IF known THEN "success" ELSE UnmatchedStatus(e.address)))

\* process_event() on a free: the event names an address, the record an id.
PlanFree(p, e) ==
    LET known == e.address \in DOMAIN p.m.heap IN
    IF known THEN Emit([p EXCEPT !.m.heap = Without(@, e.address)],
                       HeapRecord("Free", e, p.m.heap[e.address], 0, "success"))
    ELSE Emit(p, HeapRecord("Free", e, 0, 0, UnmatchedStatus(e.address)))

\* validate_raw_event(): what process_event() accepts.  (The address sums cannot
\* overflow here; the contiguous queue sequence is the queue's own property.)
ValidRawEvent(e) ==
    /\ e.ok <=> e.code = 0
    /\ e.api = "custom" => e.op \in {"malloc", "realloc", "free"}
    /\ CASE e.op = "malloc"  -> e.address = 0 /\ (e.ok <=> e.result # 0)
         [] e.op = "realloc" -> IF e.ok THEN e.result # 0 \/ e.address # 0 ELSE e.result = 0
         [] e.op = "free"    -> e.size = 0 /\ e.count = 0 /\ e.result = 0
         [] e.op = "mmap"    -> /\ e.address = 0 /\ e.count = 0 /\ (e.ok <=> e.result # 0)
                                /\ e.ok => e.size > 0
         [] e.op = "munmap"  -> /\ e.count = 0 /\ e.result = 0
                                /\ e.ok => e.address # 0 /\ e.size > 0
         [] e.op = "mremap"  -> /\ e.ok <=> e.result # 0
                                /\ e.ok => e.address # 0 /\ e.count > 0
    /\ e.op \in {"mmap", "munmap", "mremap"} => e.seq > 0

\* The dispatch of process_event() on the raw operation.
PlanEvent(m, e) ==
    LET p == [m |-> m, out |-> <<>>] IN
    CASE e.op = "malloc"  -> PlanAllocate(p, e)
      [] e.op = "realloc" -> PlanReallocate(p, e)
      [] e.op = "free"    -> PlanFree(p, e)
      [] OTHER            -> PlanVmEvent(p, e)

\* What the hook's own counters predict for one event (a moved mremap counts
\* as a pair); the rest is the writer's extra_records.
HookPredicted(e) == IF e.op = "mremap" /\ e.ok /\ e.result # e.address THEN 2 ELSE 1

ExtraRecords_OnePerCall(e, out) == Len(out) - 1
ExtraRecords(e, out) == IF Len(out) > HookPredicted(e) THEN Len(out) - HookPredicted(e) ELSE 0
============================================================================
