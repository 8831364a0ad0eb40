------------------------- MODULE WindowsTraceWriter -------------------------
(***************************************************************************)
(* RtlAllocateHeapTraceWriter: how the Windows writer turns raw events of  *)
(* the heap, NT memory and custom hooks into the chunks of a trace.  The   *)
(* writer is a record w and its operations are operators from w to w; an   *)
(* exception sets w.err, after which they do nothing.  Chunks are those of *)
(* module TraceReader; the record of an event carries the wire record gen  *)
(* that module GenerationTracker replays.                                  *)
(*                                                                         *)
(* A raw event has api and op (they differ for custom hooks only), status, *)
(* heap, address, size (requested_size), result, raw (raw_result), mbase   *)
(* and msize (the region VirtualQuery reported), reserve and release (its  *)
(* flags), remote, stack (a call site, 0 without one), lost (the capture   *)
(* failed), tick and seq.                                                  *)
(*                                                                         *)
(* The process may kill the writer's thread inside an operation.  w.dies   *)
(* names the point, and the number of chunks written before it: there the  *)
(* operation stops like one that threw, with "killed" in w.err.            *)
(***************************************************************************)
EXTENDS Naturals, Sequences, SequencesExt, FiniteSetsExt, Functions, TLC

CONSTANTS
    ScopeIssues,          \* issues of the CaptureScope, {} for a launch capture
    PreexistingUnknown,   \* CaptureScope::preexisting_allocations_unknown
    ChunkTarget,          \* records per chunk
    DictCapacity

ASSUME WindowsWriterAssumption ==
    /\ PreexistingUnknown \in BOOLEAN
    /\ ChunkTarget \in Nat \ {0}
    /\ DictCapacity \in Nat \ {0}

Reader == INSTANCE TraceReader
Tracker == INSTANCE GenerationTracker

NoRange == <<0, 0>>
HeapApis == {"create", "allocate", "reallocate", "free", "destroy"}
NtApis == {"vm_allocate", "vm_free", "map", "unmap"}
CustomApis == {"c_allocate", "c_reallocate", "c_free"}
Apis == HeapApis \cup NtApis \cup CustomApis

NoCounts == [a \in Apis |-> 0]
Total(counts) == FoldFunction(+, 0, counts)
Plus(f, g) == [a \in Apis |-> f[a] + g[a]]
Without(f, keys) == [k \in DOMAIN f \ keys |-> f[k]]

\* kMinimumTerminalReserveSize: one chunk of three Loss records, Statistics, EndOfTrace.
ReservedTail == (1 + 3) + (1 + 1) + (1 + 1)

Immortal == [at |-> "never", chunks |-> 0]

\* The constructor, on a disk [limit, space].
NewWriter(disk) ==
    [disk |-> disk, file |-> <<>>, size |-> 0, reserve |-> ReservedTail, flushed |-> 0,
     limit |-> FALSE, err |-> "", dies |-> Immortal, status |-> "none", first |-> "",
     metadata |-> FALSE, failures |-> FALSE, modules |-> <<>>, stacks |-> <<>>, events |-> <<>>, pending |-> NoCounts, range |-> NoRange,
     pendingUnique |-> 0, pendingReused |-> 0, unique |-> 0, reused |-> 0, written |-> NoCounts,
     queueDrops |-> NoCounts, traceDrops |-> NoCounts, dropped |-> 0, dropRange |-> NoRange,
     moduleDrops |-> 0, issues |-> ScopeIssues \cup {"missing_end"},
     live |-> <<>>, nextModule |-> 1, dict |-> <<>>, nextStack |-> 1, lastSeq |-> 0,
     memoryTick |-> 0, heaps |-> <<>>, nextHeap |-> 1, allocations |-> <<>>, nextAllocation |-> 1,
     customIds |-> [a \in CustomApis |-> 0], virtual |-> <<>>, sections |-> <<>>, nextMapping |-> 1]

Throw(w, what) == [w EXCEPT !.err = what]

Killed(w, point) == w.err = "" /\ w.dies.at = point /\ w.dies.chunks = 0

\* TraceWriter::write_chunk and write_chunk(): the limit less the reserve, then the stream.
\* A thread killed in it leaves a part of the chunk, or has not yet said that it is there.
WriteChunk(w, type, recs, range) ==
    LET cost  == 1 + Len(recs)
        torn  == Killed(w, "torn")
        chunk == [type |-> IF torn THEN "torn" ELSE type, version |-> 1, range |-> range, recs |-> recs]
    IN
    CASE w.err # "" -> w
      [] w.err = "" /\ w.size + cost > w.disk.limit - w.reserve -> [w EXCEPT !.limit = TRUE]
      [] w.err = "" /\ w.size + cost <= w.disk.limit - w.reserve /\ w.size + cost > w.disk.space ->
             Throw(w, "write")
      [] OTHER -> [w EXCEPT !.size = @ + cost, !.file = Append(@, chunk),
                       !.err = IF torn \/ Killed(w, "written") THEN "killed" ELSE "",
                       !.dies.chunks = IF @ = 0 THEN 0 ELSE @ - 1]

Wrote(before, after) == after.err = "" /\ Len(after.file) > Len(before.file)

Flush(w) == IF w.err # "" THEN w ELSE [w EXCEPT !.flushed = Len(w.file)]

\* note_custom_hook_failures(): before the capture begins, into the metadata.
NoteCustomHookFailures(w) ==
    [w EXCEPT !.failures = TRUE, !.issues = @ \cup {"custom_hook_failed"}]

\* write_metadata(): the scope, then the definitions and failures of the custom hooks.
WriteMetadata(w) ==
    LET recs  == <<[kind |-> "scope", issues |-> ScopeIssues]>>
                 \o (IF w.failures THEN <<[kind |-> "hook_failure"]>> ELSE <<>>)
        once  == [w EXCEPT !.metadata = TRUE]
        after == WriteChunk(once, "metadata", recs, NoRange)
    IN  IF w.metadata THEN w
        ELSE IF after.err = "" /\ ~Wrote(w, after) THEN Throw(once, "metadata") ELSE after
----------------------------------------------------------------------------
\* clear_pending().
ClearPending(w) ==
    [w EXCEPT !.stacks = <<>>, !.events = <<>>, !.pending = NoCounts, !.range = NoRange,
              !.pendingUnique = 0, !.pendingReused = 0]

\* note_trace_drop_range(): the per-API counts it is given have no place for
\* custom hooks, so a range that holds custom events does not add up.
NoteTraceDropRange(w, counts, count, range) ==
    IF Total([a \in Apis |-> IF a \in CustomApis THEN 0 ELSE counts[a]]) # count
    THEN Throw(w, "accounting")
    ELSE [w EXCEPT !.dropRange = <<IF w.dropped = 0 THEN range[1] ELSE @[1], range[2]>>,
                   !.dropped = @ + count, !.traceDrops = Plus(@, counts)]

\* note_event_trace_drop() and note_trace_drop(): one event, custom or not.
NoteEventTraceDrop(w, e) ==
    LET one == [NoCounts EXCEPT ![e.api] = 1] IN
    IF e.api \in CustomApis
    THEN [w EXCEPT !.dropRange = <<IF w.dropped = 0 THEN e.seq ELSE @[1], e.seq>>,
                   !.dropped = @ + 1, !.traceDrops = Plus(@, one)]
    ELSE NoteTraceDropRange(w, one, 1, <<e.seq, e.seq>>)

\* drop_pending_events().
DropPendingEvents(w) ==
    LET noted == NoteTraceDropRange(w, w.pending, Total(w.pending), w.range) IN
    IF Total(w.pending) = 0 THEN ClearPending(w)
    ELSE IF noted.err # "" THEN noted ELSE ClearPending(noted)

\* flush_module_payload(): after the limit the records are only discarded.
FlushModulePayload(w) ==
    LET after == IF w.limit THEN w ELSE WriteChunk(w, "module", w.modules, NoRange)
    IN  IF w.err # "" \/ w.modules = <<>> THEN w
        ELSE IF after.err # "" THEN after ELSE [after EXCEPT !.modules = <<>>]

\* flush_pending(): modules, stacks, events; what does not fit is dropped.
FlushedEvents(w) ==
    CASE w.err # "" -> w
      [] w.err = "" /\ w.limit -> DropPendingEvents(w)
      [] OTHER -> ClearPending([w EXCEPT !.written = Plus(@, w.pending), !.unique = @ + w.pendingUnique,
                                         !.reused = @ + w.pendingReused])

FlushEvents(w) ==
    FlushedEvents(IF w.limit THEN w ELSE WriteChunk(w, "event", w.events, w.range))

FlushStacks(w) ==
    FlushEvents(IF w.limit \/ w.stacks = <<>> THEN w ELSE WriteChunk(w, "stack", w.stacks, NoRange))

FlushPending(w) ==
    IF Total(w.pending) = 0 THEN FlushModulePayload(w) ELSE FlushStacks(FlushModulePayload(w))

\* process_module_event(): the loader's notice of a module that the initial
\* snapshot already holds is absorbed once; pending events go out before the
\* module table changes.
AppendModuleLoad(w, m) ==
    LET load == [kind |-> "load", id |-> w.nextModule, base |-> m.base, size |-> m.size]
    IN  [w EXCEPT !.modules = Append(@, load), !.nextModule = @ + 1,
                  !.live = (m.base :> [id |-> w.nextModule, size |-> m.size,
                                       initial |-> m.initial]) @@ @]

AppendModuleUnload(w, m) ==
    [w EXCEPT !.modules = Append(@, [kind |-> "unload", id |-> w.live[m.base].id]),
              !.live = Without(@, {m.base})]

FlushFullModules(w) == IF Len(w.modules) >= ChunkTarget THEN FlushModulePayload(w) ELSE w

AppendModule(w, m) ==
    IF w.err # "" THEN w
    ELSE FlushFullModules(IF m.type = "load" THEN AppendModuleLoad(w, m) ELSE AppendModuleUnload(w, m))

ProcessModuleEvent(w, m) ==
    LET known == m.base \in DOMAIN w.live
        again == known /\ w.live[m.base].initial /\ ~m.initial /\ w.live[m.base].size = m.size
    IN  CASE w.err # "" -> w
          [] w.err = "" /\ m.type = "load" /\ again -> [w EXCEPT !.live[m.base].initial = FALSE]
          [] w.err = "" /\ m.type = "load" /\ known /\ ~again -> Throw(w, "module overlap")
          [] w.err = "" /\ m.type = "unload" /\ ~known -> w
          [] OTHER -> AppendModule(IF Total(w.pending) # 0 THEN FlushPending(w) ELSE w, m)

\* drain_modules_through(): the module events up to an event's tick.
DrainModules(w, queue, tick) ==
    FoldLeft(ProcessModuleEvent, w, SelectSeq(queue, LAMBDA m : m.tick <= tick))

\* capture_memory_snapshot(): skipped after the limit; it never throws.
CaptureMemorySnapshot(w, tick) ==
    LET after == WriteChunk([w EXCEPT !.memoryTick = tick], "memory",
                            <<[kind |-> "counters", tick |-> tick]>>, NoRange)
    IN  IF w.err # "" \/ w.limit THEN w
        ELSE [after EXCEPT !.err = IF @ = "killed" THEN @ ELSE ""]

\* normalize_stack(): the live module whose image holds the call site.
NormalizeStack(w, address) ==
    LET base == {b \in DOMAIN w.live : address \in b .. b + w.live[b].size - 1}
    IN  [module |-> IF base = {} THEN 0 ELSE w.live[Max(base)].id, address |-> address]

\* NormalizedStackDictionary::intern and append_stack_definition.
Intern(w, frame) ==
    LET hits == {i \in DOMAIN w.dict : w.dict[i].frame = frame}
        room == IF Len(w.dict) = DictCapacity THEN <<>> ELSE w.dict
        def  == [kind |-> "stack", id |-> w.nextStack, module |-> frame.module,
                 address |-> frame.address]
    IN  IF hits # {}
        THEN [w |-> [w EXCEPT !.pendingReused = @ + 1], id |-> w.dict[Max(hits)].id]
        ELSE [w |-> [w EXCEPT !.dict = Append(room, [frame |-> frame, id |-> w.nextStack]),
                              !.nextStack = @ + 1, !.stacks = Append(@, def),
                              !.pendingUnique = @ + 1],
              id |-> w.nextStack]
----------------------------------------------------------------------------
Succeeded(e) == e.status = "success"

\* validate_custom_raw_event().
ValidCustomRawEvent(e) ==
    /\ e.heap = 0
    /\ CASE e.op = "allocate"   -> (Succeeded(e) <=> e.result # 0) /\ e.address = 0 /\ e.raw = 0
         [] e.op = "reallocate" -> (Succeeded(e) <=> e.result # 0) /\ e.raw = 0
         [] e.op = "free"       -> (Succeeded(e) <=> e.raw # 0) /\ e.result = 0
         [] OTHER               -> FALSE

\* The cases of validate_raw_event() for the hooks noleax knows.
ValidApiRawEvent(e) ==
    CASE e.op = "create"     -> Succeeded(e) <=> e.result # 0
      [] e.op = "allocate"   -> (Succeeded(e) <=> e.result # 0) /\ e.address = 0 /\ e.raw = 0
      [] e.op = "free"       -> (Succeeded(e) <=> e.raw # 0) /\ e.size = 0 /\ e.result = 0
      [] e.op = "reallocate" -> (Succeeded(e) <=> e.result # 0) /\ e.raw = 0
      [] e.op = "destroy"    -> /\ e.size = 0 /\ e.result = 0 /\ e.address = 0
                                /\ Succeeded(e) => e.raw = 0
                                /\ e.status = "failure" => e.raw # 0
      [] e.op = "vm_free"    -> e.mbase = 0 /\ e.msize = 0
      [] e.op = "unmap"      -> e.size = 0 /\ e.raw = 0 /\ e.mbase = 0 /\ e.msize = 0
      [] OTHER               -> TRUE

\* validate_raw_event(): the fields fit the API, and no sequence is missing.
ValidRawEvent(w, e) ==
    /\ e.status \in {"success", "failure", "exception"}
    /\ e.api \notin NtApis => ~e.remote /\ e.mbase = 0 /\ e.msize = 0
    /\ IF e.api \in CustomApis THEN ValidCustomRawEvent(e) ELSE ValidApiRawEvent(e)
    /\ e.seq = w.lastSeq + 1

UnmatchedStatus(address) ==
    IF address # 0 /\ PreexistingUnknown THEN "preexisting" ELSE "unmatched"

\* The wire record of e before its lifecycle is known.
Wire(op, e) ==
    [op |-> op, status |-> IF Succeeded(e) THEN "success" ELSE "failure", id |-> 0, old |-> 0,
     oldBase |-> e.address, base |-> e.result, size |-> e.size, heap |-> 0,
     effect |-> "no_change"]

\* make_allocation_id(): custom hooks number in spaces of their own.
IdSpace == [c_allocate |-> 100, c_reallocate |-> 200, c_free |-> 300]
AllocationId(w, api) ==
    IF api \in CustomApis THEN IdSpace[api] + w.customIds[api] + 1 ELSE w.nextAllocation
TakeAllocationId(w, api) ==
    IF api \in CustomApis THEN [w EXCEPT !.customIds[api] = @ + 1]
    ELSE [w EXCEPT !.nextAllocation = @ + 1]

HeapId(w, heap) == IF heap \in DOMAIN w.heaps THEN w.heaps[heap] ELSE 0

\* The branches of process_event(), each the writer and the wire record after
\* e.  RtlCreateHeap: a live handle must not come back.
PlanCreate(w, e) ==
    LET made == [w EXCEPT !.heaps = (e.result :> w.nextHeap) @@ @, !.nextHeap = @ + 1]
        rec  == Wire("HeapCreate", e)
    IN  CASE ~Succeeded(e) -> [w |-> w, rec |-> rec]
          [] Succeeded(e) /\ e.result \in DOMAIN w.heaps ->
                 [w |-> Throw(w, "heap reused"), rec |-> rec]
          [] OTHER -> [w |-> made, rec |-> [rec EXCEPT !.heap = w.nextHeap]]

\* RtlAllocateHeap and custom allocations.
PlanAllocate(w, e) ==
    LET id  == AllocationId(w, e.api)
        rec == [Wire("Allocate", e) EXCEPT !.heap = HeapId(w, e.heap)]
    IN  IF ~Succeeded(e) THEN [w |-> w, rec |-> rec]
        ELSE [w |-> [TakeAllocationId(w, e.api)
                        EXCEPT !.allocations = (<<e.heap, e.result>> :> id) @@ @],
              rec |-> [rec EXCEPT !.id = id]]

\* RtlReAllocateHeap and custom reallocations: always a new generation.
PlanReallocate(w, e) ==
    LET key   == <<e.heap, e.address>>
        known == key \in DOMAIN w.allocations
        id    == AllocationId(w, e.api)
        rec   == [Wire("Reallocate", e) EXCEPT !.heap = HeapId(w, e.heap),
                     !.old = IF known THEN w.allocations[key] ELSE 0]
        rest  == Without(w.allocations, {key})
    IN  IF ~Succeeded(e) THEN [w |-> w, rec |-> rec]
        ELSE [w |-> [TakeAllocationId(w, e.api)
                        EXCEPT !.allocations = (<<e.heap, e.result>> :> id) @@ rest],
              rec |-> [rec EXCEPT !.id = id, !.effect = "new_generation",
                                  !.status = IF known THEN @ ELSE UnmatchedStatus(e.address)]]

\* RtlFreeHeap and custom frees.
PlanFree(w, e) ==
    LET key   == <<e.heap, e.address>>
        known == key \in DOMAIN w.allocations
        rec   == [Wire("Free", e) EXCEPT !.heap = HeapId(w, e.heap)]
    IN  CASE ~Succeeded(e) -> [w |-> w, rec |-> rec]
          [] Succeeded(e) /\ ~known -> [w |-> w, rec |-> [rec EXCEPT !.status = UnmatchedStatus(e.address)]]
          [] OTHER -> [w |-> [w EXCEPT !.allocations = Without(@, {key})],
                       rec |-> [rec EXCEPT !.old = w.allocations[key]]]

PlanDestroy_KeepsBlocks(w, e) ==
    [w |-> [w EXCEPT !.heaps = Without(@, {e.heap})],
     rec |-> [Wire("HeapDestroy", e) EXCEPT !.heap = HeapId(w, e.heap),
                 !.status = IF HeapId(w, e.heap) = 0 /\ Succeeded(e) THEN UnmatchedStatus(1) ELSE @]]

\* RtlDestroyHeap: every live allocation of the heap goes with it.
PlanDestroy(w, e) ==
    LET known == e.heap \in DOMAIN w.heaps
        rec   == [Wire("HeapDestroy", e) EXCEPT !.heap = HeapId(w, e.heap)]
        gone  == {k \in DOMAIN w.allocations : k[1] = e.heap}
    IN  CASE ~Succeeded(e) -> [w |-> w, rec |-> rec]
          [] Succeeded(e) /\ ~known -> [w |-> w, rec |-> [rec EXCEPT !.status = UnmatchedStatus(1)]]
          [] OTHER -> [w |-> [w EXCEPT !.heaps = Without(@, {e.heap}),
                                       !.allocations = Without(@, gone)], rec |-> rec]

\* find_virtual_mapping() without exact_base: the mapping that holds the range.
Holding(maps, address, size) ==
    LET below == {b \in DOMAIN maps : b <= address}
        b     == Max(below)
    IN  IF address = 0 \/ below = {} THEN {}
        ELSE IF address - b <= maps[b].size /\ size <= maps[b].size - (address - b) THEN {b} ELSE {}

Mapping(w, size) == [id |-> w.nextMapping, size |-> size]

\* NtAllocateVirtualMemory: a commit inside a live mapping names it; any other
\* result belongs to the reservation at the allocation base, new or grown.
PlanVmAllocate(w, e) ==
    LET holds == Holding(w.virtual, e.result, e.raw)
        base  == IF e.mbase = 0 THEN e.result ELSE e.mbase
        size  == IF e.msize = 0 THEN e.raw ELSE e.msize
        at    == IF ~e.reserve /\ holds # {} THEN CHOOSE b \in holds : TRUE ELSE base
        grown == IF at \notin DOMAIN w.virtual THEN Mapping(w, size)
                 ELSE IF ~e.reserve /\ holds # {} THEN w.virtual[at]
                 ELSE [w.virtual[at] EXCEPT !.size = IF size > @ THEN size ELSE @]
        after == [w EXCEPT !.virtual = (at :> grown) @@ @,
                           !.nextMapping = IF at \in DOMAIN w.virtual THEN @ ELSE @ + 1]
        late  == ~e.reserve /\ holds = {} /\ e.address # 0 /\ PreexistingUnknown
        rec   == Wire("VmAllocate", e)
    IN  CASE e.remote -> [w |-> w, rec |-> [rec EXCEPT !.op = "Remote"]]
          [] ~e.remote /\ ~Succeeded(e) -> [w |-> w, rec |-> rec]
          [] ~e.remote /\ Succeeded(e) /\ at \notin DOMAIN w.virtual /\ (at = 0 \/ size = 0) ->
                 [w |-> Throw(w, "virtual mapping"), rec |-> rec]
          [] OTHER -> [w |-> after,
                       rec |-> [rec EXCEPT !.id = grown.id, !.base = at, !.size = grown.size,
                                           !.status = IF late THEN "preexisting" ELSE @]]

\* NtFreeVirtualMemory: MEM_RELEASE ends the mapping at exactly that base,
\* MEM_DECOMMIT only names the one that holds the range.
PlanVmFree(w, e) ==
    LET holds == IF e.release THEN {e.address} \cap DOMAIN w.virtual
                 ELSE Holding(w.virtual, e.address, e.raw)
        at    == CHOOSE b \in holds : TRUE
        rec   == [Wire(IF e.release THEN "VmFree" ELSE "VmDecommit", e)
                     EXCEPT !.base = e.address, !.size = e.raw]
    IN  CASE e.remote -> [w |-> w, rec |-> [rec EXCEPT !.op = "Remote"]]
          [] ~e.remote /\ ~Succeeded(e) -> [w |-> w, rec |-> rec]
          [] ~e.remote /\ Succeeded(e) /\ holds = {} ->
                 [w |-> w, rec |-> [rec EXCEPT !.status = UnmatchedStatus(1)]]
          [] OTHER -> [w |-> IF e.release THEN [w EXCEPT !.virtual = Without(@, {at})] ELSE w,
                       rec |-> [rec EXCEPT !.id = w.virtual[at].id]]

\* NtMapViewOfSection with create_section_mapping(): a live base must not come back.
PlanMap(w, e) ==
    LET rec == [Wire("Map", e) EXCEPT !.size = e.raw]
    IN  CASE e.remote -> [w |-> w, rec |-> [rec EXCEPT !.op = "Remote"]]
          [] ~e.remote /\ ~Succeeded(e) -> [w |-> w, rec |-> rec]
          [] ~e.remote /\ Succeeded(e)
                /\ (e.result = 0 \/ e.raw = 0 \/ e.result \in DOMAIN w.sections) ->
                 [w |-> Throw(w, "section mapping"), rec |-> rec]
          [] OTHER -> [w |-> [w EXCEPT !.sections = (e.result :> Mapping(w, e.raw)) @@ @,
                                       !.nextMapping = @ + 1],
                       rec |-> [rec EXCEPT !.id = w.nextMapping]]

\* NtUnmapViewOfSection with find_section_mapping(): any address of the view.
PlanUnmap(w, e) ==
    LET holds == Holding(w.sections, e.address, 1)
        at    == CHOOSE b \in holds : TRUE
        rec   == [Wire("Unmap", e) EXCEPT !.base = e.address]
    IN  CASE e.remote -> [w |-> w, rec |-> [rec EXCEPT !.op = "Remote"]]
          [] ~e.remote /\ ~Succeeded(e) -> [w |-> w, rec |-> rec]
          [] ~e.remote /\ Succeeded(e) /\ holds = {} ->
                 [w |-> w, rec |-> [rec EXCEPT !.status = UnmatchedStatus(1)]]
          [] OTHER -> [w |-> [w EXCEPT !.sections = Without(@, {at})],
                       rec |-> [rec EXCEPT !.id = w.sections[at].id, !.base = at]]

PlanEvent(w, e) ==
    CASE e.op = "create"      -> PlanCreate(w, e)
      [] e.op = "allocate"    -> PlanAllocate(w, e)
      [] e.op = "reallocate"  -> PlanReallocate(w, e)
      [] e.op = "free"        -> PlanFree(w, e)
      [] e.op = "destroy"     -> PlanDestroy(w, e)
      [] e.op = "vm_allocate" -> PlanVmAllocate(w, e)
      [] e.op = "vm_free"     -> PlanVmFree(w, e)
      [] e.op = "map"         -> PlanMap(w, e)
      [] e.op = "unmap"       -> PlanUnmap(w, e)

\* ensure_pending_capacity().
EnsurePendingCapacity(w) ==
    IF Total(w.pending) # 0 /\ (Len(w.stacks) + 1 > ChunkTarget \/ Len(w.events) + 2 > ChunkTarget)
    THEN FlushPending(w) ELSE w

\* make_stack_capture_loss().
StackLoss(seq) == [kind |-> "loss", reason |-> "stack_capture_failed", range |-> <<seq, seq>>]

\* process_event().
ObserveEvent(w, e) ==
    [w EXCEPT !.lastSeq = e.seq,
              !.issues = IF e.lost THEN Reader!ObserveLoss(@, StackLoss(e.seq)) ELSE @]

FlushFullEvents(w) ==
    IF Len(w.stacks) >= ChunkTarget \/ Len(w.events) >= ChunkTarget THEN FlushPending(w) ELSE w

AppendRecord(plan, e, stack) ==
    LET rec == [kind |-> "event", seq |-> e.seq, stack |-> stack, gen |-> plan.rec]
    IN  IF plan.w.err # "" THEN plan.w
        ELSE IF Killed(plan.w, "planned") THEN Throw(plan.w, "killed")
        ELSE FlushFullEvents([plan.w EXCEPT
                 !.events = Append(IF e.lost THEN Append(@, StackLoss(e.seq)) ELSE @, rec),
                 !.pending[e.api] = @ + 1,
                 !.range = <<IF Total(plan.w.pending) = 0 THEN e.seq ELSE @[1], e.seq>>])

AppendStacked(stacked, e) == AppendRecord(PlanEvent(stacked.w, e), e, stacked.id)

AppendEvent(w, e) ==
    CASE w.err # "" -> w
      [] w.err = "" /\ w.limit -> NoteEventTraceDrop(w, e)
      [] OTHER -> AppendStacked(IF e.stack # 0 THEN Intern(w, NormalizeStack(w, e.stack))
                                ELSE [w |-> w, id |-> 0], e)

ProcessEvent(w, e) ==
    CASE w.err # "" -> w
      [] w.err = "" /\ ~ValidRawEvent(w, e) -> Throw(w, "raw event")
      [] w.err = "" /\ ValidRawEvent(w, e) /\ w.limit -> NoteEventTraceDrop(ObserveEvent(w, e), e)
      [] OTHER -> IF Killed(w, "noted") THEN Throw(ObserveEvent(w, e), "killed")
                  ELSE AppendEvent(EnsurePendingCapacity(ObserveEvent(w, e)), e)
----------------------------------------------------------------------------
\* collect_queue_drops() and collect_module_drops().
CollectDrops(w, drops, moduleDrops) ==
    IF w.err # "" THEN w
    ELSE IF Killed(w, "taken") THEN Throw(w, "killed")
    ELSE [w EXCEPT !.queueDrops = Plus(@, drops), !.moduleDrops = @ + moduleDrops]

\* The Loss records of finalize_trace().
CollectedLosses(w) ==
    LET loss(reason, range) == [kind |-> "loss", reason |-> reason, range |-> range] IN
    (IF w.moduleDrops # 0 THEN <<loss("queue_full", NoRange)>> ELSE <<>>)
    \o (IF Total(w.queueDrops) # 0 THEN <<loss("queue_full", NoRange)>> ELSE <<>>)
    \o (IF w.dropped # 0 THEN <<loss("trace_full", w.dropRange)>> ELSE <<>>)

\* The ApiStatistics of one API, from the counters of its hook.
ApiStatistics(w, hook, a) ==
    [observed |-> hook[a].recordable, successful |-> hook[a].successful, failed |-> hook[a].failed,
     filtered |-> hook[a].filtered, dropped |-> w.queueDrops[a] + w.traceDrops[a],
     unique |-> 0, reused |-> 0]

\* The reconciliation of finalize_trace(): API by API, custom hooks together.
Reconciles(w, hook) ==
    LET custom(f(_)) == Total([a \in Apis |-> IF a \in CustomApis THEN f(a) ELSE 0])
        accounted(a) == w.written[a] + hook[a].filtered + w.queueDrops[a] + w.traceDrops[a]
        observed(a)  == hook[a].recordable
    IN  /\ \A a \in Apis \ CustomApis : accounted(a) = observed(a)
        /\ custom(accounted) = custom(observed)
        /\ Total([a \in Apis |-> hook[a].successful + hook[a].failed])
             = Total([a \in Apis |-> observed(a)])

Statistics(w, hook) ==
    LET sum(f(_)) == Total([a \in Apis |-> f(ApiStatistics(w, hook, a))]) IN
    [kind |-> "statistics", observed |-> sum(LAMBDA s : s.observed),
     successful |-> sum(LAMBDA s : s.successful), failed |-> sum(LAMBDA s : s.failed),
     filtered |-> sum(LAMBDA s : s.filtered), dropped |-> sum(LAMBDA s : s.dropped),
     unique |-> w.unique, reused |-> w.reused]

EndRecord(w) == [kind |-> "end", final |-> w.lastSeq, normal |-> TRUE,
                 issues |-> w.issues \ {"missing_end"}]

\* write_terminal_records().
WriteTerminalRecords(w, statistics) ==
    LET a == WriteChunk(w, "statistics", <<statistics>>, NoRange)
        b == Flush(WriteChunk(a, "end", <<EndRecord(a)>>, NoRange))
    IN  CASE w.err # "" -> w
          [] w.err = "" /\ ~Reader!ValidStatistics(statistics) -> Throw(w, "statistics")
          [] OTHER -> IF b.err # "" THEN b
                      ELSE [b EXCEPT !.status = IF b.limit THEN "file_limit" ELSE "complete"]

\* finalize_empty_trace().
FinalizeEmptyTrace(w) ==
    WriteTerminalRecords([WriteMetadata(w) EXCEPT !.reserve = 0],
        [kind |-> "statistics", observed |-> 0, successful |-> 0, failed |-> 0, filtered |-> 0,
         dropped |-> 0, unique |-> 0, reused |-> 0])

\* finalize_trace(): losses, reconciliation, terminal records.
WriteCollectedLosses(w) ==
    LET losses == CollectedLosses(w)
    IN  CASE losses = <<>> -> w
          [] \E i \in DOMAIN losses : ~Reader!ValidLoss(losses[i]) -> Throw(w, "loss range")
          [] OTHER -> WriteChunk([w EXCEPT !.issues = FoldLeft(Reader!ObserveLoss, @, losses)],
                                 "event", losses, w.dropRange)

Reconcile(w, hook) ==
    CASE w.err # "" -> w
      [] w.err = "" /\ ~Reconciles(w, hook) -> Throw(w, "reconcile")
      [] OTHER -> WriteTerminalRecords(w, Statistics(w, hook))

FinalizeTrace(w, hook) ==
    IF w.err # "" THEN w ELSE Reconcile(WriteCollectedLosses([w EXCEPT !.reserve = 0]), hook)

\* The catch of thread_main() and record_inline_error(): the error stands, what
\* is in the stream is flushed, and no tail is written.
RecordError(w) ==
    IF w.err = "" THEN w
    ELSE [w EXCEPT !.status = "error", !.flushed = Len(w.file)]
============================================================================
