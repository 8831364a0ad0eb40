-------------------------- MODULE LinuxTraceWriter --------------------------
(***************************************************************************)
(* LinuxTraceWriter: the hooks' event queue and the module tracker drained *)
(* by one thread into a trace file that has a size limit, on a disk that   *)
(* may fill up.  The writer's own state is the record w; its operations    *)
(* are operators from w to w, and an exception sets w.err, after which the *)
(* operators do nothing until the thread's handler (RecordWriterError).    *)
(* The file is the sequence w.file of chunks of module TraceReader; a      *)
(* chunk costs one unit and one per record.  A kill at any moment leaves a *)
(* prefix of the file that holds at least what was flushed.                *)
(***************************************************************************)
EXTENDS TraceReader

CONSTANTS
    Threads,        \* target threads that allocate
    Images,         \* module images [base, size] the target may load
    Addresses,      \* call sites: addresses a captured stack may hold
    ScopeIssues,    \* issues of the CaptureScope, {} for a launch capture
    MaxCalls,       \* bound: calls the target makes
    MaxImages,      \* bound: dlopen and dlclose calls
    MaxTicks,       \* bound: flushes and snapshots of the capture loop
    QueueCapacity,
    ModuleCapacity, \* queue_capacity of the module tracker
    ChunkTarget,    \* records per chunk
    DictCapacity,
    Outcomes,       \* [ok, filtered, records, stack, lost] of the calls
    Disks,          \* [limit, space, late]: max_file_size, free space, and whether
                    \* a full disk shows at the flush only
    CounterSource   \* options_.counter_source is set

ASSUME WriterAssumption ==
    /\ ChunkTarget \in Nat \ {0}
    /\ DictCapacity \in Nat \ {0}
    /\ QueueCapacity \in Nat \ {0}
    /\ CounterSource \in BOOLEAN
    /\ \A o \in Outcomes : /\ o.records \in {1, 2} /\ (~o.ok => o.records = 1 /\ ~o.filtered)
                            /\ o.lost => ~o.stack

VARIABLES
    w,         \* the writer
    pc,        \* where its thread is
    caller,    \* the runtime: setup, begun, stopping, finished
    hook,      \* the counters of the hooks
    busy,      \* thread -> inside a replacement (counted, outcome unknown)
    queue,     \* raw events
    queueDrops,
    loaded,    \* images mapped in the target
    tracker,   \* the module tracker
    steps,     \* [images, ticks] used up
    disk       \* the member of Disks this capture runs on

vars == <<w, pc, caller, hook, busy, queue, queueDrops, loaded, tracker, steps, disk>>

\* kTerminalReserveBaseSize: one chunk of four Loss records, Statistics, EndOfTrace.
ReservedTail == (1 + 4) + (1 + 1) + (1 + 1)

EmptyWriter ==
    [file |-> <<>>, size |-> 0, reserve |-> ReservedTail, flushed |-> 0, broken |-> FALSE,
     limit |-> FALSE, err |-> "", error |-> "", status |-> "none",
     modules |-> <<>>, stacks |-> <<>>, events |-> <<>>, pending |-> 0, pendingRange |-> NoRange,
     pendingUnique |-> 0, pendingReused |-> 0, unique |-> 0, reused |-> 0,
     consumed |-> 0, failed |-> 0, extra |-> 0, written |-> 0, nextSequence |-> 1,
     traceDrops |-> 0, dropRange |-> NoRange, queueDrops |-> 0, moduleDrops |-> 0,
     live |-> <<>>, nextModule |-> 1, dict |-> <<>>, nextStack |-> 1,
     issues |-> ScopeIssues \cup {"missing_end"}, memoryTick |-> 0,
     statistics |-> FALSE, end |-> FALSE, tailTried |-> FALSE, tailError |-> FALSE,
     metadata |-> FALSE, begun |-> FALSE, committed |-> FALSE, final |-> FALSE]

Throw(s, what) == [s EXCEPT !.err = what]

\* TraceWriter::write_chunk and write_chunk(): the limit less the reserve, then
\* the stream, which stays bad once a write has failed.
WriteChunk(s, type, recs, range) ==
    LET cost == 1 + Len(recs) IN
    CASE s.err # "" -> s
      [] s.err = "" /\ s.size + cost > disk.limit - s.reserve -> [s EXCEPT !.limit = TRUE]
      [] s.err = "" /\ s.size + cost <= disk.limit - s.reserve
            /\ (s.broken \/ (~disk.late /\ s.size + cost > disk.space)) ->
             [Throw(s, "write") EXCEPT !.broken = TRUE]
      [] OTHER -> [s EXCEPT !.size = @ + cost,
                       !.file = Append(@, [type |-> type, version |-> 1, range |-> range,
                                           recs |-> recs])]

\* write_chunk() returned true.
Wrote(before, after) == after.err = "" /\ Len(after.file) > Len(before.file)

\* flush_stream().
FlushStream(s) ==
    CASE s.err # "" -> s
      [] s.err = "" /\ (s.broken \/ s.size > disk.space) -> [Throw(s, "flush") EXCEPT !.broken = TRUE]
      [] OTHER -> [s EXCEPT !.flushed = Len(s.file)]

\* write_metadata(): the scope must fit.
WriteMetadata(s) ==
    LET once  == [s EXCEPT !.metadata = TRUE]
        after == WriteChunk(once, "metadata", <<[kind |-> "scope", issues |-> ScopeIssues]>>, NoRange)
    IN  IF s.metadata THEN s
        ELSE IF s.err = "" /\ after.err = "" /\ ~Wrote(s, after)
        THEN Throw(once, "limit cannot hold the scope") ELSE after

\* clear_pending().
ClearPending(s) ==
    [s EXCEPT !.stacks = <<>>, !.events = <<>>, !.pending = 0, !.pendingRange = NoRange,
              !.pendingUnique = 0, !.pendingReused = 0]

\* note_event_trace_drop() and drop_pending_events(): the dropped range grows.
NoteTraceDrop(s, range, count) ==
    [s EXCEPT !.dropRange = <<IF s.traceDrops = 0 THEN range[1] ELSE @[1], range[2]>>,
              !.traceDrops = @ + count]

DropPendingEvents(s) ==
    IF s.pending = 0 THEN ClearPending(s)
    ELSE ClearPending(NoteTraceDrop(s, s.pendingRange, s.pending))

\* flush_module_payload(): after the limit the records are only discarded.
FlushModulePayload(s) ==
    LET after == IF s.limit THEN s ELSE WriteChunk(s, "module", s.modules, NoRange)
    IN  IF s.err # "" \/ s.modules = <<>> THEN s
        ELSE IF after.err # "" THEN after ELSE [after EXCEPT !.modules = <<>>]

FlushPending_EventsOnly(s) ==
    IF s.pending = 0 THEN FlushModulePayload(s)
    ELSE LET t == IF s.stacks = <<>> THEN s ELSE WriteChunk(s, "stack", s.stacks, NoRange)
             e == WriteChunk(t, "event", t.events, t.pendingRange)
         IN  IF e.err # "" THEN e ELSE IF e.limit THEN DropPendingEvents(e)
             ELSE ClearPending([e EXCEPT !.written = @ + e.pending])

\* flush_pending(): modules, then stacks, then events; the first chunk that
\* does not fit turns the pending events into trace-full drops.
FlushedEvents(s) ==
    CASE s.err # "" -> s
      [] s.err = "" /\ s.limit -> DropPendingEvents(s)
      [] OTHER -> ClearPending([s EXCEPT !.written = @ + s.pending, !.unique = @ + s.pendingUnique,
                                         !.reused = @ + s.pendingReused])

FlushEvents(s) ==
    IF s.err # "" THEN s ELSE IF s.limit THEN DropPendingEvents(s)
    ELSE FlushedEvents(WriteChunk(s, "event", s.events, s.pendingRange))

FlushStacks(s) ==
    IF s.err # "" THEN s ELSE IF s.limit THEN DropPendingEvents(s)
    ELSE FlushEvents(IF s.stacks = <<>> THEN s ELSE WriteChunk(s, "stack", s.stacks, NoRange))

FlushPending(s) ==
    IF s.pending = 0 THEN FlushModulePayload(s) ELSE FlushStacks(FlushModulePayload(s))

\* process_module_event(): pending events go out before the module changes.
AppendModuleLoad(s, m) ==
    LET load == [kind |-> "load", id |-> s.nextModule, base |-> m.base, size |-> m.size]
    IN  [s EXCEPT !.modules = Append(@, load), !.nextModule = @ + 1,
                  !.live = (m.base :> [id |-> s.nextModule, size |-> m.size]) @@ @]

AppendModuleUnload(s, m) ==
    [s EXCEPT !.modules = Append(@, [kind |-> "unload", id |-> s.live[m.base].id]),
              !.live = [b \in DOMAIN @ \ {m.base} |-> @[b]]]

FlushFullModules(s) == IF Len(s.modules) >= ChunkTarget THEN FlushModulePayload(s) ELSE s

AppendModule(s, m) ==
    IF s.err # "" THEN s
    ELSE FlushFullModules(IF m.type = "load" THEN AppendModuleLoad(s, m) ELSE AppendModuleUnload(s, m))

ProcessModuleEvent(s, m) ==
    LET known == m.base \in DOMAIN s.live
    IN  CASE s.err # "" -> s
          [] s.err = "" /\ m.type = "load" /\ known -> Throw(s, "module overlap")
          [] s.err = "" /\ m.type = "unload" /\ ~known -> s
          [] OTHER -> AppendModule(IF s.pending # 0 THEN FlushPending(s) ELSE s, m)

\* normalize_stack(): the live module whose image holds the frame, if any.
NormalizeStack(s, address) ==
    LET base == {b \in DOMAIN s.live : address \in b .. b + s.live[b].size - 1}
    IN  [module |-> IF base = {} THEN 0 ELSE s.live[Max(base)].id, address |-> address]

\* NormalizedStackDictionary::intern: a full segment is forgotten.
Intern(s, frame) ==
    LET hits == {i \in DOMAIN s.dict : s.dict[i].frame = frame}
        room == IF Len(s.dict) = DictCapacity THEN <<>> ELSE s.dict
        def  == [kind |-> "stack", id |-> s.nextStack, module |-> frame.module,
                 address |-> frame.address]
    IN  IF hits # {}
        THEN [s |-> [s EXCEPT !.pendingReused = @ + 1], id |-> s.dict[Max(hits)].id]
        ELSE [s |-> [s EXCEPT !.dict = Append(room, [frame |-> frame, id |-> s.nextStack]),
                              !.nextStack = @ + 1, !.stacks = Append(@, def),
                              !.pendingUnique = @ + 1],
              id |-> s.nextStack]

\* ensure_pending_capacity().
EnsurePendingCapacity(s, n) ==
    IF s.pending # 0 /\ (Len(s.stacks) + 1 > ChunkTarget \/ Len(s.events) + n > ChunkTarget)
    THEN FlushPending(s) ELSE s

\* make_stack_capture_loss().
StackLoss(range) == [kind |-> "loss", reason |-> "stack_capture_failed", range |-> range]

\* process_event(): e.records wire records of which the hook predicted one.
CountEvent(s, e, range) ==
    [s EXCEPT !.consumed = @ + e.records, !.failed = @ + (IF e.ok THEN 0 ELSE 1),
              !.extra = @ + (e.records - 1), !.nextSequence = range[2] + 1,
              !.issues = IF e.lost THEN ObserveLoss(@, StackLoss(range)) ELSE @]

FlushFullEvents(s) ==
    IF Len(s.stacks) >= ChunkTarget \/ Len(s.events) >= ChunkTarget THEN FlushPending(s) ELSE s

AppendRecords(interned, e, range) ==
    LET records == [i \in 1 .. e.records |->
                       [kind |-> "event", seq |-> range[1] + i - 1, stack |-> interned.id]]
    IN  [interned.s EXCEPT
            !.events = (IF e.lost THEN Append(@, StackLoss(range)) ELSE @) \o records,
            !.pending = @ + e.records,
            !.pendingRange = <<IF interned.s.pending = 0 THEN range[1] ELSE @[1], range[2]>>]

AppendEvent(s, e, range) ==
    CASE s.err # "" -> s
      [] s.err = "" /\ s.limit -> NoteTraceDrop(s, range, e.records)
      [] OTHER -> FlushFullEvents(AppendRecords(
                      IF e.stack \in Addresses THEN Intern(s, NormalizeStack(s, e.stack))
                      ELSE [s |-> s, id |-> 0], e, range))

EventRange(s, e) == <<s.nextSequence, s.nextSequence + e.records - 1>>

ProcessRawEvent(s, e) ==
    CASE s.err # "" -> s
      [] s.err = "" /\ s.limit ->
             NoteTraceDrop(CountEvent(s, e, EventRange(s, e)), EventRange(s, e), e.records)
      [] OTHER -> AppendEvent(EnsurePendingCapacity(CountEvent(s, e, EventRange(s, e)), e.records),
                              e, EventRange(s, e))

\* capture_memory_snapshot(): skipped after the limit; a failed write is an error.
CaptureMemorySnapshot(s, tick) ==
    IF s.limit \/ s.err # "" THEN s
    ELSE WriteChunk([s EXCEPT !.memoryTick = tick], "memory",
                    <<[kind |-> "counters", tick |-> tick], [kind |-> "agent", tick |-> tick]>>,
                    NoRange)

\* append_collected_loss_records().
CollectedLosses(s) ==
    LET loss(reason, range) == [kind |-> "loss", reason |-> reason, range |-> range] IN
    (IF s.moduleDrops # 0 THEN <<loss("queue_full", NoRange)>> ELSE <<>>)
    \o (IF s.queueDrops # 0 THEN <<loss("queue_full", NoRange)>> ELSE <<>>)
    \o (IF s.traceDrops # 0 THEN <<loss("trace_full", s.dropRange)>> ELSE <<>>)

\* observe_loss() validates every record first.
ObserveLosses(s, losses) ==
    IF \E i \in DOMAIN losses : ~ValidLoss(losses[i]) THEN Throw(s, "loss range")
    ELSE [s EXCEPT !.issues = FoldLeft(ObserveLoss, @, losses)]

\* The counters a Statistics record is made from: with the hooks' snapshot, or
\* from what the writer has drained.
Counts(s) ==
    IF CounterSource
    THEN [observed |-> hook.recordable + s.extra, successful |-> hook.successful + s.extra,
          failed |-> hook.failed, filtered |-> hook.filtered]
    ELSE [observed |-> s.consumed, successful |-> s.consumed - s.failed, failed |-> s.failed,
          filtered |-> 0]

Statistics(s, dropped) ==
    [kind |-> "statistics", observed |-> Counts(s).observed, successful |-> Counts(s).successful,
     failed |-> Counts(s).failed, filtered |-> Counts(s).filtered, dropped |-> dropped,
     unique |-> s.unique, reused |-> s.reused]

EndRecord(s, normal) ==
    [kind |-> "end", final |-> s.nextSequence - 1, normal |-> normal,
     issues |-> (s.issues \ {"missing_end"}) \cup (IF normal THEN {} ELSE {"abnormal_stop"})]

\* write_terminal_records().
EndTrace(s) ==
    IF s.err # "" THEN s ELSE [s EXCEPT !.status = IF s.limit THEN "file_limit" ELSE "complete"]

WriteEnd(s) ==
    LET after == WriteChunk(s, "end", <<EndRecord(s, TRUE)>>, NoRange)
    IN  EndTrace(FlushStream([after EXCEPT !.end = Wrote(s, after)]))

WriteTerminalRecords(s, statistics) ==
    LET after == WriteChunk(s, "statistics", <<statistics>>, NoRange)
    IN  IF s.err # "" THEN s
        ELSE IF ~ValidStatistics(statistics) THEN Throw(s, "statistics")
        ELSE WriteEnd([after EXCEPT !.statistics = Wrote(s, after)])

\* finalize_empty_trace().
FinalizeEmptyTrace(s) ==
    LET zero == [kind |-> "statistics", observed |-> 0, successful |-> 0, failed |-> 0,
                 filtered |-> 0, dropped |-> 0, unique |-> 0, reused |-> 0]
    IN  WriteTerminalRecords([WriteMetadata(s) EXCEPT !.reserve = 0], zero)

\* finalize_trace(): losses, reconciliation, terminal records.
WriteCollectedLosses(s) ==
    LET losses == CollectedLosses(s)
    IN  IF losses = <<>> THEN s
        ELSE WriteChunk(ObserveLosses(s, losses), "event", losses, s.dropRange)

Reconcile(s, n) ==
    LET dropped == IF CounterSource THEN hook.dropped + s.traceDrops ELSE s.traceDrops
    IN  CASE s.err # "" -> s
          [] s.err = "" /\ (n.observed # n.successful + n.failed
                              \/ s.written + n.filtered + dropped # n.observed) ->
                 Throw(s, "counters do not reconcile")
          [] OTHER -> WriteTerminalRecords(s, Statistics(s, dropped))

FinalizeTrace(s) ==
    IF s.err # "" THEN s ELSE Reconcile(WriteCollectedLosses([s EXCEPT !.reserve = 0]), Counts(s))

\* make_error_statistics(): every observed event that was not written is a drop.
ErrorStatistics(s) ==
    LET n == Counts(s) IN
    IF n.observed # n.successful + n.failed \/ s.written + n.filtered > n.observed
    THEN <<>> ELSE <<Statistics(s, n.observed - s.written - n.filtered)>>

\* A best-effort stage: its failure is remembered and the next stage runs.
Stage(after) ==
    [after EXCEPT !.err = "", !.tailError = @ \/ after.err # ""]

\* write_error_tail().
TailLosses(s) ==
    LET losses == CollectedLosses(s)
                  \o <<[kind |-> "loss", reason |-> "writer_error", range |-> NoRange]>>
    IN  Stage(WriteChunk(ObserveLosses(s, losses), "event", losses, NoRange))

TailStatistics(s) ==
    LET made  == ErrorStatistics(s)
        after == WriteChunk(s, "statistics", made, NoRange)
    IN  IF s.statistics THEN s
        ELSE IF made = <<>> THEN [s EXCEPT !.tailError = TRUE]
        ELSE [Stage(after) EXCEPT !.statistics = Wrote(s, after)]

TailEnd(s) ==
    LET after == WriteChunk(s, "end", <<EndRecord(s, FALSE)>>, NoRange)
    IN  [Stage(after) EXCEPT !.end = Wrote(s, after)]

WriteErrorTail(s) ==
    IF s.tailTried \/ s.end THEN s
    ELSE TailEnd(TailStatistics(TailLosses([s EXCEPT !.tailTried = TRUE, !.reserve = 0])))

\* record_writer_error(): the first error stands; the tail; one last flush.
RecordWriterError(s) ==
    LET first == IF s.error = "" THEN [s EXCEPT !.error = s.err, !.status = "error"] ELSE s
    IN  Stage(FlushStream(WriteErrorTail([first EXCEPT !.err = ""])))

CommitOutput_AlwaysPromotes(s, closes) ==
    [s EXCEPT !.committed = TRUE, !.flushed = Len(s.file), !.final = TRUE]

\* commit_output() and record_commit_failure(): close, then rename unless the
\* capture failed.
CommitOutput(s, closes) ==
    CASE s.committed -> s
      [] ~s.committed /\ (~closes \/ s.broken \/ s.size > disk.space) ->
             [s EXCEPT !.committed = TRUE, !.status = "error",
                       !.error = IF @ = "" THEN "close" ELSE @]
      [] OTHER -> [s EXCEPT !.committed = TRUE, !.flushed = Len(s.file),
                            !.final = s.status # "error"]
----------------------------------------------------------------------------
\* LinuxModuleTracker: the live images, the bounded queue of raw events, drops.
ModuleEvent(type, image, tick) ==
    [type |-> type, base |-> image.base, size |-> image.size, tick |-> tick]

\* enqueue().
TrackerEnqueue(t, e) ==
    IF Len(t.queue) = ModuleCapacity THEN [t EXCEPT !.drops = @ + 1]
    ELSE [t EXCEPT !.queue = Append(@, e)]

SortedImages(images) == SetToSortSeq(images, LAMBDA a, b : a.base < b.base)

\* poll_impl(): a tick is the number of the polls that found a change; unloads of vanished bases, then loads; a base whose content has
\* changed is an unload and a load.
PollChanges(t, tick) ==
    LET gone == {i \in t.live : \A j \in loaded : j.base # i.base}
        changed(j) == {i \in t.live : i.base = j.base /\ i # j}
        fresh == {j \in loaded : j \notin t.live}
        unload(i) == ModuleEvent("unload", i, tick)
        arrive(j) == [i \in DOMAIN SortedImages(changed(j)) |-> unload(SortedImages(changed(j))[i])]
                     \o <<ModuleEvent("load", j, tick)>>
    IN  [i \in DOMAIN SortedImages(gone) |-> unload(SortedImages(gone)[i])]
        \o FlattenSeq([j \in DOMAIN SortedImages(fresh) |-> arrive(SortedImages(fresh)[j])])

Poll(t) ==
    [FoldLeft(TrackerEnqueue, t, PollChanges(t, t.polls + 1))
        EXCEPT !.live = loaded, !.polls = IF t.live = loaded THEN @ ELSE @ + 1]

\* drain_modules_through(): the module events up to an event's tick.
DrainModules(s, t, tick) ==
    LET ready == Len(SelectSeq(t.queue, LAMBDA m : m.tick <= tick))
        rest  == [t EXCEPT !.queue = SubSeq(@, ready + 1, Len(@))]
    IN  [s |-> FoldLeft(ProcessModuleEvent, s, SubSeq(t.queue, 1, ready)), t |-> rest]

CollectDrops_QueueForgotten(s, t) == [s EXCEPT !.moduleDrops = @ + t.drops]

\* collect_queue_drops() and collect_module_drops().
CollectDrops(s, t) == [s EXCEPT !.queueDrops = @ + queueDrops, !.moduleDrops = @ + t.drops]
----------------------------------------------------------------------------
\* A thread outside, inside, or with an event to push.
Idle == [at |-> "idle"]
Inside == [at |-> "inside"]

Init ==
    /\ disk \in Disks
    /\ w = EmptyWriter
    /\ pc = "wait"
    /\ caller = "setup"
    /\ hook = [recordable |-> 0, successful |-> 0, failed |-> 0, filtered |-> 0, dropped |-> 0]
    /\ busy = [t \in Threads |-> Idle]
    /\ queue = <<>>
    /\ queueDrops = 0
    /\ \E images \in {{}} \cup {{i} : i \in Images} :
           /\ loaded = images
           /\ tracker = [live |-> images, queue |-> <<>>, drops |-> 0, polls |-> 0]
    /\ steps = [images |-> 0, ticks |-> 0]

writer == <<w, pc>>
target == <<hook, busy, queue, queueDrops>>

\* A replacement of the hooks: counted on entry while the gate is open ...
Enter(t) ==
    /\ caller = "capturing"
    /\ busy[t] = Idle
    /\ hook.recordable < MaxCalls
    /\ hook' = [hook EXCEPT !.recordable = @ + 1]
    /\ busy' = [busy EXCEPT ![t] = Inside]
    /\ UNCHANGED <<writer, caller, queue, queueDrops, loaded, tracker, steps, disk>>

\* ... the outcome when the original has returned, with the stack of the caller
\* (an address of a loaded image), no stack (0) or a failed capture ...
Sites == {a \in Addresses : \E i \in loaded : a \in i.base .. i.base + i.size - 1}

Outcome(t, o) ==
    /\ busy[t] = Inside
    /\ hook' = [hook EXCEPT !.successful = @ + (IF o.ok THEN 1 ELSE 0),
                            !.failed = @ + (IF o.ok THEN 0 ELSE 1),
                            !.filtered = @ + (IF o.filtered THEN 1 ELSE 0)]
    /\ \E stack \in IF o.stack /\ Sites # {} THEN Sites ELSE {0} :
           busy' = [busy EXCEPT ![t] =
                 IF o.filtered THEN Idle
                 ELSE [at |-> "push", records |-> o.records, ok |-> o.ok, stack |-> stack,
                       lost |-> o.lost, tick |-> tracker.polls]]
    /\ UNCHANGED <<writer, caller, queue, queueDrops, loaded, tracker, steps, disk>>

\* ... and the event goes to the queue, or is a drop that both sides count.
PushEvent(t) ==
    /\ busy[t].at = "push"
    /\ busy' = [busy EXCEPT ![t] = Idle]
    /\ \/ /\ Len(queue) < QueueCapacity
          /\ queue' = Append(queue, busy[t])
          /\ UNCHANGED <<hook, queueDrops>>
       \/ /\ Len(queue) >= QueueCapacity
          /\ hook' = [hook EXCEPT !.dropped = @ + 1]
          /\ queueDrops' = queueDrops + 1
          /\ UNCHANGED queue
    /\ UNCHANGED <<writer, caller, loaded, tracker, steps, disk>>

\* The dynamic loader maps and unmaps images.
Dlopen(i) ==
    /\ steps.images < MaxImages
    /\ \A j \in loaded : ~Overlaps(i, j)
    /\ loaded' = loaded \cup {i}
    /\ steps' = [steps EXCEPT !.images = @ + 1]
    /\ UNCHANGED <<writer, caller, target, tracker, disk>>

Dlclose(i) ==
    /\ steps.images < MaxImages
    /\ i \in loaded
    /\ loaded' = loaded \ {i}
    /\ steps' = [steps EXCEPT !.images = @ + 1]
    /\ UNCHANGED <<writer, caller, target, tracker, disk>>

\* begin_capture() with write_memory_baselines(); an exception reaches the
\* runtime, which gives the session up.
Begun(s) ==
    LET ready == FlushStream(WriteMetadata(s)) IN
    IF ready.err # "" THEN ready
    ELSE WriteChunk(ready, "memory", <<[kind |-> "agent", tick |-> 0], [kind |-> "agent", tick |-> 0]>>,
                    NoRange)

BeginCapture ==
    /\ caller = "setup"
    /\ LET begun == Begun(w) IN
           /\ w' = [begun EXCEPT !.err = "", !.begun = begun.err = ""]
           /\ caller' = IF begun.err = "" THEN "capturing" ELSE "stopping"
    /\ UNCHANGED <<pc, target, loaded, tracker, steps, disk>>

\* stop_recording() closes the gate; request_stop() follows quiescence or the
\* end of the drain budget, whichever is first.
StopRecording ==
    /\ caller = "capturing"
    /\ caller' = "gated"
    /\ UNCHANGED <<writer, target, loaded, tracker, steps, disk>>

RequestStop ==
    /\ caller \in {"setup", "gated"}
    /\ caller' = "stopping"
    /\ UNCHANGED <<writer, target, loaded, tracker, steps, disk>>

\* finish(): join, then commit_output().
Finish ==
    /\ caller = "stopping"
    /\ pc = "done"
    /\ caller' = "finished"
    /\ \E closes \in BOOLEAN : w' = CommitOutput(w, closes)
    /\ UNCHANGED <<pc, target, loaded, tracker, steps, disk>>
----------------------------------------------------------------------------
\* thread_main(): an exception ends the capture with the error tail.
Proceed(s, next) ==
    IF s.err # "" THEN w' = RecordWriterError(s) /\ pc' = "done"
    ELSE w' = s /\ pc' = next

\* The thread waits for begin_capture() or a stop.
StartLoop ==
    /\ pc = "wait"
    /\ w.begun
    /\ LET initial == [i \in DOMAIN SortedImages(tracker.live) |->
                          ModuleEvent("load", SortedImages(tracker.live)[i], 0)]
       IN  Proceed(FoldLeft(ProcessModuleEvent, w, initial), "poll")
    /\ UNCHANGED <<caller, target, loaded, tracker, steps, disk>>

StopUnstarted ==
    /\ pc = "wait"
    /\ caller = "stopping"
    /\ ~w.begun
    /\ Proceed(FinalizeEmptyTrace(w), "done")
    /\ UNCHANGED <<caller, target, loaded, tracker, steps, disk>>

\* module_tracker_.poll() of the loop and of the final drain.
PollModules ==
    /\ pc \in {"poll", "fpoll"}
    /\ tracker' = Poll(tracker)
    /\ pc' = IF pc = "poll" THEN "drain" ELSE "fdrain"
    /\ UNCHANGED <<w, caller, target, loaded, steps, disk>>

\* One event of the drain loop: the modules up to its tick, then the event.
ProcessNext(d) == Proceed(ProcessRawEvent(d.s, Head(queue)), pc) /\ tracker' = d.t

DrainEvent ==
    /\ pc \in {"drain", "fdrain"}
    /\ queue # <<>>
    /\ ProcessNext(DrainModules(w, tracker, Head(queue).tick))
    /\ queue' = Tail(queue)
    /\ UNCHANGED <<caller, hook, busy, queueDrops, loaded, steps, disk>>

\* The queue is empty: the remaining modules and the drop counters.
CollectRest(d) == Proceed(CollectDrops(d.s, d.t), "round") /\ tracker' = [d.t EXCEPT !.drops = 0]

DrainRest ==
    /\ pc = "drain"
    /\ queue = <<>>
    /\ CollectRest(DrainModules(w, tracker, tracker.polls))
    /\ queueDrops' = 0
    /\ UNCHANGED <<caller, hook, busy, queue, loaded, steps, disk>>

\* The stop check of the loop; otherwise the flush timer and the samplers may
\* be due, and the loop starts over.
RoundStops ==
    /\ pc = "round"
    /\ caller = "stopping"
    /\ pc' = "fpoll"
    /\ UNCHANGED <<w, caller, target, loaded, tracker, steps, disk>>

RoundOn(flush, sample) ==
    /\ pc = "round"
    /\ caller # "stopping"
    /\ (flush \/ sample) => steps.ticks < MaxTicks
    /\ LET flushed == IF flush THEN FlushStream(FlushPending(w)) ELSE w
       IN  Proceed(IF sample THEN CaptureMemorySnapshot(flushed, tracker.polls) ELSE flushed, "poll")
    /\ steps' = [steps EXCEPT !.ticks = @ + (IF flush \/ sample THEN 1 ELSE 0)]
    /\ UNCHANGED <<caller, target, loaded, tracker, disk>>

\* The end of the final drain: rest, flush, last sample, finalize_trace().
Finalize(d) ==
    /\ Proceed(FinalizeTrace(CaptureMemorySnapshot(FlushPending(CollectDrops(d.s, d.t)),
                                                   tracker.polls)), "done")
    /\ tracker' = [d.t EXCEPT !.drops = 0]

Final ==
    /\ pc = "fdrain"
    /\ queue = <<>>
    /\ Finalize(DrainModules(w, tracker, tracker.polls))
    /\ queueDrops' = 0
    /\ UNCHANGED <<caller, hook, busy, queue, loaded, steps, disk>>

WriterThread ==
    \/ StartLoop \/ StopUnstarted \/ PollModules \/ DrainEvent \/ DrainRest \/ RoundStops
    \/ \E flush, sample \in BOOLEAN : RoundOn(flush, sample)
    \/ Final

Caller == BeginCapture \/ StopRecording \/ RequestStop \/ Finish

Next ==
    \/ \E t \in Threads :
          \/ Enter(t) \/ PushEvent(t)
          \/ \E o \in Outcomes : Outcome(t, o)
    \/ \E i \in Images : Dlopen(i) \/ Dlclose(i)
    \/ Caller
    \/ WriterThread

Spec == Init /\ [][Next]_vars
----------------------------------------------------------------------------
\* What the kernel holds of the file if the process is killed now: at least
\* what was flushed, at most what was written and fits on the disk.
Cost(chunks) == FoldLeft(LAMBDA n, c : n + 1 + Len(c.recs), 0, chunks)
Survivors == {n \in w.flushed .. Len(w.file) : Cost(SubSeq(w.file, 1, n)) <= disk.space}
Torn(n) == IF n < Len(w.file) \/ w.broken THEN BOOLEAN ELSE {FALSE}

Type ==
    /\ pc \in {"wait", "poll", "drain", "round", "fpoll", "fdrain", "done"}
    /\ caller \in {"setup", "capturing", "gated", "stopping", "finished"}
    /\ w.err = ""
    /\ w.size = Cost(w.file)
    /\ w.size <= disk.limit

\* What TraceReadable excludes: the error tail after the limit, and a module
\* change the tracker could not queue.
TailAfterLimit == w.tailTried /\ w.traceDrops # 0
ModuleChangeLost == w.moduleDrops # 0 \/ tracker.drops # 0

\* begin_capture() and write_error_tail(): from the moment the capture has
\* begun the file is a decodable trace whenever the process is killed, the disk
\* fills up or the writer stops.
TraceReadable ==
    \/ TailAfterLimit \/ ModuleChangeLost
    \/ ~w.begun
    \/ \A n \in Survivors : \A torn \in Torn(n) : ~Decode(SubSeq(w.file, 1, n), torn).rejected

\* Claimed, and false: write_error_tail() leaves "a parseable, explicitly
\* incomplete trace" (trace_writer.cpp:728).
TailReadable == w.tailTried /\ ~w.broken /\ ~ModuleChangeLost => ~Decode(w.file, FALSE).rejected

\* A trace whose report has no issue holds every event of every call that was
\* counted, less the filtered ones, although the target, the writer and the stop
\* ran concurrently and the stop may have outrun a replacement.
CompleteMeansComplete ==
    pc = "done" /\ w.file # <<>> =>
        LET r == Decode(w.file, FALSE) IN
        ~r.rejected /\ r.issues = {} =>
            r.events = hook.recordable - hook.filtered + w.extra /\ hook.dropped = 0

\* Claimed, and false: "a failed chunk write degrades to the usual file-limit
\* handling" (capture_memory_snapshot).
LimitDegrades ==
    /\ pc = "done" /\ ~w.committed /\ ~w.broken /\ ~ModuleChangeLost
    /\ w.begun /\ hook.recordable = hook.filtered + hook.dropped + w.consumed - w.extra
    => w.status # "error"

\* reserved_tail_size: while the disk works, whatever the size limit and whatever
\* the error, the last records fit and the trace ends with EndOfTrace; the one
\* exception is an error of finalize_trace() after its own loss chunk.
LossChunks == SelectSeq(w.file, LAMBDA c : c.type = "event" /\ \E i \in DOMAIN c.recs :
                  c.recs[i].kind = "loss" /\ c.recs[i].reason # "stack_capture_failed")
ReserveSuffices == pc = "done" /\ ~w.broken /\ Len(LossChunks) <= 1 => w.end

\* commit_output(): a trace under its final name ended normally, with the
\* statistics and the end record on the disk, which the reserve left room for.
FinalPathMeansNormalEnd ==
    /\ Type /\ ReserveSuffices
    /\ w.final =>
        LET r == Decode(w.file, FALSE) IN
        /\ w.error = ""
        /\ w.flushed = Len(w.file) /\ w.size <= disk.space
        /\ ~ModuleChangeLost => ~r.rejected /\ r.end # <<>> /\ r.end[1].normal
                                  /\ r.statistics # <<>> /\ "abnormal_stop" \notin r.issues

\* Claimed, and false: capture_loop() polls the loader "first so fresh load
\* records precede the events whose stacks may reference them".
FreshLoadsFirst ==
    \A i \in DOMAIN w.stacks : w.stacks[i].module # 0
============================================================================
