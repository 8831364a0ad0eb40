--------------------------- MODULE MemoryCapture ---------------------------
(***************************************************************************)
(* Threads of the target call mmap, munmap, mremap, malloc, realloc, free  *)
(* and the functions of a custom hook point (an allocator of the target,   *)
(* which hands out the same chunks).  The original acts, then the          *)
(* replacement takes a completion number (mappings only), then it queues   *)
(* the event: three steps, so neither numbers nor queue need have the      *)
(* order in which the kernel or the allocator acted.  The writer drains    *)
(* the queue into wire records (LinuxVmPlan) and the analyzer replays them *)
(* (GenerationTracker).                                                    *)
(*                                                                         *)
(* The kernel and the allocator are external: kernel[p] is the call that   *)
(* created the mapping page p belongs to (0: unmapped, Before: mapped      *)
(* before the capture, more than Before: mapped by a call that is          *)
(* filtered).  Page 0 is the null page.  The target is well behaved: it    *)
(* only releases what a call that has returned gave it.                    *)
(***************************************************************************)
EXTENDS Naturals, FiniteSets, LinuxVmPlan, GenerationTracker

CONSTANTS
    Threads,
    Pages,          \* pages 0 .. Pages of the address space
    Chunks,         \* heap addresses
    Minimums,       \* minimum_capture_size: smaller allocations are filtered
    Sizes,          \* sizes of heap requests
    MaxCalls,       \* bound: calls the target makes
    Capacity        \* slots of the queue

Before == MaxCalls + 1
Page == 0 .. Pages
Idle == [op |-> "none"]

VARIABLES
    kernel,    \* the address space
    chunks,    \* the allocator: chunk -> free, live, or unseen (live, not recorded)
    call,      \* thread -> the event of the call in flight, or Idle
    calls,     \* number of calls made
    sequence,  \* vm_completion_sequence
    queue,     \* events, in reservation order
    model,     \* the writer's live model
    tracker,   \* the analyzer
    records,   \* counters: [calls, extra, paired, out] of the records written
    lost,      \* an event was dropped
    misread,   \* the events cannot tell the writer what was done
    broken,    \* validate_raw_event refused an event: the capture has ended
    family,    \* the hook group of this behaviour: the two share no state
    minimum    \* minimum_capture_size of this capture

writer == <<model, tracker, records>>
options == <<family, minimum>>
vars == <<kernel, chunks, call, calls, sequence, queue, model, tracker, records, lost, misread,
          broken, family, minimum>>

Span(b, n) == b .. b + n - 1

\* Pages or chunks that a call in flight has received or given back.
Pending(t) ==
    LET e == call[t] IN
    IF e = Idle \/ ~e.ok THEN {}
    ELSE CASE e.op = "mmap"   -> Span(e.result, e.size)
           [] e.op = "munmap" -> Span(e.address, e.size)
           [] e.op = "mremap" -> Span(e.address, e.size) \cup Span(e.result, e.count)
           [] OTHER           -> {}
PendingChunk(t) ==
    LET e == call[t] IN IF e = Idle THEN {} ELSE {e.address, e.result} \ {0}

\* The pages of a range that the target holds: mapped, and no call of another
\* thread is between the kernel and its return with them.
Held(t, range) ==
    \A p \in range : kernel[p] # 0 => \A u \in Threads \ {t} : p \notin Pending(u)

\* A page was mapped before the capture; tried where small mappings, too, are unknown
\* to the writer.
Init ==
    /\ minimum \in Minimums
    /\ family \in {"vm", "heap"}
    /\ kernel = [p \in Page |-> IF p = Pages /\ family = "vm" /\ PreexistingUnknown /\ minimum > 1
                              THEN Before ELSE 0]
    /\ chunks = [c \in Chunks |-> "free"]
    /\ call = [t \in Threads |-> Idle]
    /\ calls = 0
    /\ sequence = 0
    /\ queue = <<>>
    /\ model = EmptyModel
    /\ tracker = EmptyTracker
    /\ records = [calls |-> 0, extra |-> 0, paired |-> 0, out |-> 0]
    /\ lost = FALSE
    /\ misread = FALSE
    /\ broken = FALSE

Completes(t, event) ==
    /\ calls' = calls + 1
    /\ call' = [call EXCEPT ![t] = event]
    /\ UNCHANGED <<sequence, queue, writer, lost, broken, options>>

\* The original has returned to the replacement, which knows the arguments and
\* the result; order is the call's place among the kernel's actions, until the
\* call takes its completion number.
ENOMEM == 12
Return(t, op, ok, address, size, count, result, section) ==
    Completes(t, [op |-> op, api |-> "vm", ok |-> ok, code |-> IF ok THEN 0 ELSE ENOMEM,
                  address |-> address, size |-> size, count |-> count, result |-> result,
                  section |-> section, seq |-> 0, order |-> calls + 1])

\* Between the kernel and the completion number.
Unnumbered(t) == call[t] # Idle /\ call[t].order > 0

\* record_vm_allocate, record_vm_unmap and record_vm_remap: fetch_add on the
\* completion counter, then the filter, which is for mmap only.  The number is
\* before that of a call the kernel executed earlier on the same pages: the
\* window the comment on vm_completion_sequence describes.
TakeNumber(t) ==
    /\ Unnumbered(t)
    /\ sequence' = sequence + 1
    /\ misread' = (misread \/ \E u \in Threads : /\ Unnumbered(u)
                                                 /\ call[u].order < call[t].order
                                                 /\ Pending(u) \cap Pending(t) # {})
    /\ call' = [call EXCEPT ![t] = IF @.op = "mmap" /\ @.size < minimum THEN Idle
                                   ELSE [@ EXCEPT !.seq = sequence + 1, !.order = 0]]
    /\ UNCHANGED <<kernel, chunks, calls, queue, writer, lost, broken, options>>

\* Another call has left the kernel and its event is not queued yet; it is an
\* in-place resize.
Overlapped(t) == \E u \in Threads \ {t} : Pending(u) # {}
ResizeInFlight(t) ==
    \E u \in Threads \ {t} : /\ Pending(u) # {}
                             /\ call[u].op = "mremap"
                             /\ call[u].result = call[u].address

\* The pages a recorded call has mapped.
Recorded == {p \in Page : kernel[p] \in 1 .. MaxCalls}

\* mmap without MAP_FIXED finds free pages; with it, it replaces what is there,
\* another thread's mapping of the same fixed address and the null page included.
\* A filtered mmap replaces recorded pages unseen.
Mmap(t, b, n, section) ==
    LET filtered == n < minimum IN
    /\ Span(b, n) \subseteq Page
    /\ kernel' = [p \in Page |-> IF p \notin Span(b, n) THEN kernel[p]
                                 ELSE IF filtered THEN Before + calls + 1 ELSE calls + 1]
    /\ Return(t, "mmap", TRUE, 0, n, 0, b, section)
    /\ misread' = (misread \/ ResizeInFlight(t)
                           \/ (filtered /\ Recorded \cap Span(b, n) # {}))
    /\ UNCHANGED chunks

\* munmap succeeds whether anything is mapped in the range or not.
Munmap(t, b, n) ==
    /\ Span(b, n) \subseteq Page
    /\ Held(t, Span(b, n))
    /\ kernel' = [p \in Page |-> IF p \in Span(b, n) THEN 0 ELSE kernel[p]]
    /\ Return(t, "munmap", TRUE, b, n, 0, 0, FALSE)
    /\ misread' = (misread \/ ResizeInFlight(t))
    /\ UNCHANGED chunks

\* The range mremap names: one mapping, or a part of one.
Remappable(t, b, n) ==
    /\ Span(b, n) \subseteq Page
    /\ Held(t, Span(b, n) \cup {b})
    /\ kernel[b] # 0
    /\ \A p \in Span(b, n) : kernel[p] = kernel[b]

\* A resize the writer may misread names part of a mapping.
Partial(b, n) == {p \in Page : kernel[p] = kernel[b]} # Span(b, n)

\* In place: shrink, grow into free pages, or nothing.
MremapInPlace(t, b, n, m) ==
    /\ Remappable(t, b, n)
    /\ Span(b, m) \subseteq Page
    /\ \A p \in Span(b, m) \ Span(b, n) : kernel[p] = 0
    /\ m > n => b + n \notin Page \/ kernel[b + n] # kernel[b]
    /\ kernel' = [p \in Page |->
           IF p \in Span(b, m) THEN (IF kernel[b] >= Before THEN calls + 1 ELSE kernel[b])
           ELSE IF p \in Span(b, n) THEN 0 ELSE kernel[p]]
    /\ misread' = (misread \/ Partial(b, n) \/ Overlapped(t))
    /\ Return(t, "mremap", TRUE, b, n, m, b, FALSE)
    /\ UNCHANGED chunks

\* To another place, which MREMAP_FIXED may choose over existing mappings or at
\* the null page.  keep is MREMAP_DONTUNMAP: the old range stays mapped, which the
\* event does not say; an old size of zero duplicates a shared mapping.
MremapMove(t, b, n, m, d, keep) ==
    /\ Remappable(t, b, n)
    /\ keep => n = m
    /\ Span(d, m) \subseteq Page
    /\ Span(d, m) \cap (Span(b, n) \cup {b}) = {}
    /\ kernel' = [p \in Page |-> IF p \in Span(d, m) THEN calls + 1
                                 ELSE IF p \in Span(b, n) /\ ~keep THEN 0 ELSE kernel[p]]
    /\ Return(t, "mremap", TRUE, b, n, m, d, FALSE)
    /\ misread' = (misread \/ keep \/ ResizeInFlight(t))
    /\ UNCHANGED chunks

\* A call that fails leaves the kernel alone and is still recorded.
CallFails(t, op, section) ==
    /\ section => op = "mmap"
    /\ Return(t, op, FALSE, IF op = "mmap" THEN 0 ELSE 1, 1, IF op = "mremap" THEN 1 ELSE 0,
              0, section)
    /\ UNCHANGED <<kernel, chunks, misread>>

\* A chunk is handed out while the event that freed it is still in flight.
Reuses(t, c) == \E u \in Threads \ {t} : c \in PendingChunk(u)

\* emit_event and emit_custom_event: the fields of a heap event.
HeapEvent(op, api, failed, errno, address, size, result) ==
    [op |-> op, api |-> api, ok |-> ~failed, code |-> IF failed THEN errno ELSE 0,
     address |-> address, size |-> size, count |-> 0, result |-> IF failed THEN 0 ELSE result,
     section |-> FALSE, seq |-> 0, order |-> 0]

\* The allocator hands out chunk c (0: it is out of memory).
Allocates(t, c, recorded) ==
    /\ c # 0 => chunks[c] = "free"
    /\ chunks' = [x \in Chunks |-> IF x # c THEN chunks[x]
                                   ELSE IF recorded THEN "live" ELSE "unseen"]
    /\ misread' = (misread \/ Reuses(t, c))
    /\ UNCHANGED kernel

\* record_allocate: what is smaller than the minimum has no event, failed or not.
RecordAllocate(t, n, c, failed, code) ==
    Completes(t, IF n < minimum THEN Idle
                 ELSE HeapEvent("malloc", "glibc", failed, code, 0, n, c))

Malloc(t, c, n) ==
    /\ Allocates(t, c, n >= minimum)
    /\ RecordAllocate(t, n, c, c = 0, ENOMEM)

\* replacement_calloc: an overflowing product fails, and its wrapped value n is
\* what is recorded and filtered.
Calloc(t, c, n, overflows) ==
    /\ overflows => c = 0
    /\ Allocates(t, c, n >= minimum)
    /\ RecordAllocate(t, n, c, c = 0, ENOMEM)

\* replacement_aligned_alloc and replacement_memalign: a bad alignment fails, too.
EINVAL == 22
AlignedAlloc(t, c, n, errno) ==
    /\ Allocates(t, c, n >= minimum)
    /\ RecordAllocate(t, n, c, c = 0, errno)

\* replacement_posix_memalign: success and failure go by the return code, which
\* the event carries; without success *memptr is not read.
PosixMemalign(t, c, n, code) ==
    /\ c = 0 <=> code # 0
    /\ Allocates(t, c, n >= minimum)
    /\ RecordAllocate(t, n, c, code # 0, code)

\* "a third-party allocator that fails without setting errno reports ENOMEM".
ErrorCode(errno) == IF errno # 0 THEN errno ELSE ENOMEM

\* custom_alloc_impl: a declared product that overflows (~valid) is a failure of
\* size zero, whatever the allocator returned.
CustomAlloc(t, c, n, valid, errno) ==
    LET failed == ~valid \/ c = 0 IN
    /\ ~valid => n = 0
    /\ ~failed => errno = 0
    /\ Allocates(t, c, ~failed /\ n >= minimum)
    /\ Completes(t, IF ~failed /\ n < minimum THEN Idle
                    ELSE HeapEvent("malloc", "custom", failed, ErrorCode(errno), 0, n, c))

\* The target releases chunk c, or passes a null pointer.
Releases(c) ==
    /\ c # 0 => chunks[c] # "free" /\ \A u \in Threads : c \notin PendingChunk(u)
    /\ chunks' = [x \in Chunks |-> IF x = c THEN "free" ELSE chunks[x]]
    /\ UNCHANGED <<kernel, misread>>

Free(t, c) == Releases(c) /\ Completes(t, HeapEvent("free", "glibc", FALSE, 0, c, 0, 0))

\* custom_free_impl: a declared size argument is not carried.
CustomFree(t, c) == Releases(c) /\ Completes(t, HeapEvent("free", "custom", FALSE, 0, c, 0, 0))

\* The allocator moves c to d, leaves it (d = c), frees it (d = 0, no bytes) or
\* fails (d = 0); c = 0 allocates d.
Moves(t, c, n, d) ==
    /\ c # 0 => chunks[c] # "free" /\ \A u \in Threads : c \notin PendingChunk(u)
    /\ d # 0 /\ d # c => chunks[d] = "free"
    /\ chunks' = [x \in Chunks |-> IF x = d THEN "live"
                                   ELSE IF x = c /\ (d # 0 \/ n = 0) THEN "free" ELSE chunks[x]]
    /\ misread' = (misread \/ (d # c /\ Reuses(t, d)))
    /\ UNCHANGED kernel

\* replacement_realloc: no bytes and no result is a success.
Realloc(t, c, n, d) ==
    /\ Moves(t, c, n, d)
    /\ Completes(t, HeapEvent("realloc", "glibc", d = 0 /\ n # 0, ENOMEM, c, n, d))

\* replacement_reallocarray with a product that overflows: the allocator fails and
\* leaves c alone, and the event has the wrapped product n.  Zero looks like the
\* success of a request for no bytes.
ReallocarrayOverflows(t, c, n) ==
    /\ c # 0 => chunks[c] # "free" /\ \A u \in Threads : c \notin PendingChunk(u)
    /\ misread' = (misread \/ (c # 0 /\ n = 0))
    /\ Completes(t, HeapEvent("realloc", "glibc", n # 0, ENOMEM, c, n, 0))
    /\ UNCHANGED <<kernel, chunks>>

CustomRealloc(t, c, n, d, errno) ==
    /\ errno # 0 => d = 0 /\ n # 0
    /\ Moves(t, c, n, d)
    /\ Completes(t, HeapEvent("realloc", "custom", d = 0 /\ n # 0, ErrorCode(errno), c, n, d))

\* emit_event(): try_emplace takes a slot, and the call returns to the target.
Emits(t) == call[t] # Idle /\ ~Unnumbered(t)

Enqueue(t) ==
    /\ Emits(t)
    /\ Len(queue) < Capacity
    /\ queue' = Append(queue, call[t])
    /\ records' = [records EXCEPT !.calls = @ + 1,
                       !.paired = @ + HookPredicted(call[t]) - 1]
    /\ call' = [call EXCEPT ![t] = Idle]
    /\ UNCHANGED <<kernel, chunks, calls, sequence, model, tracker, lost, misread, broken, options>>

\* The queue is full: the event is dropped and its pair is not counted.
DropEvent(t) ==
    /\ Emits(t)
    /\ Len(queue) = Capacity
    /\ lost' = TRUE
    /\ call' = [call EXCEPT ![t] = Idle]
    /\ UNCHANGED <<kernel, chunks, calls, sequence, queue, writer, misread, broken, options>>

\* The writer consumes one event; the analyzer replays its records.
Consume ==
    /\ queue # <<>> /\ ~broken
    /\ ValidRawEvent(Head(queue))
    /\ LET e == Head(queue)
           plan == PlanEvent(model, e)
       IN  /\ model' = plan.m
           /\ tracker' = FoldLeft(Observe, tracker, plan.out)
           /\ records' = [records EXCEPT !.extra = @ + ExtraRecords(e, plan.out),
                                         !.out = @ + Len(plan.out)]
    /\ queue' = Tail(queue)
    /\ UNCHANGED <<kernel, chunks, call, calls, sequence, lost, misread, broken, options>>

\* process_event() throws: the capture thread ends with a writer error.
Refuse ==
    /\ queue # <<>> /\ ~broken
    /\ ~ValidRawEvent(Head(queue))
    /\ broken' = TRUE
    /\ UNCHANGED <<kernel, chunks, call, calls, sequence, queue, writer, lost, misread, options>>

\* A thread outside the hooks makes its next call.
Ready(t) == call[t] = Idle /\ calls < MaxCalls /\ ~broken

\* The arguments that are tried.  Of the ranges from the null page one will do,
\* as their events are all refused; of the empty ranges munmap may name, and of the
\* mapped ranges MREMAP_FIXED may replace, those of one page; of the sections, one of
\* two pages.  What the filter does not concern (sections, duplicates,
\* MREMAP_DONTUNMAP) is tried where nothing is filtered, and failures of the other calls where something is.
Size == 1 .. Pages
Ranges == {r \in Page \X Size : r[1] = 0 => r[2] = 1}
Unfiltered == minimum = 1
Unmapped(r) == \A p \in Span(r[1], r[2]) \cap Page : kernel[p] = 0
VmCall(t) == family = "vm" /\ Ready(t) /\ (
    \/ \E r \in Ranges, section \in BOOLEAN :
           (section => r = <<1, 2>> /\ Unfiltered) /\ Mmap(t, r[1], r[2], section)
    \/ \E r \in Ranges : (Unmapped(r) => r[2] = 1) /\ Munmap(t, r[1], r[2])
    \/ \E r \in Ranges, m \in Size : MremapInPlace(t, r[1], r[2], m)
    \/ \E r \in Ranges, d \in Ranges, keep \in BOOLEAN :
           /\ Unmapped(d) \/ d[2] = 1
           /\ d[1] = 0 \/ keep => r[2] = 1 /\ Unfiltered
           /\ MremapMove(t, r[1], r[2], d[2], d[1], keep)
    \/ \E b \in Page, d \in Page : Unfiltered /\ MremapMove(t, b, 0, 1, d, FALSE)
    \/ \E op \in {"mmap", "munmap", "mremap"}, section \in BOOLEAN :
           (op = "mmap" \/ ~Unfiltered) /\ (section => Unfiltered) /\ CallFails(t, op, section))

Chunk0 == Chunks \cup {0}
HeapCall(t) == family = "heap" /\ Ready(t) /\ (
    \/ \E c \in Chunk0, n \in Sizes : Malloc(t, c, n)
    \/ \E c \in Chunk0, n \in Sizes, overflows \in BOOLEAN : Calloc(t, c, n, overflows)
    \/ \E c \in Chunk0, n \in Sizes, errno \in {ENOMEM, EINVAL} : AlignedAlloc(t, c, n, errno)
    \/ \E c \in Chunk0, n \in Sizes, code \in {0, ENOMEM, EINVAL} : PosixMemalign(t, c, n, code)
    \/ \E c \in Chunk0 : Free(t, c)
    \/ \E c \in Chunk0, n \in Sizes, d \in Chunk0 : Realloc(t, c, n, d)
    \/ \E c \in Chunk0, n \in Sizes : ReallocarrayOverflows(t, c, n)
    \/ \E c \in Chunk0, n \in Sizes, valid \in BOOLEAN, errno \in {0, ENOMEM} :
           CustomAlloc(t, c, n, valid, errno)
    \/ \E c \in Chunk0 : CustomFree(t, c)
    \/ \E c \in Chunk0, n \in Sizes, d \in Chunk0, errno \in {0, ENOMEM} :
           CustomRealloc(t, c, n, d, errno))

Next ==
    \/ \E t \in Threads : TakeNumber(t)
    \/ \E t \in Threads : Enqueue(t)
    \/ \E t \in Threads : DropEvent(t)
    \/ \E t \in Threads : VmCall(t)
    \/ \E t \in Threads : HeapCall(t)
    \/ Consume
    \/ Refuse

Spec == Init /\ [][Next]_vars

----------------------------------------------------------------------------
Drained == queue = <<>> /\ \A t \in Threads : call[t] = Idle

\* The writer's bookkeeping is sound: its interval map is well formed, every
\* fragment has a generation, and live_bytes is what the fragments add up to
\* (generation_for() would throw otherwise and end the capture).
WriterModelSound ==
    /\ WellFormed(model.space)
    /\ \A f \in Range(model.space) : f.id \in DOMAIN model.gens
    /\ \A id \in DOMAIN model.gens :
           /\ model.gens[id].live > 0
           /\ model.gens[id].live = TotalBytes(SelectSeq(model.space, LAMBDA f : f.id = id))

\* The analyzer never rejects a record the writer emits and never finds one that
\* ends a generation it does not know, whatever order the events were queued in
\* and whichever of them were dropped.
AnalyzerAccepts == ~tracker.rejected /\ tracker.orphans = 0

\* Writer and analyzer hold the same bytes for every mapping generation after
\* every event, as interval_set.hpp promises ("agree bit for bit").
BytesOf(s) == UNION {Span(f.begin, f.end - f.begin) : f \in Range(s)}
AnalyzerAgrees ==
    /\ WriterModelSound /\ AnalyzerAccepts
    /\ DOMAIN tracker.mappings = DOMAIN model.gens
    /\ \A id \in DOMAIN model.gens :
           /\ BytesOf(tracker.mappings[id].live)
                  = BytesOf(SelectSeq(model.space, LAMBDA f : f.id = id))
           /\ tracker.mappings[id].size = model.gens[id].live

\* docs/JSON_OUTPUT.md: the size of a mapping generation is the remaining
\* virtual bytes; docs/TRACE_WRITER.md 8.1: matching goes by completion
\* sequence, never by queue order.  So with no loss, once every call has
\* returned and the queue is empty, the live bytes are the pages that recorded
\* calls have mapped.
LiveBytesExact == Drained /\ ~lost => BytesOf(model.space) = Recorded

\* The same for every behaviour that the events can tell: the completion sequence
\* repairs every order in which the events of mmap, munmap and mremap are queued,
\* and every order of the numbers that swaps only calls on other pages.  Not told
\* are numbers swapped on the same pages, a resize of part of a mapping or beside
\* another call, MREMAP_DONTUNMAP, and a filtered mmap over recorded pages.
LivePagesAreMapped == ~misread => LiveBytesExact

\* With no loss, no reuse of a chunk whose free is still in flight and no
\* reallocarray whose product wraps to zero, the analyzer's live allocations are
\* the allocator's live chunks, less the ones that were too small to record.
LiveChunksAreAllocated ==
    Drained /\ ~lost /\ ~misread =>
        /\ \A c \in Chunks : chunks[c] = "live" <=>
               \E id \in DOMAIN tracker.allocations : tracker.allocations[id].address = c
        /\ Cardinality(DOMAIN tracker.allocations) = Cardinality({c \in Chunks : chunks[c] = "live"})

\* finalize_trace() reconciles: every record written is a queued call, the
\* second half of a queued move, or an extra record the writer counted.  And the
\* events that a replacement makes and validate_raw_event() refuses, which ends the
\* capture, are those of calls that succeed on the null page and of reallocations
\* of a null pointer to no bytes (or to a product that wraps to zero).
RecordsReconcile ==
    /\ queue = <<>> => records.out = records.calls + records.paired + records.extra
    /\ broken => LET e == Head(queue) IN
                 \/ e.op = "realloc" /\ e.address = 0 /\ e.size = 0 /\ e.result = 0
                 \/ e.op = "mmap" /\ e.ok /\ e.result = 0
                 \/ e.op = "munmap" /\ e.ok /\ e.address = 0
                 \/ e.op = "mremap" /\ e.ok /\ (e.address = 0 \/ e.result = 0)
============================================================================
