--------------------------- MODULE WindowsCapture ---------------------------
(***************************************************************************)
(* A Windows capture: threads of the target inside the replacements of the *)
(* Rtl heap functions, the NT memory functions and the custom hook points, *)
(* the loader's module notifications, and the writer's thread              *)
(* (WindowsTraceWriter) up to finish() or to an exit of the process.  The  *)
(* replacement records its event after the original has returned, so the   *)
(* queue order is not the order in which the system acted.                 *)
(*                                                                         *)
(* The heap manager and the kernel are external.  sys.blocks holds         *)
(* <<heap, address>> pairs, sys.region maps a page to the base of its      *)
(* reservation or view.  The target is well behaved: it releases only what *)
(* a call that has returned gave it.  The functions of different families  *)
(* share no state, so a behaviour is about one family.                     *)
(***************************************************************************)
EXTENDS WindowsTraceWriter

CONSTANTS
    Threads,
    Runs,           \* set of [family, minimum (min_capture_size), disk, calls, odd (bounds)]:
                    \* of the calls, only the first odd may fail, raise, be remote or nest
    Heaps,          \* handles RtlCreateHeap may return
    Addresses,      \* block addresses
    Pages,          \* pages 1 .. Pages of the address space
    Images,         \* module images [base, size]
    MaxImages,      \* bound: loads and unloads
    MaxTicks,       \* bound: periodic flushes and snapshots
    QueueCapacity,
    ModuleCapacity

ProcessHeap == 9
Page == 1 .. Pages

VARIABLES
    w,         \* the writer
    pc,        \* its thread: wait, loop, done
    control,   \* the runtime: setup, capturing, stopped, finishing, exiting, finished
    hook,      \* API -> counters
    drops,     \* API -> dropped events not collected yet
    call,      \* thread -> the event of the call in flight, or Idle
    queue,     \* raw events
    sys,       \* [heaps, blocks, region, committed, old]
    loader,    \* [loaded, queue, drops, tick]
    steps,     \* [calls, images, ticks, seq] used up
    lossy,     \* history: [lost, raced, partial, twice, killed], see below
    run        \* the member of Runs this behaviour is about

vars == <<w, pc, control, hook, drops, call, queue, sys, loader, steps, lossy, run>>

\* lost: an event was dropped or filtered; raced: an address came back before the event
\* that gave it up was queued; partial: a part of a reservation was released; twice: an
\* outer handler went on with a call whose exception the filter had counted; killed: the
\* exit of the process caught a thread of the agent or a recording call inside a step.
NothingLost == [lost |-> FALSE, raced |-> FALSE, partial |-> FALSE, twice |-> FALSE, killed |-> FALSE]

Idle == [api |-> "none"]

NoEvent ==
    [api |-> "none", op |-> "none", status |-> "success", heap |-> 0, address |-> 0, size |-> 0,
     result |-> 0, raw |-> 0, mbase |-> 0, msize |-> 0, reserve |-> FALSE, release |-> FALSE,
     remote |-> FALSE, ex |-> FALSE, stack |-> 0, lost |-> FALSE, tick |-> 0, seq |-> 0]

NoCalls == [replacement |-> 0, recordable |-> 0, recursive |-> 0, internal |-> 0,
            successful |-> 0, failed |-> 0, exceptional |-> 0, filtered |-> 0]

\* enumerate_initial_modules() runs after the registration: an image loaded in
\* between is in the snapshot and in the queue.
Load(i, initial, tick) ==
    [type |-> "load", base |-> i.base, size |-> i.size, initial |-> initial, tick |-> tick]

Init ==
    /\ run \in Runs
    /\ w = NewWriter(run.disk)
    /\ pc = "wait"
    /\ control = "setup"
    /\ hook = [a \in Apis |-> NoCalls]
    /\ drops = NoCounts
    /\ call = [t \in Threads |-> Idle]
    /\ queue = <<>>
    /\ \E old \in {{}, {Pages}} :
           /\ old # {} => PreexistingUnknown /\ run.family = "virtual"
           /\ sys = [heaps |-> {ProcessHeap}, blocks |-> {}, committed |-> {}, old |-> old,
                     region |-> [p \in Page |-> IF p \in old THEN p ELSE 0]]
    /\ \E images \in {{}} \cup {{i} : i \in Images}, notified \in BOOLEAN :
           /\ run.family # "module" => images = {}
           /\ notified => images # {}
           /\ loader = [loaded |-> images, initial |-> images, drops |-> 0, tick |-> 0,
                        queue |-> IF notified THEN <<Load(CHOOSE i \in images : TRUE, FALSE, 0)>>
                                  ELSE <<>>]
    /\ steps = [calls |-> 0, images |-> 0, ticks |-> 0, seq |-> 0]
    /\ lossy = NothingLost

writing == <<w, pc>>
Running == control \notin {"exiting", "finished"}
Family(f) == run.family = f /\ control = "capturing" /\ steps.calls < run.calls
----------------------------------------------------------------------------
Classify_Nested(h, api, kind) ==
    [h EXCEPT ![api] = [@ EXCEPT !.replacement = @ + 1, !.recordable = @ + 1]]

\* classify_entry() and note_custom_call(), by the kind of the hook guard.
Classify(h, api, kind) ==
    [h EXCEPT ![api] = [@ EXCEPT !.replacement = @ + 1,
                            !.recordable = @ + (IF kind = "outermost" THEN 1 ELSE 0),
                            !.recursive = @ + (IF kind = "recursive" THEN 1 ELSE 0),
                            !.internal = @ + (IF kind = "internal" THEN 1 ELSE 0)]]

\* A call enters the replacement on route kRecord and its original returns
\* event e (a failure or an exception included).  The heap manager may ask the
\* kernel for pages on the way: that call is recursive.
Enter(t, e) ==
    /\ call[t] = Idle
    /\ \E nested \in IF run.family = "heap" /\ steps.calls < run.odd THEN BOOLEAN ELSE {FALSE} :
           hook' = LET own == Classify(hook, e.api, "outermost") IN
                   IF nested THEN Classify(own, "vm_allocate", "recursive") ELSE own
    /\ call' = [call EXCEPT ![t] = e]
    /\ steps' = [steps EXCEPT !.calls = @ + 1]
    /\ UNCHANGED <<writing, control, drops, queue, loader, run>>

Event(api) ==
    [NoEvent EXCEPT !.api = api,
                    !.op = CASE api = "c_allocate" -> "allocate"
                             [] api = "c_reallocate" -> "reallocate"
                             [] api = "c_free" -> "free"
                             [] OTHER -> api]

\* What the calls in flight of other threads have given back, and received.
InFlight(t) == {call[u] : u \in {v \in Threads \ {t} : call[v] # Idle}}
Ended(t) == {<<e.heap, e.address>> : e \in InFlight(t)}
Busy(t, h, a) == \E e \in InFlight(t) : e.heap = h /\ (e.result = a \/ e.address = a)
BusyHeap(t, h) == \E e \in InFlight(t) : e.heap = h \/ (e.op = "create" /\ e.result = h)
BusyPages(t, p, n) == \E e \in InFlight(t), q \in p .. p + n - 1 :
                          q \in e.result .. e.result + e.raw \/ q \in e.address .. e.address + e.raw
Raced(early) == lossy' = [lossy EXCEPT !.raced = @ \/ early]

RtlCreateHeap(t, h) ==
    /\ Family("heap")
    /\ h \notin sys.heaps
    /\ sys' = [sys EXCEPT !.heaps = @ \cup {h}]
    /\ Raced(\E e \in InFlight(t) : e.op = "destroy" /\ e.heap = h)
    /\ Enter(t, [Event("create") EXCEPT !.result = h])

RtlDestroyHeap(t, h) ==
    /\ Family("heap")
    /\ h \in sys.heaps \ {ProcessHeap}
    /\ ~BusyHeap(t, h)
    /\ sys' = [sys EXCEPT !.heaps = @ \ {h}, !.blocks = {b \in @ : b[1] # h}]
    /\ Raced(FALSE)
    /\ Enter(t, [Event("destroy") EXCEPT !.heap = h])

\* The blocks of a heap; heap 0 stands for the custom allocator.
Allocate(t, api, h, a, n) ==
    /\ \A b \in sys.blocks : b[2] # a
    /\ sys' = [sys EXCEPT !.blocks = @ \cup {<<h, a>>}]
    /\ Raced(<<h, a>> \in Ended(t))
    /\ Enter(t, [Event(api) EXCEPT !.heap = h, !.result = a, !.size = n])

Reallocate(t, api, h, a, b) ==
    /\ <<h, a>> \in sys.blocks
    /\ ~Busy(t, h, a)
    /\ b # a => \A k \in sys.blocks : k[2] # b
    /\ sys' = [sys EXCEPT !.blocks = (@ \ {<<h, a>>}) \cup {<<h, b>>}]
    /\ Raced(<<h, b>> \in Ended(t))
    /\ Enter(t, [Event(api) EXCEPT !.heap = h, !.address = a, !.result = b, !.size = 2])

Free(t, api, h, a) ==
    /\ <<h, a>> \in sys.blocks
    /\ ~Busy(t, h, a)
    /\ sys' = [sys EXCEPT !.blocks = @ \ {<<h, a>>}]
    /\ Raced(FALSE)
    /\ Enter(t, [Event(api) EXCEPT !.heap = h, !.address = a, !.raw = 1])

RtlAllocateHeap(t, h, a, n) ==
    /\ Family("heap")
    /\ h \in sys.heaps
    /\ \A e \in InFlight(t) : e.op = "create" => e.result # h
    /\ Allocate(t, "allocate", h, a, n)
RtlReAllocateHeap(t, h, a, b) == Family("heap") /\ Reallocate(t, "reallocate", h, a, b)
RtlFreeHeap(t, h, a) == Family("heap") /\ Free(t, "free", h, a)

CustomAlloc(t, a, n) == Family("custom") /\ Allocate(t, "c_allocate", 0, a, n)
CustomRealloc(t, a, b) == Family("custom") /\ Reallocate(t, "c_reallocate", 0, a, b)
CustomFree(t, a) == Family("custom") /\ Free(t, "c_free", 0, a)

Span(b, n) == b .. b + n - 1
FreePages(b, n) == Span(b, n) \subseteq Page /\ \A p \in Span(b, n) : sys.region[p] = 0
RegionOf(b) == {p \in Page : sys.region[p] = b}
ClosedBy(t, pages) == \E e \in InFlight(t) :
    e.op = "unmap" \/ (e.release /\ Span(e.address, e.raw) \cap pages # {})

\* NtAllocateVirtualMemory: reserve (perhaps commit too), or commit in a region.
VmReserve(t, b, n, commit) ==
    /\ Family("virtual")
    /\ FreePages(b, n)
    /\ sys' = [sys EXCEPT !.region = [p \in Page |-> IF p \in Span(b, n) THEN b ELSE @[p]],
                          !.committed = IF commit THEN @ \cup Span(b, n) ELSE @]
    /\ Raced(ClosedBy(t, Span(b, n)))
    /\ Enter(t, [Event("vm_allocate") EXCEPT !.result = b, !.size = n, !.raw = n, !.reserve = TRUE])

VmCommit(t, b, n) ==
    /\ Family("virtual")
    /\ Span(b, n) \subseteq Page
    /\ sys.region[b] # 0 /\ Span(b, n) \subseteq RegionOf(sys.region[b])
    /\ ~BusyPages(t, b, n)
    /\ sys' = [sys EXCEPT !.committed = @ \cup Span(b, n)]
    /\ Raced(FALSE)
    /\ Enter(t, [Event("vm_allocate") EXCEPT !.address = b, !.result = b, !.size = n, !.raw = n])

\* NtFreeVirtualMemory with MEM_RELEASE: the whole region, or pages of it; what is left
\* behind them is a region of its own.  The kernel returns the size it released.
VmRelease(t, b, n) ==
    LET base == sys.region[b]
        rest == RegionOf(base) \ Span(b, n)
        front(p) == p < b
    IN
    /\ Family("virtual")
    /\ base # 0 /\ Span(b, n) \subseteq RegionOf(base)
    /\ ~BusyPages(t, b, n)
    /\ sys' = [sys EXCEPT !.region = [p \in Page |-> IF p \in Span(b, n) THEN 0
                                                     ELSE IF p \in rest /\ ~front(p) THEN b + n
                                                     ELSE @[p]],
                          !.committed = @ \ Span(b, n), !.old = @ \ Span(b, n)]
    /\ lossy' = [lossy EXCEPT !.partial = @ \/ rest # {}]
    /\ Enter(t, [Event("vm_free") EXCEPT !.address = b, !.raw = n, !.release = TRUE])

VmDecommit(t, b) ==
    /\ Family("virtual")
    /\ b \in sys.committed
    /\ ~BusyPages(t, b, 1)
    /\ sys' = [sys EXCEPT !.committed = @ \ {b}]
    /\ Raced(FALSE)
    /\ Enter(t, [Event("vm_free") EXCEPT !.address = b, !.raw = 1])

MapView(t, b, n) ==
    /\ Family("section")
    /\ FreePages(b, n)
    /\ sys' = [sys EXCEPT !.region = [p \in Page |-> IF p \in Span(b, n) THEN b ELSE @[p]]]
    /\ Raced(ClosedBy(t, Span(b, n)))
    /\ Enter(t, [Event("map") EXCEPT !.result = b, !.raw = n, !.mbase = b, !.msize = n])

\* NtUnmapViewOfSection and its Ex form take any address of the view.
UnmapView(t, p, ex) ==
    /\ Family("section")
    /\ sys.region[p] # 0
    /\ ~BusyPages(t, sys.region[p], Cardinality(RegionOf(sys.region[p])))
    /\ sys' = [sys EXCEPT !.region = [q \in Page |-> IF @[q] = sys.region[p] THEN 0 ELSE @[q]]]
    /\ Raced(FALSE)
    /\ Enter(t, [Event("unmap") EXCEPT !.address = p, !.result = p, !.ex = ex])

\* A call on another process changes nothing here and names no mapping.
RemoteCall(t, api) ==
    /\ Family(IF api \in {"map", "unmap"} THEN "section" ELSE "virtual")
    /\ steps.calls < run.odd
    /\ Raced(FALSE)
    /\ Enter(t, [Event(api) EXCEPT !.remote = TRUE,
                     !.address = IF api \in {"vm_free", "unmap"} THEN 1 ELSE 0,
                     !.result = IF api = "vm_free" THEN 0 ELSE 1,
                     !.raw = IF api = "unmap" THEN 0 ELSE 1,
                     !.release = api = "vm_free", !.reserve = api = "vm_allocate"])
    /\ UNCHANGED sys

Apiset == [heap |-> HeapApis, virtual |-> {"vm_allocate", "vm_free"}, section |-> {"map", "unmap"},
           custom |-> CustomApis, module |-> {}]

\* The original fails, or raises an exception that unwinds the replacement; the
\* exception filter has no stack to record.
CallFails(t, api, status) ==
    /\ Family(run.family)
    /\ steps.calls < run.odd
    /\ api \in Apiset[run.family]
    /\ status = "failure" => api # "c_free"
    /\ Raced(FALSE)
    /\ Enter(t, [Event(api) EXCEPT !.status = status, !.lost = status = "exception",
                     !.raw = IF api = "destroy" /\ status = "failure" THEN 1 ELSE 0,
                     !.size = IF api \in {"free", "destroy", "unmap"} THEN 0 ELSE 1])
    /\ UNCHANGED sys

\* An allocation with its call site, for the stacks and the modules.
SiteCall(t, i) ==
    /\ Family("module")
    /\ i \in loader.loaded
    /\ Raced(FALSE)
    /\ Enter(t, [Event("allocate") EXCEPT !.heap = ProcessHeap, !.result = Min(Addresses), !.size = 2,
                                          !.stack = i.base])
    /\ UNCHANGED sys
----------------------------------------------------------------------------
\* fill_vm_event(): VirtualQuery at the result, when the event is filled.
FillVmEvent(e) ==
    LET base == sys.region[e.result]
        same(q) == sys.region[q] = base /\ (q \in sys.committed <=> e.result \in sys.committed)
        end  == Min({q \in e.result .. Pages + 1 : q > Pages \/ (q <= Pages /\ ~same(q))})
        size == end - base
    IN  IF e.status # "success" \/ e.remote THEN e
        ELSE [e EXCEPT !.mbase = base, !.msize = IF size > e.raw THEN size ELSE e.raw]

\* fill_section_event(): the view is the mapping.
FillSectionEvent(e) ==
    IF e.status # "success" \/ e.remote THEN e ELSE [e EXCEPT !.mbase = e.result, !.msize = e.raw]

\* try_emplace() into the common queue, or one more dropped event of the API.
TryEmplace(e) ==
    IF Len(queue) = QueueCapacity
    THEN drops' = [drops EXCEPT ![e.api] = @ + 1] /\ UNCHANGED <<queue, steps>>
    ELSE /\ steps' = [steps EXCEPT !.seq = @ + 1]
         /\ queue' = Append(queue, [e EXCEPT !.seq = steps.seq + 1, !.tick = loader.tick,
                                             !.ex = FALSE])
         /\ UNCHANGED drops

Counted(e, outcome, small) ==
    hook' = [hook EXCEPT ![e.api] = [@ EXCEPT ![outcome] = @ + 1,
                 !.exceptional = @ + (IF e.status = "exception" THEN 1 ELSE 0),
                 !.filtered = @ + (IF small THEN 1 ELSE 0)]]

Left(t, small) ==
    /\ call' = [call EXCEPT ![t] = Idle]
    /\ lossy' = [lossy EXCEPT !.lost = @ \/ small \/ Len(queue) = QueueCapacity]
    /\ UNCHANGED <<writing, control, sys, loader, run>>

\* The original has returned: the outcome, then the size filter or the event e.
Returns(t, api, e, small) ==
    /\ Running /\ call[t].api = api
    /\ e.status # "exception"
    /\ Counted(e, IF e.status = "success" THEN "successful" ELSE "failed", small)
    /\ IF small THEN UNCHANGED <<queue, drops, steps>> ELSE TryEmplace(e)
    /\ Left(t, small)

\* The original has raised an exception.  The filter records the call and lets the
\* search go on: an outer handler unwinds the replacement, or goes on with the call,
\* which then returns and is counted once more.
Raises(t, api, small) ==
    LET e     == call[t]
        again == [e EXCEPT !.status = IF api = "c_free" THEN "success" ELSE "failure", !.lost = FALSE,
                           !.raw = IF api \in {"c_free", "destroy"} THEN 1 ELSE 0]
    IN
    /\ Running /\ e.api = api
    /\ e.status = "exception"
    /\ Counted(e, "failed", small)
    /\ IF small THEN UNCHANGED <<queue, drops, steps>> ELSE TryEmplace(e)
    /\ \E resumed \in BOOLEAN :
           /\ call' = [call EXCEPT ![t] = IF resumed THEN again ELSE Idle]
           /\ lossy' = [lossy EXCEPT !.lost = @ \/ small \/ Len(queue) = QueueCapacity,
                                     !.twice = @ \/ resumed]
    /\ UNCHANGED <<writing, control, sys, loader, run>>

Small(size) == size < run.minimum
\* The size of the region where the kernel returned one, else the request.
RegionSize(e) == IF e.status = "success" /\ e.raw # 0 THEN e.raw ELSE e.size

RtlCreateHeapReturns(t) == Returns(t, "create", call[t], FALSE)
RtlDestroyHeapReturns(t) == Returns(t, "destroy", call[t], FALSE)
RtlAllocateHeapReturns(t) == Returns(t, "allocate", call[t], Small(call[t].size))
RtlReAllocateHeapReturns(t) == Returns(t, "reallocate", call[t], FALSE)
RtlFreeHeapReturns(t) == Returns(t, "free", call[t], FALSE)
NtAllocateReturns(t) ==
    Returns(t, "vm_allocate", FillVmEvent(call[t]), Small(RegionSize(call[t])))
NtFreeReturns(t) == Returns(t, "vm_free", call[t], FALSE)
NtMapReturns(t) ==
    Returns(t, "map", FillSectionEvent(call[t]), Small(RegionSize(call[t])))
NtUnmapReturns(t) == call[t].api = "unmap" /\ ~call[t].ex /\ Returns(t, "unmap", call[t], FALSE)
NtUnmapExReturns(t) == call[t].api = "unmap" /\ call[t].ex /\ Returns(t, "unmap", call[t], FALSE)

\* The size filter of a custom allocation is for successful calls only.
CustomAllocReturns(t) ==
    Returns(t, "c_allocate", call[t], call[t].status = "success" /\ Small(call[t].size))
CustomReallocReturns(t) == Returns(t, "c_reallocate", call[t], FALSE)
CustomFreeReturns(t) == Returns(t, "c_free", call[t], FALSE)

RtlCreateHeapRaises(t) == Raises(t, "create", FALSE)
RtlDestroyHeapRaises(t) == Raises(t, "destroy", FALSE)
RtlAllocateHeapRaises(t) == Raises(t, "allocate", Small(call[t].size))
RtlReAllocateHeapRaises(t) == Raises(t, "reallocate", FALSE)
RtlFreeHeapRaises(t) == Raises(t, "free", FALSE)
NtAllocateRaises(t) == Raises(t, "vm_allocate", Small(call[t].size))
NtFreeRaises(t) == Raises(t, "vm_free", FALSE)
NtMapRaises(t) == Raises(t, "map", Small(call[t].size))
NtUnmapRaises(t) == Raises(t, "unmap", FALSE)
CustomRaises(t) == \E api \in CustomApis : Raises(t, api, FALSE)

\* handle_notification(): the loader tells of a load or an unload.
Notify(m) ==
    /\ run.family = "module"
    /\ steps.images < MaxImages
    /\ control \in {"capturing", "stopped"}
    /\ steps' = [steps EXCEPT !.images = @ + 1]
    /\ lossy' = [lossy EXCEPT !.lost = @ \/ Len(loader.queue) = ModuleCapacity]
    /\ UNCHANGED <<writing, control, hook, drops, call, queue, sys, run>>

Notified(m, loaded) ==
    IF Len(loader.queue) = ModuleCapacity
    THEN [loader EXCEPT !.loaded = loaded, !.drops = @ + 1, !.tick = @ + 1]
    ELSE [loader EXCEPT !.loaded = loaded, !.queue = Append(@, m), !.tick = @ + 1]

LoadImage(i) ==
    /\ \A j \in loader.loaded : ~Reader!Overlaps(i, j)
    /\ Notify(i)
    /\ loader' = Notified(Load(i, FALSE, loader.tick + 1), loader.loaded \cup {i})

UnloadImage(i) ==
    /\ i \in loader.loaded
    /\ Notify(i)
    /\ loader' = Notified([Load(i, FALSE, loader.tick + 1) EXCEPT !.type = "unload"],
                          loader.loaded \ {i})
----------------------------------------------------------------------------
\* note_custom_hook_failures(): a point that could not be installed.
CustomHookFails ==
    /\ control = "setup"
    /\ run.family = "custom"
    /\ ~w.failures
    /\ w' = NoteCustomHookFailures(w)
    /\ UNCHANGED <<pc, control, hook, drops, call, queue, sys, loader, steps, lossy, run>>

\* begin_capture(): the metadata; an error here fails the start.
BeginCapture ==
    /\ control = "setup"
    /\ w' = WriteMetadata(w)
    /\ control' = IF w'.err = "" THEN "capturing" ELSE "stopped"
    /\ UNCHANGED <<pc, hook, drops, call, queue, sys, loader, steps, lossy, run>>

\* The handler of thread_main() ends the thread.
Ends(after) == IF after.err = "" THEN pc ELSE "done"
Settle(after) == IF after.err = "" THEN after
                 ELSE [RecordError(after) EXCEPT !.first = IF @ = "" THEN after.err ELSE @]

\* capture_loop(): the modules of the snapshot.
InitialModules(s) ==
    LET bases == SetToSortSeq({i.base : i \in loader.initial}, <)
        image(b) == CHOOSE i \in loader.initial : i.base = b
    IN  FoldLeft(ProcessModuleEvent, s, [k \in DOMAIN bases |-> Load(image(bases[k]), TRUE, 0)])

StartLoop ==
    /\ pc = "wait"
    /\ control \in {"capturing", "stopped", "finishing"}
    /\ w.metadata /\ w.err = ""
    /\ w' = Settle(InitialModules(w))
    /\ pc' = IF w'.err = "" THEN "loop" ELSE "done"
    /\ UNCHANGED <<control, hook, drops, call, queue, sys, loader, steps, lossy, run>>

\* A stop before the capture has begun: finalize_empty_trace().
StopUnstarted ==
    /\ pc = "wait"
    /\ control \in {"setup", "stopped"}
    /\ control = "setup" \/ w.err # ""
    /\ LET after == FinalizeEmptyTrace([w EXCEPT !.err = ""]) IN w' = Settle(after)
    /\ pc' = "done"
    /\ control' = "finished"
    /\ UNCHANGED <<hook, drops, call, queue, sys, loader, steps, lossy, run>>

DrainEvent(s, e) == ProcessEvent(DrainModules(s, loader.queue, e.tick), e)
LeftModules(tick) == SelectSeq(loader.queue, LAMBDA m : m.tick > tick)

\* One event of the inner loop: popped, then processed with the modules before it.  What
\* the writer's thread does between two looks at the queue no other thread sees, unless
\* it is killed there (below).
Drain ==
    /\ pc = "loop"
    /\ control # "exiting" /\ queue # <<>>
    /\ w' = Settle(DrainEvent(w, Head(queue)))
    /\ queue' = Tail(queue)
    /\ loader' = [loader EXCEPT !.queue = LeftModules(Head(queue).tick)]
    /\ pc' = Ends(w')
    /\ UNCHANGED <<control, hook, drops, call, sys, steps, lossy, run>>

\* The rest of a round: every module event, the drops, and when they are due a
\* flush and a snapshot.
Collected(s) == CollectDrops(DrainModules(s, loader.queue, loader.tick), drops, loader.drops)
RoundWrites(s, flush, sample) ==
    LET flushed == IF flush THEN FlushPending(s) ELSE s
    IN  IF sample THEN CaptureMemorySnapshot(flushed, steps.ticks + 1) ELSE flushed

Round(flush, sample) ==
    /\ pc = "loop"
    /\ queue = <<>>
    /\ control \in {"capturing", "stopped"}
    /\ flush \/ sample => steps.ticks < MaxTicks
    /\ w' = Settle(RoundWrites(Collected(w), flush, sample))
    /\ pc' = Ends(w')
    /\ drops' = NoCounts
    /\ loader' = [loader EXCEPT !.queue = <<>>, !.drops = 0]
    /\ steps' = [steps EXCEPT !.ticks = @ + (IF flush \/ sample THEN 1 ELSE 0)]
    /\ UNCHANGED <<control, hook, call, queue, sys, lossy, run>>

\* stop_recording(): no new call is recorded.
StopRecording ==
    /\ control = "capturing"
    /\ control' = "stopped"
    /\ UNCHANGED <<writing, hook, drops, call, queue, sys, loader, steps, lossy, run>>

Quiet == \A t \in Threads : call[t] = Idle

RequestStop_Early == control = "stopped"

\* finish() with require_hooks_logically_stopped(): no replacement is recording.
RequestStop == control = "stopped" /\ Quiet

Finish ==
    /\ RequestStop
    /\ control' = "finishing"
    /\ UNCHANGED <<writing, hook, drops, call, queue, sys, loader, steps, lossy, run>>

\* The final drain boundary, on the writer's thread or inline.
FinalDrain(s) ==
    LET events  == FoldLeft(DrainEvent, s, queue)
        last    == IF queue = <<>> THEN loader.queue ELSE LeftModules(Last(queue).tick)
        modules == DrainModules(events, last, loader.tick)
    IN  FlushPending(CollectDrops(modules, drops, loader.drops))

Emptied ==
    /\ drops' = NoCounts
    /\ queue' = <<>>
    /\ loader' = [loader EXCEPT !.queue = <<>>, !.drops = 0]
    /\ control' = "finished"
    /\ pc' = "done"
    /\ UNCHANGED <<hook, call, sys, steps, lossy, run>>

\* The end of capture_loop(): one more sample, then the tail.
FinishCapture ==
    /\ pc = "loop"
    /\ control = "finishing"
    /\ \E sample \in BOOLEAN :
           w' = LET drained == FinalDrain(w) IN
                Settle(FinalizeTrace(IF sample THEN CaptureMemorySnapshot(drained, MaxTicks + 1)
                                     ELSE drained, hook))
    /\ Emptied

\* The writer's thread had already failed: finish() only joins it.
FinishFailed ==
    /\ pc = "done"
    /\ control = "finishing"
    /\ UNCHANGED w
    /\ Emptied

\* The exit of the process kills every other thread, at any instruction.  The writer's
\* thread is between two steps,
Exits(inside) ==
    /\ control = "capturing"
    /\ control' = "exiting"
    /\ lossy' = [lossy EXCEPT !.killed = inside \/ ~Quiet]
    /\ UNCHANGED <<hook, call, sys, steps, run>>

ExitProcess == Exits(FALSE) /\ UNCHANGED <<w, pc, drops, queue, loader>>

\* or has got as far as point d of the one it is in.
DeathPoints == [at : {"torn", "written"}, chunks : 0 .. 2]
               \cup [at : {"popped", "noted", "planned", "taken"}, chunks : {0}]
Dying(d) == [w EXCEPT !.dies = d, !.err = IF d.at = "popped" THEN "killed" ELSE @]
Died(dead) == dead.err = "killed" /\ w' = [dead EXCEPT !.err = "", !.dies = Immortal]

\* Inside the modules of the snapshot: the flag that they are done is set first.
KilledInSnapshot(d) ==
    /\ Exits(TRUE)
    /\ pc = "wait" /\ w.metadata /\ w.err = ""
    /\ Died(InitialModules(Dying(d)))
    /\ pc' = "loop"
    /\ UNCHANGED <<drops, queue, loader>>

\* Inside process_event(), or before it: the event is popped and gone.
KilledInEvent(d) ==
    /\ Exits(TRUE)
    /\ pc = "loop" /\ queue # <<>>
    /\ Died(DrainEvent(Dying(d), Head(queue)))
    /\ queue' = Tail(queue)
    /\ loader' = [loader EXCEPT !.queue = IF d.at = "popped" THEN @ ELSE LeftModules(Head(queue).tick)]
    /\ UNCHANGED <<pc, drops>>

\* Inside the rest of a round: the modules, the drops, a flush or a sample.
KilledInRound(d, flush, sample) ==
    LET modules == DrainModules(Dying(d), loader.queue, loader.tick) IN
    /\ Exits(TRUE)
    /\ pc = "loop" /\ queue = <<>>
    /\ d.at # "popped"
    /\ flush \/ sample => steps.ticks < MaxTicks
    /\ Died(RoundWrites(Collected(Dying(d)), flush, sample))
    /\ drops' = IF modules.err = "killed" THEN drops ELSE NoCounts
    /\ loader' = [loader EXCEPT !.queue = <<>>,
                                !.drops = IF modules.err = "killed" THEN @ ELSE 0]
    /\ UNCHANGED <<pc, queue>>

\* finalize_detached() on the exiting thread.  A thread killed inside a replacement leaves
\* its counter raised, and finish_after_worker_exit() throws before it does anything.
FinishAfterWorkerExit ==
    /\ control = "exiting"
    /\ w' = LET again == [w EXCEPT !.err = ""]
                start == IF pc = "wait" THEN InitialModules(again) ELSE again
            IN  IF ~Quiet THEN w
                ELSE IF w.file = <<>> THEN Settle(FinalizeEmptyTrace(again))
                ELSE Settle(FinalizeTrace(FinalDrain(start), hook))
    /\ Emptied

\* The process has ended.
Terminated == control = "finished" /\ UNCHANGED vars

\* Requested sizes: on either side of the size filter, where there is one.
Sizes == IF run.minimum = 0 THEN {2} ELSE {1, 2}

Next ==
    \/ \E t \in Threads, h \in Heaps : RtlCreateHeap(t, h)
    \/ \E t \in Threads, h \in Heaps : RtlDestroyHeap(t, h)
    \/ \E t \in Threads, h \in Heaps \cup {ProcessHeap}, a \in Addresses, n \in Sizes :
           RtlAllocateHeap(t, h, a, n)
    \/ \E t \in Threads, h \in Heaps \cup {ProcessHeap}, a \in Addresses, b \in Addresses :
           RtlReAllocateHeap(t, h, a, b)
    \/ \E t \in Threads, h \in Heaps \cup {ProcessHeap}, a \in Addresses : RtlFreeHeap(t, h, a)
    \/ \E t \in Threads, a \in Addresses, n \in Sizes : CustomAlloc(t, a, n)
    \/ \E t \in Threads, a \in Addresses, b \in Addresses : CustomRealloc(t, a, b)
    \/ \E t \in Threads, a \in Addresses : CustomFree(t, a)
    \/ \E t \in Threads, b \in Page, n \in Page, commit \in BOOLEAN : VmReserve(t, b, n, commit)
    \/ \E t \in Threads, b \in Page, n \in Page : VmCommit(t, b, n)
    \/ \E t \in Threads, b \in Page, n \in Page : VmRelease(t, b, n)
    \/ \E t \in Threads, b \in Page : VmDecommit(t, b)
    \/ \E t \in Threads, b \in Page, n \in Page : MapView(t, b, n)
    \/ \E t \in Threads, p \in Page, ex \in BOOLEAN : UnmapView(t, p, ex)
    \/ \E t \in Threads, api \in NtApis : RemoteCall(t, api)
    \/ \E t \in Threads, api \in Apis, status \in {"failure", "exception"} :
           CallFails(t, api, status)
    \/ \E t \in Threads, i \in Images : SiteCall(t, i)
    \/ \E t \in Threads :
           \/ RtlCreateHeapReturns(t) \/ RtlDestroyHeapReturns(t) \/ RtlAllocateHeapReturns(t)
           \/ RtlReAllocateHeapReturns(t) \/ RtlFreeHeapReturns(t)
           \/ NtAllocateReturns(t) \/ NtFreeReturns(t)
           \/ NtMapReturns(t) \/ NtUnmapReturns(t) \/ NtUnmapExReturns(t)
           \/ CustomAllocReturns(t) \/ CustomReallocReturns(t) \/ CustomFreeReturns(t)
           \/ RtlCreateHeapRaises(t) \/ RtlDestroyHeapRaises(t) \/ RtlAllocateHeapRaises(t)
           \/ RtlReAllocateHeapRaises(t) \/ RtlFreeHeapRaises(t)
           \/ NtAllocateRaises(t) \/ NtFreeRaises(t) \/ NtMapRaises(t) \/ NtUnmapRaises(t)
           \/ CustomRaises(t)
    \/ \E i \in Images : LoadImage(i)
    \/ \E i \in Images : UnloadImage(i)
    \/ CustomHookFails
    \/ BeginCapture
    \/ StartLoop
    \/ StopUnstarted
    \/ Drain
    \/ \E flush \in BOOLEAN, sample \in BOOLEAN : Round(flush, sample)
    \/ StopRecording
    \/ Finish
    \/ FinishCapture
    \/ FinishFailed
    \/ ExitProcess
    \/ \E d \in DeathPoints : KilledInSnapshot(d)
    \/ \E d \in DeathPoints : KilledInEvent(d)
    \/ \E d \in DeathPoints, flush \in BOOLEAN, sample \in BOOLEAN : KilledInRound(d, flush, sample)
    \/ FinishAfterWorkerExit
    \/ Terminated

Spec == Init /\ [][Next]_vars
----------------------------------------------------------------------------
\* The event records the file holds and the ones still pending, in order.
Gens(recs) == LET es == SelectSeq(recs, LAMBDA x : x.kind = "event")
              IN  [i \in DOMAIN es |-> es[i].gen]
Recorded == FlattenSeq([i \in DOMAIN w.file |-> IF w.file[i].type = "event"
                                                THEN Gens(w.file[i].recs) ELSE <<>>])
ReadSeqs == FlattenSeq([i \in DOMAIN w.file |->
                IF w.file[i].type # "event" THEN <<>>
                ELSE LET es == SelectSeq(w.file[i].recs, LAMBDA x : x.kind = "event")
                     IN  [j \in DOMAIN es |-> es[j].seq]])
Replayed == FoldLeft(Tracker!Observe, Tracker!EmptyTracker, Recorded \o Gens(w.events))

\* What the analyzer makes of the file; a torn chunk is a truncation at the end of the
\* file and a corrupt chunk anywhere else.
Torn == {i \in DOMAIN w.file : w.file[i].type = "torn"}
Readable == IF Torn = {} THEN Reader!Decode(w.file, FALSE)
            ELSE IF Torn = {Len(w.file)} THEN Reader!Decode(Front(w.file), TRUE)
            ELSE Reader!Refuse(Reader!EmptyStream)

\* finalize_trace() never finds the hooks' counters at odds with what it wrote:
\* every recordable call ends in exactly one of written, filtered, dropped by
\* the queue and dropped at the file limit, under its own API, through nested
\* calls, SEH exceptions, the size filter, a full queue, the file limit and
\* finalization on the exiting thread (a first failure aside; an exception that an
\* outer handler continues and a kill inside a step excepted).  And wherever the
\* writer's thread was killed, a trace that reads to its end holds every call that
\* was queued exactly once: it is refused or has no end otherwise.
CountersReconcile ==
    /\ w.first \in {"reconcile", "statistics", "raw event"} => lossy.twice \/ lossy.killed
    /\ control = "finished" /\ w.metadata /\ w.file # <<>> =>
           LET r == Readable IN
           ~r.rejected /\ r.end # <<>> =>
               /\ [i \in DOMAIN ReadSeqs |-> i] = ReadSeqs \/ w.dropped # 0
               /\ Len(ReadSeqs) + w.dropped = steps.seq

\* The trace can be read after every step, and up to the file limit the analyzer
\* holds exactly the generations the writer holds: what the writer ends by heap
\* handle or by base address the analyzer ends by identifier.  (A release queued
\* after the next reservation of its base may shrink what the analyzer keeps, and of a
\* reservation released in part the analyzer keeps the rest, the writer nothing.)  The
\* exit that kills the writer's thread inside a step is excepted.
Mappings == Range(w.virtual) \cup Range(w.sections)
WindowsAnalyzerAgrees ==
    LET g == Replayed IN
    ~lossy.killed =>
        /\ w.metadata /\ w.file # <<>> => ~Readable.rejected
        /\ ~g.rejected /\ g.orphans = 0
        /\ ~w.limit => /\ {m.id : m \in Mappings} \subseteq DOMAIN g.mappings
                       /\ Range(w.allocations) \subseteq DOMAIN g.allocations
        /\ ~w.limit /\ ~lossy.raced /\ ~lossy.partial =>
               /\ DOMAIN g.mappings = {m.id : m \in Mappings}
               /\ \A m \in Mappings : g.mappings[m.id].size = m.size

\* A capture that lost, filtered and reordered nothing, on a disk that held it, ends
\* complete, and the analyzer's live memory is the target's.  Excepted with the events
\* queued in another order than the system acted in (lossy.raced) are the release of a
\* part of a reservation, of which the writer keeps nothing, the exception an outer
\* handler continues, and the kill inside a step.
WindowsLiveExact ==
    control = "finished" /\ w.metadata /\ ~w.limit /\ w.err # "write" /\ lossy = NothingLost
    /\ run.family # "module" =>
        LET g == Replayed
            pages == UNION {Span(g.mappings[id].address, g.mappings[id].size) : id \in DOMAIN g.mappings}
        IN  /\ w.status = "complete"
            /\ {g.allocations[id].address : id \in DOMAIN g.allocations} = {b[2] : b \in sys.blocks}
            /\ Cardinality(DOMAIN g.allocations) = Cardinality(sys.blocks)
            /\ {p \in Page : sys.region[p] # 0} \ sys.old = pages \ sys.old

\* Claimed, and false: a thread killed while it wrote a chunk costs at most the tail, and
\* the analyzer takes the trace as "recoverable incomplete" (docs/STATIC_PE_PATCH.md:162).
\* The exiting thread goes on behind the torn chunk, or writes its events once more.
KilledIsRecoverable == control = "finished" /\ w.metadata /\ w.file # <<>> => ~Readable.rejected

\* Claimed, and false: "outermost successful + failed == recordable"
\* (docs/RTL_FREE_HEAP_HOOK.md:37).  An outer handler may continue the exception.
ExceptionCountedOnce == w.first # "reconcile" \/ lossy.killed
============================================================================
