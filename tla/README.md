# A TLA+ model of noleax

noleax records the memory allocations of another process. An *agent* library is loaded
into the target; it patches allocation functions with Hoox, so that every call runs a
*replacement* which calls the original and appends an event to a queue; a writer thread in
the target turns the events into a trace file; a *controller* outside starts and stops the
capture over a socket; an *analyzer* reads the trace later. The agent lives inside a program
that knows nothing of it, so its errors are the target's crashes, hangs and lost data. This
directory models the parts where that can go wrong, checks them with TLC and proves the
central ones with TLAPS.

All paths are relative to `src/`.

## 1. Inventory

| Part | State | Operations | What makes it correct |
|---|---|---|---|
| Event queue (`include/noleax/agent/bounded_mpsc_queue.hpp`) | ring of sequenced slots, `enqueue_`, `dequeue_`, drop, high-water and touch counters | `try_emplace` from any thread, `try_pop` and `take_dropped_count` by the writer, `occupancy` by the status thread, `reset_quiescent` | a slot has one user at a time; delivery in reservation order; nothing lost without being counted; no call spins for ever |
| Replacement lifecycle and gate (`include/noleax/agent/replacement_lifecycle.hpp`) | process-wide gate, route, six counters, an epoch to sleep on | enter and leave a replacement, close/open the gate, start/stop recording, four timed waits | a wait that succeeds is right, and stays right; no lost wakeup; no self-deadlock of a nested call |
| Hook backend (`agent/hook_backend.cpp`) over Hoox (`third_party/hoox`) | installed entries, lease counter, pending teardown | install, uninstall, flush, shutdown, destroy, acquire and release a lease | a replacement that may still call its trampoline finds its bytes unchanged |
| Hook families, Linux (`agent/linux/glibc_heap_hooks.cpp`, `virtual_memory_hooks.cpp`, `custom_symbol_hooks.cpp`) and Windows (`agent/windows/rtl_*.cpp`, `nt_memory_hooks.cpp`, `custom_symbol_hooks.cpp`, `windows_memory_hooks.cpp`) | lifecycle per function, originals, lease, teardown stage; per-API counters | install with rollback, stop, uninstall, retry, abandon in the destructor; the replacements, which record after the original has returned | no thread ever finds a half-dismantled route; every call is counted once; the record says what happened |
| Agent runtimes (`agent/linux/agent_runtime.cpp`, `agent/windows/agent_runtime.cpp`) | `state_`, flags, exit claim, finalize gate | start, drain, finalize, retire, exit hooks, session loop, unload | one drain; teardown only after the trace is closed; failures stay visible; the target survives |
| Controllers (`src/controller/linux/controller.cpp`, `src/controller/controller.cpp`) with `execute_capture` (`apps/noleax/operations.cpp`) | session channel, target's exit | launch, attach, handshake, status, stop, wait, classification | answers match requests; the verdict is the agent's; a failure leaves nothing behind |
| Injectors (`src/controller/linux/ptrace_injector.cpp`, `src/controller/windows`) | seized or redirected threads, saved registers, remote pages, patched entry | seize, step, remote calls, redirect, restore, abandon | every thread resumes with its own registers, outside what is patched |
| Trace writers (`agent/linux/trace_writer.cpp`, `agent/windows/rtl_allocate_heap_trace_writer.cpp`) | stacks and modules written, live allocations and mappings, pending chunk, per-API counters | capture loop, final drain, error tail, commit | written + filtered + dropped = observed; the file decodes wherever it ends; complete means complete |
| Trace format and reader (`src/trace`) | chunks, sequence ranges, statistics | encode, write, read, decode, classify completeness | what was written is read; a truncated or damaged trace is never called complete |
| Analyzer (`src/analyzer`, `include/noleax/trace/interval_set.hpp`) | live generations, intervals, candidates | event stream, generations, outstanding, stacks, windows, filters | every allocation is paired with its release; each view is what its definition says |
| Command line, configuration, formatters, symbols, doctor | layered values, text | parse, merge, print | sequential; not modelled (section 7) |

How they interact: replacements are the producers of the queue and the writer its consumer
(shared memory); the lifecycle tells the family when replacements are out, the family's lease
tells the backend when trampolines may go (calls, all on the control thread); the runtime
drives families, backend and writer; the session thread and the controller exchange one
request and one answer at a time over a socket or pipe; the exit hooks enter the runtime from
any target thread; the file is all that writer and analyzer share.

What is hard: every one of those boundaries is crossed by threads that the agent cannot stop.
A thread can be paused for any time between two instructions of a replacement, deadlines can
pass at every wait, an installation can fail half-way, the controller can go away between a
request and its answer, the target can exit at any moment, and the file can end at any byte.
`PROJECT.json` lists these hazards at their lines with the properties that watch over them.

## 2. Modules

| Module | Models | Granularity |
|---|---|---|
| `MpscQueue` | the queue | one action per atomic operation |
| `EventFifo` | what the queue promises | one action per event accepted, lost, delivered |
| `ReplacementLifecycle` | gate, one lifecycle, the waits | one action per atomic access |
| `HookBackend` | the backend and Hoox's slice allocator | one action per locked method, two for an installation |
| `LinuxHooks` | both Linux families, the runtime's start and end, target threads in replacements; composes `HookBackend` | one action per store that a thread can observe |
| `WindowsHooks` | the RTL, NT and custom hooks of the Windows agent on one backend, their coordinator, both ways to stop; composes `HookBackend` | as `LinuxHooks` |
| `CaptureSession` | Linux runtime state, session thread or timer, exit hooks, socket, controller | one action per load or store of `state_`, one per message |
| `LinuxInjection` | launch and attach on Linux: ptrace injector, bootstrap, handshake | one action per ptrace request on one thread |
| `WindowsInjection` | launch and attach on Windows by four methods, with the stubs | one action per remote call, wait or context change |
| `WindowsStop` | stop, lost channel, exit, duration and unload on Windows | one action per step of drain, finalize and the controller |
| `IntervalSet` | `noleax::trace::IntervalSet` | operators |
| `LinuxVmPlan` | what the Linux writer makes of one raw event | operators, plan = model after and wire records |
| `GenerationTracker` | validation and pairing of wire records by the analyzer | operators, tracker after one record |
| `MemoryCapture` | calls of the target, kernel and allocator, queue, `LinuxVmPlan` and `GenerationTracker` composed | a call, its completion number and the queueing of its event are three actions |
| `TraceReader` | chunk stream, event stream checks, completeness verdict | operators over a sequence of chunks |
| `LinuxTraceWriter` | the writer thread, modules, file limit, full disk, error tail, commit, kill; reads its file with `TraceReader` | one action per round of the loop or record; exceptions are a field |
| `WindowsTraceWriter`, `WindowsCapture` | the Windows writer (operators) and a whole capture around it: replacements, SEH, loader, finish and exit | call and return of a replacement are two actions; a kill inside a step of the writer is one of its own |
| `TraceCodec` | the encoding of every record, field by field | operators over digit sequences |
| `AnalyzerViews` | outstanding, stacks, memory views, windows, filters, and what they should show | operators, code and reference side by side |
| `TraceFile` | trace writer, file, kill, fault, trace reader, views | one action per chunk written or read |

`MC*` modules hold values for the constants and, where two components are checked in one run,
the composition; `*Proofs` modules hold the theorems. A definition named `Operation_Fault` is
the operation with a plausible programming error. No specification uses it; put in the
operation's place it makes TLC find the property that guards against it violated
(`PROJECT.json`, "mutants"). A property whose comment begins "Claimed, and false" states what a
document or comment of the repository says and the model refutes; section 4 lists them.

**MpscQueue.** `sequence`, `value`, `enqueue`, `dequeue`, `touched`, `high_water`, `dropped`
are the members of the same names. A producer goes through `Check` (load the slot's sequence
and compare), `Claim` or `ClaimFails` (the weak compare-exchange), `Touch`, `Fill`, `Publish`,
or `PinHighWater` and `CountDrop` on a full ring; the consumer through `PopBegin`, `PopSample`,
`PopCopy`, `PopRelease`, `PopAdvance`. Positions are bounded by `MaxCount`, the model's
`UINT64_MAX`. Three compare-exchange loops on a maximum or a saturating counter are one action
each. Atomic operations are interleaved sequentially consistently: the acquire and release
orders the code uses are taken to suffice for that view of each slot.

**ReplacementLifecycle.** A call announces itself at the gate, becomes active or parks,
announces its entry, reads the route, is counted as in flight and perhaps recording, runs the
body (which may call another hooked function) and undoes the counters in the code's order,
waking the coordinator at zero. The coordinator may start and stop recording, revert, close,
open and wait in every order the header's contract allows; a wait reads its counters one at a
time. `proved` is a history variable: which promise the coordinator has obtained and not
outdated.

**HookBackend.** Hoox is external: it is modelled by what it does to trampoline slices. A
reverted FAST replacement returns its slice to the free list at once with its bytes intact, a
later installation may overwrite it, and the last deinitialisation unmaps all. `guard` is a
history variable recording which leases were held when a slice was given back.

**LinuxHooks, WindowsHooks.** The control thread works through `todo`, the remaining steps of the
operation it is in (installation of a family function by function, rollback, stop, uninstall,
settle, flush, evacuation check, destruction). A target thread's frame is at `arrived` (past the
jump, not yet counted), `entered`, `set` (channel set loaded), `loaded` (trampoline loaded) or
`calling`. A lifecycle is abstracted to what `ReplacementLifecycle` guarantees: counting and
reading the route are one step, and a wait succeeds only with no counted thread. The Windows hook
classes, and the custom hooks of both systems, are written as copies of one scheme; `WindowsHooks`
has one action for a step they share, and `PROJECT.json` maps such actions to different ones of the
files, so that each copy is compared somewhere. The destruction of the Windows hooks runs member by
member as C++ does: the coordinator's own uninstall, then custom points, NT hooks and RTL hooks
with the flush and the abandonment of their destructors, and the queue last, unless the coordinator
could not prove its teardown.

**CaptureSession.** A load of `state_` and a later store are two actions (`Inspect` and
`BeginUnpatch` or `Retain`; `Retire` and `Park`), a compare-exchange is one (`DrainBegin`,
`Claim`). `stop_recording`, `writer_->finish()` and the physical teardown are one step each
with every outcome they can have. The socket holds one message each way; a message sent before
an end closes is still received. `Reply` on a socket whose other end is closed throws, and
since nothing catches it the target terminates. Time appears only as the two budgets: a drain
deadline that began after the controller's wait cannot pass before a shorter wait does.

**LinuxInjection.** Registers are abstracted to whose they are, where they point and how many
instructions the thread has executed under the tracer. The injector passes over the thread
list until a pass finds nothing new, interrupts, waits, steps each thread out of the patch
windows, redirects one thread through `mmap`, `dlopen` and the bootstrap, and restores; every
wait may time out, every thread may die or clone, and the handshake runs beside it. `seized`
is the vector of `SeizedThread`, `abandoned` is `abandon_`. A bootstrap that the injector has
given up goes on whenever its thread runs: until the freeze takes effect, and again once the
tracer has ended and the kernel has restarted every thread (`WorkerEnds`). It may still connect,
start the capture and write its jumps, also towards a controller that has given up on it
(`ctl = "late"`), or reach its trap with no tracer to take the signal (`WedgedEnds`).

**WindowsInjection, WindowsStop.** The four entries of the controller are four tables of steps
per method (`LaunchOrder`, `AttachOrder`, `LaunchAgentOrder`, `AttachAgentOrder`). The stub is
one more actor, executed by the main thread, a redirected thread or remote threads; the agent's
worker another. `WindowsStop` begins where a capture runs: controller, worker, duration thread,
exiting thread and unload watchdog act while target threads call, park at the gate and hold the
heap lock, taken inside a hooked heap call (`lock = "call"`) or by one that is not hooked
(`"own"`: `HeapLock`, `HeapWalk`, every heap call when only virtual memory is hooked). A thread in
a replacement is `turned` while no counter of the gate shows it, before its first attempt and
between waking up and the next one; `notify` is the same inside the wake-up call of the system,
where the search of the hook code section does not see it either. Each step of `drain` and
`finalize` may throw: recording calls that do not become quiescent, a writer that fails, an output
that does not close after `writer_` is gone, a thread found in the hook code. `unseen` is a history
variable: the threads no proof could see when hooks or agent went away. In `WindowsInjection`,
`broke` notes the failure of a call whose result the controller does not use: `RemoteWaitFails`,
`RestoreFails`; a stub whose pages are gone takes the process with it (`Faults`). The two modules
share no step, so `MCWindowsSession` checks a behaviour of either.

**MemoryCapture.** `kernel` maps pages to mappings and `chunks` is the allocator's state. A call
changes them and returns to its replacement (`Return`, with `order`, its place among the kernel's
actions); in a later step the replacement takes the completion number (`TakeNumber`: `sequence`
is `vm_completion_sequence`), in a third the event reaches the queue, whose `Capacity` is bounded.
So kernel order, completion order, queue order and address reuse all come apart. The vm calls are
`mmap` (also fixed, over other mappings or at the null page, and smaller than `minimum`), `munmap`
(of ranges where nothing is mapped, too) and `mremap` (in place, moved, fixed over other mappings,
on part of a mapping, with an old size of zero, with `MREMAP_DONTUNMAP`); the heap calls are those
of glibc (`malloc`, `calloc`, `realloc`, `reallocarray`, the aligned allocators, `free`) and of
custom hook points with their failures, null pointers, zero sizes, overflowing products and the
size filter. `misread` notes that the events cannot tell the writer what was done; the comment of
`LivePagesAreMapped` lists when. `Consume` runs the writer's plan and feeds its records to the
tracker; `Refuse` is an event that `validate_raw_event` rejects, which ends the capture (`broken`).

**LinuxTraceWriter.** The writer's state is the record `w`, its operations are operators on it,
and an exception sets `w.err` until the thread's handler. Sizes are counted in records. A kill
leaves a prefix of the file with at least what was flushed. Raw calls are abstracted to
`Outcomes`: how many records, filtered or not, with a stack or not.

**WindowsCapture.** A behaviour is about one family (heap, virtual memory, sections, custom
points, modules), because the families share no state. A replacement may return or raise, and a
raised exception may be continued by an outer handler. The exit of the process kills the writer's
thread between two steps or inside one: `DeathPoints` are an event popped and not processed,
drops taken and not noted, a chunk torn or written with its records still pending, and so on;
the exiting thread then finishes from the state it finds, unless a thread died in a replacement.
`lossy` records where the code promises less: `lost` (an event is missing), `raced` (an address
came back before its release was queued), `partial` (pages of a reservation were released),
`twice` (a continued exception), `killed` (a kill inside a step or inside a replacement).

**TraceCodec, TraceFile, AnalyzerViews.** A byte has `ByteBase` values, so that 64-bit fields fit
TLC's integers; the layout, field by field, is the source's. The CRC of a payload is modelled by
the payload itself (no collision), compression as lossless with a size of its own. Besides a
kill at any byte a behaviour has at most one fault: a newer producer, an altered byte under a
fitting checksum, or a garbled medium. The checks of the event stream are in `TraceReader`,
which the writers' runs use; `TraceFile` checks the bytes below and the views above it.

## 3. Runs

| Run | Instance | Shows |
|---|---|---|
| `queue` | 2 producers, 2 slots, 3 offers, one reset, one `occupancy()` | exclusive slots; every offer accounted for, with the telemetry beside it; the ring implements `EventFifo`; a drop happens only on a full ring and what is reserved is consumed (`ExclusiveSlots`, `OfferAccounting`, `ImplementsFifo`, `OffersSettle`) |
| `lifecycle` | 1 thread that nests, deadlines may pass | what each successful wait promises; waits end, parked threads leave; no deadlock (`WaitPromises`, `WaitsEnd`, `ParkedReleased`) |
| `backend` | 1 backend, 2 owners, 2 targets, 3 slices | a patched target has its original; leases protect reverted trampolines (`PatchedTargetsHaveOriginal`, `LeaseKeepsTrampolines`) |
| `hooks` | both Linux families (1 + 2 functions), 1 thread, depth 2, every failure | no broken route, nothing freed in use, a final state that is clean; no lost trampoline; the control thread always ends although target threads never leave (`RoutesComplete`, `TrampolinesIntact`, `ControlEnds`) |
| `session` | all kinds of capture, 2 exiting threads, 1 query | one drainer, teardown after the trace, visible writer errors, matching answers; stops and exits end (`OneDrainer`, `TeardownAfterTrace`, `WriterErrorVisible`, `AnswersMatch`, `SessionReturns`) |
| `memory` | 2 threads, 3 pages and the null page or 2 chunks, 3 calls, a queue of 1, with and without a size filter | writer and analyzer hold the same bytes after every event and the analyzer accepts every record; live pages and chunks are the system's wherever the events can tell; counters reconcile, and the events the writer refuses are the known ones (`AnalyzerAgrees`, `LivePagesAreMapped`, `LiveChunksAreAllocated`, `RecordsReconcile`) |
| `writer` | 1 thread, 2 calls, 1 image, limits and full disks, kill anywhere | the file decodes wherever it ends; complete means complete; the final path is only reached by a normal end (`TraceReadable`, `CompleteMeansComplete`, `FinalPathMeansNormalEnd`) |
| `injection` | 2 threads of which one may be cloned, 2 steps, launch and attach | own registers; resumed outside the patches, until the injector lets go of a wedged bootstrap; never moved by the injector except by its own steps; a freeze ends (`OwnRegisters`, `ResumesOutsidePatches`, `NeverTeleported`, `FreezeEnds`) |
| `windows_session` | 2 threads, 14 flows to start, 2 ways to stop | every start comes to a verdict and leaves nothing behind; stub pages outlive their executor; frozen threads hold no lock of a hooked call; a stop leaves nothing and pulls away nothing under a thread its waits can see (`StartsSettle`, `StubPagesLive`, `FrozenHoldNoLock`, `StopLeavesNothing`) |
| `windows_hooks` | 1 RTL hook, the 2 unmapping NT functions, 2 custom points (2 + 1 roles), 5 slices, 1 thread | routes hold, originals are usable, finalized leaves nothing installed (`RoutesHold`, `OriginalsUsable`, `FinalizedLeavesNothing`) |
| `windows_capture` | 2 threads, 10 combinations of family, size filter and disk, kills inside every step | counters reconcile, and a trace that reads to its end holds every call once; writer and analyzer agree; the live set is the system's (`CountersReconcile`, `WindowsAnalyzerAgrees`, `WindowsLiveExact`) |
| `trace_file` | up to 2 chunks of every kind, 9 queries, one fault, kill at any byte | what is read is what was written, up to the damage, and damage is never called complete; every view equals its reference definition (`ReadsBack`, `ViewsAgree`) |

*Bounds.* Two producers are enough for one to overtake, fill or be passed by the other between any
two steps, and two slots are the smallest legal ring; three offers fill and lap it. The refinement
of `EventFifo` needs a counter range (`MaxCount` 15) that no stale position can fall half behind,
which in the program takes 2^63 events; running out of positions and the wrap of the sequences are
covered by the proofs, whose `MaxCount` is any. One nesting thread and the coordinator exercise
every counter; the safety property is proved for any number of threads. Two functions per family
are what a rollback needs; three slices (five with custom points) make reuse of a given-back slice
possible while another is in use. Two exiting threads give a first and a later caller of the exit
hook besides the session thread. Three pages allow a hole in the middle, three calls a mapping, its
partial release and a reuse that overtakes it, in the queue or in the numbers; a minimum of two
pages makes mappings of one filtered, while sections, duplicates and `MREMAP_DONTUNMAP`, which the filter does
not concern, are tried without it. A kill comes after up to two chunks of its step. The writer's
chunks hold two records and its dictionary one stack, so that flushes, full dictionaries and the
file limit come between any two events; `Disks` has room, a file limit, a full disk, and both with
the failure showing only at the flush. One cloned thread is what a pass over the thread list can
miss. Faults of the file occur under the query of everything only; the other queries read sound
files with clocks that tie, skip and step back. `CHECK_DEADLOCK FALSE` stands where the system may
stop: the offers or calls are used up, the capture is over, the process is gone. The lifecycle,
Windows capture and trace file runs check for deadlock.

*Fairness.* Queue: a thread inside `try_emplace` or `try_pop` keeps running, the writer polls
in a loop, and a compare-exchange that can succeed again and again does not fail spuriously for
ever (strong fairness of `Claim`). Lifecycle: threads are scheduled and a body makes finitely
many nested calls (strong fairness of leaving); the coordinator runs while it waits. Hooks:
only the control thread is fair; target threads may stop anywhere for good, because that is
what deadlines are for. Session: the threads of a live process run, and the controller's wait
is woken by a message, a closed socket or its timeout. Injection: injector, controller and
agent run; no thread of the target is owed a step. Windows starts: the controller only. Neither
an exit nor a stop is assumed to happen.

## 4. Observations

Where the model contradicts a document or comment, or where a result is weaker than one would
expect. "Claimed, and false" properties are named; putting one into the run of its module shows
the counterexample.

Agent and session, Linux:

- `DrainedMeansOut`: a thread woken by `open()` leaves the waiter counter before it announces
  itself again, so `wait_for_drain` can succeed with that thread inside the gate code
  (`replacement_lifecycle.hpp:126`, against the comment at `:255`). What Windows makes of it is
  `NobodyUnderFreed`, below.
- `DormantMeansMissed`: `finalize()` uninstalls the vm family before the heap family
  (`agent_runtime.cpp:605`), the backend refuses the vm flush while the heap lease is held, and
  nothing retries it: a `linux-native` launch capture ends `kDormant` with the unpatch-incomplete
  flag though nothing timed out (`docs/LINUX_HOOK_PROFILES.md:87`).
- `QueueRetained`: a failed `linux-native` start destroys the vm family first; if a vm call is
  still recording, the heap family, which owns the queue, may be destroyed under it
  (`docs/HOOK_QUIESCENCE.md:62`).
- `TargetSurvives`: the session thread's sends are not caught (`agent_runtime.cpp:815`);
  answering a controller that has gone terminates the target. The controller gives up on a stop
  after 30 s, a drain may take 120 s.
- `ExitClosesTrace`: the loser of the race into `drain()` does not wait for the winner
  (`:546`, `:656`); a thread that exits during a drain ends the process with the trace
  unfinished (`docs/LINUX_LAUNCH_INJECTION.md:62`). For the same reason the controller may be
  answered `kDraining` and report a stopped capture.
- The session thread may unmap the exit trampoline while a target thread is inside
  `replacement_exit`, which no lifecycle counts (`death = "trampoline"` is reachable).
- The socket of a dying target closes before `waitpid` can see it, so a normal exit may be
  classified as a crash of the agent (`src/controller/linux/controller.cpp:343`).
- Two backends on the interceptor singleton would break the lease. Both agents make one, which
  is the assumption `OneBackend` of the proofs.
- `occupancy()` loads two counters at different times. The clamp keeps the answer in range,
  but it can be a value the queue never held.

Injection, Linux:

- `NoRewind`: the state of a stepped thread is adopted only once it has left the windows
  (`ptrace_injector.cpp:848`), so an error before that rewinds all its steps (comment at `:842`).
- `WedgedStaysFrozen` (`:523`): the worker thread is the tracer, and when it ends, long before the
  controller exits, the kernel detaches and restarts what an abandoned seizure should leave
  frozen (`docs/LINUX_PTRACE_INJECTION.md:85` expects it at the controller's exit). The bootstrap
  then goes on, and may write its jumps while other threads are in the prologues or about to be
  (`agent_runtime.cpp:1251`): give up, let go, a thread moves into a window, the bootstrap
  connects, is accepted, and patches. `ResumesOutsidePatches` therefore ends with `LetGo`.
- Threads cloned between the last pass over the list and the interrupts are never seized
  (`:541`-`:566`).
- One signal taken while a thread is seized is kept for the detach; a second one is dropped.
  `OwnRegisters` is about registers only.

Memory and writer, Linux:

- `LiveBytesExact` is false, `LivePagesAreMapped` says where it holds. Not repaired by the
  completion numbers: two calls on the same pages that take their numbers in the other order than
  the kernel executed them (the window of `virtual_memory_hooks.cpp:115`,
  `docs/TRACE_WRITER.md:236`), an in-place resize of part of a mapping or beside another call
  (`trace_writer.cpp:1750`), `MREMAP_DONTUNMAP`, whose old range stays mapped without the event
  saying so (`virtual_memory_hooks.cpp:399`), and a `MAP_FIXED` mapping below
  `minimum_capture_size` over recorded pages, which is filtered (`:259`).
- On the heap side `LiveChunksAreAllocated` excepts captures in which an address was handed out
  again before the event of its release was queued (`glibc_heap_hooks.cpp:373`): the writer then
  sees two allocations at one address. It also excepts `reallocarray` with a product that wraps
  to zero (`:515`): the call fails and leaves the block, and the event says it was freed.
- Refused by `validate_raw_event`, so that the capture ends with a writer error, are a
  `realloc(NULL, 0)` that returns `NULL` and is counted as a success (`custom_symbol_hooks.cpp:261`,
  `trace_writer.cpp:1351`), `reallocarray` of a null pointer with a product that wraps to zero, a
  `munmap` or `mremap` that succeeds at address 0 (`munmap(NULL, n)` does, `trace_writer.cpp:1382`)
  and a mapping placed there (`:1371`). `RecordsReconcile` says that there is no other.
- `TailReadable`: an error tail written after the file limit was reached can be refused by the
  reader (`:762`, comment at `:728`; `TraceReadable` excludes it). `LimitDegrades`: a memory chunk
  that meets the file limit can end the capture in an error (`:2270`, comment at `:1105`); the
  loss chunk of `finalize_trace` and that of the tail together exceed the reserve.
  `FreshLoadsFirst`: an event queued after the poll can have a stack in a module loaded after it
  (comment at `:1036`).
- A module change that the tracker cannot queue is lost while `live_` moves on
  (`module_tracker.cpp:194`): after a lost unload the next load at that base ends the capture.

Windows:

- `EntryPagesLive`: the entry stub sets `restored` before it has left its pages, and the
  controller frees them on seeing it (`entrypoint_injector.cpp:332`,
  `docs/ENTRYPOINT_INJECTION.md:28`). `NoSilentAbandon`: an aborted hijack can restore a thread
  that is inside the loader without a report (`thread_hijack_injector.cpp:397`). The stub of a
  patched image may give up waiting before the capture runs (`docs/STATIC_PE_PATCH.md:95`). In
  the flows without a session the ready event is set by a failed start too.
- `LostMeansStopped`: with the channel lost the kept hooks may still record
  (`agent_runtime.cpp:602`). `UnmappedAfterWorker`: the watchdog may unmap the agent before the
  worker has returned (comment at `:486`). A graceful finalisation that throws in the exit hook
  leaves the trace unfinished.
- `NobodyUnderFreed`: a thread that wakes at the gate leaves the waiter count
  (`replacement_lifecycle.hpp:126`) before it announces itself again (`:109`), and a thread that
  reaches zero leaves the hook code section for the wake-up call of the system. In either place it
  is in no counter; in the second the search of the section does not find it. With `drain()`
  opening the gate between its two closings (`agent_runtime.cpp:264`, `:272`) such a thread can
  meet `wait_for_drain` at `:304` or the watchdog, and hooks or agent go away under it.
  `StopLeavesNothing` names these threads (`unseen`) and says that there are no others, and that
  during a freeze only the wake-up call is blind. `finalize_timed` does not call `wait_for_drain`
  before it frees the hooks (`:355`).
- `DrainHasWriter`: when the output does not close, `writer_` is already reset
  (`agent_runtime.cpp:265`-`:271`) and the state still capturing; the drain the worker tries on its
  way out (`:611`) then calls through a null pointer.
- `FrozenHoldNoLock` is about locks taken in hooked calls. A thread frozen, or parked at the gate,
  with a heap lock of its own (`HeapLock`, `HeapWalk`, any heap call when only virtual memory is
  hooked) stops the agent until the controller gives up and resumes it.
- A wait for a remote thread that fails, rather than times out, frees the pages that thread runs on
  (`injection_common.cpp:219`). `SuspendThread` and `SetThreadContext` may fail when a redirected
  thread is restored (`thread_hijack_injector.cpp:614`-`:618`), and it stays in a stub whose pages
  are freed next. `StubPagesLive` and `StartsSettle` set these failures aside (`broke`).
- `FailuresAreOwn`: a custom point that is rolled back leaves the backend's teardown pending, so
  later points and families are refused (`hook_backend.cpp:78`, against
  `custom_symbol_hooks.cpp:757`). `RolledBackUsable`: the rollback releases the point's leases
  without waiting for its callers. One failed point makes `is_installed()` false for all.
- Windows writer: custom events pending at the file limit end in an accounting error; a heap
  handle or section base that is reused before the end of its first use was queued ends the
  capture; a region reserved again before its release is queued is merged with the old one, or
  shrunk by the late release; a memory chunk that hits the limit reverses a drop range; there is
  no error tail; a dropped unload followed by a load at the same base ends the capture. Of a
  reservation released in part the writer forgets everything
  (`rtl_allocate_heap_trace_writer.cpp:1478`), the analyzer keeps the rest. `WindowsLiveExact`
  and the equality in `WindowsAnalyzerAgrees` except the captures with such a race or release.
- `KilledIsRecoverable` (`docs/STATIC_PE_PATCH.md:162`): an exit that kills the writer's thread
  inside a step can leave a trace that is refused. Behind a torn chunk the exiting thread appends
  the tail, so the tear is a corrupt chunk in the middle; killed between `write_data_chunk`
  (`:1734`) and `clear_pending` (`:1762`), the thread's events are written twice, with status
  complete. An event that was popped (`:704`) and not processed leaves counters that do not
  reconcile, and no tail; a popped module event, and initial modules not yet written, are lost
  without a trace. A thread that died in a replacement makes `:497` throw, and there is no tail.
  What remains, in `CountersReconcile`, is that no trace that reads to its end holds a call twice
  or misses one.
- `ExceptionCountedOnce` (`docs/RTL_FREE_HEAP_HOOK.md:37`): the filter counts a raised exception and
  returns `EXCEPTION_CONTINUE_SEARCH` (`nt_memory_hooks.cpp:448`). If an outer handler continues the
  execution the call returns and is counted again (`:601`), and the trace ends without its tail.

Analyzer: a leak report whose `b` is not before `c` counts generations created after `c` as
outstanding at `c` (`outstanding.cpp`, `observe_created`; `docs/ANALYZER.md:131`). A mixed bound
`b` is clamped to the last sequence itself, so the last event is excluded. With a mixed `c`,
`observation_uses_trace_end` is true when only one component is past the end. The checksum does
not cover chunk headers. `ViewsAgree` states what the code computes in these cases.

## 5. Proofs

TLC's instances are small; the theorems hold for every value of the constants.

**`MpscQueueProofs`** assumes `CapacityAssumption`: capacity at least two, twice the capacity
fits in the counter and the counter range is a multiple of the capacity (what "power of two"
gives). Neither the order of delivery nor the exclusiveness of slots is inductive. `QueueInv`
adds: the window `dequeue_ .. enqueue_` has at most `Capacity` positions (`WindowBounded`), no
producer's position is ahead of `enqueue_` (`ProducersBehind`), reservations are distinct
(`DistinctReservations`), every position in the window is either held by exactly the producer
that reserved it or published with its event in the slot (`WindowStages`), a producer about to
compare-exchange has seen a sequence that is still the slot's unless `enqueue_` has moved
(`CasReady`), the history is as long as the counters say, and the touch watermark covers every
slot ever written (`WatermarkCovers`). The arithmetic of `position & mask_` is a group of lemmas
on remainders (`IndexInjective` is the heart: two positions less than a lap apart share no
slot). There is one lemma per action. Results: `QueueInvariant`, `SlotsAreExclusive`,
`ConsumesInReservationOrder`, `FreeSlotsStayClaimable`.

Two more results rest on `QueueInv`. `OffersAreAccounted` (finitely many producers,
`ProducersAssumption`) counts the producers between their steps as the cardinality of a set that
gains or loses one member per step; `AccountInv` adds that a producer about to count a drop has
pinned the high-water mark, without which a drop could be reported beside a half-empty ring.
`QueueImplementsFifo` is the refinement of `EventFifo`, one lemma per action: the successful
compare-exchange is `Accept`, the release of a slot is `Deliver`, the decision to drop is `Lose`,
the quiescent reset is `Restart`, everything else stutters. The hard step is `Lose`, which the
abstract queue allows only when it is full: `DropsAreJustified` shows it from the signed
comparison of sequence and position. Both need `Fresh`, that no producer stays between its load
and its comparison while half the counter range of events passes (2^63 of them in the code; beyond
it the signed difference changes its sign), and the refinement needs `MaxOffers <= MaxCount`, that
positions do not run out between two resets. The run checks the refinement where both hold.

**`ReplacementLifecycleProofs`** assumes finitely many threads. `LifecycleInv` says that each
counter is the number of calls between its increment and its decrement (`CountersExact`), that
nested calls bypass the gate, that a call keeps the route it read, and, for each wait, what the
counters already read establish while the later ones are read (`CloseProgress`,
`RecordingProgress`, `QuiesceProgress`): a thread moves from the counter read first to the one
read second before it leaves the first, so it cannot slip through. `WakeupDue` does the same
for the sleeping coordinator. Results: `LifecycleInvariant`, `WaitsKeepTheirPromises` (the
property `WaitPromises` of the run, for any number of threads), `CloseSealsTheGate`,
`StoppedMeansNoRecorder`, `QuiescentMeansNoTrampoline`, `WakeupsAreNotLost`.

**`HookBackendProofs`** assumes finitely many lease owners and one backend. `BackendInv` says
that the lease counter is the number of holders, that a slice some holder may still call is on
the free list and keeps the teardown pending, and that entries are Hoox's contexts. A pending
teardown with a lease refuses installation, flush and deinitialisation, so the bytes stay.
Results: `BackendInvariant`, `OriginalsArePublished`, `LeasesProtect` (an action property).
There is one lemma per operation of the backend; `LinuxHooksProofs` and `WindowsHooksProofs` use
them again.

**`LinuxHooksProofs`** assumes that each function belongs to one family and that families are
finite sequences of channels (`HooksAssumption`), nothing about how many functions, threads,
slices or nested calls there are. Neither `TrampolinesIntact` nor `RoutesComplete` is inductive:
why a thread inside a replacement is safe depends on what the control thread has still to do.
`HooksInv` says it in eight parts. `FamilyInv`: what each family believes of its lease is what
the backend counts, and `BackendInv` holds. `TodoShape`: the order of the remaining work, for
instance that a channel still patched has its revert ahead of its routing to the target.
`WorkFits` and `Progress`: the work is for families in the matching stage, and no family of a
running teardown is forgotten. `FamilyStages`: a family with a channel off the target route is
leased, published and alive. `FramesBacked`, the heart: every call that read, or would now read, a
route other than the target has a live channel set and a trampoline that the backend will neither
reuse nor unmap while the lease is held. `WaitsHold`: the waits of `try_finish_teardown` that
already succeeded stay true while later channels are awaited, because those channels are routed
to the target and no new call can read another route. `FinalizedIsClean`: what a finalized capture
has removed. The steps on the backend are taken from `HookBackendProofs` through `INSTANCE`; the
steps on the remaining work from lemmas on concatenated queues. Results: `HooksInvariant`,
`TrampolinesStayIntact`, `RoutesAreComplete`.

**`LinuxInjectionProofs`** assumes that some thread exists and that there is a bound on the steps
a thread takes (`InjectionAssumption`); threads may be any set, and appear or die at any time.
`InjectionInv` says that only seized threads are traced, that what the injector has recorded of a
thread is still true of it until the injector lets it run (`RecordsHold`), that no seized thread
is in a patch window once it is evacuated, nor do its saved registers point into one
(`WindowsClear`: without the second half the final restore would put it back there; it holds as
long as the target is frozen for the call, a given up one included, and ends with `LetGo`), that the
thread of the call is in the stub while the call is under way (`CallUnderWay`), that only
this thread has the stub's registers and that it stands in the list of threads to release
(`StubContext`), and that agent, controller and verdict follow the injector's calls
(`StagesInOrder`). Results: `InjectionInvariant`, `RegistersRestored`, `NobodyInThePatches`,
`NoTeleport` (an action property). `NobodyInThePatches` covers a bootstrap that patches after it was
given up, up to the moment the tracer ends.

**`WindowsSessionProofs`** covers the start and the end of a Windows capture. For the start,
`StartInv` lists what each injection method may do at each step, who is inside the stub, which
pages it stands on (`PagesHeld`), which threads are suspended (`Suspensions`), that the entry
point's bytes are back before a session is reported (`EntryRestored`), and that the worker captures
before that (`WorkerOrder`, `NotEarly`); all of this (`Sound`) as long as no call has failed whose
failure the controller ignores. For the stop, `StopInv` carries the chain from the drain to the
freeze: a heap lock taken in a hooked call is held by a counted call only (`LocksInside`), a
successful drain leaves nobody inside and the gate closed (`DrainHolds`), so the threads frozen
next hold no such lock (`FreezeHolds`); then that jumps go before what they lead to
(`TornDownInOrder`), under nobody but the threads in the two blind spots of the gate
(`OnlyUnseen`), and that the finalizing slot is claimed once (`SlotClaimedOnce`). The invariants
are shown step by step for each of the two modules and joined for the specification the run checks.
The assumptions are that flows are requests the controller can make, that there is a main thread
(`StartAssumption`) and that a stop is of a session or of a standalone capture (`StopsAssumption`).
Results: `StubPagesStay`, `StartsLeaveNothing`, `FreezeIsSafe`, `StopsLeaveNothing`, for any set of
threads.

**`WindowsHooksProofs`** assumes that every function, point and role is declared once and under a
name of its own, that a point has a role, and that `unmap_ex` comes with the `unmap` whose
lifecycle it shares (`WindowsHooksAssumption`: the backend refuses a second replacement of a
function, and a refused role is a step of the model). How many functions, points, roles, slices and
threads there are is free. As on Linux, none of the three properties is inductive: whether a thread
inside a replacement is safe depends on what the control thread has still to do, here through
nested destructors that repeat the same teardown up to four times. `HookInv`, which also holds in
every state of the run's instance, has ten parts. `Ordered`: which step may stand behind which in
`todo`; in particular an object is uninstalled before it is abandoned and abandoned once, the
stores of an uninstallation stand in front of everything else, and there is one end of the capture
(`Follows`). `PhaseFits`: steps of an installation occur in the phase `starting` and only there.
`JumpsLead`: a patched function and every call in it belong to the lifecycle its thunk leads to.
`RoutesBacked`, the heart: a function a thread is in or may come into (`Seen`) and whose route is
or can still be another than the target's (`InUse`) has a lease, a trampoline of its own that this
lease keeps in the backend, and a hook state that is alive and published (`Backed`). `CallsBacked`:
the same for calls that have read their route already, which is what the waits are for.
`InstallFits` and `TeardownFits`: what the first steps of `todo` may take for granted, for instance
that a pending object is reverted and routed to the target or has the stores ahead, and that a
flushed object has all its lifecycles quiescent and no lease. `AbandonedOnce`: an object abandoned
with its lease is destroyed and is met by no later destructor, which would free the state a paused
thread may still use. `QueueFits`: when the queue is freed, or is to be, nothing records. The
lemmas follow the program: `InstallStep` for the steps of a start, `TeardownStep` for those of a
teardown, `QuietStep` and its relatives for steps that only exchange work, `CallStep` for the
target threads, and one lemma per action on top. Results: `WindowsHookInvariant`,
`WindowsRoutesHold`, `WindowsOriginalsUsable`, `WindowsFinalizedLeavesNothing`.

**`CaptureSessionProofs`** assumes only distinct names and that the session thread is not an exiting
thread. That one thread drains does not follow from the compare-exchange alone: `SessionInv`
adds that the state is `kDraining` as long as a drainer is between its steps and the trace is
open until it has finished the writer (`DrainOwned`), that afterwards the state tells how the
trace ended, also through the unlocked store of `retire_to_dormant` (`StateTells`), that what
`finalize()` loaded stays true of the trace while it works (`TeardownKnows`), that an answer's
state is honest (`Reported`), and that one request is under way at a time, as a message, in the
session thread or as an answer (`Paired`). Results: `SessionInvariant`, `DrainsOnce`,
`TraceClosesFirst`, `WriterErrorsStayVisible`, `FinalizedIsUnmapped`, `AnswersAreMatched`.

Only model-checked: the liveness properties, because fairness and `ENABLED` are out of the prover's
reach; the trace writers, the capture of memory events on both systems, the file and the analyzer
(`TraceReadable`, `CompleteMeansComplete`, `FinalPathMeansNormalEnd`, `AnalyzerAgrees`,
`RecordsReconcile`, `CountersReconcile` and the rest). The last group compares what a reader
decodes from a sequence of chunks or records with what happened, and its steps themselves drain
sequences of module events: both are folds, and what a fold computes for every input needs
induction over data, which is out of the prover's reach.

## 6. Plan

Every safety property whose statement does not decode a file or replay records is proved. What is
left are lemmas below the level of a run's property:

1. The parts of `LinuxTraceWriter` that do not look into the file: one writer error stands, the
   final name is given after a successful close only, the counters of the hooks add up.
2. Lemmas on `IntervalSet`: subtraction keeps the map well formed, its pieces cover the range.

## 7. Not modelled

Parsing of ELF, PE, debug files, TOML and command lines, and the static PE patch tool: byte
layouts without concurrent state, modelled where used as a step that succeeds or fails. Text
output. Stack unwinding. The patching of machine code by Hoox. Diagnostics that only read the
environment. The framing of IPC messages. Layered configuration: sequential and total.
Memory orders weaker than sequential consistency. The signals of seized threads. The installation
of the Linux custom points, whose class is a copy of the Windows one.
