---------------------------- MODULE MCTraceFile ----------------------------
(***************************************************************************)
(* Two kinds of files.  Under the query AllOf, one chunk of each kind of   *)
(* record, with the variants whose optional parts are present and absent;  *)
(* under every query, event chunks of a process that allocates, frees,     *)
(* reallocates and maps memory, with clocks that tie, skip and step back.  *)
(***************************************************************************)
EXTENDS TraceFile

NoBound == [time |-> None, seq |-> None]
At(time) == [time |-> <<time>>, seq |-> None]
AtSeq(seq) == [time |-> None, seq |-> <<seq>>]
NoFilter == [min |-> None, max |-> None, ops |-> {}, threads |-> {}, apis |-> {},
             modules |-> {}, stackModules |-> {}, ids |-> {}, statuses |-> {}]
AllOf == [a |-> NoBound, b |-> None, c |-> None, filter |-> NoFilter]

MCMetadata(e) == [api |-> <<"malloc">>, module |-> IF e.header.stack = 1 THEN <<"app">> ELSE None,
                  stackModules |-> IF e.header.stack = 1 THEN {"app", "libc"} ELSE {"libc"}]

MCQueries ==
    {AllOf,
     [AllOf EXCEPT !.c = <<NoBound>>, !.b = <<NoBound>>],
     [AllOf EXCEPT !.c = <<At(10)>>],
     [AllOf EXCEPT !.c = <<AtSeq(3)>>, !.filter.min = <<2>>],
     [AllOf EXCEPT !.a = AtSeq(2), !.c = <<At(17)>>, !.filter.ids = {1, 3}],
     [AllOf EXCEPT !.a = At(3), !.b = <<At(11)>>, !.c = <<At(13)>>],
     [AllOf EXCEPT !.b = <<At(100)>>, !.c = <<[time |-> <<100>>, seq |-> <<2>>]>>],
     [AllOf EXCEPT !.b = <<AtSeq(9)>>, !.filter.modules = {{"app"}}, !.filter.max = <<4>>],
     [AllOf EXCEPT !.a = At(4), !.b = <<At(7)>>, !.filter.ops = {"Allocate", "VmAllocate"},
                   !.filter.threads = {1}]}

MCHeaders == {[width |-> 8, platform |-> "linux", architecture |-> "x64",
               frequency |-> 3, origin |-> 5],
              [width |-> 4, platform |-> "windows", architecture |-> "x86",
               frequency |-> 7, origin |-> 0]}

-----------------------------------------------------------------------------
(* One chunk for each kind of record.                                      *)

Head1 == [seq |-> 1, ticks |-> 6, thread |-> 2, api |-> 3, status |-> 0, domain |-> 0,
          stack |-> 4, flags |-> 5, code |-> 0]
Here == [scope |-> 0, handle |-> 7, process |-> 8]
There == [scope |-> 1, handle |-> 9, process |-> 0]
Ev(op, body) == [kind |-> "Event", op |-> op, header |-> Head1, body |-> body]
Failed(e) == [e EXCEPT !.header.status = 1, !.header.domain = 2, !.header.code = 196]

EventRecords ==
    {Ev("HeapCreate", [handle |-> 1, heap |-> 2, flags |-> 3, reserve |-> 4, commit |-> 5]),
     Ev("HeapDestroy", [handle |-> 1, heap |-> 2, result |-> 3]),
     Ev("Allocate", [handle |-> 1, heap |-> 2, size |-> 200, base |-> 40, id |-> 5, flags |-> 6]),
     Failed(Ev("Allocate", [handle |-> 1, heap |-> 2, size |-> 3, base |-> 0, id |-> 0, flags |-> 6])),
     Ev("Reallocate", [handle |-> 1, heap |-> 2, oldBase |-> 3, old |-> 4, size |-> 5, base |-> 6,
                       id |-> 7, flags |-> 8, effect |-> 1]),
     Ev("Reallocate", [handle |-> 1, heap |-> 2, oldBase |-> 3, old |-> 4, size |-> 0, base |-> 0,
                       id |-> 0, flags |-> 8, effect |-> 2]),
     Ev("Free", [handle |-> 1, heap |-> 2, oldBase |-> 3, old |-> 4, result |-> 5, flags |-> 6]),
     Ev("VmAllocate", [target |-> Here, requestedBase |-> 1, base |-> 2, requestedSize |-> 3,
                       size |-> 4, mappingBase |-> 2, mappingSize |-> 6, type |-> 7,
                       protection |-> 8, id |-> 9]),
     Ev("VmFree", [target |-> There, base |-> 1, size |-> 2, type |-> MemRelease, id |-> 0]),
     Ev("Map", [section |-> 1, target |-> Here, base |-> 2, size |-> 3, offset |-> 4,
                protection |-> 5, id |-> 6]),
     Ev("Unmap", [target |-> Here, base |-> 1, id |-> 2])}

Image == [present |-> TRUE, timestamp |-> 2, checksum |-> 3, size |-> 6]
Pdb == [present |-> TRUE, guid |-> [i \in 1 .. 16 |-> i % 9], age |-> 4]
Module(image, pdb, path) ==
    [kind |-> "ModuleLoad", id |-> 1, ticks |-> 6, base |-> 7, size |-> 6, flags |-> 1,
     image |-> image, pdb |-> pdb, path |-> <<2, 3>>, pdbPath |-> path]
LossOf(count, range, ticks) ==
    [kind |-> "Loss", reason |-> 1, location |-> 2, count |-> count, range |-> range,
     ticks |-> ticks]
Calls(n) == [api |-> n, observed |-> 4, successful |-> 3, failed |-> 1, filtered |-> 1,
             dropped |-> 1]
Region(base, state) == [base |-> base, size |-> 2, state |-> state, type |-> 3, protect |-> 4]
Category(n) == [category |-> n, flags |-> 1, reserved |-> 4, resident |-> 3]
Counters(ticks) == [kind |-> "MemoryCounters", ticks |-> ticks, workingSet |-> 4, peak |-> 5,
                    private |-> 6, commit |-> 7]
MapAt(ticks) == [kind |-> "MemoryMap", ticks |-> ticks, truncated |-> TRUE, committed |-> 1,
                 reserved |-> 2, free |-> 3, largest |-> 3,
                 regions |-> <<Region(1, 1), Region(5, 2)>>]
AgentAt(ticks) == [kind |-> "AgentMemory", ticks |-> ticks, sample |-> 2,
                   categories |-> <<Category(1), Category(13)>>]

RecordChunks ==
    {[codec |-> "none", type |-> "event", recs |-> <<r>>] : r \in EventRecords}
    \cup {[codec |-> "none", type |-> "event", recs |-> <<r>>] : r \in
              {LossOf(None, None, None), LossOf(<<3>>, <<4, 5>>, None),
               LossOf(None, None, <<6, 7>>)}}
    \cup {[codec |-> "none", type |-> "module", recs |-> <<r>>] : r \in
              {Module(NoIdentity, NoIdentity, <<>>), Module(Image, Pdb, <<4>>),
               [kind |-> "ModuleUnload", id |-> 3, ticks |-> 4]}}
    \cup {[codec |-> "none", type |-> "metadata",
           recs |-> <<[kind |-> "CaptureScope", atStart |-> TRUE, unknown |-> FALSE],
                      [kind |-> "BufferConfiguration", requested |-> 100, slots |-> 4,
                       eventSize |-> 3, slotSize |-> 5, reserved |-> 20, resident |-> 16,
                       flags |-> 1]>>],
          [codec |-> "none", type |-> "metadata",
           recs |-> <<[kind |-> "HookDefinition", api |-> CustomHookApiIdBase + 2,
                       module |-> <<1, 2>>, label |-> <<3>>],
                      [kind |-> "HookFailure", role |-> ByteMax, reason |-> 2,
                       module |-> <<1, 2>>, detail |-> <<3>>]>>]}
    \cup {[codec |-> "none", type |-> "stack",
           recs |-> <<[kind |-> "StackDefinition", id |-> 1, status |-> 1,
                       frames |-> <<[module |-> 1, offset |-> 2, address |-> 3, flags |-> 0],
                                    [module |-> 0, offset |-> 0, address |-> 4, flags |-> 0]>>]>>],
          [codec |-> "none", type |-> "statistics",
           recs |-> <<[kind |-> "Statistics", observed |-> 8, successful |-> 6, failed |-> 2,
                       filtered |-> 2, dropped |-> 2, unique |-> 1, reused |-> 1, bytes |-> 50,
                       stored |-> 40, apis |-> <<Calls(1), Calls(2)>>]>>],
          [codec |-> "lz4", type |-> "memory", recs |-> <<Counters(6), MapAt(6), AgentAt(7), Counters(7)>>]}
    \cup {[codec |-> "none", type |-> "end",
           recs |-> <<[kind |-> "EndOfTrace", seq |-> 3, ticks |-> 4, normal |-> exit # None,
                       exit |-> exit, mask |-> 2]>>] : exit \in {None, <<-9>>}}

-----------------------------------------------------------------------------
(* Events of a process that uses memory.                                   *)

Clocks == {<<6, 7, 8, 9>>, <<5, 8, 8, 10>>, <<6, 7, 10, 8>>}

Happens(clock, n, op, body) ==
    [kind |-> "Event", op |-> op, body |-> body,
     header |-> [Head1 EXCEPT !.seq = n, !.ticks = clock[n], !.thread = 1 + (n % 2),
                              !.stack = 1 + (n % 2)]]

\* The events that may come n-th after a sequence of events.
Following(clock, events) ==
    LET n == Len(events) + 1
        t == FoldLeft(LAMBDA g, e : Observe(g, TrackerEvent(e)), EmptyTracker, events)
        new(op, body) == Happens(clock, n, op, body)
    IN  {new("Allocate", [handle |-> 1, heap |-> 1, size |-> n, base |-> 10 * n, id |-> n,
                          flags |-> 0])}
        \cup {new("VmAllocate", [target |-> Here, requestedBase |-> 0, base |-> 50,
                                 requestedSize |-> 4, size |-> 4, mappingBase |-> 50,
                                 mappingSize |-> 4, type |-> 3, protection |-> 1, id |-> n]) :
                 x \in IF DOMAIN t.mappings = {} /\ n < 3 THEN {1} ELSE {}}
        \cup {new("VmFree", [target |-> Here, base |-> from, size |-> 52 - from,
                             type |-> MemRelease, id |-> id]) :
                 from \in {50, 51}, id \in {i \in DOMAIN t.mappings : t.mappings[i].size = 4}}
        \cup {new("Free", [handle |-> 1, heap |-> 1, oldBase |-> 10 * id, old |-> id,
                           result |-> 1, flags |-> 0]) : id \in DOMAIN t.allocations}
        \cup {new("Free", [handle |-> 1, heap |-> 1, oldBase |-> 90, old |-> 9, result |-> 1,
                           flags |-> 0]) : x \in IF n = 2 THEN {1} ELSE {}}
        \cup {new("Reallocate", [handle |-> 1, heap |-> 1, oldBase |-> 10 * id, old |-> id,
                                 size |-> 2, base |-> 10 * n, id |-> n, flags |-> 0,
                                 effect |-> 1]) : id \in DOMAIN t.allocations}
        \cup {new("HeapDestroy", [handle |-> 1, heap |-> 1, result |-> 1]) :
                 x \in IF Cardinality(DOMAIN t.allocations) > 1 THEN {1} ELSE {}}

\* The records of the format alone, then an unload; or two events in a chunk.
Unload == [codec |-> "zstd", type |-> "module",
           recs |-> <<[kind |-> "ModuleUnload", id |-> 3, ticks |-> 4]>>]
MCChunks(q, l) ==
    LET events == Concat([i \in DOMAIN l |-> l[i].recs])
        clocks == {c \in Clocks : \A i \in DOMAIN events : events[i].header.ticks = c[i]}
        pairs  == UNION {UNION {{<<e, f>> : f \in Following(c, Append(events, e))} :
                                    e \in Following(c, events)} : c \in clocks}
    IN  CASE q = AllOf /\ l = <<>> -> RecordChunks
          [] q = AllOf /\ l # <<>> -> {Unload}
          [] OTHER -> {[codec |-> "none", type |-> "event", recs |-> p] : p \in pairs}

\* Every record meets an altered byte and a kill; a few meet the rest.
MCFaultsOf(q, l) ==
    CASE q # AllOf -> {}
      [] q = AllOf /\ l = <<>> -> {"killed"}
      [] OTHER -> {"killed"}
                  \cup (IF Len(l) = 1 THEN {"altered"} ELSE {})
                  \cup (IF l[1].type \in {"end", "memory", "metadata"} THEN {"newer", "garbled"}
                        ELSE {})
=============================================================================
