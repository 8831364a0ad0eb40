--------------------------- MODULE AnalyzerViews ---------------------------
(***************************************************************************)
(* What the analyzer computes from the events of a trace: the windows and  *)
(* filters of a query, the leaks report (OutstandingCollector), the stack  *)
(* report (EventsStacksCollector), the events report and the memory        *)
(* timeline.  The collectors consume one decoded event after the other, as *)
(* the callbacks of the event stream do.                                   *)
(*                                                                         *)
(* A bound is [time, seq], each None or <<value>>; an optional bound is    *)
(* None or <<bound>>.  Times are nanoseconds since the trace's origin; a   *)
(* second has NsPerSecond of them.                                         *)
(***************************************************************************)
EXTENDS TraceCodec, GenerationTracker

CONSTANTS NsPerSecond,      \* kNanosecondsPerSecond
          Metadata(_)       \* the resolver: api, module and stack modules of an event

MaxNs == MaxU64 \div 2
MemRelease == 32768

-----------------------------------------------------------------------------
(* time.cpp                                                                *)

\* compare_fractions: the continued fractions of two positive rationals.
RECURSIVE CompareFractions(_, _, _, _)
CompareFractions(ln, ld, rn, rd) ==
    LET lq == ln \div ld  rq == rn \div rd
        lr == ln % ld     rr == rn % rd
    IN  CASE lq # rq -> IF lq < rq THEN -1 ELSE 1
          [] lq = rq /\ (lr = 0 \/ rr = 0) ->
                 IF lr = rr THEN 0 ELSE IF lr = 0 THEN -1 ELSE 1
          [] OTHER -> -CompareFractions(ld, lr, rd, rr)

\* multiply_divide_floor: value * multiplier \div denominator by doubling.
RECURSIVE MultiplyDivide(_, _, _, _, _, _)
MultiplyDivide(quotient, remainder, partQ, partR, multiplier, d) ==
    LET add(l, r) == IF l >= d - r THEN [carry |-> 1, value |-> l - (d - r)]
                     ELSE [carry |-> 0, value |-> l + r]     \* add_fractional_value
        sum   == add(remainder, partR)
        twice == add(partR, partR)
        odd   == multiplier % 2 = 1
        q     == IF odd THEN quotient + partQ + sum.carry ELSE quotient
        r     == IF odd THEN sum.value ELSE remainder
    IN  IF multiplier \div 2 = 0 THEN q
        ELSE MultiplyDivide(q, r, 2 * partQ + twice.carry, twice.value, multiplier \div 2, d)

MultiplyDivideFloor(value, multiplier, d) ==
    IF multiplier = 0 THEN 0 ELSE MultiplyDivide(0, 0, value \div d, value % d, multiplier, d)

\* compare_trace_time: a tick against a time since the origin; -1, 0 or 1.
CompareTraceTime(ticks, header, time) ==
    LET relative    == ticks - header.origin
        tickSeconds == relative \div header.frequency
        timeSeconds == time \div NsPerSecond
    IN  CASE tickSeconds < timeSeconds -> -1
          [] tickSeconds > timeSeconds -> 1
          [] OTHER -> CompareFractions(relative % header.frequency, header.frequency,
                                       time % NsPerSecond, NsPerSecond)

\* trace_time_floor.
TraceTimeFloor(ticks, header) ==
    LET relative == ticks - header.origin
    IN  (relative \div header.frequency) * NsPerSecond
            + MultiplyDivideFloor(relative % header.frequency, NsPerSecond, header.frequency)

-----------------------------------------------------------------------------
(* window.cpp                                                              *)

WindowBoundEmpty(b) == b.time = None /\ b.seq = None

WindowAtOrAfter(b, header, e) ==
    /\ b.time # None => CompareTraceTime(e.header.ticks, header, b.time[1]) >= 0
    /\ b.seq # None => e.header.seq >= b.seq[1]

WindowBefore(b, header, e) ==
    /\ b.time # None => CompareTraceTime(e.header.ticks, header, b.time[1]) < 0
    /\ b.seq # None => e.header.seq < b.seq[1]

WindowAtOrBefore(b, header, e) ==
    /\ b.time # None => CompareTraceTime(e.header.ticks, header, b.time[1]) <= 0
    /\ b.seq # None => e.header.seq <= b.seq[1]

WindowBoundsInOrder(lower, upper) ==
    /\ lower.time # None /\ upper.time # None => lower.time[1] <= upper.time[1]
    /\ lower.seq # None /\ upper.seq # None => lower.seq[1] <= upper.seq[1]

-----------------------------------------------------------------------------
(* filter.cpp.  A criterion that is None or {} does not restrict; a module *)
(* pattern is the set of modules it matches.                               *)

MetadataMatches(c, m) ==
    /\ c.apis # {} => m.api # None /\ m.api[1] \in c.apis
    /\ c.modules # {} => m.module # None /\ \E p \in c.modules : m.module[1] \in p
    /\ c.stackModules # {} => \E p \in c.stackModules : p \cap m.stackModules # {}

\* event_size: the size a size filter looks at, if the operation has one.
EventSize(e) ==
    CASE e.op \in {"Allocate", "Reallocate", "VmFree", "Map"} -> <<e.body.size>>
      [] e.op = "VmAllocate" -> <<IF e.header.status # 1 THEN e.body.size
                                  ELSE e.body.requestedSize>>
      [] OTHER -> None

SizeMatches(c, size) ==
    c.min # None \/ c.max # None =>
        /\ size # None
        /\ c.min # None => size[1] >= c.min[1]
        /\ c.max # None => size[1] <= c.max[1]

\* allocation_id_matches.
AllocationIdMatches(ids, e) ==
    ids # {} => CASE e.op = "Allocate" -> e.body.id \in ids \ {0}
                  [] e.op = "Free" -> e.body.old \in ids \ {0}
                  [] e.op = "Reallocate" -> {e.body.old, e.body.id} \cap (ids \ {0}) # {}
                  [] OTHER -> FALSE

CommonEventFieldsMatch(c, e) ==
    /\ c.ops # {} => e.op \in c.ops
    /\ c.threads # {} => e.header.thread \in c.threads
    /\ c.statuses # {} => e.header.status \in c.statuses

RequiresMetadata(c) == c.apis # {} \/ c.modules # {} \/ c.stackModules # {}

MatchesEvent(c, e) ==
    /\ CommonEventFieldsMatch(c, e)
    /\ SizeMatches(c, EventSize(e))
    /\ AllocationIdMatches(c.ids, e)
    /\ RequiresMetadata(c) => MetadataMatches(c, Metadata(e))

\* A generation is matched by the event that created it and its own size.
MatchesGeneration(c, g) ==
    /\ CommonEventFieldsMatch(c, g.created)
    /\ SizeMatches(c, <<g.size>>)
    /\ c.ids # {} => g.kind = "heap" /\ g.id \in c.ids \ {0}
    /\ RequiresMetadata(c) => MetadataMatches(c, Metadata(g.created))

\* AnalysisFilter's constructor.
ValidCriteria(c) == /\ c.min # None /\ c.max # None => c.min[1] <= c.max[1]
                    /\ "" \notin c.apis

-----------------------------------------------------------------------------
(* The collectors.  A query is [a, b, c, filter]; window [a, b) for the    *)
(* leaks and [a, b) again as [from, to) for events and stacks.             *)

\* validate_window of the leaks report (times are never negative here).
ValidWindow(q) ==
    /\ q.b # None => WindowBoundsInOrder(q.a, q.b[1])
    /\ q.b # None /\ q.c # None => WindowBoundsInOrder(q.b[1], q.c[1])
    /\ q.b = None /\ q.c # None => WindowBoundsInOrder(q.a, q.c[1])

\* The event the generation tracker sees: a decommit, or a call on another
\* process, changes no generation.
TrackerEvent(e) ==
    LET b == e.body
        absent == [heap |-> 0, base |-> 0, id |-> 0, old |-> 0, oldBase |-> 0, size |-> 0]
        ids == [f \in DOMAIN absent |-> IF f \in DOMAIN b THEN b[f] ELSE absent[f]]
        updated == IF e.op = "VmAllocate"
                   THEN [ids EXCEPT !.base = IF b.mappingBase = 0 THEN @ ELSE b.mappingBase,
                                    !.size = IF b.mappingSize = 0 THEN @ ELSE b.mappingSize]
                   ELSE ids
        op == CASE e.op \in {"VmAllocate", "VmFree", "Map", "Unmap"} /\ b.target.scope # 0 -> "Remote"
                [] e.op = "VmFree" /\ b.target.scope = 0 /\ (b.type \div MemRelease) % 2 = 0 ->
                       "VmDecommit"
                [] OTHER -> e.op
    IN  updated @@ [op |-> op,
                    status |-> <<"success", "failure", "unmatched", "preexisting">>[e.header.status + 1],
                    effect |-> IF e.op # "Reallocate" THEN "no_change"
                               ELSE <<"no_change", "new_generation", "freed">>[b.effect + 1]]

EmptyView ==
    [tracker |-> EmptyTracker, candidates |-> <<>>, candidateCount |-> 0, endedByC |-> 0,
     groups |-> <<>>, aggregated |-> 0, unmatched |-> 0, matched |-> 0, filtered |-> 0]

Key(g) == <<g.kind, g.id>>

\* The generations a tracker step created, ended or resized.
CreatedBy(old, new, e) ==
    {[kind |-> "heap", id |-> id, created |-> e, size |-> new.allocations[id].size] :
        id \in DOMAIN new.allocations \ DOMAIN old.allocations}
    \cup {[kind |-> "mapping", id |-> id, created |-> e, size |-> new.mappings[id].size] :
        id \in DOMAIN new.mappings \ DOMAIN old.mappings}
EndedBy(old, new) ==
    {<<"heap", id>> : id \in DOMAIN old.allocations \ DOMAIN new.allocations}
    \cup {<<"mapping", id>> : id \in DOMAIN old.mappings \ DOMAIN new.mappings}

\* Mutant: an end at c itself comes too late.
CountsAtC_Before(q, header, e) ==
    q.c = None \/ (q.c # None /\ (WindowBoundEmpty(q.c[1]) \/ WindowBefore(q.c[1], header, e)))

\* Whether an end or a resize by this event still counts at the observation
\* point c.
CountsAtC(q, header, e) ==
    q.c = None \/ (q.c # None /\ (WindowBoundEmpty(q.c[1]) \/ WindowAtOrBefore(q.c[1], header, e)))

\* observe_created: only generations of the window become candidates.
ObserveCreated(v, q, header, generations) ==
    LET inWindow(g) == /\ WindowAtOrAfter(q.a, header, g.created)
                       /\ q.b # None => WindowBefore(q.b[1], header, g.created)
        added == SetToSeq({g \in generations : inWindow(g)})
    IN  [v EXCEPT !.candidates = @ \o added, !.candidateCount = @ + Len(added)]

\* observe_ended: early eviction of what ends at or before c.
ObserveEnded(v, q, header, e, keys) ==
    LET gone == IF CountsAtC(q, header, e)
                THEN keys \cap {Key(v.candidates[i]) : i \in DOMAIN v.candidates} ELSE {}
    IN  [v EXCEPT !.candidates = SelectSeq(@, LAMBDA g : Key(g) \notin gone),
                  !.endedByC = @ + Cardinality(gone)]

\* observe_changed: a candidate's size is its remaining bytes at c.
ObserveChanged(v, q, header, e, mappings) ==
    LET resized(g) == IF g.kind = "mapping" /\ g.id \in DOMAIN mappings
                      THEN [g EXCEPT !.size = mappings[g.id].size] ELSE g
    IN  IF CountsAtC(q, header, e)
        THEN [v EXCEPT !.candidates = [i \in DOMAIN @ |-> resized(@[i])]]
        ELSE v

\* The leaks collector on one event.
ObserveLeaks(v, q, header, e, old, new) ==
    LET ended   == ObserveEnded(v, q, header, e, EndedBy(old, new))
        changed == ObserveChanged(ended, q, header, e,
                       [id \in {x \in DOMAIN new.mappings \cap DOMAIN old.mappings :
                                    new.mappings[x].size # old.mappings[x].size}
                            |-> new.mappings[id]])
    IN  ObserveCreated(changed, q, header, CreatedBy(old, new, e))

InWindow(q, header, e) == /\ WindowAtOrAfter(q.a, header, e)
                          /\ q.b # None => WindowBefore(q.b[1], header, e)

\* EventsStacksCollector::selected.
Selected(q, header, e) ==
    e.header.status # 1 /\ InWindow(q, header, e) /\ MatchesEvent(q.filter, e)

NewGroup == [allocCalls |-> 0, freeCalls |-> 0, allocBytes |-> 0, freeBytes |-> 0, apis |-> {}]

\* group_for and note_api.
GroupFor(v, e) ==
    IF e.header.stack \in DOMAIN v.groups THEN v.groups[e.header.stack] ELSE NewGroup
WithGroup(v, e, g) ==
    [v EXCEPT !.groups = (e.header.stack :> [g EXCEPT !.apis = @ \cup {e.header.api}]) @@ @,
              !.aggregated = @ + 1]

\* EventsStacksCollector::observe and observe_generation_ended: a free is
\* charged to the stack that frees, with the size of what it freed.
ObserveStacks(v, q, header, e, old) ==
    LET g     == GroupFor(v, e)
        known == e.op = "Free" /\ e.body.old \in DOMAIN old.allocations
    IN  CASE ~Selected(q, header, e) -> v
          [] Selected(q, header, e) /\ e.op = "Free" /\ ~known ->
                 [WithGroup(v, e, [g EXCEPT !.freeCalls = @ + 1]) EXCEPT !.unmatched = @ + 1]
          [] Selected(q, header, e) /\ known ->
                 WithGroup(v, e, [g EXCEPT !.freeCalls = @ + 1,
                                           !.freeBytes = @ + old.allocations[e.body.old].size])
          [] Selected(q, header, e) /\ e.op \in {"Allocate", "Reallocate"} ->
                 WithGroup(v, e, [g EXCEPT !.allocCalls = @ + 1, !.allocBytes = @ + e.body.size])
          [] OTHER -> v

\* analyze_filtered_events.
ObserveEvents(v, q, header, e) ==
    IF InWindow(q, header, e) /\ MatchesEvent(q.filter, e)
    THEN [v EXCEPT !.matched = @ + 1] ELSE [v EXCEPT !.filtered = @ + 1]

\* The three reports on one event that takes the tracker from old to new; a
\* contradiction stops the analysis.
Report(v, q, header, e, old, new) ==
    IF new.rejected THEN [v EXCEPT !.tracker = new]
    ELSE [ObserveEvents(ObserveStacks(ObserveLeaks(v, q, header, e, old, new), q, header, e, old),
                        q, header, e) EXCEPT !.tracker = new]
ObserveEvent(v, q, header, e) ==
    Report(v, q, header, e, v.tracker, Observe(v.tracker, TrackerEvent(e)))

\* The outstanding generations and how many the filter took out.
Outstanding(v, q) == SelectSeq(v.candidates, LAMBDA g : MatchesGeneration(q.filter, g))
FilteredOut(v, q) == Len(v.candidates) - Len(Outstanding(v, q))

\* analyze_leak_stacks: heap generations by the stack that allocated them.
LeakGroups(v, q) ==
    LET heap == SelectSeq(Outstanding(v, q), LAMBDA g : g.kind = "heap")
        stacks == {heap[i].created.header.stack : i \in DOMAIN heap}
        of(s) == SelectSeq(heap, LAMBDA g : g.created.header.stack = s)
    IN  [s \in stacks |-> [calls |-> Len(of(s)),
                           bytes |-> Total([i \in DOMAIN of(s) |-> of(s)[i].size])]]
-----------------------------------------------------------------------------
(* The effective bounds of the leaks report.  The end of a trace is        *)
(* [ticks, seq]; seq is None when no event is known.                       *)

\* window_bound_exceeds_trace_end.
ExceedsTraceEnd(b, header, end) ==
    \/ b.time # None /\ CompareTraceTime(end.ticks, header, b.time[1]) < 0
    \/ b.seq # None /\ b.seq[1] > (IF end.seq = None THEN 0 ELSE end.seq[1])

\* inclusive_trace_end_bound: a fractional end is rounded up.
InclusiveTraceEnd(header, end) ==
    LET floor == TraceTimeFloor(end.ticks, header)
        exact == CompareTraceTime(end.ticks, header, floor) <= 0
    IN  [time |-> IF exact THEN <<floor>> ELSE IF floor < MaxNs THEN <<floor + 1>> ELSE None,
         seq |-> end.seq]

\* exclusive_trace_end_bound: the first bound after every event.
ExclusiveTraceEnd(header, end) ==
    LET floor == TraceTimeFloor(end.ticks, header)
    IN  [time |-> IF floor < MaxNs THEN <<floor + 1>> ELSE None,
         seq |-> IF end.seq # None THEN <<end.seq[1] + 1>> ELSE None]

\* effective_upper_bound: a mixed bound is clamped component by component.
EffectiveUpperBound(bound, traceEnd, header, end) ==
    LET b == bound[1]
        mixed == b.time # None /\ b.seq # None
    IN  CASE bound = None -> traceEnd
          [] bound # None /\ WindowBoundEmpty(b) -> traceEnd
          [] bound # None /\ ~WindowBoundEmpty(b) /\ ~mixed ->
                 IF ExceedsTraceEnd(b, header, end) THEN traceEnd ELSE b
          [] OTHER ->
                 [time |-> IF CompareTraceTime(end.ticks, header, b.time[1]) < 0
                           THEN traceEnd.time ELSE b.time,
                  seq |-> IF end.seq = None \/ (end.seq # None /\ b.seq[1] > end.seq[1])
                          THEN end.seq ELSE b.seq]

EffectiveC(q, header, end) == EffectiveUpperBound(q.c, InclusiveTraceEnd(header, end), header, end)

\* OutstandingCollector::analyze: whether the observation point is the end of
\* the trace.
ObservesTraceEnd(q, header, end) ==
    \/ q.c = None
    \/ q.c # None /\ (WindowBoundEmpty(q.c[1]) \/ ExceedsTraceEnd(q.c[1], header, end))

-----------------------------------------------------------------------------
(* memory.cpp: the timeline of a trace, merged by sampling tick.           *)

\* snapshot_in_window: only the times of the bounds apply to samples.
SnapshotInWindow(q, header, ticks) ==
    /\ q.a.time # None => CompareTraceTime(ticks, header, q.a.time[1]) >= 0
    /\ q.b # None => (q.b[1].time # None =>
                          CompareTraceTime(ticks, header, q.b[1].time[1]) < 0)

MemoryKinds == {"MemoryCounters", "MemoryMap", "AgentMemory"}

\* One round of the merge of the three lists, each in tick order.
MergeStep(q, header, s) ==
    LET heads == {k \in MemoryKinds : s.rest[k] # <<>>}
        tick  == Min({s.rest[k][1].ticks : k \in heads})
        due   == {k \in heads : s.rest[k][1].ticks = tick}
    IN  IF heads = {} THEN s
        ELSE [rest |-> [k \in MemoryKinds |-> IF k \in due THEN Tail(s.rest[k]) ELSE s.rest[k]],
              out  |-> IF SnapshotInWindow(q, header, tick)
                       THEN Append(s.out, [ticks |-> tick,
                                           samples |-> [k \in due |-> s.rest[k][1]]])
                       ELSE s.out]

\* analyze_memory.
Snapshots(q, header, records) ==
    LET of(k) == SelectSeq(records, LAMBDA r : r.kind = k)
        start == [rest |-> [k \in MemoryKinds |-> of(k)], out |-> <<>>]
    IN  FoldLeft(LAMBDA s, r : MergeStep(q, header, s), start, records).out

\* agent_memory_totals and application_memory_estimate.
AgentResident(r) == Total([i \in DOMAIN r.categories |-> r.categories[i].resident])
ApplicationEstimate(s) ==
    IF {"MemoryCounters", "AgentMemory"} \subseteq DOMAIN s.samples
    THEN LET agent == AgentResident(s.samples["AgentMemory"])
             set   == s.samples["MemoryCounters"].workingSet
         IN  IF agent >= set THEN 0 ELSE set - agent
    ELSE 0
=============================================================================
