---------------------------- MODULE TraceReader ----------------------------
(***************************************************************************)
(* Reading a trace: TraceReader, EventStreamDecoder and the completeness   *)
(* model.  A file is a sequence of chunks and a flag torn: bytes of one    *)
(* more chunk follow.  A chunk is [type, version, range, recs]; range is   *)
(* the event sequence range of the chunk header, NoRange when absent.  A   *)
(* completeness report is its set of issues.  An exception sets rejected.  *)
(***************************************************************************)
EXTENDS Naturals, Sequences, SequencesExt, FiniteSetsExt, Functions, TLC

NoRange == <<0, 0>>

EmptyStream ==
    [rejected |-> FALSE, scope |-> FALSE, issues |-> {}, pendingIssues |-> {},
     events |-> 0, lastSequence |-> 0, knownEnd |-> 0, unknownEvents |-> FALSE,
     modules |-> <<>>, stacks |-> {}, statistics |-> <<>>, end |-> <<>>,
     losses |-> 0, sawEnd |-> FALSE, truncated |-> FALSE, ended |-> FALSE,
     memoryTick |-> 0, used |-> {}]

Refuse(r) == [r EXCEPT !.rejected = TRUE]

\* mark_unknown_record_skipped, mark_partially_understood, mark_trace_truncated,
\* mark_custom_hook_install_failed: kept aside until the scope is known.
Mark(r, issue) ==
    IF r.scope THEN [r EXCEPT !.issues = @ \cup {issue}]
    ELSE [r EXCEPT !.pendingIssues = @ \cup {issue}]

\* validate_loss_record.
ValidLoss(loss) ==
    /\ loss.reason \in {"queue_full", "trace_full", "writer_error", "stack_capture_failed"}
    /\ loss.range # NoRange => loss.range[1] > 0 /\ loss.range[1] <= loss.range[2]

\* CompletenessTracker::observe_loss, on the set of issues.
ObserveLoss(issues, loss) ==
    CASE loss.reason = "stack_capture_failed" -> issues \cup {"stack_loss"}
      [] loss.reason = "writer_error" -> issues \cup {"event_loss", "writer_error"}
      [] OTHER -> issues \cup {"event_loss"}

\* validate_call_counts and validate_statistics, for one API.
ValidStatistics(s) ==
    /\ s.successful + s.failed = s.observed
    /\ s.filtered + s.dropped <= s.observed
    /\ s.unique + s.reused <= s.observed - s.filtered - s.dropped

\* validate_end_of_trace.
ValidEnd(e) == /\ "missing_end" \notin e.issues
               /\ e.normal => "abnormal_stop" \notin e.issues

Unknown(recs) == \E i \in DOMAIN recs : recs[i].kind = "unknown"
Known(recs) == SelectSeq(recs, LAMBDA x : x.kind # "unknown")

\* process_metadata.
ProcessMetadata(r, c) ==
    LET scopes  == SelectSeq(c.recs, LAMBDA x : x.kind = "scope")
        failed  == \E i \in DOMAIN c.recs : c.recs[i].kind = "hook_failure"
        scoped  == IF scopes = <<>> THEN r
                   ELSE [r EXCEPT !.scope = TRUE,
                                  !.issues = scopes[1].issues \cup {"missing_end"}
                                             \cup r.pendingIssues]
        skipped == IF Unknown(c.recs) THEN Mark(scoped, "unknown_record") ELSE scoped
    IN  IF Len(scopes) + (IF r.scope THEN 1 ELSE 0) > 1 THEN Refuse(r)
        ELSE IF failed THEN Mark(skipped, "custom_hook_failed") ELSE skipped

\* validate_module_range: live images are disjoint.
Overlaps(a, b) == a.base < b.base + b.size /\ b.base < a.base + a.size

\* process_modules, one record.
ProcessModule(r, x) ==
    LET known == x.id \in DOMAIN r.modules
        image == [base |-> x.base, size |-> x.size, live |-> TRUE]
    IN  CASE r.rejected -> r
          [] ~r.rejected /\ x.kind = "load" ->
                 IF known \/ \E id \in DOMAIN r.modules :
                                  r.modules[id].live /\ Overlaps(r.modules[id], image)
                 THEN Refuse(r)
                 ELSE [r EXCEPT !.modules = (x.id :> image) @@ @]
          [] ~r.rejected /\ x.kind = "unload" ->
                 IF ~known \/ (known /\ ~r.modules[x.id].live) THEN Refuse(r)
                 ELSE [r EXCEPT !.modules[x.id].live = FALSE]

ProcessModules(r, c) ==
    LET skipped == IF Unknown(c.recs) THEN Mark(r, "unknown_record") ELSE r
    IN  IF ~r.scope THEN Refuse(r) ELSE FoldLeft(ProcessModule, skipped, Known(c.recs))

\* process_stacks, one definition: a new id, and every frame inside its module.
ProcessStack(r, x) ==
    CASE r.rejected -> r
      [] ~r.rejected /\ x.id \in r.stacks -> Refuse(r)
      [] ~r.rejected /\ x.id \notin r.stacks /\ x.module # 0
            /\ (x.module \notin DOMAIN r.modules
                  \/ (x.module \in DOMAIN r.modules
                        /\ x.address \notin r.modules[x.module].base ..
                              r.modules[x.module].base + r.modules[x.module].size - 1)) ->
             Refuse(r)
      [] OTHER -> [r EXCEPT !.stacks = @ \cup {x.id}]

ProcessStacks(r, c) ==
    LET skipped == IF Unknown(c.recs) THEN Mark(r, "unknown_record") ELSE r
    IN  IF ~r.scope THEN Refuse(r) ELSE FoldLeft(ProcessStack, skipped, Known(c.recs))

\* RecordBounds over the records of an event chunk.
Bounds(recs) ==
    LET ranges == {IF recs[i].kind = "event" THEN <<recs[i].seq, recs[i].seq>>
                   ELSE recs[i].range : i \in DOMAIN recs} \ {NoRange}
    IN  IF ranges = {} THEN NoRange
        ELSE <<Min({b[1] : b \in ranges}), Max({b[2] : b \in ranges})>>

\* validate_event_sequence_range.
ValidRange(c, bounds) ==
    IF Unknown(c.recs)
    THEN bounds # NoRange => c.range # NoRange /\ c.range[1] <= bounds[1] /\ bounds[2] <= c.range[2]
    ELSE c.range = bounds

\* process_events, one record.
ProcessEvent(r, x) ==
    CASE r.rejected -> r
      [] ~r.rejected /\ x.kind = "event" ->
             IF x.seq <= r.lastSequence THEN Refuse(r)
             ELSE [r EXCEPT !.lastSequence = x.seq, !.events = @ + 1,
                            !.used = @ \cup {x.stack}]
      [] ~r.rejected /\ x.kind = "loss" ->
             IF ~ValidLoss(x) THEN Refuse(r)
             ELSE [r EXCEPT !.issues = ObserveLoss(@, x), !.losses = @ + 1]

ProcessEvents(r, c) ==
    LET recs   == Known(c.recs)
        bounds == Bounds(recs)
        read   == FoldLeft(ProcessEvent, r, recs)
        known  == [read EXCEPT !.knownEnd = IF bounds[2] > @ THEN bounds[2] ELSE @]
    IN  CASE ~r.scope \/ r.statistics # <<>> -> Refuse(r)
          [] r.scope /\ r.statistics = <<>> /\ ~ValidRange(c, bounds) -> Refuse(r)
          [] OTHER -> IF Unknown(c.recs)
                      THEN Mark([known EXCEPT !.unknownEvents = TRUE], "unknown_record")
                      ELSE known

\* process_memory: the ticks of the snapshots never go back.
ProcessMemory(r, c) ==
    LET ticks == [i \in DOMAIN Known(c.recs) |-> Known(c.recs)[i].tick]
        back  == \E i \in DOMAIN ticks : ticks[i] < (IF i = 1 THEN r.memoryTick ELSE ticks[i - 1])
        read  == IF ticks = <<>> THEN r ELSE [r EXCEPT !.memoryTick = Last(ticks)]
    IN  IF ~r.scope \/ back THEN Refuse(r)
        ELSE IF Unknown(c.recs) THEN Mark(read, "unknown_record") ELSE read

\* process_statistics: the events a file holds are the ones the counters left over.
ProcessStatistics(r, c) ==
    LET recs == Known(c.recs)
        s    == recs[1]
        recorded == s.observed - s.filtered - s.dropped
        skipped  == IF Unknown(c.recs) THEN Mark(r, "unknown_record") ELSE r
    IN  CASE ~r.scope -> Refuse(r)
          [] r.scope /\ recs = <<>> -> skipped
          [] r.scope /\ recs # <<>> ->
                 IF \/ Len(recs) > 1 \/ r.statistics # <<>> \/ ~ValidStatistics(s)
                    \/ recorded < r.events
                    \/ (~r.unknownEvents /\ recorded # r.events)
                 THEN Refuse(r)
                 ELSE [skipped EXCEPT !.statistics = <<s>>]

\* process_end_of_trace with CompletenessTracker::observe_end_of_trace.
ProcessEnd(r, c) ==
    LET recs == Known(c.recs)
        e    == recs[1]
        skipped == IF Unknown(c.recs) THEN Mark(r, "unknown_record") ELSE r
    IN  CASE ~r.scope -> Refuse(r)
          [] r.scope /\ recs = <<>> -> skipped
          [] r.scope /\ recs # <<>> ->
                 IF Len(recs) > 1 \/ r.end # <<>> \/ ~ValidEnd(e) \/ e.final < r.knownEnd
                 THEN Refuse(r)
                 ELSE [skipped EXCEPT !.end = <<e>>,
                           !.issues = (@ \ {"missing_end"}) \cup e.issues
                                      \cup (IF e.normal THEN {} ELSE {"abnormal_stop"})]

\* A chunk of a later version is skipped, and its data is known to be missing.
SkipFutureChunk(r, c) ==
    LET partial == Mark(Mark(r, "partial_format"), "unknown_record")
    IN  [partial EXCEPT !.unknownEvents = @ \/ c.type = "event",
                        !.knownEnd = IF c.type = "event" /\ c.range[2] > @ THEN c.range[2] ELSE @,
                        !.sawEnd = @ \/ c.type = "end"]

\* process_chunk, with the two checks of run() that precede it.
ProcessChunk(r, c) ==
    CASE r.rejected -> r
      [] ~r.rejected /\ (r.sawEnd \/ (c.type # "event" /\ c.range # NoRange)
            \/ (c.type = "event" /\ (~r.scope \/ r.statistics # <<>>))) -> Refuse(r)
      [] OTHER ->
         CASE c.version # 1           -> SkipFutureChunk(r, c)
           [] c.version = 1 /\ c.type = "metadata"   -> ProcessMetadata(r, c)
           [] c.version = 1 /\ c.type = "module"     -> ProcessModules(r, c)
           [] c.version = 1 /\ c.type = "stack"      -> ProcessStacks(r, c)
           [] c.version = 1 /\ c.type = "event"      -> ProcessEvents(r, c)
           [] c.version = 1 /\ c.type = "memory"     -> ProcessMemory(r, c)
           [] c.version = 1 /\ c.type = "statistics" -> ProcessStatistics(r, c)
           [] c.version = 1 /\ c.type = "end" ->
                  [ProcessEnd(r, c) EXCEPT !.sawEnd = TRUE]

\* read_next_chunk() at the end of the file: a partial header or payload is a
\* truncation, which run() marks; then the scope is required.
EndOfFile(r, torn) ==
    LET read == IF torn THEN [Mark(r, "truncated") EXCEPT !.truncated = TRUE] ELSE r
    IN  CASE r.rejected -> r
          [] ~r.rejected /\ ~r.scope -> Refuse(r)
          [] OTHER -> [read EXCEPT !.ended = TRUE]

\* analyze_event_stream.
Decode(chunks, torn) == EndOfFile(FoldLeft(ProcessChunk, EmptyStream, chunks), torn)
============================================================================
