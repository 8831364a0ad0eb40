----------------------------- MODULE TraceFile -----------------------------
(***************************************************************************)
(* A trace file from the writer's stream to the analyzer's reports:        *)
(* TraceWriter encodes chunks of records, the capture may be killed with   *)
(* any number of bytes on disk, and TraceReader, the record decoders and   *)
(* the collectors of the analyzer read what is there.                      *)
(*                                                                         *)
(* The file is its raw header and raw chunk headers, field by field, and   *)
(* the stored payloads; avail counts the bytes of it that exist.  The      *)
(* CRC32C of a payload is modelled by the payload itself, and a compressed *)
(* payload by what it expands to and a size of its own: both are external  *)
(* facts (no collisions, lossless codecs).                                 *)
(*                                                                         *)
(* A capture may be killed; besides, a run has at most one of these:       *)
(*   newer    a producer of a later minor format wrote the chunk: an       *)
(*            unknown chunk or record type, a longer header, a version 2   *)
(*   altered  a producer wrote one byte of a payload differently, under a  *)
(*            checksum that fits                                           *)
(*   garbled  the medium changed a stored payload or a reserved field      *)
(***************************************************************************)
EXTENDS AnalyzerViews

CONSTANTS Headers,           \* file headers a capture may open its trace with
          Chunks(_, _),      \* the chunks [type, codec, recs] that may follow a log, for a query
          FaultsOf(_, _),    \* the faults that may befall the newest chunk of a log
          Queries,           \* [a, b, c, filter]
          MaxChunks,         \* bound: chunks of a file
          MaxFileSize, ReservedTail,
          MaxStored,         \* max_uncompressed_chunk_size and max_stored_chunk_size
          MaxRatio,          \* max_compression_ratio
          MaxHeader          \* max_file_header_size and max_chunk_header_size

VARIABLES file,      \* [header, chunks], raw
          log,       \* what the producer meant: one [type, codec, recs] per chunk
          written,   \* bytes_written_ of the writer
          fault,     \* the fault of this run so far
          avail,     \* bytes of the file that exist, once writing is over
          reader,    \* TraceReader and what the decoders returned
          query,     \* the analysis asked for
          view       \* the collectors

vars == <<file, log, written, fault, avail, reader, query, view>>

FileHeaderSize == 68
ChunkHeaderSize == 56
FormatMajor == 1
FormatMinor == 4
Platforms == {"windows", "linux", "macos"}
Architectures == {"x86", "x64", "arm64"}
ChunkTypes == {"metadata", "module", "stack", "event", "statistics", "end", "memory"}
KnownCodecs == {"none", "lz4", "zstd"}

\* The model's queries and headers are ones the tool accepts, and the limits
\* leave room for a file header.
ASSUME FileBounds == /\ \A q \in Queries : ValidWindow(q) /\ ValidCriteria(q.filter)
                     /\ MaxFileSize >= FileHeaderSize + ReservedTail
                     /\ MaxHeader >= FileHeaderSize + 4
                     /\ MaxStored > 0 /\ MaxRatio > 0

-----------------------------------------------------------------------------
(* The writer.                                                             *)

\* validate_file_header and validate_chunk_header.
ValidFileHeader(h) == /\ h.width \in {4, 8}
                      /\ h.platform \in Platforms /\ h.architecture \in Architectures
                      /\ h.frequency # 0
ValidChunkHeader(c) == /\ c.type \in ChunkTypes /\ c.codec \in KnownCodecs /\ c.version # 0
                       /\ c.begin # 0 <=> c.end # 0
                       /\ c.begin <= c.end

\* encode_file_header.
EncodeFileHeader(h) ==
    h @@ [magic |-> TRUE, headerSize |-> FileHeaderSize, major |-> FormatMajor,
          minor |-> FormatMinor, littleEndian |-> TRUE]

\* encode_chunk_header, around the stored payload.
EncodeChunkHeader(type, codec, range, payload, stored) ==
    [type |-> type, version |-> 1, headerSize |-> ChunkHeaderSize, codec |-> codec,
     reserved |-> 0, begin |-> range[1], end |-> range[2], size |-> Len(payload),
     storedSize |-> stored.size, crc |-> payload, content |-> stored.content]

\* compress_payload: an empty payload stays empty.
Compress(codec, payload) ==
    [content |-> payload,
     size |-> IF codec = "none" \/ payload = <<>> THEN Len(payload) ELSE (Len(payload) + 1) \div 2]

\* exceeds_file_limit.
ExceedsFileLimit(bytes, storedSize, limit) ==
    bytes > limit \/ ChunkHeaderSize + storedSize > limit - bytes

\* The sequence range a writer puts on a chunk: its events.
RangeOf(recs) ==
    LET seqs == {recs[i].header.seq : i \in {j \in DOMAIN recs : recs[j].kind = "Event"}}
    IN  IF seqs = {} THEN <<0, 0>> ELSE <<Min(seqs), Max(seqs)>>

NoReader == [status |-> "closed", offset |-> 0, next |-> 1, partial |-> FALSE,
             skipped |-> FALSE, out |-> <<>>]

Init == /\ file = [header |-> None, chunks |-> <<>>]
        /\ log = <<>>
        /\ written = 0
        /\ fault = "none"
        /\ avail = -1
        /\ reader = NoReader
        /\ query \in Queries
        /\ view = EmptyView

\* TraceWriter's constructor: the header goes out first.
OpenTrace ==
    /\ file.header = None /\ avail = -1
    /\ \E h \in Headers :
           /\ ValidFileHeader(h)
           /\ file' = [file EXCEPT !.header = <<EncodeFileHeader(h)>>]
    /\ written' = FileHeaderSize
    /\ UNCHANGED <<log, fault, avail, reader, query, view>>

\* TraceWriter::write_chunk on records that pass append_<kind>_record.
WriteChunk ==
    /\ file.header # None /\ avail = -1 /\ fault \in {"none", "newer"}
    /\ Len(log) < MaxChunks
    /\ \E c \in Chunks(query, log) :
           LET payload == Concat([i \in DOMAIN c.recs |-> AppendRecord(c.recs[i])])
               stored  == Compress(c.codec, payload)
               header  == EncodeChunkHeader(c.type, c.codec, RangeOf(c.recs), payload, stored)
           IN  /\ \A i \in DOMAIN c.recs : Valid(c.recs[i]) /\ RecordFits(Payload(c.recs[i]))
               /\ Len(payload) <= MaxStored /\ ValidChunkHeader(header)
               /\ ~ExceedsFileLimit(written, stored.size, MaxFileSize - ReservedTail)
               /\ file' = [file EXCEPT !.chunks = Append(@, header)]
               /\ log' = Append(log, c)
               /\ written' = written + ChunkHeaderSize + stored.size
    /\ UNCHANGED <<fault, avail, reader, query, view>>

-----------------------------------------------------------------------------
(* Faults.  Each changes the last chunk.                                   *)

Newest == Len(file.chunks)
Resealed(c, payload) ==
    LET stored == Compress(c.codec, payload)
    IN  [c EXCEPT !.size = Len(payload), !.storedSize = stored.size, !.crc = payload,
                  !.content = stored.content]
MayFail(f) == f \in FaultsOf(query, log) /\ fault = "none" /\ avail = -1 /\ Newest > 0

\* A later minor format: what this reader does not know it must step over.
NewerChunk ==
    /\ MayFail("newer")
    /\ fault' = "newer"
    /\ \E c \in {[file.chunks[Newest] EXCEPT !.type = "future"],
                 [file.chunks[Newest] EXCEPT !.headerSize = ChunkHeaderSize + 4],
                 [file.chunks[Newest] EXCEPT !.version = 2],
                 Resealed(file.chunks[Newest],
                          FrameRecord(ByteMax, 1, <<1>>) \o file.chunks[Newest].crc),
                 Resealed(file.chunks[Newest],
                          FrameRecord(1, 2, <<>>) \o file.chunks[Newest].crc)} :
           /\ file' = [file EXCEPT !.chunks[Newest] = c]
           /\ written' = written + (c.headerSize + c.storedSize)
                                 - (ChunkHeaderSize + file.chunks[Newest].storedSize)
           /\ log' = IF c.type = "future" THEN [log EXCEPT ![Newest].recs = <<>>] ELSE log
    /\ UNCHANGED <<avail, reader, query, view>>

\* The same producer's file header: a later minor version, or a longer header.
NewerHeader ==
    /\ MayFail("newer")
    /\ fault' = "newer"
    /\ \E extra \in {0, 4} :
           /\ file' = [file EXCEPT !.header = <<[@[1] EXCEPT !.minor = FormatMinor + 1,
                                                            !.headerSize = @ + extra]>>]
           /\ written' = written + extra
    /\ UNCHANGED <<log, avail, reader, query, view>>

\* One byte written differently, or the payload a byte short.
AlterByte ==
    /\ MayFail("altered")
    /\ fault' = "altered"
    /\ LET c == file.chunks[Newest] IN
       \E payload \in {[c.crc EXCEPT ![i] = b] : i \in DOMAIN c.crc, b \in {0, 1, ByteMax}}
                          \cup {SubSeq(c.crc, 1, Len(c.crc) - 1)} :
           /\ payload # c.crc
           /\ file' = [file EXCEPT !.chunks[Newest] = Resealed(c, payload)]
           /\ written' = written + Resealed(c, payload).storedSize - c.storedSize
    /\ UNCHANGED <<log, avail, reader, query, view>>

\* The medium changes a stored byte or a header field of the last chunk.
Garble ==
    /\ MayFail("garbled")
    /\ fault' = "garbled"
    /\ LET c == file.chunks[Newest] IN
       \E g \in {[c EXCEPT !.content = IF c.content = <<>> THEN <<>>
                                       ELSE [@ EXCEPT ![1] = (@ + 1) % ByteBase]],
                 [c EXCEPT !.reserved = 1], [c EXCEPT !.version = 0],
                 [c EXCEPT !.codec = "other"], [c EXCEPT !.headerSize = ChunkHeaderSize - 1],
                 [c EXCEPT !.begin = c.end + 1], [c EXCEPT !.size = @ + 1],
                 [c EXCEPT !.size = c.storedSize * MaxRatio + 1]} :
           g # c /\ file' = [file EXCEPT !.chunks[Newest] = g]
    /\ UNCHANGED <<log, written, avail, reader, query, view>>

\* The capture ends with everything on disk.
CloseTrace ==
    /\ avail = -1 /\ file.header # None /\ log # <<>>
    /\ avail' = written
    /\ UNCHANGED <<file, log, written, fault, reader, query, view>>

\* The capture is killed with any number of bytes on disk.
Kill ==
    /\ avail = -1 /\ file.header # None
    /\ fault \in {"none", "newer"} /\ "killed" \in FaultsOf(query, log)
    /\ avail' \in 0 .. written - 1
    /\ UNCHANGED <<file, log, written, fault, reader, query, view>>

-----------------------------------------------------------------------------
(* The reader.                                                             *)

\* TraceReader's constructor.
OpenReader ==
    LET h == file.header[1]
        extension == h.headerSize - FileHeaderSize
        sound == /\ avail >= FileHeaderSize
                 /\ h.magic /\ h.littleEndian
                 /\ h.headerSize >= FileHeaderSize /\ h.headerSize <= MaxHeader
                 /\ h.major = FormatMajor /\ ValidFileHeader(h)
                 /\ avail - FileHeaderSize >= extension
    IN  /\ avail >= 0 /\ reader.status = "closed"
        /\ reader' = IF sound THEN [reader EXCEPT !.status = "open", !.offset = h.headerSize,
                                                  !.partial = h.minor > FormatMinor
                                                                \/ extension # 0]
                     ELSE [reader EXCEPT !.status = "error"]
        /\ UNCHANGED <<file, log, written, fault, avail, query, view>>

Left == avail - reader.offset
Chunk == file.chunks[reader.next]

\* validate_sequence_range.
ValidSequenceRange(c) == /\ c.begin # 0 <=> c.end # 0
                         /\ c.begin <= c.end

\* validate_chunk_sizes.
ValidChunkSizes(c) ==
    /\ c.size <= MaxStored /\ c.storedSize <= MaxStored
    /\ c.codec = "none" => c.size = c.storedSize
    /\ c.codec \in KnownCodecs \ {"none"} => /\ c.size = 0 <=> c.storedSize = 0
                                             /\ c.size <= c.storedSize * MaxRatio

\* The checks of read_next_chunk on a header it has read in full.
SoundChunkHeader(c) == /\ c.headerSize >= ChunkHeaderSize /\ c.headerSize <= MaxHeader
                       /\ c.version # 0 /\ c.reserved = 0
                       /\ ValidSequenceRange(c) /\ ValidChunkSizes(c)

\* decompress_payload and the checksum.
SoundPayload(c) == Len(c.content) = c.size /\ c.content = c.crc

\* finish: the terminal status.
Finish(status) ==
    /\ reader' = [reader EXCEPT !.status = status]
    /\ UNCHANGED <<file, log, written, fault, avail, query, view>>

\* read_exact: how much of a header, an extension or a payload there is.
AtEnd == Left = 0
Torn == \/ Left < ChunkHeaderSize
        \/ /\ SoundChunkHeader(Chunk)
           /\ Left < Chunk.headerSize + Chunk.storedSize
           /\ (\/ Left < Chunk.headerSize
               \/ Chunk.type \notin ChunkTypes
               \/ Chunk.codec \in KnownCodecs)

\* partially_understood_, raised as the reader gets to the extension, to a type
\* it does not know and to a later version.
NotFullyUnderstood ==
    \/ Chunk.headerSize > ChunkHeaderSize
    \/ Left >= Chunk.headerSize /\ (Chunk.type \notin ChunkTypes \/ Chunk.version > 1)

\* read_next_chunk at the end of the file, or at a torn chunk.
ReadEndOfFile == reader.status = "open" /\ AtEnd /\ Finish("eof")
ReadTruncated ==
    /\ reader.status = "open" /\ ~AtEnd /\ Torn
    /\ reader' = [reader EXCEPT !.status = "truncated",
                                !.partial = @ \/ (Left >= ChunkHeaderSize /\ NotFullyUnderstood)]
    /\ UNCHANGED <<file, log, written, fault, avail, query, view>>

\* A header or a payload read_next_chunk refuses.
ReadRefused ==
    /\ reader.status = "open" /\ ~AtEnd /\ ~Torn
    /\ \/ ~SoundChunkHeader(Chunk)
       \/ Chunk.type \in ChunkTypes /\ (Chunk.codec \notin KnownCodecs \/ ~SoundPayload(Chunk))
    /\ Finish("error")

Advanced == [reader EXCEPT !.offset = @ + Chunk.headerSize + Chunk.storedSize, !.next = @ + 1,
                           !.partial = @ \/ NotFullyUnderstood]

\* A chunk type of a later format: skip_exact, and the loop goes on.
SkipChunk ==
    /\ reader.status = "open" /\ ~AtEnd /\ ~Torn
    /\ SoundChunkHeader(Chunk) /\ Chunk.type \notin ChunkTypes
    /\ reader' = Advanced
    /\ UNCHANGED <<file, log, written, fault, avail, query, view>>

\* The collectors after these events.
Observed(events) ==
    FoldLeft(LAMBDA v, e : ObserveEvent(v, query, file.header[1], e), view, events)

\* A chunk: its records go through the decoders to the collectors.
ReadChunk ==
    /\ reader.status = "open" /\ ~AtEnd /\ ~Torn
    /\ SoundChunkHeader(Chunk) /\ Chunk.type \in ChunkTypes
    /\ Chunk.codec \in KnownCodecs /\ SoundPayload(Chunk)
    /\ \E records \in {DecodeChunk(Chunk.type, Chunk.content)} :
       \E known \in {SelectSeq(records, LAMBDA r : r # Unknown)} :
       \E after \in {Observed(SelectSeq(known, LAMBDA r : r.kind = "Event"))} :
           LET bad == Bad \in Range(records) \/ after.tracker.rejected IN
           /\ view' = IF bad THEN view ELSE after
           /\ reader' = IF bad THEN [reader EXCEPT !.status = "error"]
                        ELSE [Advanced EXCEPT !.out = @ \o known,
                                              !.skipped = @ \/ Unknown \in Range(records)]
    /\ UNCHANGED <<file, log, written, fault, avail, query>>

Done == reader.status \in {"eof", "truncated", "error"}

Next == \/ OpenTrace \/ WriteChunk \/ NewerChunk \/ NewerHeader \/ AlterByte \/ Garble \/ CloseTrace \/ Kill
        \/ OpenReader \/ ReadEndOfFile \/ ReadTruncated \/ ReadRefused \/ SkipChunk \/ ReadChunk
        \/ (Done /\ UNCHANGED vars)

Spec == Init /\ [][Next]_vars

-----------------------------------------------------------------------------
(* Properties.                                                             *)

EndOf(n) == file.header[1].headerSize
              + Total([i \in 1 .. n |-> file.chunks[i].headerSize + file.chunks[i].storedSize])
Meant(n) == Concat([i \in 1 .. n |-> log[i].recs])
Reencoded == Concat([i \in DOMAIN reader.out |-> AppendRecord(reader.out[i])])

\* What a reader returns is what the capture meant, wherever the capture was
\* cut: every chunk that is whole is read back record for record, the end is
\* "truncated" exactly when it lies inside a chunk, and an error means that not
\* even the file header is there.  A file of a later minor format is read as
\* far as it is known and says that it was not all understood.  A payload with
\* one byte written otherwise is refused, or it is the encoding of the records
\* the reader returns: no byte of a record is ignored.  A garbled chunk is
\* never read.  (TraceWriter::write_chunk, TraceReader::read_next_chunk and the
\* encoders and decoders of record_codec.cpp.)
ReadsBack ==
    LET whole == Max({n \in 0 .. Newest : n = 0 \/ EndOf(n) <= avail}) IN
    /\ Done /\ fault \in {"none", "newer"} =>
           /\ reader.status = "error" <=> avail < EndOf(0)
           /\ reader.status # "error" =>
                  /\ reader.out = Meant(whole)
                  /\ reader.status = "eof" <=> avail = EndOf(whole)
                  /\ reader.partial \/ reader.skipped => fault = "newer"
                  /\ fault = "newer" /\ avail = written => reader.partial \/ reader.skipped
    /\ Done /\ fault = "altered" /\ reader.status = "eof" /\ ~reader.skipped =>
           Reencoded = Concat([i \in 1 .. whole |-> file.chunks[i].content])
    /\ Done /\ fault = "garbled" /\ avail = written => reader.status = "error"

Header == file.header[1]
EventsRead == SelectSeq(reader.out, LAMBDA r : r.kind = "Event")

\* The exact order of a tick and a time, and of an event and an upper bound.
TickMinusTime(e, time) == (e.header.ticks - Header.origin) * NsPerSecond
                              - time * Header.frequency
NotAfter(b, e) == /\ b.time # None => TickMinusTime(e, b.time[1]) <= 0
                  /\ b.seq # None => e.header.seq <= b.seq[1]
Inside(q, e) == /\ q.a.time # None => TickMinusTime(e, q.a.time[1]) >= 0
                /\ q.a.seq # None => e.header.seq >= q.a.seq[1]
                /\ q.b # None => /\ q.b[1].time # None => TickMinusTime(e, q.b[1].time[1]) < 0
                                 /\ q.b[1].seq # None => e.header.seq < q.b[1].seq[1]
ByC(q, e) == q.c # None => NotAfter(q.c[1], e)

\* The generations alive after the first n events, created in the window.
AliveAfter(q, n) ==
    LET events  == SubSeq(EventsRead, 1, n)
        tracker == FoldLeft(LAMBDA t, e : Observe(t, TrackerEvent(e)), EmptyTracker, events)
        creates(e, ops, id) == e.op \in ops /\ e.header.status # 1 /\ e.body.id = id
        creator(ops, id) == CHOOSE e \in Range(events) : creates(e, ops, id) /\
                                \A d \in Range(events) : creates(d, ops, id) =>
                                                             d.header.seq >= e.header.seq
    IN  {g \in {[kind |-> "heap", id |-> i, size |-> tracker.allocations[i].size,
                 created |-> creator({"Allocate", "Reallocate"}, i)] :
                    i \in DOMAIN tracker.allocations}
          \cup {[kind |-> "mapping", id |-> i, size |-> tracker.mappings[i].size,
                 created |-> creator({"VmAllocate", "Map"}, i)] : i \in DOMAIN tracker.mappings} :
            Inside(q, g.created)}

TraceEnd == [ticks |-> Max({Header.origin} \cup {e.header.ticks : e \in Range(EventsRead)}),
             seq |-> LET seqs == {e.header.seq : e \in Range(EventsRead)}
                     IN  IF seqs = {} THEN None ELSE <<Max(seqs)>>]

\* The reports of the analyzer say what a replay says.  The leaks report,
\* which evicts candidates as their ends stream by, lists exactly the
\* generations alive at the observation point c that were created in [a, b)
\* and pass the filter, with the bytes left at c, whatever the rounding between
\* ticks and nanoseconds; its counts add up, the stacks it groups hold all its
\* heap bytes, the bounds it prints select the events the bounds it was given
\* select, and every memory sample of the window is in exactly one snapshot,
\* together with the other samples of its tick.
\* (OutstandingCollector, EventsStacksCollector and analyze_memory.)  A report
\* whose b is not before its c also counts generations born between the two;
\* they are left out here.
ViewsAgree ==
    LET q == query
        n == Cardinality({i \in DOMAIN EventsRead : ByC(q, EventsRead[i])})
        prefix == \A i \in DOMAIN EventsRead : ByC(q, EventsRead[i]) <=> i <= n
        reported == {g \in Range(Outstanding(view, q)) : ByC(q, g.created)}
        heapBytes == Total([i \in DOMAIN Outstanding(view, q) |->
                               IF Outstanding(view, q)[i].kind = "heap"
                               THEN Outstanding(view, q)[i].size ELSE 0])
        leaks == LeakGroups(view, q)
        groups == SetToSeq(DOMAIN leaks)
        effectiveC == EffectiveC(q, Header, TraceEnd)
        effectiveB == EffectiveUpperBound(q.b, ExclusiveTraceEnd(Header, TraceEnd), Header, TraceEnd)
        mixedB == q.b # None /\ q.b[1].time # None /\ q.b[1].seq # None
        samples == SelectSeq(reader.out, LAMBDA r : r.kind \in MemoryKinds)
        snapshots == Snapshots(q, Header, samples)
        called(op) == {i \in DOMAIN EventsRead : op = EventsRead[i].op}
    IN  reader.status \in {"eof", "truncated"} /\ fault # "altered" =>
            /\ prefix => reported = {g \in AliveAfter(q, n) : MatchesGeneration(q.filter, g)}
            /\ view.candidateCount = view.endedByC + Len(Outstanding(view, q)) + FilteredOut(view, q)
            /\ heapBytes = Total([i \in DOMAIN groups |-> leaks[groups[i]].bytes])
            /\ view.matched + view.filtered = Len(EventsRead)
            /\ view.aggregated = Cardinality({i \in UNION {called(op) : op \in
                                                  {"Allocate", "Reallocate", "Free"}} :
                                              Selected(q, Header, EventsRead[i])})
            /\ \A i \in DOMAIN EventsRead :
                   /\ WindowAtOrBefore(effectiveC, Header, EventsRead[i]) <=> ByC(q, EventsRead[i])
                   /\ ~mixedB => (InWindow([q EXCEPT !.b = <<effectiveB>>], Header, EventsRead[i])
                                      <=> Inside(q, EventsRead[i]))
            /\ ObservesTraceEnd(q, Header, TraceEnd) /\ (q.c # None => q.c[1].seq = None)
                   => n = Len(EventsRead)
            /\ \A i \in DOMAIN samples :
                   Cardinality({k \in DOMAIN snapshots :
                                   /\ samples[i].kind \in DOMAIN snapshots[k].samples
                                   /\ snapshots[k].samples[samples[i].kind] = samples[i]})
                       = (IF SnapshotInWindow(q, Header, samples[i].ticks) THEN 1 ELSE 0)
            /\ \A j, k \in DOMAIN snapshots : j # k /\ snapshots[j].ticks = snapshots[k].ticks =>
                   DOMAIN snapshots[j].samples \cap DOMAIN snapshots[k].samples # {}
            /\ \A k \in DOMAIN snapshots :
                   {"MemoryCounters", "AgentMemory"} \subseteq DOMAIN snapshots[k].samples =>
                       ApplicationEstimate(snapshots[k])
                           <= snapshots[k].samples["MemoryCounters"].workingSet
=============================================================================
